------------------------------ MODULE Scenario ------------------------------
(***************************************************************************)
(* What a scenario is and which ones are accepted (internal/scenario,      *)
(* types.go and validate.go).                                              *)
(*                                                                         *)
(* validate plays the timeline on a model of the chain of its own: the     *)
(* height, the finalized height, and the transactions defined.  Here that  *)
(* is a fold over the events.  An event is a record with the height it is  *)
(* due at and the action it does; that each event does exactly one, and    *)
(* the syntax of names, addresses and amounts, are left to the parser.     *)
(***************************************************************************)
EXTENDS Snapshot, SequencesExt

CONSTANTS
    Events,        \* the events an author writes, valid and invalid ones
    EndHeights,    \* the values of end_at_height, 0 where it is not given
    MaxEvents,     \* bound: the events of a timeline
    Served,        \* rpc.Methods
    AllMethods,    \* faults.AllMethods
    MaxTimestamp   \* chain.MaxTimestamp: 2^53 - 1 in the code

ASSUME ScenarioAssumption ==
    /\ MaxEvents \in Nat
    /\ EndHeights \subseteq Nat
    /\ MaxTimestamp \in 0 .. TimeModulus - 1

\* The types an event decodes to.  A branch length may be negative.
ASSUME EventAssumption ==
    \A e \in Events :
        /\ e.at \in Nat
        /\ e.do \in {"produce", "reorg", "finalize", "fault", "clear_faults"}
        /\ e.do = "produce"  => e.txs \in Seq(Txs)
        /\ e.do = "finalize" => e.height \in Nat
        /\ e.do = "reorg"    => /\ e.forkFrom \in Nat
                               /\ e.length \in Int
                               /\ e.txs \in Seq([at : Nat, ids : Seq(Txs)])

(***************************************************************************)
(* validate's model of the chain, before the first event and after each    *)
(***************************************************************************)

Start == [prevAt |-> 0, height |-> 0, finalized |-> 0, ids |-> {}]

\* The height an event finds: the engine fills the gap with empty blocks.
HeightFound(v, e) == IF e.do # "produce" THEN Max({v.height, e.at}) ELSE v.height

After_ReorgAtItsHeight(v, e) ==
    [prevAt    |-> e.at,
     height    |-> IF e.do = "produce" THEN e.at ELSE HeightFound(v, e),
     finalized |-> IF e.do = "finalize" THEN e.height ELSE v.finalized,
     ids       |-> IF e.do = "produce" THEN v.ids \cup ToSet(e.txs) ELSE v.ids]

After(v, e) ==
    [prevAt    |-> e.at,
     height    |-> CASE e.do = "produce" -> e.at
                     [] e.do = "reorg"   -> e.forkFrom + e.length
                     [] OTHER            -> HeightFound(v, e),
     finalized |-> IF e.do = "finalize" THEN e.height ELSE v.finalized,
     ids       |-> IF e.do = "produce" THEN v.ids \cup ToSet(e.txs) ELSE v.ids]

Outcome(events) ==
    LET v[n \in 0 .. Len(events)] == IF n = 0 THEN Start ELSE After(v[n - 1], events[n])
    IN  v[Len(events)]

(***************************************************************************)
(* The checks of one event                                                 *)
(***************************************************************************)

ValidProduce(v, e) ==
    /\ e.at > v.height
    /\ e.txs # <<>>
    /\ IsInjective(e.txs)
    /\ ToSet(e.txs) \cap v.ids = {}

\* One entry for a height of the branch, one place for a transaction.
ValidBranchTxs(v, e) ==
    \A j \in DOMAIN e.txs :
        /\ e.txs[j].at \in e.forkFrom + 1 .. e.forkFrom + e.length
        /\ e.txs[j].ids # <<>>
        /\ IsInjective(e.txs[j].ids)
        /\ ToSet(e.txs[j].ids) \subseteq v.ids
        /\ \A k \in DOMAIN e.txs \ {j} :
             /\ e.txs[k].at # e.txs[j].at
             /\ ToSet(e.txs[k].ids) \cap ToSet(e.txs[j].ids) = {}

ValidReorg(v, e) ==
    /\ e.length >= 1
    /\ e.forkFrom <= HeightFound(v, e)
    /\ e.forkFrom >= v.finalized
    /\ e.forkFrom + e.length > HeightFound(v, e)
    /\ ValidBranchTxs(v, e)

ValidFinalize(v, e) == e.height \in v.finalized .. HeightFound(v, e)

\* Of a duration only matters whether it is given, and is positive.
ValidFault(e) ==
    /\ e.method \in Served \cup {AllMethods}
    /\ e.type \in {"false_200", "delay"}
    /\ e.count >= 0
    /\ IF e.type = "delay" THEN e.delay = "positive" ELSE e.delay = "none"

ValidEvent(v, e) ==
    /\ e.at > 0
    /\ e.at >= v.prevAt
    /\ CASE e.do = "produce"      -> ValidProduce(v, e)
         [] e.do = "reorg"        -> ValidReorg(v, e)
         [] e.do = "finalize"     -> ValidFinalize(v, e)
         [] e.do = "fault"        -> ValidFault(e)
         [] e.do = "clear_faults" -> TRUE

(***************************************************************************)
(* The checks of the whole                                                 *)
(***************************************************************************)

\* The height of the chain at the end of the run.
FinalHeight(events, end) == Max({Outcome(events).height, end})

ClockFits_TimelineOnly(events, end) ==
    LET height == Outcome(events).height
    IN  /\ GenesisTime <= MaxTimestamp
        /\ height > 0 => BlockInterval <= (MaxTimestamp - GenesisTime) \div height

\* validateClock: the last block's time stays exact, so no earlier one wraps.
ClockFits(events, end) ==
    LET height == FinalHeight(events, end)
    IN  /\ GenesisTime <= MaxTimestamp
        /\ height > 0 => BlockInterval <= (MaxTimestamp - GenesisTime) \div height

\* The timelines of n events that pass, event by event.
Timelines[n \in 0 .. MaxEvents] ==
    IF n = 0 THEN {<<>>}
    ELSE UNION {{Append(events, e) : e \in {f \in Events : ValidEvent(Outcome(events), f)}} :
                  events \in Timelines[n - 1]}

\* A timeline has an event, and the chain does not end below where it leads.
Accepted ==
    {s \in [timeline : UNION {Timelines[n] : n \in 1 .. MaxEvents}, endAtHeight : EndHeights] :
        /\ s.endAtHeight > 0 => s.endAtHeight >= Outcome(s.timeline).height
        /\ ClockFits(s.timeline, s.endAtHeight)}
=============================================================================

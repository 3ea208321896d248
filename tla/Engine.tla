------------------------------- MODULE Engine -------------------------------
(***************************************************************************)
(* scenario.Engine (internal/scenario/engine.go): an accepted scenario     *)
(* performed on the chain, one Step for each tick of the block time.       *)
(*                                                                         *)
(* A Step runs the events whose height is reached, or else produces one    *)
(* block.  Every call it makes of the driver or of the fault registry is   *)
(* one step here: clients see the chain between two of them.  The engine   *)
(* counts the chain's height for itself and asks the driver nothing.       *)
(***************************************************************************)
EXTENDS Chain, Scenario

VARIABLES
    scenario,   \* Engine.scenario: [timeline, endAtHeight]
    cursor,     \* Engine.cursor: the events done
    height,     \* Engine.height
    resolved,   \* Engine.resolver: the transactions resolved so far
    registry,   \* the faults enabled and not cleared; Faults has their budgets
    pc,         \* Run: tick, events (inside Step), done, failed or stopped
    ran,        \* runReachedEvents: an event was run in this Step
    cancelled   \* the context of Run is done

engineVars == <<scenario, cursor, height, resolved, registry, pc, ran, cancelled>>

vars == <<chainVars, engineVars>>

Timeline == scenario.timeline

MoreEvents == cursor < Len(Timeline)

Event == Timeline[cursor + 1]

Reached_OneLate ==
    /\ pc = "events"
    /\ MoreEvents
    /\ Event.do # "produce"
    /\ Event.at < height

\* The loop of runReachedEvents goes on.
Reached ==
    /\ pc = "events"
    /\ MoreEvents
    /\ Event.do # "produce"
    /\ Event.at <= height

\* It stopped without having run an event: Step goes on to produceOneBlock.
MustProduce == pc = "events" /\ ~Reached /\ ~ran

EngineInit ==
    /\ Init
    /\ scenario \in Accepted
    /\ cursor = 0 /\ height = 0 /\ resolved = {} /\ registry = <<>>
    /\ pc = "tick" /\ ran = FALSE /\ cancelled = FALSE

(***************************************************************************)
(* Events                                                                  *)
(***************************************************************************)

EventDone ==
    /\ cursor' = cursor + 1
    /\ ran' = TRUE
    /\ UNCHANGED <<scenario, resolved, pc, cancelled>>

\* Run returns the error of the event.
EventFails == pc' = "failed" /\ UNCHANGED <<chainVars, scenario, cursor, height, resolved,
                                            registry, ran, cancelled>>

ApplyFinalize ==
    /\ Reached /\ Event.do = "finalize"
    /\ IF FinalizeError(current, Event.height) = "nil"
       THEN Finalize(Event.height) /\ EventDone /\ UNCHANGED <<height, registry>>
       ELSE EventFails

\* buildBranch: the transactions placed at each height of the branch.
Branch(e) ==
    [i \in 1 .. e.length |->
        LET here == {j \in DOMAIN e.txs : e.txs[j].at = e.forkFrom + i}
        IN  IF here = {} THEN <<>> ELSE e.txs[Max(here)].ids]

BranchError(e) ==
    \E j \in DOMAIN e.txs :
        \/ e.txs[j].at \notin e.forkFrom + 1 .. e.forkFrom + e.length
        \/ ~(ToSet(e.txs[j].ids) \subseteq resolved)

ApplyReorg_KeepsHeight ==
    /\ Reached /\ Event.do = "reorg"
    /\ IF ~BranchError(Event) /\ ReorgError(current, Event.forkFrom, Branch(Event)) = "nil"
       THEN Reorg(Event.forkFrom, Branch(Event)) /\ EventDone /\ UNCHANGED <<height, registry>>
       ELSE EventFails

ApplyReorg ==
    /\ Reached /\ Event.do = "reorg"
    /\ IF ~BranchError(Event) /\ ReorgError(current, Event.forkFrom, Branch(Event)) = "nil"
       THEN /\ Reorg(Event.forkFrom, Branch(Event))
            /\ height' = Event.forkFrom + Event.length
            /\ EventDone /\ UNCHANGED registry
       ELSE EventFails

\* buildFault and Registry.Enable; neither fails on a fault that was validated.
ApplyFault ==
    /\ Reached /\ Event.do = "fault"
    /\ IF Event.type \in {"false_200", "delay"} /\ Event.delay # "malformed"
       THEN registry' = Append(registry, Event) /\ EventDone /\ UNCHANGED <<chainVars, height>>
       ELSE EventFails

ApplyClearFaults ==
    /\ Reached /\ Event.do = "clear_faults"
    /\ registry' = <<>>
    /\ EventDone
    /\ UNCHANGED <<chainVars, height>>

(***************************************************************************)
(* Blocks                                                                  *)
(***************************************************************************)

ProduceListed_OneLate ==
    /\ MustProduce
    /\ MoreEvents /\ Event.do = "produce" /\ height = Event.at
    /\ ProduceBlock(Event.txs)
    /\ height' = height + 1
    /\ cursor' = cursor + 1
    /\ resolved' = resolved \cup ToSet(Event.txs)
    /\ pc' = "tick"
    /\ UNCHANGED <<scenario, registry, ran, cancelled>>

\* The block of a produce event.
ProduceListed ==
    /\ MustProduce
    /\ MoreEvents /\ Event.do = "produce" /\ height + 1 = Event.at
    /\ ProduceBlock(Event.txs)
    /\ height' = height + 1
    /\ cursor' = cursor + 1
    /\ resolved' = resolved \cup ToSet(Event.txs)
    /\ pc' = "tick"
    /\ UNCHANGED <<scenario, registry, ran, cancelled>>

\* The block of a gap between events, or after the last of them.
ProduceEmpty ==
    /\ MustProduce
    /\ IF MoreEvents THEN ~(Event.do = "produce" /\ height + 1 = Event.at)
                     ELSE height < scenario.endAtHeight
    /\ ProduceBlock(<<>>)
    /\ height' = height + 1
    /\ pc' = "tick"
    /\ UNCHANGED <<scenario, cursor, resolved, registry, ran, cancelled>>

(***************************************************************************)
(* Run                                                                     *)
(***************************************************************************)

Tick ==
    /\ pc = "tick"
    /\ pc' = "events" /\ ran' = FALSE
    /\ UNCHANGED <<chainVars, scenario, cursor, height, resolved, registry, cancelled>>

\* Step returns after the events: the next block waits for the next tick.
EventsRan ==
    /\ pc = "events" /\ ~Reached /\ ran
    /\ pc' = "tick"
    /\ UNCHANGED <<chainVars, scenario, cursor, height, resolved, registry, ran, cancelled>>

Finish ==
    /\ MustProduce
    /\ ~MoreEvents /\ height >= scenario.endAtHeight
    /\ pc' = "done"
    /\ UNCHANGED <<chainVars, scenario, cursor, height, resolved, registry, ran, cancelled>>

Cancel ==
    /\ ~cancelled
    /\ cancelled' = TRUE
    /\ UNCHANGED <<chainVars, scenario, cursor, height, resolved, registry, pc, ran>>

\* When a tick is due as well, select picks either.
Stop ==
    /\ pc = "tick" /\ cancelled
    /\ pc' = "stopped"
    /\ UNCHANGED <<chainVars, scenario, cursor, height, resolved, registry, ran, cancelled>>

Run ==
    \/ Tick \/ EventsRan \/ Finish \/ Stop
    \/ ApplyFinalize \/ ApplyReorg \/ ApplyFault \/ ApplyClearFaults
    \/ ProduceListed \/ ProduceEmpty

EngineNext == Run \/ Cancel

\* The ticker keeps ticking and the goroutine running.
EngineSpec == EngineInit /\ [][EngineNext]_vars /\ WF_vars(Run)

(***************************************************************************)
(* Safety                                                                  *)
(***************************************************************************)

\* The engine's own count is the chain's height, through every reorg: it never
\* asks the driver (engine.go:98-101, 126-127).
HeightIsTheChains == height = Height(current)

\* The chain's clock is right for every block ever built, orphans included: no
\* time wraps or passes the largest exact one (validate.go:112-115).
ClockIsExact ==
    \A h \in DOMAIN current.blocks :
        LET block == current.blocks[h]
        IN  /\ block.timestamp = GenesisTime + block.number * BlockInterval
            /\ block.timestamp <= MaxTimestamp

\* Every event finds and leaves the chain where validate's model of it said: as
\* the cursor moves, height, watermark and the transactions defined are those
\* of the fold up to there (validate.go:36-43).
RunsAsValidated ==
    [][cursor' # cursor =>
         LET v == Outcome(SubSeq(Timeline, 1, cursor'))
         IN  /\ Height(current') = v.height
             /\ current'.finalized = v.finalized
             /\ resolved' = v.ids]_vars

\* A fault for what a block brings is armed before the block is there: whatever
\* clients ask meanwhile, no block is produced at a height while an event of a
\* lower one is still to be done (main_test.go:185-188, engine.go:70-85).
EventsBeforeBlocks ==
    [][ProduceListed \/ ProduceEmpty
         => \A i \in cursor + 1 .. Len(Timeline) : Timeline[i].at >= height']_vars

\* What a comment gives as the reason of a check: "a repeated id would put the
\* same transaction on the canonical chain twice" (validate.go:226-228).
NoTxTwice ==
    \A t \in TxHashes :
        Cardinality({i \in DOMAIN current.canonical :
                       \E k \in DOMAIN ByNumber(current, i - 1).txs :
                           ByNumber(current, i - 1).txs[k] = t}) <= 1

(***************************************************************************)
(* Liveness                                                                *)
(***************************************************************************)

\* A run comes to its end, every event done and the final height reached, unless
\* its context was cancelled.
ScenarioEnds ==
    <>(\/ pc = "stopped"
       \/ /\ pc = "done" /\ cursor = Len(Timeline)
          /\ Height(current) = FinalHeight(Timeline, scenario.endAtHeight))
=============================================================================

------------------------------ MODULE RcuDriver ------------------------------
(***************************************************************************)
(* The inside of chain.Driver's writers: copy-on-write in memory.          *)
(*                                                                         *)
(* Chain takes an operation for one step.  Here it is the statements it is *)
(* made of: lock, load and check, build, clone, write the clone, store the *)
(* pointer, notify, unlock.  Memory is explicit, so that a clone that      *)
(* shared its map or its slice with a published snapshot would be seen to  *)
(* scribble on it.  Readers take no lock: whatever they see is what the    *)
(* snapshots ever stored in the pointer hold, at any moment.               *)
(***************************************************************************)
EXTENDS Snapshot

CONSTANTS
    TxLists, MaxBranch, MaxSeq,  \* as in Chain
    Writers,                     \* goroutines that call the driver
    NoOne,                       \* nobody holds the mutex
    MaxSnapshots                 \* bound: the snapshots ever allocated

ASSUME RcuAssumption ==
    /\ TxLists \subseteq Seq(Txs)
    /\ MaxBranch \in Nat
    /\ MaxSeq \in Nat
    /\ NoOne \notin Writers
    /\ MaxSnapshots \in Nat \ {0}

VARIABLES
    maps,      \* address -> contents of a blocks map
    arrays,    \* address -> contents of the array under a canonical slice
    snaps,     \* address -> ChainSnapshot: [blocks, canonical, head, finalized]
    ptr,       \* Driver.current: the address of a snapshot
    seq,       \* Driver.seq
    mu,        \* the holder of Driver.mu, or NoOne
    local,     \* each writer's program counter and local variables
    announced  \* the heads sent to the subscribers' channels

vars == <<maps, arrays, snaps, ptr, seq, mu, local, announced>>

memory == <<maps, arrays, snaps>>

\* What a reader finds behind the address of a snapshot.
Value(addr) ==
    LET s == snaps[addr]
    IN  [blocks    |-> maps[s.blocks],
         canonical |-> SubSeq(arrays[s.canonical.array], 1, s.canonical.len),
         head      |-> s.head,
         finalized |-> s.finalized]

\* buildBlock advances seq before the blocks it numbers are published.
Unpublished(w) ==
    IF local[w].pc \in {"clone", "truncate", "insert", "finish", "store"}
    THEN Len(local[w].new) ELSE 0

CommittedSeq == IF mu = NoOne THEN seq ELSE seq - Unpublished(mu)

Atomic == INSTANCE Chain WITH current <- Value(ptr), seq <- CommittedSeq

(***************************************************************************)
(* The calls, and the local variables of one                               *)
(***************************************************************************)

Calls ==
    [op : {"ProduceBlock"}, branch : {<<txs>> : txs \in TxLists}]
      \cup [op : {"Finalize"}, height : Atomic!Heights]
      \cup [op : {"Reorg"}, forkFrom : Atomic!Heights, branch : Atomic!Branches]

Idle == [pc |-> "idle"]

Init ==
    /\ maps = <<GenesisSnapshot.blocks>>
    /\ arrays = <<GenesisSnapshot.canonical>>
    /\ snaps = <<[blocks    |-> 1,
                  canonical |-> [array |-> 1, len |-> 1],
                  head      |-> GenesisSnapshot.head,
                  finalized |-> GenesisSnapshot.finalized]>>
    /\ ptr = 1
    /\ seq = 0
    /\ mu = NoOne
    /\ local = [w \in Writers |-> Idle]
    /\ announced = {}

\* The error of a call, the height its branch forks at, and the branch.
Error(s, call) ==
    CASE call.op = "ProduceBlock" -> "nil"
      [] call.op = "Finalize"     -> Atomic!FinalizeError(s, call.height)
      [] call.op = "Reorg"        -> Atomic!ReorgError(s, call.forkFrom, call.branch)

ForkOf(s, call) == IF call.op = "Reorg" THEN call.forkFrom ELSE Height(s)

BranchOf(call) == IF call.op = "Finalize" THEN <<>> ELSE call.branch

\* A call that will not be refused is made while the bounds leave it room.
WithinBounds(call) ==
    Error(Value(ptr), call) = "nil"
      => Len(snaps) < MaxSnapshots /\ seq + Len(BranchOf(call)) <= MaxSeq

Lock_WithoutMutex(w, call) ==
    /\ local[w].pc = "idle"
    /\ WithinBounds(call)
    /\ mu' = w
    /\ local' = [local EXCEPT ![w] = [pc |-> "check", call |-> call]]
    /\ UNCHANGED <<memory, ptr, seq, announced>>

\* d.mu.Lock()
Lock(w, call) ==
    /\ local[w].pc = "idle"
    /\ WithinBounds(call)
    /\ mu = NoOne
    /\ mu' = w
    /\ local' = [local EXCEPT ![w] = [pc |-> "check", call |-> call]]
    /\ UNCHANGED <<memory, ptr, seq, announced>>

Refuse_KeepsLock(w) ==
    /\ local[w].pc = "check"
    /\ Error(Value(ptr), local[w].call) # "nil"
    /\ local' = [local EXCEPT ![w] = Idle]
    /\ UNCHANGED <<memory, ptr, seq, mu, announced>>

\* An early return: the error goes to the caller, the deferred unlock runs.
Refuse(w) ==
    /\ local[w].pc = "check"
    /\ Error(Value(ptr), local[w].call) # "nil"
    /\ mu' = NoOne
    /\ local' = [local EXCEPT ![w] = Idle]
    /\ UNCHANGED <<memory, ptr, seq, announced>>

\* cur is loaded, the checks pass, and buildBlock builds every new block.
Build(w) ==
    LET cur    == Value(ptr)
        call   == local[w].call
        fork   == ForkOf(cur, call)
        branch == BranchOf(call)
    IN  /\ local[w].pc = "check"
        /\ Error(cur, call) = "nil"
        /\ seq' = seq + Len(branch)
        /\ local' = [local EXCEPT ![w] =
                       [pc   |-> "clone", call |-> call, cur |-> ptr, fork |-> fork,
                        new  |-> Atomic!BranchBlocks(seq, ByNumber(cur, fork), branch)]]
        /\ UNCHANGED <<memory, ptr, mu, announced>>

(***************************************************************************)
(* clone: a fresh map and a fresh array; the blocks in them are shared.    *)
(***************************************************************************)

CloneOf_SharesSlice(cur) ==
    /\ maps' = Append(maps, maps[snaps[cur].blocks])
    /\ arrays' = arrays
    /\ snaps' = Append(snaps, [snaps[cur] EXCEPT !.blocks = Len(maps')])

CloneOf(cur) ==
    /\ maps' = Append(maps, maps[snaps[cur].blocks])
    /\ arrays' = Append(arrays, Value(cur).canonical)
    /\ snaps' = Append(snaps, [snaps[cur] EXCEPT !.blocks = Len(maps'),
                                                 !.canonical.array = Len(arrays')])

\* ns := cur.clone()
Clone(w) ==
    LET l == local[w]
        next == CASE l.call.op = "ProduceBlock" -> "insert"
                  [] l.call.op = "Finalize"     -> "finish"
                  [] l.call.op = "Reorg"        -> "truncate"
    IN  /\ l.pc = "clone"
        /\ CloneOf(l.cur)
        /\ local' = [local EXCEPT ![w] =
                       [pc |-> next, call |-> l.call, new |-> l.new, fork |-> l.fork,
                        ns |-> Len(snaps'), done |-> 0]]
        /\ UNCHANGED <<ptr, seq, mu, announced>>

\* ns.canonical = ns.canonical[:forkFrom+1] shortens the slice; the array under
\* it keeps its contents.
Truncate(w) ==
    /\ local[w].pc = "truncate"
    /\ snaps' = [snaps EXCEPT ![local[w].ns].canonical.len = local[w].fork + 1]
    /\ local' = [local EXCEPT ![w].pc = "insert"]
    /\ UNCHANGED <<maps, arrays, ptr, seq, mu, announced>>

\* ns.blocks[block.Hash] = block and ns.canonical = append(ns.canonical, ...).
\* The append overwrites the array behind the end of the slice.  Where Go moves
\* to a larger array instead, the old one is no longer written to.
Insert(w) ==
    LET l     == local[w]
        ns    == snaps[l.ns]
        block == l.new[l.done + 1]
        end   == ns.canonical.len + 1
        array == arrays[ns.canonical.array]
    IN  /\ l.pc = "insert"
        /\ maps' = [maps EXCEPT ![ns.blocks] = Atomic!AddBlocks(@, <<block>>)]
        /\ arrays' = [arrays EXCEPT ![ns.canonical.array] =
                        [i \in 1 .. Max({end, Len(array)}) |->
                           IF i = end THEN block.hash ELSE array[i]]]
        /\ snaps' = [snaps EXCEPT ![l.ns].canonical.len = end]
        /\ local' = [local EXCEPT ![w].done = @ + 1,
                                  ![w].pc = IF l.done + 1 = Len(l.new) THEN "finish" ELSE @]
        /\ UNCHANGED <<ptr, seq, mu, announced>>

\* ns.head = ..., or ns.finalized = height.
Finish(w) ==
    LET l == local[w]
    IN  /\ l.pc = "finish"
        /\ snaps' = [snaps EXCEPT ![l.ns] =
                       IF l.call.op = "Finalize"
                       THEN [@ EXCEPT !.finalized = l.call.height]
                       ELSE [@ EXCEPT !.head = l.new[Len(l.new)].hash]]
        /\ local' = [local EXCEPT ![w].pc = "store"]
        /\ UNCHANGED <<maps, arrays, ptr, seq, mu, announced>>

\* d.current.Store(ns)
Store(w) ==
    /\ local[w].pc = "store"
    /\ ptr' = local[w].ns
    /\ local' = [local EXCEPT ![w].pc =
                   IF local[w].call.op = "Finalize" THEN "unlock" ELSE "notify"]
    /\ UNCHANGED <<memory, seq, mu, announced>>

NotifyHeads_BeforeStore(w) ==
    /\ local[w].pc = "store"
    /\ local[w].new # <<>>
    /\ announced' = announced \cup {local[w].new[Len(local[w].new)].hash}
    /\ UNCHANGED <<memory, ptr, seq, mu, local>>

\* d.notifyHeads(block): HeadFeed has the channels.
NotifyHeads(w) ==
    /\ local[w].pc = "notify"
    /\ announced' = announced \cup {local[w].new[Len(local[w].new)].hash}
    /\ local' = [local EXCEPT ![w].pc = "unlock"]
    /\ UNCHANGED <<memory, ptr, seq, mu>>

\* The deferred d.mu.Unlock().
Unlock(w) ==
    /\ local[w].pc = "unlock"
    /\ mu' = NoOne
    /\ local' = [local EXCEPT ![w] = Idle]
    /\ UNCHANGED <<memory, ptr, seq, announced>>

Proceed(w) ==
    \/ Refuse(w) \/ Build(w) \/ Clone(w) \/ Truncate(w) \/ Insert(w)
    \/ Finish(w) \/ Store(w) \/ NotifyHeads(w) \/ Unlock(w)

Next == \E w \in Writers : Proceed(w) \/ \E call \in Calls : Lock(w, call)

\* A goroutine inside a call keeps running.
Spec == Init /\ [][Next]_vars /\ \A w \in Writers : WF_vars(Proceed(w))

(***************************************************************************)
(* Properties                                                              *)
(***************************************************************************)

\* The addresses that were ever stored in the pointer: all but the clone a
\* writer has not published yet.
Published ==
    DOMAIN snaps \ {local[w].ns : w \in {v \in Writers : local[v].pc \in
                                           {"truncate", "insert", "finish", "store"}}}

\* A lock-free reader never observes torn state: nothing a writer does changes
\* what is behind a published snapshot, now or at any later time, whichever
\* snapshot a reader still holds (driver.go:20-22, snapshot.go:8-10).
PublishedNeverChanges == [][\A a \in Published : Value(a)' = Value(a)]_vars

\* A head reaches no subscriber before readers can find it: who is told of a
\* block and loads the snapshot gets one that knows the block.
AnnouncedIsPublished == \A h \in announced : ByHash(Value(ptr), h) # Nil

\* Every call that took the lock returns, refused ones too, and gives it back.
EveryCallReturns ==
    \A w \in Writers : mu = w ~> mu # w

\* To readers, each operation happens at once, when its snapshot is stored, and
\* concurrent writers lose none of each other's updates: the driver implements
\* Chain.
ImplementsChain == Atomic!Spec
=============================================================================

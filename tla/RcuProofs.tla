------------------------------ MODULE RcuProofs ------------------------------
(***************************************************************************)
(* Theorems about RcuDriver, for every value of its constants.             *)
(***************************************************************************)
EXTENDS RcuDriver, SequenceTheorems, TLAPS

\* What ChainProofs shows of a chain, said of the one that readers see.
Abs == INSTANCE ChainProofs WITH current <- Value(ptr), seq <- CommittedSeq

(***************************************************************************)
(* The instances                                                           *)
(***************************************************************************)

\* The operators of Snapshot that Abs instantiates are those RcuDriver extends.
LEMMA SameTypes == Blocks = Abs!Blocks /\ Hashes = Abs!Hashes
BY DEF Blocks, Hashes, Receipts, TxHashes, Preimages, HashTx,
       Abs!Blocks, Abs!Hashes, Abs!Receipts, Abs!TxHashes, Abs!Preimages, Abs!HashTx

\* The constants are as Chain assumes them.
LEMMA ChainAssumptions ==
    /\ TimeModulus \in Nat \ {0}
    /\ GenesisTime \in 0 .. TimeModulus - 1
    /\ BlockInterval \in Nat \ {0}
    /\ Nil \notin Abs!Blocks
    /\ TxLists \subseteq Seq(Txs)
    /\ MaxBranch \in Nat
    /\ MaxSeq \in Nat
BY ClockAssumption, NilAssumption, RcuAssumption, SameTypes

LEMMA SameQueries ==
    ASSUME NEW s, NEW n
    PROVE  ByHash(s, n) = Abs!ByHash(s, n) /\ ByNumber(s, n) = Abs!ByNumber(s, n)
BY DEF ByHash, Abs!ByHash, ByNumber, Abs!ByNumber

LEMMA SameHeight ==
    ASSUME NEW s
    PROVE  Height(s) = Abs!Height(s)
BY DEF Height, HeadBlock, ByHash, Abs!Height, Abs!HeadBlock, Abs!ByHash

LEMMA SameGenesis == GenesisSnapshot = Abs!GenesisSnapshot
BY DEF GenesisSnapshot, Genesis, HashBlock, Preimage, HashTx, ZeroHash,
       Abs!GenesisSnapshot, Abs!Genesis, Abs!HashBlock, Abs!Preimage, Abs!HashTx, Abs!ZeroHash

\* And so are those of the other instance.
LEMMA SameBlock ==
    ASSUME NEW s, NEW number, NEW parentHash, NEW txs
    PROVE  Atomic!BuildBlock(s, number, parentHash, txs)
             = Abs!BuildBlock(s, number, parentHash, txs)
BY DEF Atomic!BuildBlock, Atomic!HashBlock, Atomic!Preimage, Atomic!HashTx, Atomic!TimestampAt,
       Abs!BuildBlock, Abs!HashBlock, Abs!Preimage, Abs!HashTx, Abs!TimestampAt

LEMMA SameBranch ==
    ASSUME NEW s, NEW fork, NEW branch
    PROVE  Atomic!BranchBlocks(s, fork, branch) = Abs!BranchBlocks(s, fork, branch)
<1>1. ASSUME NEW n PROVE Atomic!BranchHash(s, fork, branch, n) = Abs!BranchHash(s, fork, branch, n)
  BY DEF Atomic!BranchHash, Atomic!Preimage, Atomic!HashTx, Abs!BranchHash, Abs!Preimage, Abs!HashTx
<1> QED
  BY <1>1, SameBlock DEF Atomic!BranchBlocks, Abs!BranchBlocks

LEMMA SameAdd ==
    ASSUME NEW blocks, NEW new
    PROVE  Atomic!AddBlocks(blocks, new) = Abs!AddBlocks(blocks, new)
BY DEF Atomic!AddBlocks, Abs!AddBlocks

LEMMA SameInputs == Atomic!Heights = Abs!Heights /\ Atomic!Branches = Abs!Branches
BY DEF Atomic!Heights, Atomic!Branches, Abs!Heights, Abs!Branches

LEMMA SameErrors ==
    ASSUME NEW s, NEW height, NEW branch
    PROVE  /\ Atomic!FinalizeError(s, height) = Abs!FinalizeError(s, height)
           /\ Atomic!ReorgError(s, height, branch) = Abs!ReorgError(s, height, branch)
BY DEF Atomic!FinalizeError, Atomic!ReorgError, Atomic!Height, Atomic!HeadBlock, Atomic!ByHash,
       Atomic!ByNumber, Abs!FinalizeError, Abs!ReorgError, Abs!Height, Abs!HeadBlock, Abs!ByHash,
       Abs!ByNumber

LEMMA SameInit == Atomic!Init <=> Abs!Init
<1>1. Atomic!GenesisSnapshot = Abs!GenesisSnapshot
  BY DEF Atomic!GenesisSnapshot, Atomic!Genesis, Atomic!HashBlock, Atomic!Preimage, Atomic!HashTx,
         Atomic!ZeroHash, Abs!GenesisSnapshot, Abs!Genesis, Abs!HashBlock, Abs!Preimage,
         Abs!HashTx, Abs!ZeroHash
<1> QED
  BY <1>1 DEF Atomic!Init, Abs!Init

LEMMA SameNext == Atomic!Next <=> Abs!Next
<1>1. ASSUME NEW txs PROVE Atomic!ProduceBlock(txs) <=> Abs!ProduceBlock(txs)
  <2>1. Atomic!HeadBlock(Value(ptr)) = Abs!HeadBlock(Value(ptr))
    BY DEF Atomic!HeadBlock, Atomic!ByHash, Abs!HeadBlock, Abs!ByHash
  <2> QED
    BY <2>1, SameBlock, SameAdd DEF Atomic!ProduceBlock, Abs!ProduceBlock
<1>2. ASSUME NEW height PROVE Atomic!Finalize(height) <=> Abs!Finalize(height)
  BY SameErrors DEF Atomic!Finalize, Abs!Finalize
<1>3. ASSUME NEW forkFrom, NEW branch
      PROVE  Atomic!Reorg(forkFrom, branch) <=> Abs!Reorg(forkFrom, branch)
  <2>1. Atomic!ByNumber(Value(ptr), forkFrom) = Abs!ByNumber(Value(ptr), forkFrom)
    BY DEF Atomic!ByNumber, Abs!ByNumber
  <2>2. ASSUME NEW s, NEW new PROVE Atomic!Extend(s, forkFrom, new) = Abs!Extend(s, forkFrom, new)
    BY SameAdd DEF Atomic!Extend, Abs!Extend
  <2> QED
    BY <2>1, <2>2, SameErrors, SameBranch DEF Atomic!Reorg, Abs!Reorg
<1> QED
  BY <1>1, <1>2, <1>3, SameInputs DEF Atomic!Next, Abs!Next

(***************************************************************************)
(* The inductive invariant                                                 *)
(***************************************************************************)

BlockMaps == UNION {[H -> Blocks] : H \in SUBSET Hashes}

Headers == [blocks : Nat, canonical : [array : Nat, len : Nat], head : Hashes, finalized : Nat]

\* Every snapshot has a map and an array of its own, at its own address.
MemoryOK ==
    /\ maps \in Seq(BlockMaps)
    /\ arrays \in Seq(Seq(Hashes))
    /\ snaps \in Seq(Headers)
    /\ Len(maps) = Len(snaps) /\ Len(arrays) = Len(snaps)
    /\ \A a \in 1 .. Len(snaps) : /\ snaps[a].blocks = a
                                  /\ snaps[a].canonical.array = a
                                  /\ snaps[a].canonical.len <= Len(arrays[a])
    /\ ptr \in 1 .. Len(snaps)

Building == {"clone", "truncate", "insert", "finish", "store"}

Drafting == {"truncate", "insert", "finish", "store"}

\* What Build took from the published snapshot still fits it.
BuiltOK(l) ==
    /\ Error(Value(ptr), l.call) = "nil"
    /\ l.fork = ForkOf(Value(ptr), l.call)
    /\ l.new = Abs!BranchBlocks(CommittedSeq, ByNumber(Value(ptr), l.fork), BranchOf(l.call))
    /\ CommittedSeq + Len(l.new) <= MaxSeq

\* The published snapshot with the first k blocks of a branch in.
Partial(s, fork, new, k) ==
    [blocks    |-> Abs!AddBlocks(s.blocks, SubSeq(new, 1, k)),
     canonical |-> SubSeq(s.canonical, 1, fork + 1) \o [i \in 1 .. k |-> new[i].hash],
     head      |-> s.head,
     finalized |-> s.finalized]

\* The snapshot the call is to publish.
Result(l) ==
    IF l.call.op = "Finalize"
    THEN [Value(ptr) EXCEPT !.finalized = l.call.height]
    ELSE Abs!Extend(Value(ptr), l.fork, l.new)

\* The local variables once there is a draft.
HasDraft(l) ==
    l = [pc |-> l.pc, call |-> l.call, new |-> l.new, fork |-> l.fork, ns |-> l.ns,
         done |-> l.done]

\* The draft is a snapshot of its own, not the published one, and holds
\* what the steps so far have made of it.
DraftOK(l) ==
    /\ l.ns \in 1 .. Len(snaps) /\ l.ns # ptr
    /\ l.done \in 0 .. Len(l.new)
    /\ l.pc = "truncate" => l.call.op = "Reorg" /\ l.done = 0 /\ Value(l.ns) = Value(ptr)
    /\ l.pc = "insert" => /\ l.call.op # "Finalize" /\ l.done < Len(l.new)
                          /\ Value(l.ns) = Partial(Value(ptr), l.fork, l.new, l.done)
    /\ l.pc = "finish" =>
         Value(l.ns) = IF l.call.op = "Finalize" THEN Value(ptr)
                       ELSE Partial(Value(ptr), l.fork, l.new, Len(l.new))
    /\ l.pc = "store" => Value(l.ns) = Result(l)

\* Where a call is, and what its local variables hold.
CallOK(l) ==
    \/ /\ l.pc = "check"
       /\ l = [pc |-> "check", call |-> l.call] /\ l.call \in Calls
       /\ WithinBounds(l.call)
    \/ /\ l.pc = "clone"
       /\ l = [pc |-> "clone", call |-> l.call, cur |-> ptr, fork |-> l.fork, new |-> l.new]
       /\ l.call \in Calls /\ BuiltOK(l)
    \/ /\ l.pc \in Drafting
       /\ HasDraft(l)
       /\ l.call \in Calls /\ BuiltOK(l) /\ DraftOK(l)
    \/ /\ l.pc = "notify"
       /\ HasDraft(l)
       /\ l.new[Len(l.new)].hash \in DOMAIN Value(ptr).blocks
    \/ l.pc = "unlock"

\* Only the holder of the mutex is inside a call.
ControlOK ==
    /\ mu \in Writers \cup {NoOne}
    /\ local = [w \in Writers |-> local[w]]
    /\ \A w \in Writers : w # mu => local[w] = Idle
    /\ mu # NoOne => CallOK(local[mu])

RcuInv ==
    /\ MemoryOK
    /\ ControlOK
    /\ Abs!IInv
    /\ seq \in Nat
    /\ announced \subseteq DOMAIN Value(ptr).blocks

(***************************************************************************)
(* Memory                                                                  *)
(***************************************************************************)

\* A function on 1 .. m is a sequence of length m.
LEMMA FunctionIsSeq ==
    ASSUME NEW S, NEW m \in Nat, NEW f \in [1 .. m -> S]
    PROVE  f \in Seq(S) /\ Len(f) = m
OBVIOUS

\* The first n elements of a sequence.
LEMMA Front ==
    ASSUME NEW S, NEW s \in Seq(S), NEW n \in 0 .. Len(s)
    PROVE  /\ SubSeq(s, 1, n) \in Seq(S)
           /\ Len(SubSeq(s, 1, n)) = n
           /\ \A i \in 1 .. n : SubSeq(s, 1, n)[i] = s[i]
<1>1. n \in Nat /\ \A i \in 1 .. n : s[i] \in S
  OBVIOUS
<1> QED
  BY <1>1, SubSeqProperties

\* The array a after a write of e behind its first n elements.
Written(a, n, e) ==
    [i \in 1 .. Max({n + 1, Len(a)}) |-> IF i = n + 1 THEN e ELSE a[i]]

\* Writing behind the end of a slice appends to what the slice shows, whatever
\* the array held there.
LEMMA WriteBehind ==
    ASSUME NEW S, NEW a \in Seq(S), NEW n \in 0 .. Len(a), NEW e \in S
    PROVE  /\ Written(a, n, e) \in Seq(S)
           /\ n + 1 <= Len(Written(a, n, e))
           /\ SubSeq(Written(a, n, e), 1, n + 1) = Append(SubSeq(a, 1, n), e)
<1> DEFINE m == Max({n + 1, Len(a)})
           b == Written(a, n, e)
<1>1. n \in Nat /\ Len(a) \in Nat /\ n <= Len(a)
  OBVIOUS
<1>2. m \in Nat /\ n + 1 <= m /\ Len(a) <= m /\ (m = n + 1 \/ m = Len(a))
  <2>1. CASE n + 1 <= Len(a)
    <3>1. m = Len(a)
      BY <1>1, <2>1 DEF Max
    <3> QED
      BY <1>1, <2>1, <3>1
  <2>2. CASE ~(n + 1 <= Len(a))
    <3>1. m = n + 1
      BY <1>1, <2>2 DEF Max
    <3> QED
      BY <1>1, <2>2, <3>1
  <2> QED
    BY <2>1, <2>2
<1> HIDE DEF m
<1>3. b = [i \in 1 .. m |-> IF i = n + 1 THEN e ELSE a[i]]
  BY DEF m, Written
<1> HIDE DEF b
<1>4. \A i \in 1 .. m : i # n + 1 => a[i] \in S
  BY <1>1, <1>2
<1>5. b \in [1 .. m -> S]
  BY <1>3, <1>4
<1>6. b \in Seq(S) /\ Len(b) = m
  BY <1>2, <1>5, FunctionIsSeq
<1>7. SubSeq(b, 1, n + 1) = Append(SubSeq(a, 1, n), e)
  <2> DEFINE shown == SubSeq(a, 1, n)
             now == SubSeq(b, 1, n + 1)
  <2>1. /\ shown \in Seq(S) /\ Len(shown) = n
        /\ \A i \in 1 .. n : shown[i] = a[i]
    BY <1>1, Front
  <2>2. /\ now \in Seq(S) /\ Len(now) = n + 1
        /\ \A i \in 1 .. n + 1 : now[i] = b[i]
    <3>1. n + 1 \in 0 .. Len(b)
      <4>1. n + 1 \in 0 .. m
        BY <1>1, <1>2
      <4> QED
        BY <1>6, <4>1, Zenon
    <3> QED
      BY <1>6, <3>1, Front
  <2> HIDE DEF shown, now
  <2>3. /\ Append(shown, e) \in Seq(S) /\ Len(Append(shown, e)) = n + 1
        /\ \A i \in 1 .. n : Append(shown, e)[i] = shown[i]
        /\ Append(shown, e)[n + 1] = e
    BY <2>1, AppendProperties
  <2>4. ASSUME NEW i \in 1 .. n + 1 PROVE now[i] = Append(shown, e)[i]
    <3>1. now[i] = b[i]
      BY <2>2
    <3>4. i \in 1 .. m
      BY <1>1, <1>2
    <3>2. CASE i = n + 1
      BY <1>3, <2>3, <3>1, <3>2, <3>4
    <3>3. CASE i # n + 1
      <4>1. i \in 1 .. n
        BY <1>1, <3>3
      <4> QED
        BY <1>3, <2>1, <2>3, <3>1, <3>3, <3>4, <4>1
    <3> QED
      BY <3>2, <3>3
  <2>5. now = Append(shown, e)
    BY <2>2, <2>3, <2>4, SeqEqual
  <2> QED
    BY <2>5 DEF shown, now
<1> QED
  BY <1>2, <1>6, <1>7 DEF b

\* What is behind an address of well-formed memory.
LEMMA ValueIs ==
    ASSUME MemoryOK, NEW a \in 1 .. Len(snaps)
    PROVE  /\ Value(a) = [blocks    |-> maps[a],
                          canonical |-> SubSeq(arrays[a], 1, snaps[a].canonical.len),
                          head      |-> snaps[a].head,
                          finalized |-> snaps[a].finalized]
           /\ maps[a] \in BlockMaps /\ arrays[a] \in Seq(Hashes) /\ snaps[a] \in Headers
           /\ snaps[a].canonical.len \in 0 .. Len(arrays[a])
           /\ Value(a).canonical \in Seq(Hashes)
           /\ Len(Value(a).canonical) = snaps[a].canonical.len
<1>1. maps[a] \in BlockMaps /\ arrays[a] \in Seq(Hashes) /\ snaps[a] \in Headers
  BY DEF MemoryOK
<1>2. snaps[a].blocks = a /\ snaps[a].canonical.array = a
      /\ snaps[a].canonical.len <= Len(arrays[a])
  BY DEF MemoryOK
<1>3. snaps[a].canonical.len \in Nat /\ Len(arrays[a]) \in Nat
  BY <1>1 DEF Headers
<1>4. Value(a) = [blocks    |-> maps[a],
                  canonical |-> SubSeq(arrays[a], 1, snaps[a].canonical.len),
                  head      |-> snaps[a].head,
                  finalized |-> snaps[a].finalized]
  BY <1>2 DEF Value
<1> DEFINE shown == SubSeq(arrays[a], 1, snaps[a].canonical.len)
<1>5. shown \in Seq(Hashes) /\ Len(shown) = snaps[a].canonical.len
  BY <1>1, <1>2, <1>3, Front
<1>6. Value(a).canonical = shown
  BY <1>2 DEF Value
<1> HIDE DEF shown
<1> QED
  BY <1>1, <1>2, <1>3, <1>4, <1>5, <1>6

\* A reader of an address none of whose parts a step writes sees no change.
LEMMA ValueKept ==
    ASSUME MemoryOK, MemoryOK', NEW a \in 1 .. Len(snaps), a \in 1 .. Len(snaps'),
           maps'[a] = maps[a], arrays'[a] = arrays[a], snaps'[a] = snaps[a]
    PROVE  Value(a)' = Value(a)
BY DEF Value, MemoryOK

(***************************************************************************)
(* The draft                                                               *)
(***************************************************************************)

Distinct(new) == \A i, j \in 1 .. Len(new) : new[i].hash = new[j].hash => i = j

\* The map with holds what blocks does, and the first k blocks of a branch.
HasFront(with, blocks, new, k) ==
    /\ with = [h \in DOMAIN with |-> with[h]]
    /\ DOMAIN with = DOMAIN blocks \cup {new[i].hash : i \in 1 .. k}
    /\ \A i \in 1 .. k : with[new[i].hash] = new[i]
    /\ \A h \in DOMAIN blocks : h \notin {new[i].hash : i \in 1 .. k} => with[h] = blocks[h]

LEMMA MapWithFront ==
    ASSUME NEW blocks, NEW new \in Seq(Blocks), Distinct(new), NEW k \in 0 .. Len(new)
    PROVE  HasFront(Abs!AddBlocks(blocks, SubSeq(new, 1, k)), blocks, new, k)
<1> DEFINE front == SubSeq(new, 1, k)
           added == Abs!AddBlocks(blocks, front)
<1>1. front \in Seq(Blocks) /\ Len(front) = k /\ \A i \in 1 .. k : front[i] = new[i]
  BY Front
<1>2. k \in Nat /\ \A i \in 1 .. k : i \in 1 .. Len(new)
  OBVIOUS
<1>3. added = [h \in DOMAIN added |-> added[h]]
  BY DEF Abs!AddBlocks
<1> HIDE DEF front, added
<1>5. \A i, j \in 1 .. Len(front) : front[i].hash = front[j].hash => i = j
  BY <1>1, <1>2 DEF Distinct
<1>6. {front[i].hash : i \in 1 .. Len(front)} = {new[i].hash : i \in 1 .. k}
  BY <1>1
<1>7. front \in Seq(Abs!Blocks)
  BY <1>1, SameTypes
<1>8. /\ DOMAIN added = DOMAIN blocks \cup {front[i].hash : i \in 1 .. Len(front)}
      /\ \A i \in 1 .. Len(front) : added[front[i].hash] = front[i]
      /\ \A h \in DOMAIN blocks :
           h \notin {front[i].hash : i \in 1 .. Len(front)} => added[h] = blocks[h]
  BY <1>5, <1>7, Abs!AddBlocksFacts, ChainAssumptions DEF added
<1>9. \A i \in 1 .. k : added[new[i].hash] = new[i]
  BY <1>1, <1>8
<1> QED
  BY <1>3, <1>6, <1>8, <1>9 DEF HasFront, added, front

\* Putting the next block into the map is putting one more block of the branch in.
LEMMA MapWithNext ==
    ASSUME NEW blocks, NEW new \in Seq(Blocks), Distinct(new), NEW k \in 0 .. Len(new) - 1
    PROVE  Abs!AddBlocks(Abs!AddBlocks(blocks, SubSeq(new, 1, k)), <<new[k + 1]>>)
             = Abs!AddBlocks(blocks, SubSeq(new, 1, k + 1))
<1> DEFINE a == Abs!AddBlocks(blocks, SubSeq(new, 1, k))
           e == new[k + 1]
           one == <<e>>
           b == Abs!AddBlocks(a, one)
           c == Abs!AddBlocks(blocks, SubSeq(new, 1, k + 1))
<1>1. k \in 0 .. Len(new) /\ k + 1 \in 0 .. Len(new) /\ k + 1 \in 1 .. Len(new) /\ k \in Nat
  OBVIOUS
<1>2. e \in Blocks
  BY <1>1
<1> HIDE DEF a, b, c, e
<1>3. /\ DOMAIN a = DOMAIN blocks \cup {new[i].hash : i \in 1 .. k}
      /\ \A i \in 1 .. k : a[new[i].hash] = new[i]
      /\ \A h \in DOMAIN blocks : h \notin {new[i].hash : i \in 1 .. k} => a[h] = blocks[h]
  <2>1. HasFront(a, blocks, new, k)
    BY <1>1, MapWithFront DEF a
  <2> QED
    BY <2>1 DEF HasFront
<1>4. /\ c = [h \in DOMAIN c |-> c[h]]
      /\ DOMAIN c = DOMAIN blocks \cup {new[i].hash : i \in 1 .. k + 1}
      /\ \A i \in 1 .. k + 1 : c[new[i].hash] = new[i]
      /\ \A h \in DOMAIN blocks : h \notin {new[i].hash : i \in 1 .. k + 1} => c[h] = blocks[h]
  <2>1. HasFront(c, blocks, new, k + 1)
    BY <1>1, MapWithFront DEF c
  <2> QED
    BY <2>1 DEF HasFront
<1>5. /\ b = [h \in DOMAIN b |-> b[h]]
      /\ DOMAIN b = DOMAIN a \cup {e.hash}
      /\ b[e.hash] = e
      /\ \A h \in DOMAIN a : h # e.hash => b[h] = a[h]
  <2>1. one \in Seq(Blocks) /\ Len(one) = 1 /\ one[1] = e
    BY <1>2
  <2>2. b = [h \in DOMAIN b |-> b[h]]
    BY DEF b, Abs!AddBlocks
  <2> HIDE DEF one
  <2>3. \A i, j \in 1 .. Len(one) : one[i].hash = one[j].hash => i = j
    BY <2>1
  <2>4. {one[i].hash : i \in 1 .. Len(one)} = {e.hash}
    BY <2>1
  <2>5. one \in Seq(Abs!Blocks)
    BY <2>1, SameTypes
  <2>6. /\ DOMAIN b = DOMAIN a \cup {one[i].hash : i \in 1 .. Len(one)}
        /\ \A i \in 1 .. Len(one) : b[one[i].hash] = one[i]
        /\ \A h \in DOMAIN a : h \notin {one[i].hash : i \in 1 .. Len(one)} => b[h] = a[h]
    BY <2>3, <2>5, Abs!AddBlocksFacts, ChainAssumptions DEF b
  <2> QED
    BY <2>1, <2>2, <2>4, <2>6
<1>6. {new[i].hash : i \in 1 .. k + 1} = {new[i].hash : i \in 1 .. k} \cup {e.hash}
  <2>1. 1 .. k + 1 = 1 .. k \cup {k + 1}
    BY <1>1
  <2> QED
    BY <2>1 DEF e
<1>7. DOMAIN b = DOMAIN c
  BY <1>3, <1>4, <1>5, <1>6
<1>8. ASSUME NEW h \in DOMAIN c PROVE b[h] = c[h]
  <2>1. CASE h = e.hash
    <3>1. c[new[k + 1].hash] = new[k + 1]
      BY <1>1, <1>4
    <3> QED
      BY <1>5, <2>1, <3>1 DEF e
  <2>2. CASE h # e.hash
    <3>1. h \in DOMAIN a /\ b[h] = a[h]
      BY <1>3, <1>4, <1>5, <1>6, <2>2
    <3>2. CASE h \in {new[i].hash : i \in 1 .. k}
      <4>1. PICK i \in 1 .. k : h = new[i].hash
        BY <3>2
      <4>2. i \in 1 .. k + 1
        BY <1>1
      <4> QED
        BY <1>3, <1>4, <3>1, <4>1, <4>2
    <3>3. CASE h \notin {new[i].hash : i \in 1 .. k}
      BY <1>3, <1>4, <1>6, <2>2, <3>1, <3>3
    <3> QED
      BY <3>2, <3>3
  <2> QED
    BY <2>1, <2>2
<1>9. b = c
  BY <1>4, <1>5, <1>7, <1>8
<1> QED
  BY <1>9 DEF a, b, c, e

\* A snapshot has four fields, a map and a sequence among them.
IsSnapshot(s) ==
    /\ s = [blocks |-> s.blocks, canonical |-> s.canonical, head |-> s.head,
            finalized |-> s.finalized]
    /\ s.blocks = [h \in DOMAIN s.blocks |-> s.blocks[h]]
    /\ s.canonical \in Seq(Hashes)

\* The hashes of the first k blocks of a branch, and of one more.
LEMMA FrontHashes ==
    ASSUME NEW new \in Seq(Blocks), NEW k \in 0 .. Len(new)
    PROVE  /\ [i \in 1 .. k |-> new[i].hash] \in Seq(Hashes)
           /\ k < Len(new) => [i \in 1 .. k + 1 |-> new[i].hash]
                                = Append([i \in 1 .. k |-> new[i].hash], new[k + 1].hash)
<1> DEFINE hashes(n) == [i \in 1 .. n |-> new[i].hash]
<1>1. ASSUME NEW n \in 0 .. Len(new) PROVE hashes(n) \in Seq(Hashes) /\ Len(hashes(n)) = n
  <2>1. n \in Nat /\ \A i \in 1 .. n : new[i] \in Blocks
    OBVIOUS
  <2>2. \A i \in 1 .. n : new[i].hash \in Hashes
    BY <2>1 DEF Blocks
  <2>3. hashes(n) \in [1 .. n -> Hashes]
    BY <2>2
  <2> HIDE DEF hashes
  <2> QED
    BY <2>1, <2>3, FunctionIsSeq
<1>2. ASSUME k < Len(new) PROVE hashes(k + 1) = Append(hashes(k), new[k + 1].hash)
  <2>1. k \in Nat /\ k + 1 \in 0 .. Len(new)
    BY <1>2
  <2>2. /\ hashes(k) \in Seq(Hashes) /\ Len(hashes(k)) = k
        /\ hashes(k + 1) \in Seq(Hashes) /\ Len(hashes(k + 1)) = k + 1
    BY <1>1, <2>1
  <2>3. /\ \A i \in 1 .. k : hashes(k)[i] = new[i].hash
        /\ \A i \in 1 .. k + 1 : hashes(k + 1)[i] = new[i].hash
    OBVIOUS
  <2> DEFINE e == new[k + 1].hash
             old == hashes(k)
             now == hashes(k + 1)
  <2>4. e \in Hashes
    <3>1. new[k + 1] \in Blocks
      BY <1>2, <2>1
    <3> QED
      BY <3>1 DEF Blocks
  <2>5. k + 1 \in 1 .. k + 1 /\ now[k + 1] = e
    BY <2>1, <2>3
  <2> HIDE DEF hashes, e, old, now
  <2>6. /\ Append(old, e) \in Seq(Hashes) /\ Len(Append(old, e)) = k + 1
        /\ \A i \in 1 .. k : Append(old, e)[i] = old[i]
        /\ Append(old, e)[k + 1] = e
    BY <2>2, <2>4, AppendProperties DEF old
  <2>7. ASSUME NEW i \in 1 .. k + 1 PROVE now[i] = Append(old, e)[i]
    <3>1. i \in 1 .. k \/ i = k + 1
      BY <2>1
    <3> QED
      BY <2>3, <2>5, <2>6, <3>1 DEF old, now
  <2>8. now = Append(old, e)
    BY <2>2, <2>6, <2>7, SeqEqual DEF now
  <2> QED
    BY <2>8 DEF old, now, e
<1> QED
  BY <1>1, <1>2

\* A draft starts as the published snapshot, cut after the fork point.
LEMMA PartialNone ==
    ASSUME NEW s, IsSnapshot(s), NEW fork \in 0 .. Len(s.canonical) - 1, NEW new \in Seq(Blocks),
           Distinct(new)
    PROVE  /\ Partial(s, fork, new, 0)
                = [blocks    |-> s.blocks,
                   canonical |-> SubSeq(s.canonical, 1, fork + 1),
                   head      |-> s.head,
                   finalized |-> s.finalized]
           /\ fork + 1 = Len(s.canonical) => Partial(s, fork, new, 0) = s
<1> DEFINE with == Abs!AddBlocks(s.blocks, SubSeq(new, 1, 0))
           cut  == SubSeq(s.canonical, 1, fork + 1)
<1>1. with = s.blocks
  <2>1. HasFront(with, s.blocks, new, 0)
    BY MapWithFront
  <2> HIDE DEF with
  <2>2. {new[i].hash : i \in 1 .. 0} = {}
    OBVIOUS
  <2> QED
    BY <2>1, <2>2 DEF HasFront, IsSnapshot
<1>2. s.canonical \in Seq(Hashes) /\ fork + 1 \in 0 .. Len(s.canonical)
  BY DEF IsSnapshot
<1>3. cut \in Seq(Hashes)
  BY <1>2, Front
<1>4. [i \in 1 .. 0 |-> new[i].hash] = <<>>
  OBVIOUS
<1> HIDE DEF with, cut
<1>5. cut \o <<>> = cut
  BY <1>3, ConcatEmptySeq
<1>6. Partial(s, fork, new, 0)
        = [blocks |-> s.blocks, canonical |-> cut, head |-> s.head, finalized |-> s.finalized]
  BY <1>1, <1>4, <1>5 DEF Partial, with, cut
<1>7. ASSUME fork + 1 = Len(s.canonical) PROVE cut = s.canonical
  BY <1>2, <1>7, SubSeqFull DEF cut
<1> QED
  BY <1>6, <1>7 DEF IsSnapshot, cut

\* Inserting a block takes the draft to the next one.
LEMMA PartialNext ==
    ASSUME NEW s, IsSnapshot(s), NEW fork \in 0 .. Len(s.canonical) - 1, NEW new \in Seq(Blocks),
           Distinct(new), NEW k \in 0 .. Len(new) - 1
    PROVE  Partial(s, fork, new, k + 1)
             = [blocks    |-> Abs!AddBlocks(Partial(s, fork, new, k).blocks, <<new[k + 1]>>),
                canonical |-> Append(Partial(s, fork, new, k).canonical, new[k + 1].hash),
                head      |-> s.head,
                finalized |-> s.finalized]
<1> DEFINE cut == SubSeq(s.canonical, 1, fork + 1)
           hashes == [i \in 1 .. k |-> new[i].hash]
           e == new[k + 1].hash
<1>1. s.canonical \in Seq(Hashes) /\ fork + 1 \in 0 .. Len(s.canonical)
  BY DEF IsSnapshot
<1>2. cut \in Seq(Hashes)
  BY <1>1, Front
<1>3. k \in 0 .. Len(new) /\ k < Len(new) /\ new[k + 1] \in Blocks
  OBVIOUS
<1>4. hashes \in Seq(Hashes) /\ [i \in 1 .. k + 1 |-> new[i].hash] = Append(hashes, e)
  BY <1>3, FrontHashes
<1>5. e \in Hashes
  BY <1>3 DEF Blocks
<1> HIDE DEF cut, hashes, e
<1>6. cut \o Append(hashes, e) = Append(cut \o hashes, e)
  BY <1>2, <1>4, <1>5, Abs!ConcatAppend, ChainAssumptions
<1>7. Partial(s, fork, new, k).canonical = cut \o hashes
      /\ Partial(s, fork, new, k).blocks = Abs!AddBlocks(s.blocks, SubSeq(new, 1, k))
  BY DEF Partial, cut, hashes
<1>8. Partial(s, fork, new, k + 1)
        = [blocks    |-> Abs!AddBlocks(s.blocks, SubSeq(new, 1, k + 1)),
           canonical |-> cut \o Append(hashes, e),
           head      |-> s.head,
           finalized |-> s.finalized]
  BY <1>4 DEF Partial, cut
<1> QED
  BY <1>6, <1>7, <1>8, MapWithNext DEF e

\* A snapshot with its finalized height set.
LEMMA SnapshotFinalized ==
    ASSUME NEW s, IsSnapshot(s), NEW height
    PROVE  [s EXCEPT !.finalized = height]
             = [blocks |-> s.blocks, canonical |-> s.canonical, head |-> s.head,
                finalized |-> height]
<1> DEFINE x == [s EXCEPT !.finalized = height]
           y == [blocks |-> s.blocks, canonical |-> s.canonical, head |-> s.head,
                 finalized |-> height]
<1>1. DOMAIN s = {"blocks", "canonical", "head", "finalized"}
  BY DEF IsSnapshot
<1>2. DOMAIN x = DOMAIN s /\ x = [i \in DOMAIN x |-> x[i]]
  OBVIOUS
<1>3. x.blocks = s.blocks /\ x.canonical = s.canonical /\ x.head = s.head
      /\ x.finalized = height
  BY <1>1
<1>4. DOMAIN y = {"blocks", "canonical", "head", "finalized"} /\ y = [i \in DOMAIN y |-> y[i]]
  OBVIOUS
<1>5. y.blocks = s.blocks /\ y.canonical = s.canonical /\ y.head = s.head
      /\ y.finalized = height
  OBVIOUS
<1> HIDE DEF x, y
<1>6. x = y
  BY <1>1, <1>2, <1>3, <1>4, <1>5
<1> QED
  BY <1>6 DEF x, y

\* With every block in and the head moved, the draft is the extended snapshot.
LEMMA PartialAll ==
    ASSUME NEW s, NEW fork, NEW new \in Seq(Blocks)
    PROVE  [blocks    |-> Partial(s, fork, new, Len(new)).blocks,
            canonical |-> Partial(s, fork, new, Len(new)).canonical,
            head      |-> new[Len(new)].hash,
            finalized |-> s.finalized] = Abs!Extend(s, fork, new)
<1>1. SubSeq(new, 1, Len(new)) = new
  BY SubSeqFull
<1>2. DOMAIN new = 1 .. Len(new)
  OBVIOUS
<1> QED
  BY <1>1, <1>2 DEF Partial, Abs!Extend

(***************************************************************************)
(* The published snapshot, and what a call builds from it                  *)
(***************************************************************************)

\* What a reader loads is a well-formed chain.
LEMMA PublishedFacts ==
    ASSUME MemoryOK, Abs!IInv
    PROVE  /\ IsSnapshot(Value(ptr))
           /\ Len(Value(ptr).canonical) \in Nat \ {0}
           /\ Height(Value(ptr)) = Len(Value(ptr).canonical) - 1
           /\ CommittedSeq \in 0 .. MaxSeq
           /\ \A h \in DOMAIN Value(ptr).blocks : Value(ptr).blocks[h] \in Blocks
           /\ \A n \in 0 .. Len(Value(ptr).canonical) - 1 :
                 ByNumber(Value(ptr), n) \in Blocks /\ ByNumber(Value(ptr), n).number = n
<1> DEFINE s == Value(ptr)
<1>1. /\ s = [blocks    |-> maps[ptr],
              canonical |-> SubSeq(arrays[ptr], 1, snaps[ptr].canonical.len),
              head      |-> snaps[ptr].head,
              finalized |-> snaps[ptr].finalized]
      /\ maps[ptr] \in BlockMaps /\ s.canonical \in Seq(Hashes)
  <2>1. ptr \in 1 .. Len(snaps)
    BY DEF MemoryOK
  <2> QED
    BY <2>1, ValueIs
<1>2. IsSnapshot(s)
  <2>1. maps[ptr] = [h \in DOMAIN maps[ptr] |-> maps[ptr][h]]
    BY <1>1 DEF BlockMaps
  <2> QED
    BY <1>1, <2>1 DEF IsSnapshot
<1>3. Len(s.canonical) \in Nat \ {0} /\ Abs!Height(s) = Len(s.canonical) - 1
  BY Abs!HeadFacts, ChainAssumptions
<1>4. Height(s) = Abs!Height(s)
  BY SameHeight
<1>5. /\ CommittedSeq \in 0 .. MaxSeq
      /\ \A h \in DOMAIN s.blocks : s.blocks[h] \in Abs!Blocks
  BY DEF Abs!IInv, Abs!TypeOK
<1>6. ASSUME NEW n \in 0 .. Len(s.canonical) - 1
      PROVE  ByNumber(s, n) \in Blocks /\ ByNumber(s, n).number = n
  <2>1. Abs!ByNumber(s, n) \in Abs!Blocks /\ Abs!ByNumber(s, n).number = n
    BY Abs!ByNumberFacts, ChainAssumptions
  <2>2. ByNumber(s, n) = Abs!ByNumber(s, n)
    BY SameQueries
  <2> QED
    BY <2>1, <2>2, SameTypes
<1> QED
  BY <1>2, <1>3, <1>4, <1>5, <1>6, SameTypes

\* A call's branch is a sequence of transaction lists, and its heights are natural.
LEMMA CallTypes ==
    ASSUME NEW call \in Calls
    PROVE  /\ call.op \in {"ProduceBlock", "Finalize", "Reorg"}
           /\ BranchOf(call) \in Seq(Seq(Txs)) /\ Len(BranchOf(call)) \in Nat
           /\ call.op = "ProduceBlock" =>
                \E txs \in TxLists : call.branch = <<txs>> /\ BranchOf(call) = <<txs>>
           /\ call.op = "Finalize" => call.height \in Abs!Heights /\ BranchOf(call) = <<>>
           /\ call.op = "Reorg" => /\ call.forkFrom \in Abs!Heights /\ call.forkFrom \in Nat
                                   /\ call.branch \in Abs!Branches /\ BranchOf(call) = call.branch
<1>1. CASE call \in [op : {"ProduceBlock"}, branch : {<<txs>> : txs \in TxLists}]
  <2>1. PICK txs \in TxLists : call.branch = <<txs>>
    BY <1>1
  <2>2. call.op = "ProduceBlock" /\ BranchOf(call) = <<txs>>
    BY <1>1, <2>1 DEF BranchOf
  <2>3. txs \in Seq(Txs)
    BY RcuAssumption
  <2>4. <<txs>> \in Seq(Seq(Txs)) /\ Len(<<txs>>) \in Nat
    BY <2>3
  <2> QED
    BY <2>1, <2>2, <2>4
<1>2. CASE call \in [op : {"Finalize"}, height : Atomic!Heights]
  <2>1. call.op = "Finalize" /\ call.height \in Abs!Heights /\ BranchOf(call) = <<>>
    BY <1>2, SameInputs DEF BranchOf
  <2>2. <<>> \in Seq(Seq(Txs)) /\ Len(<<>>) \in Nat
    OBVIOUS
  <2> QED
    BY <2>1, <2>2
<1>3. CASE call \in [op : {"Reorg"}, forkFrom : Atomic!Heights, branch : Atomic!Branches]
  <2>1. /\ call.op = "Reorg" /\ call.forkFrom \in Abs!Heights /\ call.branch \in Abs!Branches
        /\ BranchOf(call) = call.branch
    BY <1>3, SameInputs DEF BranchOf
  <2>2. call.forkFrom \in Nat
    BY <2>1 DEF Abs!Heights
  <2>3. call.branch \in Seq(Seq(Txs))
    BY <2>1, Abs!BranchesType, ChainAssumptions
  <2>4. Len(call.branch) \in Nat
    BY <2>3
  <2> QED
    BY <2>1, <2>2, <2>3, <2>4
<1> QED
  BY <1>1, <1>2, <1>3 DEF Calls

\* A call that passes the checks forks at a height of the path, and has blocks
\* to put there unless it finalizes.
LEMMA ForkFacts ==
    ASSUME MemoryOK, Abs!IInv, NEW call \in Calls, Error(Value(ptr), call) = "nil"
    PROVE  LET path == Value(ptr).canonical
               fork == ForkOf(Value(ptr), call)
           IN  /\ fork \in 0 .. Len(path) - 1
               /\ call.op # "Reorg" => fork + 1 = Len(path)
               /\ call.op # "Finalize" => Len(BranchOf(call)) > 0
               /\ ByNumber(Value(ptr), fork) \in Blocks
<1> DEFINE s == Value(ptr)
           fork == ForkOf(s, call)
           len == Len(s.canonical)
<1>1. /\ len \in Nat \ {0} /\ Height(s) = len - 1
      /\ \A n \in 0 .. len - 1 : ByNumber(s, n) \in Blocks
  BY PublishedFacts
<1> HIDE DEF s, len, fork
<1>2. CASE call.op = "Reorg"
  <2>1. /\ call.forkFrom \in Nat /\ BranchOf(call) = call.branch /\ Len(call.branch) \in Nat
    BY <1>2, CallTypes
  <2>2. Abs!ReorgError(s, call.forkFrom, call.branch) = "nil"
    BY <1>2, SameErrors DEF Error, s
  <2>3. Abs!Height(s) = len - 1
    BY <1>1, SameHeight
  <2>4. ~(call.forkFrom > len - 1) /\ ~(call.forkFrom + Len(call.branch) <= len - 1)
    BY <2>2, <2>3 DEF Abs!ReorgError
  <2>5. fork = call.forkFrom
    BY <1>2 DEF ForkOf, fork
  <2> QED
    BY <1>1, <1>2, <2>1, <2>4, <2>5 DEF s, len, fork
<1>3. CASE call.op # "Reorg"
  <2>1. fork = len - 1
    BY <1>1, <1>3 DEF ForkOf, fork
  <2>2. call.op # "Finalize" => Len(BranchOf(call)) > 0
    <3>1. ASSUME call.op # "Finalize" PROVE Len(BranchOf(call)) = 1
      BY <1>3, <3>1, CallTypes
    <3> QED
      BY <3>1
  <2> QED
    BY <1>1, <1>3, <2>1, <2>2 DEF s, len, fork
<1> QED
  BY <1>2, <1>3

\* The blocks of a branch are blocks with hashes of their own.
BranchOK(new, call) ==
    new \in Seq(Blocks) /\ Len(new) = Len(BranchOf(call)) /\ Distinct(new)

LEMMA BranchBuilt ==
    ASSUME NEW s \in Nat, NEW fork \in Blocks, NEW call \in Calls
    PROVE  BranchOK(Abs!BranchBlocks(s, fork, BranchOf(call)), call)
<1> DEFINE new == Abs!BranchBlocks(s, fork, BranchOf(call))
<1>1. BranchOf(call) \in Seq(Seq(Txs)) /\ fork \in Abs!Blocks
  BY CallTypes, SameTypes
<1>2. Abs!IsBranch(new, s, fork, BranchOf(call))
  BY <1>1, Abs!BranchFacts, ChainAssumptions
<1> HIDE DEF new
<1>3. /\ new \in Seq(Abs!Blocks) /\ Len(new) = Len(BranchOf(call))
      /\ \A i, j \in 1 .. Len(BranchOf(call)) : new[i].hash = new[j].hash => i = j
  BY <1>2 DEF Abs!IsBranch
<1>4. new \in Seq(Blocks)
  BY <1>3, SameTypes
<1> QED
  BY <1>3, <1>4 DEF BranchOK, Distinct, new

LEMMA BuiltFacts ==
    ASSUME MemoryOK, Abs!IInv, NEW l, l.call \in Calls, BuiltOK(l)
    PROVE  /\ l.new \in Seq(Blocks) /\ Len(l.new) = Len(BranchOf(l.call)) /\ Distinct(l.new)
           /\ Len(l.new) \in Nat
           /\ l.fork \in 0 .. Len(Value(ptr).canonical) - 1
           /\ l.call.op # "Reorg" => l.fork + 1 = Len(Value(ptr).canonical)
           /\ l.call.op # "Finalize" => Len(l.new) > 0
<1>1. /\ Error(Value(ptr), l.call) = "nil" /\ l.fork = ForkOf(Value(ptr), l.call)
      /\ l.new = Abs!BranchBlocks(CommittedSeq, ByNumber(Value(ptr), l.fork), BranchOf(l.call))
  BY DEF BuiltOK
<1>2. /\ l.fork \in 0 .. Len(Value(ptr).canonical) - 1
      /\ l.call.op # "Reorg" => l.fork + 1 = Len(Value(ptr).canonical)
      /\ l.call.op # "Finalize" => Len(BranchOf(l.call)) > 0
      /\ ByNumber(Value(ptr), l.fork) \in Blocks
  BY <1>1, ForkFacts
<1>3. CommittedSeq \in Nat
  BY PublishedFacts, RcuAssumption
<1>4. BranchOK(l.new, l.call)
  BY <1>1, <1>2, <1>3, BranchBuilt
<1>5. Len(BranchOf(l.call)) \in Nat
  BY CallTypes
<1> QED
  BY <1>2, <1>4, <1>5 DEF BranchOK

(***************************************************************************)
(* The steps                                                               *)
(***************************************************************************)

\* What every step does: it keeps the invariant, leaves every published
\* snapshot alone, and shows readers one step of the chain or none.
StepOK ==
    /\ RcuInv'
    /\ [Abs!Next]_Abs!chainVars
    /\ \A a \in Published : Value(a)' = Value(a)

\* Who is not idle holds the mutex.
LEMMA Holder ==
    ASSUME ControlOK, NEW w \in Writers, local[w].pc # "idle"
    PROVE  mu = w /\ w # NoOne /\ CallOK(local[w])
<1>1. mu = w
  BY DEF ControlOK, Idle
<1>2. w # NoOne
  BY RcuAssumption
<1> QED
  BY <1>1, <1>2 DEF ControlOK

\* The sequence numbers behind the published snapshot.
LEMMA Committed ==
    ASSUME NEW w \in Writers
    PROVE  /\ mu = NoOne => CommittedSeq = seq
           /\ mu = w /\ local[w].pc \in Building => CommittedSeq = seq - Len(local[w].new)
           /\ mu = w /\ local[w].pc \notin Building /\ seq \in Nat => CommittedSeq = seq
<1>1. w # NoOne
  BY RcuAssumption
<1> QED
  BY <1>1 DEF CommittedSeq, Unpublished, Building

LEMMA CommittedNext ==
    ASSUME NEW w \in Writers
    PROVE  /\ mu' = NoOne => CommittedSeq' = seq'
           /\ mu' = w /\ local'[w].pc \in Building => CommittedSeq' = seq' - Len(local'[w].new)
           /\ mu' = w /\ local'[w].pc \notin Building /\ seq' \in Nat => CommittedSeq' = seq'
<1>1. w # NoOne
  BY RcuAssumption
<1> QED
  BY <1>1 DEF CommittedSeq, Unpublished, Building

\* A step of the holder leaves the other calls idle.
LEMMA ControlKept ==
    ASSUME ControlOK, NEW w \in Writers, mu \in {w, NoOne},
           local' = [local EXCEPT ![w] = local'[w]],
           \/ mu' = w /\ CallOK(local[w])'
           \/ mu' = NoOne /\ local'[w] = Idle
    PROVE  ControlOK'
<1>1. w # NoOne /\ NoOne \notin Writers
  BY RcuAssumption
<1>2. /\ local' = [v \in Writers |-> local'[v]]
      /\ \A v \in Writers : v # w => local'[v] = local[v]
  BY DEF ControlOK
<1>3. \A v \in Writers : v # w => local'[v] = Idle
  BY <1>1, <1>2 DEF ControlOK
<1>4. CASE mu' = w /\ CallOK(local[w])'
  BY <1>1, <1>2, <1>3, <1>4 DEF ControlOK
<1>5. CASE mu' = NoOne /\ local'[w] = Idle
  BY <1>1, <1>2, <1>3, <1>5 DEF ControlOK
<1> QED
  BY <1>4, <1>5

\* A step that readers do not see keeps the chain's invariant.
LEMMA Unseen ==
    ASSUME Abs!IInv, Value(ptr)' = Value(ptr), CommittedSeq' = CommittedSeq
    PROVE  Abs!IInv' /\ [Abs!Next]_Abs!chainVars
<1>1. UNCHANGED Abs!chainVars
  BY DEF Abs!chainVars
<1> QED
  BY <1>1, Abs!StepPreservesIInv, ChainAssumptions

\* Nor does a step that leaves memory alone show them anything.
LEMMA MemoryKept ==
    ASSUME MemoryOK, UNCHANGED memory
    PROVE  /\ \A a : Value(a)' = Value(a)
           /\ ptr' = ptr => MemoryOK'
BY DEF memory, Value, MemoryOK

LEMMA LockStep ==
    ASSUME RcuInv, NEW w \in Writers, NEW call \in Calls, Lock(w, call)
    PROVE  StepOK
<1>1. /\ mu = NoOne /\ mu' = w /\ WithinBounds(call) /\ UNCHANGED <<memory, ptr, seq, announced>>
      /\ local' = [local EXCEPT ![w] = [pc |-> "check", call |-> call]]
  BY DEF Lock
<1>2. /\ MemoryOK' /\ Value(ptr)' = Value(ptr)
      /\ \A a \in Published : Value(a)' = Value(a)
  BY <1>1, MemoryKept DEF RcuInv
<1>3. local'[w] = [pc |-> "check", call |-> call]
  BY <1>1 DEF RcuInv, ControlOK
<1>4. CommittedSeq' = CommittedSeq
  BY <1>1, <1>3, Committed, CommittedNext DEF RcuInv, Building
<1>5. WithinBounds(call)'
  BY <1>1, <1>2 DEF WithinBounds, memory
<1>6. CallOK(local[w])'
  BY <1>3, <1>5 DEF CallOK
<1>7. ControlOK'
  BY <1>1, <1>3, <1>6, ControlKept DEF RcuInv
<1>8. Abs!IInv' /\ [Abs!Next]_Abs!chainVars
  BY <1>2, <1>4, Unseen DEF RcuInv
<1> QED
  BY <1>1, <1>2, <1>7, <1>8 DEF RcuInv, StepOK

LEMMA RefuseStep ==
    ASSUME RcuInv, NEW w \in Writers, Refuse(w)
    PROVE  StepOK
<1>1. /\ local[w].pc = "check" /\ mu' = NoOne /\ local' = [local EXCEPT ![w] = Idle]
      /\ UNCHANGED <<memory, ptr, seq, announced>>
  BY DEF Refuse
<1>2. mu = w
  BY <1>1, Holder DEF RcuInv
<1>3. /\ MemoryOK' /\ Value(ptr)' = Value(ptr)
      /\ \A a \in Published : Value(a)' = Value(a)
  BY <1>1, MemoryKept DEF RcuInv
<1>4. local'[w] = Idle
  BY <1>1 DEF RcuInv, ControlOK
<1>5. CommittedSeq' = CommittedSeq
  BY <1>1, <1>2, Committed, CommittedNext DEF RcuInv, Building
<1>6. ControlOK'
  BY <1>1, <1>2, <1>4, ControlKept DEF RcuInv
<1>7. Abs!IInv' /\ [Abs!Next]_Abs!chainVars
  BY <1>3, <1>5, Unseen DEF RcuInv
<1> QED
  BY <1>1, <1>3, <1>6, <1>7 DEF RcuInv, StepOK

LEMMA UnlockStep ==
    ASSUME RcuInv, NEW w \in Writers, Unlock(w)
    PROVE  StepOK
<1>1. /\ local[w].pc = "unlock" /\ mu' = NoOne /\ local' = [local EXCEPT ![w] = Idle]
      /\ UNCHANGED <<memory, ptr, seq, announced>>
  BY DEF Unlock
<1>2. mu = w
  BY <1>1, Holder DEF RcuInv
<1>3. /\ MemoryOK' /\ Value(ptr)' = Value(ptr)
      /\ \A a \in Published : Value(a)' = Value(a)
  BY <1>1, MemoryKept DEF RcuInv
<1>4. local'[w] = Idle
  BY <1>1 DEF RcuInv, ControlOK
<1>5. CommittedSeq' = CommittedSeq
  BY <1>1, <1>2, Committed, CommittedNext DEF RcuInv, Building
<1>6. ControlOK'
  BY <1>1, <1>2, <1>4, ControlKept DEF RcuInv
<1>7. Abs!IInv' /\ [Abs!Next]_Abs!chainVars
  BY <1>3, <1>5, Unseen DEF RcuInv
<1> QED
  BY <1>1, <1>3, <1>6, <1>7 DEF RcuInv, StepOK

LEMMA NotifyHeadsStep ==
    ASSUME RcuInv, NEW w \in Writers, NotifyHeads(w)
    PROVE  StepOK
<1> DEFINE head == local[w].new[Len(local[w].new)].hash
<1>1. /\ local[w].pc = "notify" /\ announced' = announced \cup {head}
      /\ local' = [local EXCEPT ![w].pc = "unlock"]
      /\ UNCHANGED <<memory, ptr, seq, mu>>
  BY DEF NotifyHeads
<1>2. mu = w /\ CallOK(local[w])
  BY <1>1, Holder DEF RcuInv
<1>3. head \in DOMAIN Value(ptr).blocks
  BY <1>1, <1>2 DEF CallOK, Drafting
<1>4. /\ MemoryOK' /\ Value(ptr)' = Value(ptr)
      /\ \A a \in Published : Value(a)' = Value(a)
  BY <1>1, MemoryKept DEF RcuInv
<1>5. local'[w] = [local[w] EXCEPT !.pc = "unlock"]
  BY <1>1 DEF RcuInv, ControlOK
<1>6. local'[w].pc = "unlock"
  <2>1. "pc" \in DOMAIN local[w]
    BY <1>1, <1>2 DEF CallOK, HasDraft, Drafting
  <2> QED
    BY <1>5, <2>1
<1> HIDE DEF head
<1>7. CommittedSeq' = CommittedSeq
  BY <1>1, <1>2, <1>6, Committed, CommittedNext DEF RcuInv, Building
<1>8. ControlOK'
  <2>1. CallOK(local[w])'
    BY <1>6 DEF CallOK
  <2>2. local' = [local EXCEPT ![w] = local'[w]]
    BY <1>1, <1>5
  <2> QED
    BY <1>1, <1>2, <2>1, <2>2, ControlKept DEF RcuInv
<1>9. Abs!IInv' /\ [Abs!Next]_Abs!chainVars
  BY <1>4, <1>7, Unseen DEF RcuInv
<1> QED
  BY <1>1, <1>3, <1>4, <1>8, <1>9 DEF RcuInv, StepOK

\* The steps of the holder that readers do not see, once the branch is built.
LEMMA DraftStep ==
    ASSUME RcuInv, NEW w \in Writers, local[w].pc \in {"clone"} \cup Drafting,
           UNCHANGED <<ptr, seq, mu, announced>>,
           local' = [local EXCEPT ![w] = local'[w]],
           local'[w].pc \in Drafting, HasDraft(local'[w]),
           local'[w].call = local[w].call, local'[w].fork = local[w].fork,
           local'[w].new = local[w].new,
           MemoryOK', Value(ptr)' = Value(ptr), \A a \in Published : Value(a)' = Value(a),
           DraftOK(local[w])'
    PROVE  StepOK
<1>1. mu = w /\ CallOK(local[w])
  BY Holder DEF RcuInv, Drafting
<1>2. local[w].call \in Calls /\ BuiltOK(local[w])
  BY <1>1 DEF CallOK, Drafting
<1>3. CommittedSeq' = CommittedSeq
  BY <1>1, Committed, CommittedNext DEF RcuInv, Building, Drafting
<1>4. BuiltOK(local[w])'
  BY <1>2, <1>3 DEF BuiltOK
<1>5. CallOK(local[w])'
  BY <1>2, <1>4 DEF CallOK
<1>6. ControlOK'
  BY <1>1, <1>5, ControlKept DEF RcuInv
<1>7. Abs!IInv' /\ [Abs!Next]_Abs!chainVars
  BY <1>3, Unseen DEF RcuInv
<1> QED
  BY <1>6, <1>7 DEF RcuInv, StepOK

\* No published snapshot is a draft.
LEMMA NotPublished ==
    ASSUME MemoryOK, NEW w \in Writers, local[w].pc \in Drafting
    PROVE  \A a \in Published : a \in 1 .. Len(snaps) /\ a # local[w].ns
<1>1. DOMAIN snaps = 1 .. Len(snaps)
  BY DEF MemoryOK
<1> QED
  BY <1>1 DEF Published, Drafting

\* The local variables after a step on the draft: the counters moved, the rest kept.
Moves(m, l, pc, done) ==
    /\ HasDraft(m)
    /\ m.pc = pc /\ m.done = done
    /\ m.call = l.call /\ m.new = l.new /\ m.fork = l.fork /\ m.ns = l.ns

LEMMA JobIsDraft ==
    ASSUME NEW pc, NEW call, NEW new, NEW fork, NEW ns, NEW done
    PROVE  HasDraft([pc |-> pc, call |-> call, new |-> new, fork |-> fork, ns |-> ns,
                     done |-> done])
BY DEF HasDraft

LEMMA JobMoves ==
    ASSUME NEW l, HasDraft(l), NEW pc, NEW done
    PROVE  /\ Moves([l EXCEPT !.pc = pc], l, pc, l.done)
           /\ Moves([l EXCEPT !.done = done, !.pc = pc], l, pc, done)
<1> DEFINE x == [l EXCEPT !.pc = pc]
           y == [l EXCEPT !.done = done, !.pc = pc]
<1>1. DOMAIN l = {"pc", "call", "new", "fork", "ns", "done"}
  BY DEF HasDraft
<1>2. ASSUME NEW m, m = [i \in DOMAIN m |-> m[i]], DOMAIN m = DOMAIN l
      PROVE  HasDraft(m)
  <2> DEFINE z == [pc |-> m.pc, call |-> m.call, new |-> m.new, fork |-> m.fork, ns |-> m.ns,
                   done |-> m.done]
  <2>1. /\ z.pc = m.pc /\ z.call = m.call /\ z.new = m.new /\ z.fork = m.fork
        /\ z.ns = m.ns /\ z.done = m.done
    OBVIOUS
  <2>2. DOMAIN z = {"pc", "call", "new", "fork", "ns", "done"} /\ z = [i \in DOMAIN z |-> z[i]]
    OBVIOUS
  <2> HIDE DEF z
  <2>3. z = m
    BY <1>1, <1>2, <2>1, <2>2
  <2> QED
    BY <2>3 DEF HasDraft, z
<1>3. /\ x.pc = pc /\ x.done = l.done
      /\ x.call = l.call /\ x.new = l.new /\ x.fork = l.fork /\ x.ns = l.ns
  BY <1>1
<1>4. /\ y.pc = pc /\ y.done = done
      /\ y.call = l.call /\ y.new = l.new /\ y.fork = l.fork /\ y.ns = l.ns
  BY <1>1
<1>5. x = [i \in DOMAIN x |-> x[i]] /\ DOMAIN x = DOMAIN l
  OBVIOUS
<1>6. y = [i \in DOMAIN y |-> y[i]] /\ DOMAIN y = DOMAIN l
  OBVIOUS
<1> HIDE DEF x, y
<1>7. HasDraft(x) /\ HasDraft(y)
  BY <1>2, <1>5, <1>6
<1> QED
  BY <1>3, <1>4, <1>7 DEF Moves, x, y

\* What a holder knows of its draft, and what a step on it leaves behind.
LEMMA DraftFacts ==
    ASSUME RcuInv, NEW w \in Writers, local[w].pc \in Drafting
    PROVE  /\ mu = w /\ MemoryOK /\ Abs!IInv
           /\ local[w].call \in Calls /\ HasDraft(local[w]) /\ BuiltOK(local[w])
           /\ DraftOK(local[w])
           /\ local[w].ns \in 1 .. Len(snaps) /\ local[w].ns # ptr
           /\ \A a \in Published : a \in 1 .. Len(snaps) /\ a # local[w].ns
<1>1. mu = w /\ CallOK(local[w]) /\ MemoryOK /\ Abs!IInv
  BY Holder DEF RcuInv, Drafting
<1>2. /\ local[w].call \in Calls /\ HasDraft(local[w]) /\ BuiltOK(local[w])
      /\ DraftOK(local[w])
  BY <1>1 DEF CallOK, Drafting
<1>3. local[w].ns \in 1 .. Len(snaps) /\ local[w].ns # ptr
  BY <1>2 DEF DraftOK
<1> QED
  BY <1>1, <1>2, <1>3, NotPublished

\* A step that writes behind one address only.
LEMMA WriteAt ==
    ASSUME MemoryOK, NEW n \in 1 .. Len(snaps), ptr' = ptr,
           maps' = [maps EXCEPT ![n] = maps'[n]], maps'[n] \in BlockMaps,
           arrays' = [arrays EXCEPT ![n] = arrays'[n]], arrays'[n] \in Seq(Hashes),
           snaps' = [snaps EXCEPT ![n] = snaps'[n]], snaps'[n] \in Headers,
           snaps'[n].blocks = n, snaps'[n].canonical.array = n,
           snaps'[n].canonical.len <= Len(arrays'[n])
    PROVE  /\ MemoryOK' /\ Len(snaps') = Len(snaps)
           /\ \A a \in 1 .. Len(snaps) : a # n => Value(a)' = Value(a)
<1>1. /\ maps \in Seq(BlockMaps) /\ arrays \in Seq(Seq(Hashes)) /\ snaps \in Seq(Headers)
      /\ Len(maps) = Len(snaps) /\ Len(arrays) = Len(snaps)
  BY DEF MemoryOK
<1>2. /\ maps' \in Seq(BlockMaps) /\ Len(maps') = Len(maps)
      /\ \A a \in 1 .. Len(snaps) : a # n => maps'[a] = maps[a]
  <2> DEFINE m == maps'[n]
  <2>1. m \in BlockMaps /\ maps' = [maps EXCEPT ![n] = m]
    OBVIOUS
  <2> HIDE DEF m
  <2> QED
    BY <1>1, <2>1, ExceptSeq
<1>3. /\ arrays' \in Seq(Seq(Hashes)) /\ Len(arrays') = Len(arrays)
      /\ \A a \in 1 .. Len(snaps) : a # n => arrays'[a] = arrays[a]
  <2> DEFINE m == arrays'[n]
  <2>1. m \in Seq(Hashes) /\ arrays' = [arrays EXCEPT ![n] = m]
    OBVIOUS
  <2> HIDE DEF m
  <2> QED
    BY <1>1, <2>1, ExceptSeq
<1>4. /\ snaps' \in Seq(Headers) /\ Len(snaps') = Len(snaps)
      /\ \A a \in 1 .. Len(snaps) : a # n => snaps'[a] = snaps[a]
  <2> DEFINE m == snaps'[n]
  <2>1. m \in Headers /\ snaps' = [snaps EXCEPT ![n] = m]
    OBVIOUS
  <2> HIDE DEF m
  <2> QED
    BY <1>1, <2>1, ExceptSeq
<1>5. MemoryOK'
  <2>1. ASSUME NEW a \in 1 .. Len(snaps)
        PROVE  /\ snaps'[a].blocks = a /\ snaps'[a].canonical.array = a
               /\ snaps'[a].canonical.len <= Len(arrays'[a])
    <3>1. CASE a = n
      BY <3>1
    <3>2. CASE a # n
      BY <1>3, <1>4, <3>2 DEF MemoryOK
    <3> QED
      BY <3>1, <3>2
  <2>2. ptr' \in 1 .. Len(snaps')
    BY <1>4 DEF MemoryOK
  <2> QED
    BY <1>1, <1>2, <1>3, <1>4, <2>1, <2>2 DEF MemoryOK
<1>6. ASSUME NEW a \in 1 .. Len(snaps), a # n
      PROVE  Value(a)' = Value(a)
  BY <1>2, <1>3, <1>4, <1>5, <1>6, ValueKept
<1> QED
  BY <1>4, <1>5, <1>6

LEMMA BuildStep ==
    ASSUME RcuInv, NEW w \in Writers, Build(w)
    PROVE  StepOK
<1> DEFINE call == local[w].call
           fork == ForkOf(Value(ptr), call)
           branch == BranchOf(call)
           new  == Abs!BranchBlocks(seq, ByNumber(Value(ptr), fork), branch)
<1>1. /\ local[w].pc = "check" /\ Error(Value(ptr), call) = "nil"
      /\ seq' = seq + Len(branch)
      /\ local' = [local EXCEPT ![w] = [pc |-> "clone", call |-> call, cur |-> ptr,
                                        fork |-> fork, new |-> new]]
      /\ UNCHANGED <<memory, ptr, mu, announced>>
  BY SameBranch DEF Build
<1>2. mu = w /\ CallOK(local[w]) /\ seq \in Nat
  BY <1>1, Holder DEF RcuInv
<1>3. call \in Calls /\ WithinBounds(call)
  BY <1>1, <1>2 DEF CallOK, Drafting
<1>4. /\ MemoryOK' /\ Value(ptr)' = Value(ptr)
      /\ \A a \in Published : Value(a)' = Value(a)
  BY <1>1, MemoryKept DEF RcuInv
<1>5. /\ new \in Seq(Blocks) /\ Len(new) = Len(branch) /\ Len(branch) \in Nat
  <2>1. ByNumber(Value(ptr), fork) \in Blocks
    BY <1>1, <1>3, ForkFacts DEF RcuInv
  <2>2. BranchOK(new, call)
    BY <1>2, <1>3, <2>1, BranchBuilt
  <2>3. Len(branch) \in Nat
    BY <1>3, CallTypes
  <2> HIDE DEF new
  <2> QED
    BY <2>2, <2>3 DEF BranchOK
<1>6. local'[w] = [pc |-> "clone", call |-> call, cur |-> ptr, fork |-> fork, new |-> new]
  BY <1>1 DEF RcuInv, ControlOK
<1>7. seq + Len(branch) <= MaxSeq
  BY <1>1, <1>3 DEF WithinBounds
<1> HIDE DEF call, fork, branch, new
<1>8. CommittedSeq = seq
  BY <1>1, <1>2, Committed DEF Building
<1>9. CommittedSeq' = seq
  <2>1. CommittedSeq' = seq' - Len(new)
    <3>1. local'[w].pc = "clone" /\ local'[w].new = new /\ mu' = w
      BY <1>1, <1>2, <1>6
    <3> QED
      BY <3>1, CommittedNext DEF Building
  <2> QED
    BY <1>1, <1>2, <1>5, <2>1
<1>10. BuiltOK(local[w])'
  <2>1. Error(Value(ptr), call)' = "nil"
    BY <1>1, <1>4, <1>6 DEF call
  <2> QED
  BY <1>1, <1>4, <1>5, <1>6, <1>7, <1>9 DEF BuiltOK, fork, new, branch
<1>11. ControlOK'
  <2>1. CallOK(local[w])'
    BY <1>1, <1>3, <1>6, <1>10 DEF CallOK
  <2> QED
    BY <1>1, <1>2, <1>6, <2>1, ControlKept DEF RcuInv
<1>12. Abs!IInv' /\ [Abs!Next]_Abs!chainVars
  BY <1>4, <1>8, <1>9, Unseen DEF RcuInv
<1>13. seq' \in Nat
  BY <1>1, <1>2, <1>5
<1> QED
  BY <1>1, <1>4, <1>11, <1>12, <1>13 DEF RcuInv, StepOK

\* The header of a copy: a map and an array at the copy's own address.
LEMMA HeaderCopy ==
    ASSUME NEW h \in Headers, NEW n
    PROVE  [h EXCEPT !.blocks = n, !.canonical.array = n]
             = [blocks    |-> n,
                canonical |-> [array |-> n, len |-> h.canonical.len],
                head      |-> h.head,
                finalized |-> h.finalized]
<1> DEFINE c == [array |-> n, len |-> h.canonical.len]
           x == [h EXCEPT !.blocks = n, !.canonical = c]
           y == [blocks |-> n, canonical |-> c, head |-> h.head, finalized |-> h.finalized]
<1>1. [h.canonical EXCEPT !.array = n] = c
  <2>1. h.canonical \in [array : Nat, len : Nat]
    BY DEF Headers
  <2> QED
    BY <2>1
<1>2. [h EXCEPT !.blocks = n, !.canonical.array = n]
        = [h EXCEPT !.blocks = n, !.canonical = [h.canonical EXCEPT !.array = n]]
  OBVIOUS
<1>3. x = y
  <2> HIDE DEF c
  <2>1. DOMAIN h = {"blocks", "canonical", "head", "finalized"}
    BY DEF Headers
  <2>2. DOMAIN x = DOMAIN h /\ x = [i \in DOMAIN x |-> x[i]]
    OBVIOUS
  <2>3. x.blocks = n /\ x.canonical = c /\ x.head = h.head /\ x.finalized = h.finalized
    BY <2>1
  <2>4. /\ DOMAIN y = {"blocks", "canonical", "head", "finalized"}
        /\ y = [i \in DOMAIN y |-> y[i]]
    OBVIOUS
  <2>5. y.blocks = n /\ y.canonical = c /\ y.head = h.head /\ y.finalized = h.finalized
    OBVIOUS
  <2> HIDE DEF x, y
  <2> QED
    BY <2>1, <2>2, <2>3, <2>4, <2>5
<1> QED
  BY <1>1, <1>2, <1>3 DEF c

LEMMA CloneStep ==
    ASSUME RcuInv, NEW w \in Writers, Clone(w)
    PROVE  StepOK
<1> DEFINE l == local[w]
           path == Value(ptr).canonical
<1>0. PICK n : n = Len(snaps) + 1
  OBVIOUS
<1> DEFINE copy == [blocks    |-> n,
                    canonical |-> [array |-> n, len |-> snaps[ptr].canonical.len],
                    head      |-> snaps[ptr].head,
                    finalized |-> snaps[ptr].finalized]
<1>1. l.pc = "clone" /\ UNCHANGED <<ptr, seq, mu, announced>>
  BY DEF Clone
<1>2. mu = w /\ CallOK(l) /\ MemoryOK
  BY <1>1, Holder DEF RcuInv
<1>3. l.call \in Calls /\ BuiltOK(l) /\ l.cur = ptr
  BY <1>1, <1>2 DEF CallOK, Drafting
<1>4. /\ maps \in Seq(BlockMaps) /\ arrays \in Seq(Seq(Hashes)) /\ snaps \in Seq(Headers)
      /\ Len(maps) = Len(snaps) /\ Len(arrays) = Len(snaps) /\ Len(snaps) \in Nat
      /\ ptr \in 1 .. Len(snaps)
  BY <1>2 DEF MemoryOK
<1>5. /\ Value(ptr) = [blocks    |-> maps[ptr],
                       canonical |-> path,
                       head      |-> snaps[ptr].head,
                       finalized |-> snaps[ptr].finalized]
      /\ maps[ptr] \in BlockMaps /\ snaps[ptr] \in Headers
      /\ snaps[ptr].blocks = ptr
      /\ path \in Seq(Hashes) /\ Len(path) = snaps[ptr].canonical.len
  <2>1. Value(ptr) = [blocks    |-> maps[ptr],
                      canonical |-> SubSeq(arrays[ptr], 1, snaps[ptr].canonical.len),
                      head      |-> snaps[ptr].head,
                      finalized |-> snaps[ptr].finalized]
    BY <1>2, <1>4, ValueIs
  <2>2. /\ maps[ptr] \in BlockMaps /\ snaps[ptr] \in Headers
        /\ path \in Seq(Hashes) /\ Len(path) = snaps[ptr].canonical.len
    BY <1>2, <1>4, ValueIs
  <2>3. snaps[ptr].blocks = ptr
    BY <1>2 DEF MemoryOK
  <2> QED
    BY <2>1, <2>2, <2>3
<1>6. maps' = Append(maps, maps[ptr]) /\ arrays' = Append(arrays, path)
  BY <1>3, <1>5 DEF Clone, CloneOf
<1> HIDE DEF path
<1>7. /\ maps' \in Seq(BlockMaps) /\ Len(maps') = n /\ maps'[n] = maps[ptr]
      /\ \A a \in 1 .. Len(snaps) : maps'[a] = maps[a]
  <2> DEFINE e == maps[ptr]
  <2>1. e \in BlockMaps /\ maps' = Append(maps, e)
    BY <1>5, <1>6
  <2> HIDE DEF e
  <2>2. /\ maps' \in Seq(BlockMaps) /\ Len(maps') = Len(maps) + 1
        /\ \A a \in 1 .. Len(maps) : maps'[a] = maps[a]
        /\ maps'[Len(maps) + 1] = e
    <3> DEFINE more == Append(maps, e)
    <3>1. /\ more \in Seq(BlockMaps) /\ Len(more) = Len(maps) + 1
          /\ \A a \in 1 .. Len(maps) : more[a] = maps[a]
          /\ more[Len(maps) + 1] = e
      <4>1. maps \in Seq(BlockMaps)
        BY <1>4
      <4> QED
        BY <2>1, <4>1, AppendProperties
    <3>2. maps' = more
      BY <2>1
    <3> HIDE DEF more
    <3> QED
      BY <3>1, <3>2
  <2> QED
    BY <1>0, <1>4, <2>2 DEF e
<1>8. /\ arrays' \in Seq(Seq(Hashes)) /\ Len(arrays') = n /\ arrays'[n] = path
      /\ \A a \in 1 .. Len(snaps) : arrays'[a] = arrays[a]
  <2>1. /\ arrays' \in Seq(Seq(Hashes)) /\ Len(arrays') = Len(arrays) + 1
        /\ \A a \in 1 .. Len(arrays) : arrays'[a] = arrays[a]
        /\ arrays'[Len(arrays) + 1] = path
    <3> DEFINE more == Append(arrays, path)
    <3>1. /\ more \in Seq(Seq(Hashes)) /\ Len(more) = Len(arrays) + 1
          /\ \A a \in 1 .. Len(arrays) : more[a] = arrays[a]
          /\ more[Len(arrays) + 1] = path
      <4>1. arrays \in Seq(Seq(Hashes)) /\ path \in Seq(Hashes)
        BY <1>4, <1>5
      <4> QED
        BY <4>1, AppendProperties
    <3>2. arrays' = more
      BY <1>6
    <3> HIDE DEF more
    <3> QED
      BY <3>1, <3>2
  <2> QED
    BY <1>0, <1>4, <2>1
<1>9. snaps' = Append(snaps, copy)
  <2>1. snaps' = Append(snaps, [snaps[ptr] EXCEPT !.blocks = n, !.canonical.array = n])
    <3>1. Len(maps') = n /\ Len(arrays') = n
      BY <1>7, <1>8
    <3> QED
      BY <1>3, <3>1 DEF Clone, CloneOf
  <2>2. [snaps[ptr] EXCEPT !.blocks = n, !.canonical.array = n] = copy
    BY <1>5, HeaderCopy
  <2> QED
    BY <2>1, <2>2
<1>10. copy \in Headers
  <2>1. /\ snaps[ptr].canonical.len \in Nat /\ snaps[ptr].head \in Hashes
        /\ snaps[ptr].finalized \in Nat
    BY <1>5 DEF Headers
  <2>2. n \in Nat
    BY <1>0, <1>4
  <2> QED
    BY <2>1, <2>2 DEF Headers
<1> HIDE DEF copy
<1>11. /\ snaps' \in Seq(Headers) /\ Len(snaps') = n /\ snaps'[n] = copy
       /\ \A a \in 1 .. Len(snaps) : snaps'[a] = snaps[a]
  <2>1. /\ snaps' \in Seq(Headers) /\ Len(snaps') = Len(snaps) + 1
        /\ \A a \in 1 .. Len(snaps) : snaps'[a] = snaps[a]
        /\ snaps'[Len(snaps) + 1] = copy
    BY <1>4, <1>9, <1>10, AppendProperties
  <2> QED
    BY <1>0, <2>1
<1>12. MemoryOK'
  <2>1. ASSUME NEW a \in 1 .. n
        PROVE  /\ snaps'[a].blocks = a /\ snaps'[a].canonical.array = a
               /\ snaps'[a].canonical.len <= Len(arrays'[a])
    <3>1. CASE a = n
      <4>1. copy.blocks = n /\ copy.canonical.array = n /\ copy.canonical.len = Len(path)
        BY <1>5 DEF copy
      <4>2. Len(path) <= Len(path)
        BY <1>5
      <4> QED
        BY <1>8, <1>11, <3>1, <4>1, <4>2
    <3>2. CASE a # n
      <4>1. a \in 1 .. Len(snaps)
        BY <1>4, <1>0, <3>2
      <4> QED
        BY <1>2, <1>8, <1>11, <4>1 DEF MemoryOK
    <3> QED
      BY <3>1, <3>2
  <2>2. ptr' \in 1 .. n
    BY <1>0, <1>1, <1>4
  <2> QED
    BY <1>7, <1>8, <1>11, <2>1, <2>2 DEF MemoryOK
<1>13. ASSUME NEW a \in 1 .. Len(snaps) PROVE Value(a)' = Value(a)
  <2>1. a \in 1 .. Len(snaps')
    BY <1>0, <1>4, <1>11
  <2> QED
    BY <1>2, <1>7, <1>8, <1>11, <1>12, <2>1, ValueKept
<1>14. /\ Value(ptr)' = Value(ptr)
       /\ \A a \in Published : Value(a)' = Value(a)
  <2>1. Published \subseteq 1 .. Len(snaps)
    BY <1>4 DEF Published
  <2> QED
    BY <1>1, <1>4, <1>13, <2>1
<1>15. Value(n)' = Value(ptr)
  <2>1. /\ snaps'[n].blocks = n /\ snaps'[n].canonical.array = n
        /\ snaps'[n].canonical.len = Len(path)
        /\ snaps'[n].head = snaps[ptr].head /\ snaps'[n].finalized = snaps[ptr].finalized
    BY <1>5, <1>11 DEF copy
  <2>2. SubSeq(path, 1, Len(path)) = path
    BY <1>5, SubSeqFull
  <2> QED
    BY <1>5, <1>7, <1>8, <2>1, <2>2 DEF Value
<1>16. local' = [local EXCEPT ![w] = local'[w]] /\ HasDraft(local'[w])
       /\ local'[w].call = l.call /\ local'[w].fork = l.fork /\ local'[w].new = l.new
       /\ local'[w].ns = n /\ local'[w].done = 0
       /\ local'[w].pc = CASE l.call.op = "ProduceBlock" -> "insert"
                           [] l.call.op = "Finalize"     -> "finish"
                           [] l.call.op = "Reorg"        -> "truncate"
  <2> DEFINE next == CASE l.call.op = "ProduceBlock" -> "insert"
                       [] l.call.op = "Finalize"     -> "finish"
                       [] l.call.op = "Reorg"        -> "truncate"
             job == [pc |-> next, call |-> l.call, new |-> l.new, fork |-> l.fork, ns |-> n,
                     done |-> 0]
  <2>1. local' = [local EXCEPT ![w] = job]
    <3>1. Len(snaps') = n
      BY <1>11
    <3> QED
      BY <3>1, Zenon DEF Clone
  <2> HIDE DEF next
  <2>2. HasDraft(job)
    BY JobIsDraft
  <2>3. /\ job.pc = next /\ job.call = l.call /\ job.fork = l.fork /\ job.new = l.new
        /\ job.ns = n /\ job.done = 0
    OBVIOUS
  <2> HIDE DEF job
  <2>4. local'[w] = job /\ local' = [local EXCEPT ![w] = local'[w]]
    BY <2>1 DEF RcuInv, ControlOK
  <2>5. HasDraft(local'[w])
    BY <2>2, <2>4
  <2> QED
    BY <2>3, <2>4, <2>5 DEF next
<1>17. DraftOK(local[w])' /\ local'[w].pc \in Drafting
  <2>1. /\ l.new \in Seq(Blocks) /\ Distinct(l.new) /\ Len(l.new) \in Nat
        /\ l.fork \in 0 .. Len(Value(ptr).canonical) - 1
        /\ l.call.op # "Reorg" => l.fork + 1 = Len(Value(ptr).canonical)
        /\ l.call.op # "Finalize" => Len(l.new) > 0
    BY <1>2, <1>3, BuiltFacts DEF RcuInv
  <2>2. local'[w].ns \in 1 .. Len(snaps') /\ local'[w].ns # ptr'
    BY <1>0, <1>1, <1>4, <1>11, <1>16
  <2>3. local'[w].done \in 0 .. Len(local'[w].new) /\ local'[w].done = 0
    BY <1>16, <2>1
  <2>4. Value(local[w].ns)' = Value(ptr)' /\ Value(ptr)' = Value(ptr)
    <3>1. Value(local[w].ns)' = Value(n)'
      BY <1>16 DEF Value
    <3> QED
      BY <1>14, <1>15, <3>1
  <2>5. l.call.op \in {"ProduceBlock", "Finalize", "Reorg"}
    BY <1>3, CallTypes
  <2>6. CASE l.call.op = "ProduceBlock"
    <3>1. Partial(Value(ptr), l.fork, l.new, 0) = Value(ptr)
      BY <1>2, <2>1, <2>6, PartialNone, PublishedFacts DEF RcuInv
    <3>2. local'[w].pc = "insert"
      BY <1>16, <2>6
    <3> QED
      BY <1>16, <2>1, <2>2, <2>3, <2>4, <2>6, <3>1, <3>2 DEF DraftOK, Drafting
  <2>7. CASE l.call.op = "Finalize"
    <3>1. local'[w].pc = "finish"
      BY <1>16, <2>7
    <3> QED
      BY <1>16, <2>2, <2>3, <2>4, <2>7, <3>1 DEF DraftOK, Drafting
  <2>8. CASE l.call.op = "Reorg"
    <3>1. local'[w].pc = "truncate"
      BY <1>16, <2>8
    <3> QED
      BY <1>16, <2>2, <2>3, <2>4, <2>8, <3>1 DEF DraftOK, Drafting
  <2> QED
    BY <2>5, <2>6, <2>7, <2>8
<1> QED
  BY <1>1, <1>12, <1>14, <1>16, <1>17, DraftStep

\* Cutting a slice that was cut before, behind the new end.
LEMMA FrontOfFront ==
    ASSUME NEW S, NEW s \in Seq(S), NEW m \in 0 .. Len(s), NEW n \in 0 .. m
    PROVE  SubSeq(SubSeq(s, 1, m), 1, n) = SubSeq(s, 1, n)
<1> DEFINE front == SubSeq(s, 1, m)
           a == SubSeq(front, 1, n)
           b == SubSeq(s, 1, n)
<1>1. m \in Nat /\ n \in Nat /\ n <= m /\ m <= Len(s) /\ Len(s) \in Nat
  OBVIOUS
<1>2. front \in Seq(S) /\ Len(front) = m /\ \A i \in 1 .. m : front[i] = s[i]
  BY Front
<1> HIDE DEF front
<1>3. a \in Seq(S) /\ Len(a) = n /\ \A i \in 1 .. n : a[i] = front[i]
  BY <1>1, <1>2, Front
<1>4. b \in Seq(S) /\ Len(b) = n /\ \A i \in 1 .. n : b[i] = s[i]
  BY <1>1, Front
<1> HIDE DEF a, b
<1>5. \A i \in 1 .. n : a[i] = b[i]
  BY <1>1, <1>2, <1>3, <1>4
<1>6. a = b
  BY <1>3, <1>4, <1>5, SeqEqual
<1> QED
  BY <1>6 DEF a, b, front

\* The header of a snapshot with one of its fields set.
LEMMA HeaderCut ==
    ASSUME NEW h \in Headers, NEW len \in Nat
    PROVE  /\ [h EXCEPT !.canonical.len = len] \in Headers
           /\ [h EXCEPT !.canonical.len = len].blocks = h.blocks
           /\ [h EXCEPT !.canonical.len = len].canonical.array = h.canonical.array
           /\ [h EXCEPT !.canonical.len = len].canonical.len = len
           /\ [h EXCEPT !.canonical.len = len].head = h.head
           /\ [h EXCEPT !.canonical.len = len].finalized = h.finalized
BY DEF Headers

LEMMA HeaderMoved ==
    ASSUME NEW h \in Headers, NEW hash \in Hashes
    PROVE  /\ [h EXCEPT !.head = hash] \in Headers
           /\ [h EXCEPT !.head = hash].blocks = h.blocks
           /\ [h EXCEPT !.head = hash].canonical = h.canonical
           /\ [h EXCEPT !.head = hash].head = hash
           /\ [h EXCEPT !.head = hash].finalized = h.finalized
BY DEF Headers

LEMMA HeaderFinalized ==
    ASSUME NEW h \in Headers, NEW height \in Nat
    PROVE  /\ [h EXCEPT !.finalized = height] \in Headers
           /\ [h EXCEPT !.finalized = height].blocks = h.blocks
           /\ [h EXCEPT !.finalized = height].canonical = h.canonical
           /\ [h EXCEPT !.finalized = height].head = h.head
           /\ [h EXCEPT !.finalized = height].finalized = height
BY DEF Headers

LEMMA TruncateStep ==
    ASSUME RcuInv, NEW w \in Writers, Truncate(w)
    PROVE  StepOK
<1> DEFINE l == local[w]
           s == Value(ptr)
<1>0. PICK n : n = l.ns
  OBVIOUS
<1>1. /\ l.pc = "truncate" /\ l.pc \in Drafting
      /\ snaps' = [snaps EXCEPT ![n].canonical.len = l.fork + 1]
      /\ local' = [local EXCEPT ![w].pc = "insert"]
      /\ UNCHANGED <<maps, arrays, ptr, seq, mu, announced>>
  BY <1>0 DEF Truncate, Drafting
<1>2. /\ mu = w /\ MemoryOK /\ Abs!IInv
      /\ l.call \in Calls /\ HasDraft(l) /\ BuiltOK(l) /\ DraftOK(l)
      /\ n \in 1 .. Len(snaps) /\ n # ptr
      /\ \A a \in Published : a \in 1 .. Len(snaps) /\ a # n
  BY <1>0, <1>1, DraftFacts
<1>3. l.call.op = "Reorg" /\ l.done = 0 /\ Value(n) = s
  BY <1>0, <1>1, <1>2 DEF DraftOK
<1>4. /\ l.new \in Seq(Blocks) /\ Distinct(l.new) /\ Len(l.new) \in Nat /\ Len(l.new) > 0
      /\ l.fork \in 0 .. Len(s.canonical) - 1
      /\ IsSnapshot(s)
  <2>1. IsSnapshot(s)
    BY <1>2, PublishedFacts
  <2>2. /\ l.new \in Seq(Blocks) /\ Distinct(l.new) /\ Len(l.new) \in Nat
        /\ l.fork \in 0 .. Len(s.canonical) - 1
        /\ l.call.op # "Finalize" => Len(l.new) > 0
    BY <1>2, BuiltFacts
  <2>3. l.call.op # "Finalize"
    BY <1>3
  <2> QED
    BY <2>1, <2>2, <2>3
<1>5. /\ s = [blocks    |-> maps[n],
              canonical |-> SubSeq(arrays[n], 1, snaps[n].canonical.len),
              head      |-> snaps[n].head,
              finalized |-> snaps[n].finalized]
      /\ maps[n] \in BlockMaps /\ arrays[n] \in Seq(Hashes) /\ snaps[n] \in Headers
      /\ snaps[n].canonical.len \in 0 .. Len(arrays[n])
      /\ Len(s.canonical) = snaps[n].canonical.len
  BY <1>2, <1>3, ValueIs
<1>6. snaps[n].blocks = n /\ snaps[n].canonical.array = n
  BY <1>2 DEF MemoryOK
<1> DEFINE cut == l.fork + 1
<1>7. cut \in Nat /\ cut \in 0 .. snaps[n].canonical.len /\ cut <= Len(arrays[n])
  BY <1>4, <1>5
<1> HIDE DEF s, cut
<1>8. /\ snaps' = [snaps EXCEPT ![n] = snaps'[n]]
      /\ snaps'[n] \in Headers /\ snaps'[n].blocks = n /\ snaps'[n].canonical.array = n
      /\ snaps'[n].canonical.len = cut
      /\ snaps'[n].head = snaps[n].head /\ snaps'[n].finalized = snaps[n].finalized
  <2> DEFINE h == [snaps[n] EXCEPT !.canonical.len = cut]
  <2>1. /\ h \in Headers /\ h.blocks = n /\ h.canonical.array = n /\ h.canonical.len = cut
        /\ h.head = snaps[n].head /\ h.finalized = snaps[n].finalized
    BY <1>5, <1>6, <1>7, HeaderCut
  <2>2. snaps' = [snaps EXCEPT ![n] = h]
    BY <1>1 DEF cut
  <2> HIDE DEF h
  <2>3. snaps'[n] = h
    BY <1>2, <2>2 DEF MemoryOK
  <2> QED
    BY <2>1, <2>2, <2>3
<1>9. maps' = [maps EXCEPT ![n] = maps'[n]] /\ arrays' = [arrays EXCEPT ![n] = arrays'[n]]
  BY <1>1, <1>2 DEF MemoryOK
<1>10. /\ MemoryOK' /\ Len(snaps') = Len(snaps)
       /\ \A a \in 1 .. Len(snaps) : a # n => Value(a)' = Value(a)
  BY <1>1, <1>2, <1>5, <1>7, <1>8, <1>9, WriteAt
<1>11. Value(ptr)' = Value(ptr) /\ \A a \in Published : Value(a)' = Value(a)
  <2>1. Value(ptr)' = Value(ptr)
    BY <1>1, <1>2, <1>10 DEF MemoryOK
  <2> QED
    BY <1>2, <1>10, <2>1
<1>12. Value(n)' = Partial(s, l.fork, l.new, 0)
  <2>1. Value(n)' = [blocks |-> maps[n], canonical |-> SubSeq(arrays[n], 1, cut),
                     head |-> snaps[n].head, finalized |-> snaps[n].finalized]
    BY <1>1, <1>8 DEF Value
  <2>2. SubSeq(arrays[n], 1, cut) = SubSeq(s.canonical, 1, cut)
    <3>1. SubSeq(SubSeq(arrays[n], 1, snaps[n].canonical.len), 1, cut) = SubSeq(arrays[n], 1, cut)
      BY <1>5, <1>7, FrontOfFront
    <3> QED
      BY <1>5, <3>1
  <2>3. Partial(s, l.fork, l.new, 0)
          = [blocks |-> s.blocks, canonical |-> SubSeq(s.canonical, 1, cut),
             head |-> s.head, finalized |-> s.finalized]
    BY <1>4, PartialNone DEF cut
  <2>4. s.blocks = maps[n] /\ s.head = snaps[n].head /\ s.finalized = snaps[n].finalized
    BY <1>5
  <2> QED
    BY <2>1, <2>2, <2>3, <2>4
<1>13. local' = [local EXCEPT ![w] = local'[w]] /\ Moves(local'[w], l, "insert", 0)
  <2> DEFINE m == [l EXCEPT !.pc = "insert"]
  <2>1. Moves(m, l, "insert", 0)
    BY <1>2, <1>3, JobMoves
  <2>2. local' = [local EXCEPT ![w] = m]
    BY <1>1
  <2> HIDE DEF m
  <2>3. local'[w] = m
    BY <2>2 DEF RcuInv, ControlOK
  <2> QED
    BY <2>1, <2>2, <2>3
<1>14. DraftOK(local[w])' /\ local'[w].pc \in Drafting
  <2>1. /\ local'[w].pc = "insert" /\ local'[w].done = 0 /\ local'[w].call = l.call
        /\ local'[w].new = l.new /\ local'[w].fork = l.fork /\ local'[w].ns = n
    BY <1>0, <1>13 DEF Moves
  <2>2. Value(local[w].ns)' = Partial(Value(ptr)', local'[w].fork, local'[w].new, local'[w].done)
    <3>1. Value(local[w].ns)' = Value(n)'
      BY <2>1 DEF Value
    <3> QED
      BY <1>11, <1>12, <2>1, <3>1 DEF s
  <2>3. /\ local'[w].ns \in 1 .. Len(snaps') /\ local'[w].ns # ptr'
        /\ local'[w].done \in 0 .. Len(local'[w].new) /\ local'[w].done < Len(local'[w].new)
        /\ local'[w].call.op # "Finalize"
    BY <1>1, <1>2, <1>3, <1>4, <1>10, <2>1
  <2> QED
    BY <2>1, <2>2, <2>3 DEF DraftOK, Drafting, Partial
<1> QED
  BY <1>1, <1>10, <1>11, <1>13, <1>14, DraftStep DEF Moves

\* A map of blocks with one more block in it is one.
LEMMA MapWithOne ==
    ASSUME NEW m \in BlockMaps, NEW e \in Blocks
    PROVE  Abs!AddBlocks(m, <<e>>) \in BlockMaps
<1> DEFINE b == Abs!AddBlocks(m, <<e>>)
           one == <<e>>
<1>1. m = [h \in DOMAIN m |-> m[h]] /\ DOMAIN m \subseteq Hashes
      /\ \A h \in DOMAIN m : m[h] \in Blocks
  BY DEF BlockMaps
<1>2. DOMAIN one = {1} /\ one[1] = e
  OBVIOUS
<1>3. e.hash \in Hashes
  BY DEF Blocks
<1> HIDE DEF one
<1>4. /\ b = [h \in DOMAIN b |-> b[h]]
      /\ DOMAIN b = DOMAIN m \cup {one[i].hash : i \in DOMAIN one}
      /\ \A h \in DOMAIN b :
           b[h] = IF \E i \in DOMAIN one : one[i].hash = h
                  THEN one[CHOOSE i \in DOMAIN one : one[i].hash = h]
                  ELSE m[h]
  BY DEF Abs!AddBlocks, one
<1> HIDE DEF b
<1>5. DOMAIN b \subseteq Hashes
  BY <1>1, <1>2, <1>3, <1>4
<1>6. ASSUME NEW h \in DOMAIN b PROVE b[h] \in Blocks
  <2>1. CASE \E i \in DOMAIN one : one[i].hash = h
    <3>1. (CHOOSE i \in DOMAIN one : one[i].hash = h) \in DOMAIN one
      BY <2>1
    <3>2. b[h] = one[CHOOSE i \in DOMAIN one : one[i].hash = h]
      BY <1>4, <2>1
    <3> QED
      BY <1>2, <3>1, <3>2
  <2>2. CASE ~ \E i \in DOMAIN one : one[i].hash = h
    BY <1>1, <1>4, <2>2
  <2> QED
    BY <2>1, <2>2
<1>7. b \in BlockMaps
  BY <1>4, <1>5, <1>6 DEF BlockMaps
<1> QED
  BY <1>7 DEF b

LEMMA InsertStep ==
    ASSUME RcuInv, NEW w \in Writers, Insert(w)
    PROVE  StepOK
<1> DEFINE l == local[w]
           s == Value(ptr)
           k == l.done
           block == l.new[k + 1]
<1>0. PICK n : n = l.ns
  OBVIOUS
<1> DEFINE end == snaps[n].canonical.len + 1
           pc == IF k + 1 = Len(l.new) THEN "finish" ELSE l.pc
<1>1. l.pc = "insert" /\ l.pc \in Drafting /\ UNCHANGED <<ptr, seq, mu, announced>>
  BY DEF Insert, Drafting
<1>2. /\ mu = w /\ MemoryOK /\ Abs!IInv
      /\ l.call \in Calls /\ HasDraft(l) /\ BuiltOK(l) /\ DraftOK(l)
      /\ n \in 1 .. Len(snaps) /\ n # ptr
      /\ \A a \in Published : a \in 1 .. Len(snaps) /\ a # n
  BY <1>0, <1>1, DraftFacts
<1>3. /\ l.call.op # "Finalize" /\ k \in 0 .. Len(l.new) /\ k < Len(l.new)
      /\ Value(n) = Partial(s, l.fork, l.new, k)
  BY <1>0, <1>1, <1>2 DEF DraftOK
<1>4. /\ l.new \in Seq(Blocks) /\ Distinct(l.new) /\ Len(l.new) \in Nat
      /\ l.fork \in 0 .. Len(s.canonical) - 1
      /\ IsSnapshot(s)
  BY <1>2, BuiltFacts, PublishedFacts
<1>5. /\ Value(n) = [blocks    |-> maps[n],
                     canonical |-> SubSeq(arrays[n], 1, snaps[n].canonical.len),
                     head      |-> snaps[n].head,
                     finalized |-> snaps[n].finalized]
      /\ maps[n] \in BlockMaps /\ arrays[n] \in Seq(Hashes) /\ snaps[n] \in Headers
      /\ snaps[n].canonical.len \in 0 .. Len(arrays[n])
  BY <1>2, ValueIs
<1>6. snaps[n].blocks = n /\ snaps[n].canonical.array = n
  BY <1>2 DEF MemoryOK
<1>7. /\ maps' = [maps EXCEPT ![n] = Abs!AddBlocks(maps[n], <<block>>)]
      /\ arrays' = [arrays EXCEPT ![n] =
                      Written(arrays[n], snaps[n].canonical.len, block.hash)]
      /\ snaps' = [snaps EXCEPT ![n].canonical.len = end]
  BY <1>0, <1>6, SameAdd DEF Insert, Written
<1>8. /\ local' = [local EXCEPT ![w] = [l EXCEPT !.done = k + 1, !.pc = pc]]
  BY DEF Insert
<1>9. block \in Blocks /\ block.hash \in Hashes
  <2>1. block \in Blocks
    BY <1>3, <1>4
  <2> QED
    BY <2>1 DEF Blocks
<1> HIDE DEF s, k, block
<1>10. maps' = [maps EXCEPT ![n] = maps'[n]] /\ maps'[n] \in BlockMaps
       /\ maps'[n] = Abs!AddBlocks(maps[n], <<block>>)
  <2> DEFINE m == Abs!AddBlocks(maps[n], <<block>>)
  <2>1. m \in BlockMaps
    BY <1>5, <1>9, MapWithOne
  <2>2. maps' = [maps EXCEPT ![n] = m]
    BY <1>7
  <2> HIDE DEF m
  <2>3. n \in DOMAIN maps
    BY <1>2 DEF MemoryOK
  <2>4. maps'[n] = m
    BY <2>2, <2>3
  <2> QED
    BY <2>1, <2>2, <2>4 DEF m
<1>11. /\ arrays' = [arrays EXCEPT ![n] = arrays'[n]] /\ arrays'[n] \in Seq(Hashes)
       /\ end <= Len(arrays'[n])
       /\ SubSeq(arrays'[n], 1, end)
            = Append(SubSeq(arrays[n], 1, snaps[n].canonical.len), block.hash)
  <2> DEFINE b == Written(arrays[n], snaps[n].canonical.len, block.hash)
  <2>1. /\ b \in Seq(Hashes) /\ end <= Len(b)
        /\ SubSeq(b, 1, end) = Append(SubSeq(arrays[n], 1, snaps[n].canonical.len), block.hash)
    BY <1>5, <1>9, WriteBehind
  <2>2. arrays' = [arrays EXCEPT ![n] = b]
    BY <1>7
  <2> HIDE DEF b, end
  <2>3. n \in DOMAIN arrays
    BY <1>2 DEF MemoryOK
  <2>4. arrays'[n] = b
    BY <2>2, <2>3
  <2> QED
    BY <2>1, <2>2, <2>4
<1>12. /\ snaps' = [snaps EXCEPT ![n] = snaps'[n]]
       /\ snaps'[n] \in Headers /\ snaps'[n].blocks = n /\ snaps'[n].canonical.array = n
       /\ snaps'[n].canonical.len = end
       /\ snaps'[n].head = snaps[n].head /\ snaps'[n].finalized = snaps[n].finalized
  <2> DEFINE h == [snaps[n] EXCEPT !.canonical.len = end]
  <2>1. end \in Nat
    BY <1>5
  <2>2. snaps' = [snaps EXCEPT ![n] = h]
    BY <1>7
  <2> HIDE DEF end
  <2>3. /\ h \in Headers /\ h.blocks = n /\ h.canonical.array = n /\ h.canonical.len = end
        /\ h.head = snaps[n].head /\ h.finalized = snaps[n].finalized
    BY <1>5, <1>6, <2>1, HeaderCut
  <2> HIDE DEF h
  <2>4. snaps'[n] = h
    BY <1>2, <2>2 DEF MemoryOK
  <2> QED
    BY <2>2, <2>3, <2>4
<1> HIDE DEF end
<1>13. /\ MemoryOK' /\ Len(snaps') = Len(snaps)
       /\ \A a \in 1 .. Len(snaps) : a # n => Value(a)' = Value(a)
  BY <1>1, <1>2, <1>10, <1>11, <1>12, WriteAt
<1>14. Value(ptr)' = Value(ptr) /\ \A a \in Published : Value(a)' = Value(a)
  <2>1. Value(ptr)' = Value(ptr)
    BY <1>1, <1>2, <1>13 DEF MemoryOK
  <2> QED
    BY <1>2, <1>13, <2>1
<1>15. Value(n)' = Partial(s, l.fork, l.new, k + 1)
  <2> DEFINE p == Partial(s, l.fork, l.new, k)
             path == SubSeq(arrays[n], 1, snaps[n].canonical.len)
  <2>1. Value(n)' = [blocks |-> Abs!AddBlocks(maps[n], <<block>>),
                     canonical |-> Append(path, block.hash),
                     head |-> snaps[n].head, finalized |-> snaps[n].finalized]
    BY <1>10, <1>11, <1>12 DEF Value
  <2>2. p.blocks = maps[n] /\ p.canonical = path
    BY <1>3, <1>5
  <2>3. p.head = s.head /\ p.finalized = s.finalized
    BY DEF Partial
  <2>4. p.head = snaps[n].head /\ p.finalized = snaps[n].finalized
    BY <1>3, <1>5
  <2>5. k \in 0 .. Len(l.new) - 1
    BY <1>3, <1>4
  <2>6. Partial(s, l.fork, l.new, k + 1)
          = [blocks |-> Abs!AddBlocks(p.blocks, <<l.new[k + 1]>>),
             canonical |-> Append(p.canonical, l.new[k + 1].hash),
             head |-> s.head, finalized |-> s.finalized]
    BY <1>4, <2>5, PartialNext
  <2> HIDE DEF p, path
  <2> QED
    BY <2>1, <2>2, <2>3, <2>4, <2>6 DEF block
<1>16. local' = [local EXCEPT ![w] = local'[w]] /\ Moves(local'[w], l, pc, k + 1)
  <2> DEFINE m == [l EXCEPT !.done = k + 1, !.pc = pc]
  <2> HIDE DEF pc
  <2>1. Moves(m, l, pc, k + 1)
    BY <1>2, JobMoves
  <2>2. local' = [local EXCEPT ![w] = m]
    BY <1>8
  <2> HIDE DEF m
  <2>3. local'[w] = m
    BY <2>2 DEF RcuInv, ControlOK
  <2> QED
    BY <2>1, <2>2, <2>3
<1>17. DraftOK(local[w])' /\ local'[w].pc \in Drafting
  <2>1. /\ local'[w].pc = pc /\ local'[w].done = k + 1 /\ local'[w].call = l.call
        /\ local'[w].new = l.new /\ local'[w].fork = l.fork /\ local'[w].ns = n
    BY <1>0, <1>16 DEF Moves
  <2>2. Value(local[w].ns)' = Partial(Value(ptr)', local'[w].fork, local'[w].new, local'[w].done)
    <3>1. Value(local[w].ns)' = Value(n)'
      BY <2>1 DEF Value
    <3> QED
      BY <1>14, <1>15, <2>1, <3>1 DEF s
  <2>3. /\ local'[w].ns \in 1 .. Len(snaps') /\ local'[w].ns # ptr'
        /\ local'[w].done \in 0 .. Len(local'[w].new)
        /\ local'[w].call.op # "Finalize"
    BY <1>1, <1>2, <1>3, <1>4, <1>13, <2>1
  <2>4. CASE k + 1 = Len(l.new)
    <3>1. local'[w].pc = "finish" /\ local'[w].done = Len(local'[w].new)
      BY <2>1, <2>4
    <3> QED
      BY <2>2, <2>3, <3>1 DEF DraftOK, Drafting, Partial
  <2>5. CASE k + 1 # Len(l.new)
    <3>1. local'[w].pc = "insert" /\ local'[w].done < Len(local'[w].new)
      BY <1>1, <1>3, <1>4, <2>1, <2>5
    <3> QED
      BY <2>2, <2>3, <3>1 DEF DraftOK, Drafting, Partial
  <2> QED
    BY <2>4, <2>5
<1> QED
  BY <1>1, <1>13, <1>14, <1>16, <1>17, DraftStep DEF Moves

LEMMA FinishStep ==
    ASSUME RcuInv, NEW w \in Writers, Finish(w)
    PROVE  StepOK
<1> DEFINE l == local[w]
           s == Value(ptr)
           last == l.new[Len(l.new)].hash
<1>0. PICK n : n = l.ns
  OBVIOUS
<1>1. /\ l.pc = "finish" /\ l.pc \in Drafting
      /\ UNCHANGED <<maps, arrays, ptr, seq, mu, announced>>
      /\ local' = [local EXCEPT ![w].pc = "store"]
  BY DEF Finish, Drafting
<1>2. /\ mu = w /\ MemoryOK /\ Abs!IInv
      /\ l.call \in Calls /\ HasDraft(l) /\ BuiltOK(l) /\ DraftOK(l)
      /\ n \in 1 .. Len(snaps) /\ n # ptr
      /\ \A a \in Published : a \in 1 .. Len(snaps) /\ a # n
  BY <1>0, <1>1, DraftFacts
<1>3. /\ Value(n) = IF l.call.op = "Finalize" THEN s ELSE Partial(s, l.fork, l.new, Len(l.new))
      /\ l.done \in 0 .. Len(l.new)
  BY <1>0, <1>1, <1>2 DEF DraftOK
<1>4. /\ l.new \in Seq(Blocks) /\ Len(l.new) \in Nat
      /\ l.call.op # "Finalize" => Len(l.new) > 0
      /\ IsSnapshot(s)
  BY <1>2, BuiltFacts, PublishedFacts
<1>5. /\ Value(n) = [blocks    |-> maps[n],
                     canonical |-> SubSeq(arrays[n], 1, snaps[n].canonical.len),
                     head      |-> snaps[n].head,
                     finalized |-> snaps[n].finalized]
      /\ arrays[n] \in Seq(Hashes) /\ maps[n] \in BlockMaps /\ snaps[n] \in Headers
      /\ snaps[n].canonical.len \in 0 .. Len(arrays[n])
  BY <1>2, ValueIs
<1>6. snaps[n].blocks = n /\ snaps[n].canonical.array = n
  BY <1>2 DEF MemoryOK
<1>7. l.call.op # "Finalize" => last \in Hashes
  <2>1. l.call.op # "Finalize" => l.new[Len(l.new)] \in Blocks
    BY <1>4
  <2> QED
    BY <2>1 DEF Blocks
<1>8. l.call.op = "Finalize" => l.call.height \in Nat
  <2>1. l.call.op = "Finalize" => l.call.height \in Abs!Heights
    BY <1>2, CallTypes
  <2> QED
    BY <2>1, RcuAssumption DEF Abs!Heights
<1> HIDE DEF s, last
<1>9. /\ snaps' = [snaps EXCEPT ![n] = snaps'[n]]
      /\ snaps'[n] \in Headers /\ snaps'[n].blocks = n
      /\ snaps'[n].canonical = snaps[n].canonical
      /\ snaps'[n].head = (IF l.call.op = "Finalize" THEN snaps[n].head ELSE last)
      /\ snaps'[n].finalized = (IF l.call.op = "Finalize" THEN l.call.height
                                ELSE snaps[n].finalized)
  <2>1. n \in DOMAIN snaps
    BY <1>2 DEF MemoryOK
  <2>2. CASE l.call.op = "Finalize"
    <3> DEFINE h == [snaps[n] EXCEPT !.finalized = l.call.height]
    <3>1. /\ h \in Headers /\ h.blocks = n /\ h.canonical = snaps[n].canonical
          /\ h.head = snaps[n].head /\ h.finalized = l.call.height
      BY <1>5, <1>6, <1>8, <2>2, HeaderFinalized
    <3>2. snaps' = [snaps EXCEPT ![n] = h]
      BY <1>0, <2>2 DEF Finish
    <3> HIDE DEF h
    <3>3. snaps'[n] = h
      BY <2>1, <3>2
    <3>4. snaps' = [snaps EXCEPT ![n] = snaps'[n]]
      BY <3>2, <3>3
    <3>5. snaps'[n].head = snaps[n].head /\ snaps'[n].finalized = l.call.height
      BY <3>1, <3>3
    <3> QED
      BY <2>2, <3>1, <3>3, <3>4, <3>5
  <2>3. CASE l.call.op # "Finalize"
    <3> DEFINE h == [snaps[n] EXCEPT !.head = last]
    <3>1. /\ h \in Headers /\ h.blocks = n /\ h.canonical = snaps[n].canonical
          /\ h.head = last /\ h.finalized = snaps[n].finalized
      BY <1>5, <1>6, <1>7, <2>3, HeaderMoved
    <3>2. snaps' = [snaps EXCEPT ![n] = h]
      BY <1>0, <2>3 DEF Finish, last
    <3> HIDE DEF h
    <3>3. snaps'[n] = h
      BY <2>1, <3>2
    <3>4. snaps' = [snaps EXCEPT ![n] = snaps'[n]]
      BY <3>2, <3>3
    <3>5. snaps'[n].head = last /\ snaps'[n].finalized = snaps[n].finalized
      BY <3>1, <3>3
    <3> QED
      BY <2>3, <3>1, <3>3, <3>4, <3>5
  <2> QED
    BY <2>2, <2>3
<1>10. /\ maps' = [maps EXCEPT ![n] = maps'[n]] /\ arrays' = [arrays EXCEPT ![n] = arrays'[n]]
       /\ snaps'[n].canonical.array = n /\ snaps'[n].canonical.len <= Len(arrays'[n])
  BY <1>1, <1>2, <1>5, <1>6, <1>9 DEF MemoryOK
<1>11. /\ MemoryOK' /\ Len(snaps') = Len(snaps)
       /\ \A a \in 1 .. Len(snaps) : a # n => Value(a)' = Value(a)
  BY <1>1, <1>2, <1>5, <1>9, <1>10, WriteAt
<1>12. Value(ptr)' = Value(ptr) /\ \A a \in Published : Value(a)' = Value(a)
  <2>1. Value(ptr)' = Value(ptr)
    BY <1>1, <1>2, <1>11 DEF MemoryOK
  <2> QED
    BY <1>2, <1>11, <2>1
<1>13. Value(n)' = Result(l)
  <2>1. Value(n)' = [blocks    |-> maps[n],
                     canonical |-> SubSeq(arrays[n], 1, snaps[n].canonical.len),
                     head      |-> snaps'[n].head,
                     finalized |-> snaps'[n].finalized]
    BY <1>1, <1>6, <1>9 DEF Value
  <2>2. Value(n)' = [blocks    |-> Value(n).blocks,
                     canonical |-> Value(n).canonical,
                     head      |-> snaps'[n].head,
                     finalized |-> snaps'[n].finalized]
    BY <1>5, <2>1
  <2>3. CASE l.call.op = "Finalize"
    <3>1. Value(n)' = [blocks |-> s.blocks, canonical |-> s.canonical, head |-> s.head,
                       finalized |-> l.call.height]
      <4>1. Value(n) = s /\ s.head = snaps[n].head
        BY <1>3, <1>5, <2>3
      <4> QED
        BY <1>9, <2>2, <2>3, <4>1
    <3>2. [s EXCEPT !.finalized = l.call.height]
            = [blocks |-> s.blocks, canonical |-> s.canonical, head |-> s.head,
               finalized |-> l.call.height]
      BY <1>4, SnapshotFinalized
    <3> QED
      BY <2>3, <3>1, <3>2 DEF Result, s
  <2>4. CASE l.call.op # "Finalize"
    <3>1. Value(n) = Partial(s, l.fork, l.new, Len(l.new))
      BY <1>3, <2>4
    <3>2. snaps[n].finalized = s.finalized
      BY <1>5, <3>1 DEF Partial
    <3>3. snaps'[n].head = last /\ snaps'[n].finalized = s.finalized
      BY <1>9, <2>4, <3>2
    <3>4. [blocks    |-> Partial(s, l.fork, l.new, Len(l.new)).blocks,
           canonical |-> Partial(s, l.fork, l.new, Len(l.new)).canonical,
           head      |-> last,
           finalized |-> s.finalized] = Abs!Extend(s, l.fork, l.new)
      BY <1>4, PartialAll DEF last
    <3>5. Value(n)' = Abs!Extend(s, l.fork, l.new)
      BY <2>2, <3>1, <3>3, <3>4
    <3> QED
      BY <2>4, <3>5 DEF Result, s
  <2> QED
    BY <2>3, <2>4
<1>14. local' = [local EXCEPT ![w] = local'[w]] /\ Moves(local'[w], l, "store", l.done)
  <2> DEFINE m == [l EXCEPT !.pc = "store"]
  <2>1. Moves(m, l, "store", l.done)
    BY <1>2, JobMoves
  <2>2. local' = [local EXCEPT ![w] = m]
    BY <1>1
  <2> HIDE DEF m
  <2>3. local'[w] = m
    BY <2>2 DEF RcuInv, ControlOK
  <2> QED
    BY <2>1, <2>2, <2>3
<1>15. DraftOK(local[w])' /\ local'[w].pc \in Drafting
  <2>1. /\ local'[w].pc = "store" /\ local'[w].done = l.done /\ local'[w].call = l.call
        /\ local'[w].new = l.new /\ local'[w].fork = l.fork /\ local'[w].ns = n
    BY <1>0, <1>14 DEF Moves
  <2>2. Value(local[w].ns)' = Result(local[w])'
    <3>1. Value(local[w].ns)' = Value(n)'
      BY <2>1 DEF Value
    <3>2. Result(local[w])' = Result(l)
      BY <1>12, <2>1 DEF Result, Abs!Extend, Abs!AddBlocks
    <3> QED
      BY <1>13, <3>1, <3>2
  <2>3. /\ local'[w].ns \in 1 .. Len(snaps') /\ local'[w].ns # ptr'
        /\ local'[w].done \in 0 .. Len(local'[w].new)
    BY <1>1, <1>2, <1>3, <1>11, <2>1
  <2> QED
    BY <2>1, <2>2, <2>3 DEF DraftOK, Drafting
<1> QED
  BY <1>1, <1>11, <1>12, <1>14, <1>15, DraftStep DEF Moves

\* A branch of one block, and a snapshot extended by it.
LEMMA BranchOfOne ==
    ASSUME NEW k \in Nat, NEW fork \in Blocks, NEW txs \in Seq(Txs)
    PROVE  Abs!BranchBlocks(k, fork, <<txs>>)
             = <<Abs!BuildBlock(k + 1, fork.number, fork.hash, txs)>>
<1> DEFINE branch == <<txs>>
           new == Abs!BranchBlocks(k, fork, branch)
           block == Abs!BuildBlock(k + 1, fork.number, fork.hash, txs)
<1>1. branch \in Seq(Seq(Txs)) /\ DOMAIN branch = {1} /\ branch[1] = txs /\ Len(branch) = 1
  OBVIOUS
<1>2. fork \in Abs!Blocks /\ fork.number \in Nat
  BY SameTypes DEF Blocks
<1>3. fork.number + 1 - 1 = fork.number
  BY <1>2
<1> HIDE DEF branch
<1>4. Abs!BranchHash(k, fork, branch, 0) = fork.hash
  BY <1>1, <1>2, Abs!BranchHashStep, ChainAssumptions
<1>5. new = [i \in {1} |-> block]
  <2>1. new = [i \in DOMAIN branch |-> Abs!BuildBlock(k + i, fork.number + i - 1,
                                          Abs!BranchHash(k, fork, branch, i - 1), branch[i])]
    BY DEF Abs!BranchBlocks
  <2>2. Abs!BuildBlock(k + 1, fork.number + 1 - 1, Abs!BranchHash(k, fork, branch, 1 - 1),
                       branch[1])
          = block
    BY <1>1, <1>3, <1>4
  <2> HIDE DEF block, new
  <2> QED
    BY <1>1, <2>1, <2>2
<1>6. [i \in {1} |-> block] = <<block>>
  <2> HIDE DEF block
  <2> QED
    OBVIOUS
<1> QED
  BY <1>5, <1>6 DEF branch

LEMMA ExtendByOne ==
    ASSUME NEW s, IsSnapshot(s), Len(s.canonical) \in Nat \ {0}, NEW block \in Blocks
    PROVE  Abs!Extend(s, Len(s.canonical) - 1, <<block>>)
             = [blocks    |-> Abs!AddBlocks(s.blocks, <<block>>),
                canonical |-> Append(s.canonical, block.hash),
                head      |-> block.hash,
                finalized |-> s.finalized]
<1> DEFINE path == s.canonical
           e == block.hash
           one == <<block>>
<1>1. path \in Seq(Hashes) /\ Len(path) - 1 + 1 = Len(path)
  BY DEF IsSnapshot
<1>2. e \in Hashes
  BY DEF Blocks
<1>3. SubSeq(path, 1, Len(path)) = path
  BY <1>1, SubSeqFull
<1>4. [i \in DOMAIN one |-> one[i].hash] = <<e>> /\ one[Len(one)].hash = e
  OBVIOUS
<1> HIDE DEF path, e, one
<1>5. path \o <<e>> = Append(path, e)
  BY <1>1, <1>2, AppendIsConcat
<1>6. Abs!Extend(s, Len(path) - 1, one)
        = [blocks    |-> Abs!AddBlocks(s.blocks, one),
           canonical |-> path \o <<e>>,
           head      |-> e,
           finalized |-> s.finalized]
  BY <1>1, <1>3, <1>4 DEF Abs!Extend, path
<1> QED
  BY <1>5, <1>6 DEF path, e, one

\* Publishing the result of a call is the step of the chain that the call is for.
LEMMA Publish ==
    ASSUME MemoryOK, Abs!IInv, NEW l, l.call \in Calls, BuiltOK(l),
           Value(ptr)' = Result(l), CommittedSeq' = CommittedSeq + Len(l.new)
    PROVE  Abs!Next
<1> DEFINE s == Value(ptr)
           call == l.call
<1>1. /\ Error(s, call) = "nil" /\ l.fork = ForkOf(s, call)
      /\ l.new = Abs!BranchBlocks(CommittedSeq, ByNumber(s, l.fork), BranchOf(call))
      /\ CommittedSeq + Len(l.new) <= MaxSeq
  BY DEF BuiltOK
<1>2. /\ Len(l.new) = Len(BranchOf(call)) /\ Len(l.new) \in Nat
      /\ CommittedSeq \in Nat
      /\ call.op \in {"ProduceBlock", "Finalize", "Reorg"}
  BY BuiltFacts, PublishedFacts, CallTypes
<1>3. CASE call.op = "Finalize"
  <2>1. call.height \in Abs!Heights /\ BranchOf(call) = <<>>
    BY <1>3, CallTypes
  <2>2. Abs!FinalizeError(s, call.height) = "nil"
    BY <1>1, <1>3, SameErrors DEF Error
  <2>3. CommittedSeq' = CommittedSeq
    <3>1. Len(l.new) = 0
      BY <1>2, <2>1
    <3> QED
      BY <1>2, <3>1
  <2>4. Value(ptr)' = [s EXCEPT !.finalized = call.height]
    BY <1>3 DEF Result
  <2>5. Abs!Finalize(call.height)
    BY <2>2, <2>3, <2>4 DEF Abs!Finalize
  <2> QED
    BY <2>1, <2>5 DEF Abs!Next
<1>4. CASE call.op = "Reorg"
  <2>1. /\ call.forkFrom \in Abs!Heights /\ call.branch \in Abs!Branches
        /\ BranchOf(call) = call.branch
    BY <1>4, CallTypes
  <2>2. Abs!ReorgError(s, call.forkFrom, call.branch) = "nil"
    BY <1>1, <1>4, SameErrors DEF Error
  <2>3. l.fork = call.forkFrom
    BY <1>1, <1>4 DEF ForkOf
  <2>4. ByNumber(s, call.forkFrom) = Abs!ByNumber(s, call.forkFrom)
    BY SameQueries
  <2>5. l.new = Abs!BranchBlocks(CommittedSeq, Abs!ByNumber(s, call.forkFrom), call.branch)
    BY <1>1, <2>1, <2>3, <2>4
  <2>6. Value(ptr)' = Abs!Extend(s, call.forkFrom, l.new)
    BY <1>4, <2>3 DEF Result
  <2>7. Abs!Reorg(call.forkFrom, call.branch)
    BY <1>1, <1>2, <2>1, <2>2, <2>5, <2>6 DEF Abs!Reorg
  <2> QED
    BY <2>1, <2>7 DEF Abs!Next
<1>5. CASE call.op = "ProduceBlock"
  <2>1. PICK txs \in TxLists : BranchOf(call) = <<txs>>
    BY <1>5, CallTypes
  <2> DEFINE parent == Abs!HeadBlock(s)
             block == Abs!BuildBlock(CommittedSeq + 1, parent.number, parent.hash, txs)
             path == s.canonical
  <2>2. /\ IsSnapshot(s) /\ Len(path) \in Nat \ {0}
        /\ l.fork = Len(path) - 1
    BY <1>1, <1>5, PublishedFacts DEF ForkOf
  <2>3. ByNumber(s, l.fork) = parent /\ parent \in Blocks
    <3>1. /\ Abs!HeadBlock(s) = s.blocks[s.head] /\ Abs!HeadBlock(s) \in Abs!Blocks
          /\ s.head = path[Len(path)]
      BY Abs!HeadFacts, ChainAssumptions DEF Abs!IInv, Abs!CanonicalIsAPath
    <3>2. l.fork \in 0 .. Len(path) - 1 /\ l.fork + 1 = Len(path)
      BY <2>2
    <3>3. Abs!ByNumber(s, l.fork) = s.blocks[path[l.fork + 1]]
      BY <3>2, Abs!ByNumberFacts, ChainAssumptions
    <3>4. ByNumber(s, l.fork) = Abs!ByNumber(s, l.fork)
      BY SameQueries
    <3> QED
      BY <3>1, <3>2, <3>3, <3>4, SameTypes
  <2>4. txs \in Seq(Txs)
    BY RcuAssumption
  <2>5. l.new = <<block>>
    <3>1. Abs!BranchBlocks(CommittedSeq, parent, <<txs>>) = <<block>>
      BY <1>2, <2>3, <2>4, BranchOfOne
    <3> QED
      BY <1>1, <2>1, <2>3, <3>1
  <2>6. block \in Blocks /\ Len(l.new) = 1
    <3>1. l.new \in Seq(Blocks)
      BY BuiltFacts
    <3> HIDE DEF block
    <3> QED
      BY <2>5, <3>1
  <2> HIDE DEF block, parent
  <2>7. Value(ptr)' = [blocks    |-> Abs!AddBlocks(s.blocks, <<block>>),
                       canonical |-> Append(path, block.hash),
                       head      |-> block.hash,
                       finalized |-> s.finalized]
    <3>1. Value(ptr)' = Abs!Extend(s, Len(path) - 1, <<block>>)
      BY <1>5, <2>2, <2>5 DEF Result
    <3> HIDE DEF s
    <3> QED
      BY <2>2, <2>6, <3>1, ExtendByOne
  <2>8. CommittedSeq < MaxSeq /\ CommittedSeq' = CommittedSeq + 1
    BY <1>1, <1>2, <2>6, RcuAssumption
  <2>9. Abs!ProduceBlock(txs)
    BY <2>7, <2>8 DEF Abs!ProduceBlock, block, parent
  <2> QED
    BY <2>9 DEF Abs!Next
<1> QED
  BY <1>2, <1>3, <1>4, <1>5

\* The result knows every block the published snapshot does, and the new ones.
LEMMA ResultKnows ==
    ASSUME MemoryOK, Abs!IInv, NEW l, l.call \in Calls, BuiltOK(l)
    PROVE  /\ DOMAIN Value(ptr).blocks \subseteq DOMAIN Result(l).blocks
           /\ l.call.op # "Finalize" => l.new[Len(l.new)].hash \in DOMAIN Result(l).blocks
<1> DEFINE s == Value(ptr)
           last == l.new[Len(l.new)].hash
<1>1. /\ IsSnapshot(s) /\ l.new \in Seq(Blocks) /\ Len(l.new) \in Nat
      /\ l.call.op # "Finalize" => Len(l.new) > 0
  BY PublishedFacts, BuiltFacts
<1>2. CASE l.call.op = "Finalize"
  <2>1. Result(l) = [s EXCEPT !.finalized = l.call.height]
    BY <1>2 DEF Result
  <2> HIDE DEF s
  <2>2. Result(l) = [blocks |-> s.blocks, canonical |-> s.canonical, head |-> s.head,
                     finalized |-> l.call.height]
    BY <1>1, <2>1, SnapshotFinalized
  <2>3. Result(l).blocks = s.blocks
    BY <2>2
  <2> QED
    BY <1>2, <2>3 DEF s
<1>3. CASE l.call.op # "Finalize"
  <2>1. Result(l).blocks = Abs!AddBlocks(s.blocks, l.new)
    BY <1>3 DEF Result, Abs!Extend
  <2>2. DOMAIN Abs!AddBlocks(s.blocks, l.new)
          = DOMAIN s.blocks \cup {l.new[i].hash : i \in DOMAIN l.new}
    BY DEF Abs!AddBlocks
  <2>3. last \in {l.new[i].hash : i \in DOMAIN l.new}
    <3>1. Len(l.new) \in DOMAIN l.new
      BY <1>1, <1>3
    <3> QED
      BY <3>1
  <2> HIDE DEF s, last
  <2>4. /\ DOMAIN s.blocks \subseteq DOMAIN Result(l).blocks
        /\ last \in DOMAIN Result(l).blocks
    BY <2>1, <2>2, <2>3
  <2> QED
    BY <2>4 DEF s, last
<1> QED
  BY <1>2, <1>3

LEMMA StoreStep ==
    ASSUME RcuInv, NEW w \in Writers, Store(w)
    PROVE  StepOK
<1> DEFINE l == local[w]
           pc == IF l.call.op = "Finalize" THEN "unlock" ELSE "notify"
<1>1. /\ l.pc = "store" /\ l.pc \in Drafting /\ ptr' = l.ns
      /\ local' = [local EXCEPT ![w] = [l EXCEPT !.pc = pc]]
      /\ UNCHANGED <<memory, seq, mu, announced>>
  BY DEF Store, Drafting
<1>2. /\ mu = w /\ MemoryOK /\ Abs!IInv
      /\ l.call \in Calls /\ HasDraft(l) /\ BuiltOK(l) /\ DraftOK(l)
      /\ l.ns \in 1 .. Len(snaps)
  BY <1>1, DraftFacts
<1>3. \A a : Value(a)' = Value(a)
  BY <1>1, <1>2, MemoryKept
<1>4. MemoryOK'
  BY <1>1, <1>2 DEF MemoryOK, memory
<1>5. Value(ptr)' = Result(l)
  <2>1. PICK n : n = l.ns
    OBVIOUS
  <2>2. Value(n)' = Value(n)
    BY <1>3
  <2>3. Value(ptr)' = Value(n)'
    BY <1>1, <2>1 DEF Value
  <2>4. Value(n) = Result(l)
    BY <1>1, <1>2, <2>1 DEF DraftOK
  <2> QED
    BY <2>2, <2>3, <2>4
<1>6. local' = [local EXCEPT ![w] = local'[w]] /\ Moves(local'[w], l, pc, l.done)
  <2> DEFINE m == [l EXCEPT !.pc = pc]
  <2> HIDE DEF pc
  <2>1. Moves(m, l, pc, l.done)
    BY <1>2, JobMoves
  <2>2. local' = [local EXCEPT ![w] = m]
    BY <1>1
  <2> HIDE DEF m
  <2>3. local'[w] = m
    BY <2>2 DEF RcuInv, ControlOK
  <2> QED
    BY <2>1, <2>2, <2>3
<1>7. Len(l.new) \in Nat /\ seq \in Nat
  BY <1>2, BuiltFacts DEF RcuInv
<1>8. CommittedSeq' = CommittedSeq + Len(l.new)
  <2>1. CommittedSeq = seq - Len(l.new)
    BY <1>1, <1>2, Committed DEF Building
  <2>2. local'[w].pc = pc
    BY <1>6 DEF Moves
  <2>3. CommittedSeq' = seq
    BY <1>1, <1>2, <1>7, <2>2, CommittedNext DEF Building
  <2> QED
    BY <1>7, <2>1, <2>3
<1>9. Abs!Next
  BY <1>2, <1>5, <1>8, Publish
<1>10. Abs!IInv' /\ [Abs!Next]_Abs!chainVars
  BY <1>2, <1>9, Abs!StepPreservesIInv, ChainAssumptions
<1>11. /\ DOMAIN Value(ptr).blocks \subseteq DOMAIN Value(ptr)'.blocks
       /\ l.call.op # "Finalize" => l.new[Len(l.new)].hash \in DOMAIN Value(ptr)'.blocks
  BY <1>2, <1>5, ResultKnows
<1>12. ControlOK'
  <2>1. CallOK(local[w])'
    <3>1. CASE l.call.op = "Finalize"
      BY <1>6, <3>1 DEF CallOK, Moves
    <3>2. CASE l.call.op # "Finalize"
      <4>1. local'[w].pc = "notify" /\ HasDraft(local'[w]) /\ local'[w].new = l.new
        BY <1>6, <3>2 DEF Moves
      <4>2. HasDraft(local[w])'
        BY <4>1 DEF HasDraft
      <4> QED
        BY <1>11, <3>2, <4>1, <4>2 DEF CallOK
    <3> QED
      BY <3>1, <3>2
  <2> QED
    BY <1>1, <1>2, <1>6, <2>1, ControlKept DEF RcuInv
<1>13. announced' \subseteq DOMAIN Value(ptr)'.blocks
  BY <1>1, <1>11 DEF RcuInv
<1> QED
  BY <1>1, <1>3, <1>4, <1>7, <1>10, <1>12, <1>13 DEF RcuInv, StepOK

(***************************************************************************)
(* The invariant                                                           *)
(***************************************************************************)

LEMMA GenesisMemory ==
    /\ GenesisSnapshot = [blocks    |-> [h \in {Genesis.hash} |-> Genesis],
                          canonical |-> <<Genesis.hash>>,
                          head      |-> Genesis.hash,
                          finalized |-> 0]
    /\ GenesisSnapshot.blocks \in BlockMaps
    /\ GenesisSnapshot.canonical \in Seq(Hashes) /\ Len(GenesisSnapshot.canonical) = 1
    /\ GenesisSnapshot.head \in Hashes
<1>1. Genesis \in Blocks
  <2>1. Abs!Genesis \in Abs!Blocks
    BY Abs!GenesisType, ChainAssumptions
  <2>2. Genesis = Abs!Genesis
    BY DEF Genesis, HashBlock, Preimage, HashTx, ZeroHash,
           Abs!Genesis, Abs!HashBlock, Abs!Preimage, Abs!HashTx, Abs!ZeroHash
  <2> QED
    BY <2>1, <2>2, SameTypes
<1>2. Genesis.hash \in Hashes
  BY <1>1 DEF Blocks
<1>3. GenesisSnapshot = [blocks    |-> [h \in {Genesis.hash} |-> Genesis],
                        canonical |-> <<Genesis.hash>>,
                        head      |-> Genesis.hash,
                        finalized |-> 0]
  BY DEF GenesisSnapshot
<1>4. [h \in {Genesis.hash} |-> Genesis] \in BlockMaps
  <2> DEFINE H == {Genesis.hash}
             g == [h \in H |-> Genesis]
  <2>1. H \in SUBSET Hashes /\ g \in [H -> Blocks]
    BY <1>1, <1>2
  <2> HIDE DEF H, g
  <2>2. g \in BlockMaps
    BY <2>1 DEF BlockMaps
  <2> QED
    BY <2>2 DEF H, g
<1>5. <<Genesis.hash>> \in Seq(Hashes) /\ Len(<<Genesis.hash>>) = 1
  BY <1>2
<1> QED
  BY <1>2, <1>3, <1>4, <1>5

LEMMA RcuInit == Init => RcuInv /\ Atomic!Init
<1> SUFFICES ASSUME Init PROVE RcuInv /\ Atomic!Init
  OBVIOUS
<1> DEFINE g == GenesisSnapshot
           header == [blocks    |-> 1,
                      canonical |-> [array |-> 1, len |-> 1],
                      head      |-> g.head,
                      finalized |-> g.finalized]
<1>1. /\ maps = <<g.blocks>> /\ arrays = <<g.canonical>> /\ snaps = <<header>>
      /\ ptr = 1 /\ seq = 0 /\ mu = NoOne
      /\ local = [w \in Writers |-> Idle] /\ announced = {}
  BY DEF Init
<1>2. /\ g = [blocks |-> g.blocks, canonical |-> g.canonical, head |-> g.head,
              finalized |-> g.finalized]
      /\ g.blocks \in BlockMaps /\ g.canonical \in Seq(Hashes) /\ Len(g.canonical) = 1
      /\ g.head \in Hashes /\ g.finalized = 0
  BY GenesisMemory
<1>3. header \in Headers
  BY <1>2 DEF Headers
<1>4. /\ header.blocks = 1 /\ header.canonical.array = 1 /\ header.canonical.len = 1
      /\ header.head = g.head /\ header.finalized = g.finalized
  OBVIOUS
<1> HIDE DEF g, header
<1>5. MemoryOK
  <2>1. maps \in Seq(BlockMaps) /\ Len(maps) = 1 /\ maps[1] = g.blocks
    BY <1>1, <1>2
  <2>2. arrays \in Seq(Seq(Hashes)) /\ Len(arrays) = 1 /\ arrays[1] = g.canonical
    BY <1>1, <1>2
  <2>3. snaps \in Seq(Headers) /\ Len(snaps) = 1 /\ snaps[1] = header
    BY <1>1, <1>3
  <2>4. \A a \in 1 .. 1 : a = 1
    OBVIOUS
  <2> QED
    BY <1>1, <1>2, <1>4, <2>1, <2>2, <2>3, <2>4 DEF MemoryOK
<1>6. Value(ptr) = g
  <2>1. snaps[1] = header /\ maps[1] = g.blocks /\ arrays[1] = g.canonical
    BY <1>1
  <2>2. SubSeq(g.canonical, 1, 1) = g.canonical
    BY <1>2, SubSeqFull
  <2>3. Value(1) = [blocks |-> g.blocks, canonical |-> g.canonical, head |-> g.head,
                    finalized |-> g.finalized]
    BY <1>4, <2>1, <2>2 DEF Value
  <2> QED
    BY <1>1, <1>2, <2>3
<1>7. CommittedSeq = 0
  BY <1>1 DEF CommittedSeq
<1>8. Abs!Init
  BY <1>6, <1>7, SameGenesis DEF Abs!Init, g
<1>9. Abs!IInv
  BY <1>8, Abs!InitEstablishesIInv, ChainAssumptions
<1>10. ControlOK
  BY <1>1 DEF ControlOK
<1>11. Atomic!Init
  BY <1>8, SameInit
<1> QED
  BY <1>1, <1>5, <1>9, <1>10, <1>11 DEF RcuInv

\* A step of nobody's leaves a call where it is.
LEMMA CallKept ==
    ASSUME MemoryOK, NEW w \in Writers, mu = w, mu' = mu, CallOK(local[w]), local' = local,
           UNCHANGED <<memory, ptr, seq>>
    PROVE  CallOK(local[w])'
<1> DEFINE l == local[w]
<1>1. Value(ptr)' = Value(ptr) /\ CommittedSeq' = CommittedSeq
  BY MemoryKept DEF CommittedSeq, Unpublished
<1>2. ASSUME BuiltOK(l) PROVE BuiltOK(l)'
  BY <1>1, <1>2 DEF BuiltOK
<1>3. CASE /\ l.pc = "check"
           /\ l = [pc |-> "check", call |-> l.call] /\ l.call \in Calls
           /\ WithinBounds(l.call)
  <2>1. WithinBounds(l.call)'
    BY <1>1, <1>3 DEF WithinBounds, memory
  <2> QED
    BY <1>3, <2>1 DEF CallOK
<1>4. CASE /\ l.pc = "clone"
           /\ l = [pc |-> "clone", call |-> l.call, cur |-> ptr, fork |-> l.fork, new |-> l.new]
           /\ l.call \in Calls /\ BuiltOK(l)
  BY <1>2, <1>4 DEF CallOK
<1>5. CASE /\ l.pc \in Drafting
           /\ HasDraft(l)
           /\ l.call \in Calls /\ BuiltOK(l) /\ DraftOK(l)
  <2>1. PICK n : n = l.ns
    OBVIOUS
  <2>2. Value(l.ns)' = Value(n)' /\ Value(n)' = Value(n)
    BY <2>1, MemoryKept DEF Value
  <2>3. Result(l)' = Result(l)
    BY <1>1 DEF Result, Abs!Extend, Abs!AddBlocks
  <2>4. DraftOK(l)'
    BY <1>1, <1>5, <2>1, <2>2, <2>3 DEF DraftOK, Partial, memory
  <2>5. HasDraft(l)'
    BY <1>5 DEF HasDraft
  <2> QED
    BY <1>2, <1>5, <2>4, <2>5 DEF CallOK
<1>6. CASE /\ l.pc = "notify"
           /\ HasDraft(l)
           /\ l.new[Len(l.new)].hash \in DOMAIN Value(ptr).blocks
  <2>1. HasDraft(l)'
    BY <1>6 DEF HasDraft
  <2> QED
    BY <1>1, <1>6, <2>1 DEF CallOK
<1>7. CASE l.pc = "unlock"
  BY <1>7 DEF CallOK
<1> QED
  BY <1>3, <1>4, <1>5, <1>6, <1>7 DEF CallOK

\* Every step of a writer keeps the invariant, leaves what was published alone,
\* and is a step of the chain or none.
LEMMA RcuStep == RcuInv /\ [Next]_vars => StepOK
<1> SUFFICES ASSUME RcuInv, [Next]_vars PROVE StepOK
  OBVIOUS
<1>1. ASSUME NEW w \in Writers, Proceed(w) PROVE StepOK
  BY <1>1, RefuseStep, BuildStep, CloneStep, TruncateStep, InsertStep, FinishStep, StoreStep,
     NotifyHeadsStep, UnlockStep DEF Proceed
<1>2. CASE UNCHANGED vars
  <2>1. UNCHANGED <<memory, ptr, seq, mu, local, announced>>
    BY <1>2 DEF vars, memory
  <2>2. /\ MemoryOK' /\ Value(ptr)' = Value(ptr)
        /\ \A a \in Published : Value(a)' = Value(a)
    BY <2>1, MemoryKept DEF RcuInv
  <2>3. CommittedSeq' = CommittedSeq
    BY <2>1 DEF CommittedSeq, Unpublished
  <2>4. Abs!IInv' /\ [Abs!Next]_Abs!chainVars
    BY <2>2, <2>3, Unseen DEF RcuInv
  <2>5. ControlOK'
    <3>1. CASE mu = NoOne
      BY <2>1, <3>1 DEF RcuInv, ControlOK
    <3>2. CASE mu # NoOne
      <4>1. mu \in Writers /\ CallOK(local[mu])
        BY <3>2 DEF RcuInv, ControlOK
      <4>2. CallOK(local[mu])'
        <5>1. PICK w \in Writers : w = mu
          BY <4>1
        <5>2. MemoryOK
          BY DEF RcuInv
        <5>3. CallOK(local[w])'
          BY <2>1, <4>1, <5>1, <5>2, CallKept
        <5> QED
          BY <2>1, <5>1, <5>3
      <4> QED
        BY <2>1, <4>2 DEF RcuInv, ControlOK
    <3> QED
      BY <3>1, <3>2
  <2> QED
    BY <2>1, <2>2, <2>4, <2>5 DEF RcuInv, StepOK
<1> QED
  BY <1>1, <1>2, LockStep DEF Next

LEMMA RcuInvariant == Spec => []RcuInv
<1>1. RcuInv /\ [Next]_vars => RcuInv'
  BY RcuStep DEF StepOK
<1> QED
  BY <1>1, RcuInit, PTL DEF Spec

(***************************************************************************)
(* The theorems                                                            *)
(***************************************************************************)

\* What is behind a pointer that was ever published never changes: a reader that
\* holds an old snapshot sees the same blocks and the same path however many
\* writers go on cloning and appending (driver.go:20-22, snapshot.go:8-10).
THEOREM SnapshotsStand == Spec => PublishedNeverChanges
<1>1. RcuInv /\ [Next]_vars => [\A a \in Published : Value(a)' = Value(a)]_vars
  BY RcuStep DEF StepOK
<1> QED
  BY <1>1, RcuInvariant, PTL DEF Spec, PublishedNeverChanges

\* No head is announced before the pointer to a snapshot that knows it is stored,
\* and no later snapshot forgets it (driver.go: Store before notifyHeads).
THEOREM AnnouncedAreFound == Spec => []AnnouncedIsPublished
<1>1. RcuInv => AnnouncedIsPublished
  <2> SUFFICES ASSUME RcuInv, NEW h \in announced PROVE ByHash(Value(ptr), h) # Nil
    BY DEF AnnouncedIsPublished
  <2>1. h \in DOMAIN Value(ptr).blocks
    BY DEF RcuInv
  <2>2. Value(ptr).blocks[h] \in Blocks
    BY <2>1, PublishedFacts DEF RcuInv
  <2> QED
    BY <2>1, <2>2, NilAssumption DEF ByHash
<1> QED
  BY <1>1, RcuInvariant, PTL

\* To readers each call happens at once: the statements of the writers, in any
\* interleaving the mutex allows, implement the chain whose operations are atomic.
THEOREM WritersImplementChain == Spec => ImplementsChain
<1>1. RcuInv /\ [Next]_vars => [Atomic!Next]_Atomic!chainVars
  <2> SUFFICES ASSUME RcuInv, [Next]_vars PROVE [Atomic!Next]_Atomic!chainVars
    OBVIOUS
  <2>1. [Abs!Next]_Abs!chainVars
    BY RcuStep DEF StepOK
  <2> QED
    BY <2>1, SameNext DEF Abs!chainVars, Atomic!chainVars
<1> QED
  BY <1>1, RcuInit, RcuInvariant, PTL DEF Spec, ImplementsChain, Atomic!Spec

=============================================================================

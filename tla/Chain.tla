-------------------------------- MODULE Chain --------------------------------
(***************************************************************************)
(* chain.Driver (internal/chain/driver.go): the writer of the chain.       *)
(*                                                                         *)
(* Every operation holds Driver.mu from its first read to its last write,  *)
(* and publishes one new snapshot by an atomic store, so an operation is   *)
(* one step here.  RcuDriver opens the critical section up.  A refused     *)
(* call returns its error and leaves everything unchanged: it is a         *)
(* stuttering step, and FinalizeError and ReorgError say what it returns.  *)
(***************************************************************************)
EXTENDS Snapshot

CONSTANTS
    TxLists,    \* the transaction lists a caller passes
    MaxBranch,  \* bound: the blocks of one reorg branch
    MaxSeq      \* bound: the blocks ever built

ASSUME ChainAssumption ==
    /\ TxLists \subseteq Seq(Txs)
    /\ MaxBranch \in Nat
    /\ MaxSeq \in Nat

VARIABLES
    current,  \* Driver.current: the published snapshot
    seq       \* Driver.seq: blocks built so far

chainVars == <<current, seq>>

\* A reorg may be asked for with an empty branch, or one that is too short.
Branches == UNION {[1 .. n -> TxLists] : n \in 0 .. MaxBranch}

Heights == 0 .. MaxSeq + 1

(***************************************************************************)
(* What a write does to the (cloned) snapshot                              *)
(***************************************************************************)

\* blocks[b.hash] = b for every new block, over a clone of the map.
AddBlocks(blocks, new) ==
    [h \in DOMAIN blocks \cup {new[i].hash : i \in DOMAIN new} |->
        IF \E i \in DOMAIN new : new[i].hash = h
        THEN new[CHOOSE i \in DOMAIN new : new[i].hash = h]
        ELSE blocks[h]]

Extend_CutsForkPoint(s, forkFrom, new) ==
    [blocks    |-> AddBlocks(s.blocks, new),
     canonical |-> SubSeq(s.canonical, 1, forkFrom) \o [i \in DOMAIN new |-> new[i].hash],
     head      |-> new[Len(new)].hash,
     finalized |-> s.finalized]

Extend_DropsOrphans(s, forkFrom, new) ==
    LET kept == {s.canonical[i] : i \in 1 .. forkFrom + 1}
    IN  [blocks    |-> AddBlocks([h \in kept |-> s.blocks[h]], new),
         canonical |-> SubSeq(s.canonical, 1, forkFrom + 1)
                         \o [i \in DOMAIN new |-> new[i].hash],
         head      |-> new[Len(new)].hash,
         finalized |-> s.finalized]

\* The snapshot s with canonical cut after the height forkFrom and the blocks
\* of new appended, the last of them being the head.
Extend(s, forkFrom, new) ==
    [blocks    |-> AddBlocks(s.blocks, new),
     canonical |-> SubSeq(s.canonical, 1, forkFrom + 1)
                     \o [i \in DOMAIN new |-> new[i].hash],
     head      |-> new[Len(new)].hash,
     finalized |-> s.finalized]

\* The hash of the n-th block of a branch built on fork: one preimage more
\* than its parent, the first block having fork for its parent.
BranchHash(s, fork, branch, n) ==
    fork.hash \o [j \in 1 .. n |-> Preimage(s + j, fork.number + j, branch[j])]

\* The blocks of a branch, each built on the one before it.
BranchBlocks(s, fork, branch) ==
    [i \in DOMAIN branch |->
        BuildBlock(s + i, fork.number + i - 1, BranchHash(s, fork, branch, i - 1), branch[i])]

(***************************************************************************)
(* The errors, in the order in which the code tests for them               *)
(***************************************************************************)

FinalizeError(s, height) ==
    IF height > Height(s)        THEN "ErrHeightTooHigh"
    ELSE IF height < s.finalized THEN "ErrHeightTooLow"
    ELSE "nil"

ReorgError_IgnoresFinalized(s, forkFrom, branch) ==
    IF forkFrom > Height(s)                      THEN "ErrForkPointNotFound"
    ELSE IF forkFrom + Len(branch) <= Height(s)  THEN "ErrReorgTooShort"
    ELSE "nil"

ReorgError(s, forkFrom, branch) ==
    IF forkFrom < s.finalized                    THEN "ErrReorgBelowFinalized"
    ELSE IF forkFrom > Height(s)                 THEN "ErrForkPointNotFound"
    ELSE IF forkFrom + Len(branch) <= Height(s)  THEN "ErrReorgTooShort"
    ELSE IF ByNumber(s, forkFrom) = Nil          THEN "ErrForkPointNotFound"
    ELSE "nil"

(***************************************************************************)
(* The operations                                                          *)
(***************************************************************************)

Init ==
    /\ current = GenesisSnapshot
    /\ seq = 0

ProduceBlock(txs) ==
    LET parent == HeadBlock(current)
        block  == BuildBlock(seq + 1, parent.number, parent.hash, txs)
    IN  /\ seq < MaxSeq
        /\ seq' = seq + 1
        /\ current' = [blocks    |-> AddBlocks(current.blocks, <<block>>),
                       canonical |-> Append(current.canonical, block.hash),
                       head      |-> block.hash,
                       finalized |-> current.finalized]

Finalize(height) ==
    /\ FinalizeError(current, height) = "nil"
    /\ current' = [current EXCEPT !.finalized = height]
    /\ UNCHANGED seq

Reorg(forkFrom, branch) ==
    /\ ReorgError(current, forkFrom, branch) = "nil"
    /\ seq + Len(branch) <= MaxSeq
    /\ seq' = seq + Len(branch)
    /\ current' = Extend(current, forkFrom,
                         BranchBlocks(seq, ByNumber(current, forkFrom), branch))

Next ==
    \/ \E txs \in TxLists : ProduceBlock(txs)
    \/ \E height \in Heights : Finalize(height)
    \/ \E forkFrom \in Heights, branch \in Branches : Reorg(forkFrom, branch)

Spec == Init /\ [][Next]_chainVars

(***************************************************************************)
(* Type correctness                                                        *)
(***************************************************************************)

\* Every variable of the driver has its type: a published snapshot maps hashes
\* to blocks, and seq never passes the bound.  The map is keyed by the blocks'
\* own hashes (driver.go:77-101,165-168).
TypeOK ==
    /\ DOMAIN current = {"blocks", "canonical", "head", "finalized"}
    /\ DOMAIN current.blocks \subseteq Hashes
    /\ \A h \in DOMAIN current.blocks : /\ current.blocks[h] \in Blocks
                                       /\ current.blocks[h].hash = h
    /\ current.canonical \in Seq(Hashes)
    /\ current.head \in Hashes
    /\ current.finalized \in Nat
    /\ seq \in 0 .. MaxSeq

(***************************************************************************)
(* Safety                                                                  *)
(***************************************************************************)

\* Whatever was produced, finalized and reorged before: canonical runs from the
\* genesis block to the head, position n holds a known block numbered n, and
\* each block's parent is the one before it.  ByNumber, BlockByTx and ReceiptOf
\* index the map and the slice relying on it (snapshot.go:33-73).
CanonicalIsAPath ==
    LET path == current.canonical
    IN  /\ Len(path) > 0
        /\ path[1] = Genesis.hash
        /\ current.head = path[Len(path)]
        /\ \A i \in 1 .. Len(path) :
              /\ path[i] \in DOMAIN current.blocks
              /\ current.blocks[path[i]].number = i - 1
              /\ i > 1 => current.blocks[path[i]].parentHash = path[i - 1]

\* The watermark never stands above the head (driver.go:118-126, 141-149).
FinalizedWithinChain == current.finalized <= Height(current)

\* seq is ahead of every block known, canonical or orphaned: no block yet to be
\* built can have the hash of one that was (driver.go:177, hash.go:24-41).
SeqIsAhead ==
    \A h \in DOMAIN current.blocks : Len(h) > 0 /\ h[Len(h)].seq <= seq

(***************************************************************************)
(* Action properties                                                       *)
(***************************************************************************)

\* Finality: no step lowers the watermark, and the block that any height at or
\* below it answers with is the same ever after (driver.go:110-149).
FinalityIsPermanent ==
    [][/\ current'.finalized >= current.finalized
       /\ \A n \in 0 .. current.finalized :
             ByNumber(current', n) = ByNumber(current, n)]_chainVars

\* A finalized inclusion is the answer for good: once the block BlockByTx gives
\* for a transaction is finalized, no later production or reorg, even one that
\* includes the transaction again, changes the answer or the receipt.
FinalizedInclusionStands ==
    [][\A t \in TxHashes :
         LET block == BlockByTx(current, t)
         IN  block # Nil /\ block.number <= current.finalized
               => /\ BlockByTx(current', t) = block
                  /\ ReceiptOf(current', t) = ReceiptOf(current, t)]_chainVars

\* A reorg branch never collides with the orphans it replaces: a hash that
\* becomes canonical was not known before, so an orphaned block is canonical
\* never again (hash.go:24-26).
OrphansStayOrphaned ==
    [][\A i \in DOMAIN current'.canonical :
         LET h == current'.canonical[i]
         IN  h \in DOMAIN current.blocks
               => i \in DOMAIN current.canonical /\ current.canonical[i] = h]_chainVars

\* The head moves only to a higher block: a reorg outgrows what it replaces
\* (driver.go:132-149).
HeadOnlyRises ==
    [][current'.head # current.head => Height(current') > Height(current)]_chainVars

\* "orphaned blocks stay reachable by hash" (driver.go:134), and no published
\* block is ever altered (types.go:38-39).
KnownBlocksStand ==
    [][\A h \in DOMAIN current.blocks :
         ByHash(current', h) = current.blocks[h]]_chainVars

(***************************************************************************)
(* What the chain promises: ForkChoice, seen from a published snapshot     *)
(***************************************************************************)

Contract == INSTANCE ForkChoice WITH
    Ids       <- Hashes,
    Genesis   <- Genesis.hash,
    path      <- current.canonical,
    known     <- DOMAIN current.blocks,
    watermark <- current.finalized

\* Every operation of the driver is one of the two moves of the fork choice,
\* or is none at all (driver.go:91-174).
ImplementsForkChoice == Contract!Spec
=============================================================================

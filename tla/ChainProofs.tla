----------------------------- MODULE ChainProofs -----------------------------
(***************************************************************************)
(* Theorems about Chain, for every value of its constants.                 *)
(*                                                                         *)
(* ProduceBlock and Reorg both grow the chain on a fork point (GrowsBy):   *)
(* the lemmas ProduceGrows and ReorgGrows show it once, and everything     *)
(* else is proved about GrowsBy.                                           *)
(***************************************************************************)
EXTENDS Chain, SequenceTheorems, WellFoundedInduction, TLAPS

(***************************************************************************)
(* Sequences                                                               *)
(***************************************************************************)

\* Appending to a concatenation is appending to its second part.
LEMMA ConcatAppend ==
    ASSUME NEW S, NEW s \in Seq(S), NEW t \in Seq(S), NEW e \in S
    PROVE  s \o Append(t, e) = Append(s \o t, e)
<1>1. Append(t, e) = t \o <<e>> /\ <<e>> \in Seq(S)
  BY AppendIsConcat
<1>2. s \o t \in Seq(S)
  BY ConcatProperties
<1>3. Append(s \o t, e) = (s \o t) \o <<e>>
  BY <1>2, AppendIsConcat
<1> QED
  BY <1>1, <1>3, ConcatAssociative

(***************************************************************************)
(* Blocks and hashes                                                       *)
(***************************************************************************)

\* The preimage of typed parts is a preimage, and holds the sequence number.
LEMMA PreimageType ==
    ASSUME NEW s \in Nat, NEW number \in Nat, NEW txs \in Seq(Txs)
    PROVE  Preimage(s, number, txs) \in Preimages /\ Preimage(s, number, txs).seq = s
<1>1. [i \in DOMAIN txs |-> HashTx(txs[i])] \in Seq(TxHashes)
  BY DEF TxHashes
<1> QED
  BY <1>1 DEF Preimage, Preimages

\* hashBlock takes typed parts to a hash, which is never the zero hash, and the
\* last preimage in it carries the sequence number.
LEMMA HashBlockType ==
    ASSUME NEW s \in Nat, NEW number \in Nat, NEW parentHash \in Hashes,
           NEW txs \in Seq(Txs)
    PROVE  /\ HashBlock(s, number, parentHash, txs) \in Hashes
           /\ Len(HashBlock(s, number, parentHash, txs)) = Len(parentHash) + 1
           /\ HashBlock(s, number, parentHash, txs)[Len(parentHash) + 1].seq = s
<1>1. Preimage(s, number, txs) \in Preimages /\ Preimage(s, number, txs).seq = s
  BY PreimageType
<1> QED
  BY <1>1, AppendProperties DEF HashBlock, Hashes

\* A block built from typed parts is a block.
LEMMA BuildBlockType ==
    ASSUME NEW s \in Nat, NEW number \in Nat, NEW parentHash \in Hashes,
           NEW txs \in Seq(Txs)
    PROVE  BuildBlock(s, number, parentHash, txs) \in Blocks
<1> DEFINE hashes == [i \in DOMAIN txs |-> HashTx(txs[i])]
           minted == [i \in DOMAIN txs |-> [txHash |-> HashTx(txs[i]), status |-> 1]]
<1>1. hashes \in Seq(TxHashes)
  BY DEF TxHashes
<1>2. minted \in Seq(Receipts)
  <2>1. \A i \in 1 .. Len(txs) : [txHash |-> HashTx(txs[i]), status |-> 1] \in Receipts
    BY DEF TxHashes, Receipts
  <2> QED
    BY <2>1
<1>3. HashBlock(s, number + 1, parentHash, txs) \in Hashes
  BY HashBlockType
<1>4. TimestampAt(number + 1) \in 0 .. TimeModulus - 1
  BY ClockAssumption DEF TimestampAt
<1> QED
  BY <1>1, <1>2, <1>3, <1>4 DEF BuildBlock, Blocks

\* The genesis block is a block, built before any sequence number is used.
LEMMA GenesisType ==
    /\ Genesis \in Blocks
    /\ Genesis.hash \in Hashes
    /\ Genesis.number = 0
    /\ Len(Genesis.hash) = 1
    /\ Genesis.hash[Len(Genesis.hash)].seq = 0
<1>1. <<>> \in Seq(Txs) /\ <<>> \in Seq(TxHashes) /\ <<>> \in Seq(Receipts) /\ <<>> \in Hashes
  BY DEF Hashes
<1>2. /\ HashBlock(0, 0, <<>>, <<>>) \in Hashes
      /\ Len(HashBlock(0, 0, <<>>, <<>>)) = 0 + 1
      /\ HashBlock(0, 0, <<>>, <<>>)[0 + 1].seq = 0
  <2>1. Preimage(0, 0, <<>>) \in Preimages /\ Preimage(0, 0, <<>>).seq = 0
    BY <1>1, PreimageType
  <2> QED
    BY <2>1 DEF HashBlock, Hashes
<1>3. GenesisTime \in 0 .. TimeModulus - 1
  BY ClockAssumption
<1> QED
  BY <1>1, <1>2, <1>3 DEF Genesis, Blocks, ZeroHash

\* A branch hash is typed, the first one is built on the fork point and each
\* later one on the branch hash before it.
LEMMA BranchHashStep ==
    ASSUME NEW s \in Nat, NEW fork \in Blocks, NEW branch \in Seq(Seq(Txs)),
           NEW n \in 0 .. Len(branch)
    PROVE  /\ BranchHash(s, fork, branch, n) \in Hashes
           /\ Len(BranchHash(s, fork, branch, n)) = Len(fork.hash) + n
           /\ BranchHash(s, fork, branch, 0) = fork.hash
           /\ n > 0 => BranchHash(s, fork, branch, n)
                         = HashBlock(s + n, fork.number + n,
                                     BranchHash(s, fork, branch, n - 1), branch[n])
<1> DEFINE upTo(k) == [j \in 1 .. k |-> Preimage(s + j, fork.number + j, branch[j])]
           all   == upTo(n)
           front == upTo(n - 1)
           last  == Preimage(s + n, fork.number + n, branch[n])
           base  == fork.hash
<1>1. fork.hash \in Seq(Preimages) /\ fork.number \in Nat
  BY DEF Blocks, Hashes
<1>2. ASSUME NEW j \in 1 .. Len(branch)
      PROVE  Preimage(s + j, fork.number + j, branch[j]) \in Preimages
  <2>1. s + j \in Nat /\ fork.number + j \in Nat /\ branch[j] \in Seq(Txs)
    BY <1>1
  <2> QED
    BY <2>1, PreimageType
<1>3. all \in Seq(Preimages) /\ Len(all) = n
  <2>1. \A j \in 1 .. n : Preimage(s + j, fork.number + j, branch[j]) \in Preimages
    BY <1>2
  <2>2. all \in [1 .. n -> Preimages] /\ n \in Nat
    BY <2>1
  <2> HIDE DEF all
  <2> QED
    BY <2>2
<1>4. BranchHash(s, fork, branch, n) = fork.hash \o all
  BY DEF BranchHash
<1>5. BranchHash(s, fork, branch, 0) = fork.hash
  <2>1. BranchHash(s, fork, branch, 0) = fork.hash \o <<>>
    <3>1. upTo(0) = <<>>
      OBVIOUS
    <3> QED
      BY <3>1 DEF BranchHash
  <2> QED
    BY <1>1, <2>1, ConcatEmptySeq
<1>6. ASSUME n > 0
      PROVE  BranchHash(s, fork, branch, n)
               = Append(BranchHash(s, fork, branch, n - 1), last)
  <2>1. front \in Seq(Preimages) /\ last \in Preimages
    BY <1>2, <1>6
  <2>2. all = Append(front, last)
    BY <1>2, <1>6
  <2>3. BranchHash(s, fork, branch, n - 1) = fork.hash \o front
    BY DEF BranchHash
  <2>4. base \in Seq(Preimages)
    BY <1>1
  <2>5. base \o Append(front, last) = Append(base \o front, last)
    <3> HIDE DEF front, last, base
    <3> QED
      BY <2>1, <2>4, ConcatAppend
  <2> HIDE DEF all, front, last
  <2> QED
    BY <1>4, <2>2, <2>3, <2>5
<1> HIDE DEF all
<1>7. /\ BranchHash(s, fork, branch, n) \in Hashes
      /\ Len(BranchHash(s, fork, branch, n)) = Len(fork.hash) + n
  BY <1>1, <1>3, <1>4, ConcatProperties DEF Hashes
<1>8. n > 0 => BranchHash(s, fork, branch, n)
                 = HashBlock(s + n, fork.number + n,
                             BranchHash(s, fork, branch, n - 1), branch[n])
  BY <1>6 DEF HashBlock
<1> QED
  BY <1>5, <1>7, <1>8

(***************************************************************************)
(* What a write does to the snapshot's containers                          *)
(***************************************************************************)

\* The branches a reorg may be asked for are sequences of transaction lists.
LEMMA BranchesType ==
    ASSUME NEW branch \in Branches
    PROVE  branch \in Seq(Seq(Txs))
<1>1. PICK n \in 0 .. MaxBranch : branch \in [1 .. n -> TxLists]
  BY DEF Branches
<1>2. branch \in [1 .. n -> Seq(Txs)] /\ n \in Nat
  BY <1>1, ChainAssumption
<1> QED
  BY <1>2

\* The block is the i-th of a branch: built on the block before it, with the
\* i-th sequence number.
BuiltAt(block, i, s, fork, branch) ==
    /\ block \in Blocks
    /\ block.number = fork.number + i
    /\ block.hash = BranchHash(s, fork, branch, i)
    /\ block.parentHash = BranchHash(s, fork, branch, i - 1)
    /\ Len(block.hash) = Len(fork.hash) + i
    /\ block.hash[Len(block.hash)].seq = s + i

LEMMA BranchBlockIs ==
    ASSUME NEW s \in Nat, NEW fork \in Blocks, NEW branch \in Seq(Seq(Txs)),
           NEW i \in 1 .. Len(branch)
    PROVE  BuiltAt(BranchBlocks(s, fork, branch)[i], i, s, fork, branch)
<1> DEFINE block      == BranchBlocks(s, fork, branch)[i]
           parentHash == BranchHash(s, fork, branch, i - 1)
           hash       == BranchHash(s, fork, branch, i)
           number     == fork.number + i - 1
           txs        == branch[i]
<1>1. /\ i \in 0 .. Len(branch) /\ i - 1 \in 0 .. Len(branch) /\ i > 0 /\ i \in Nat
      /\ Len(branch) \in Nat
  OBVIOUS
<1>2. fork.hash \in Hashes /\ Len(fork.hash) \in Nat /\ fork.number \in Nat
  BY DEF Blocks, Hashes
<1>3. parentHash \in Hashes /\ Len(parentHash) = Len(fork.hash) + (i - 1)
  BY <1>1, BranchHashStep
<1>4. /\ Len(hash) = Len(fork.hash) + i
      /\ hash = HashBlock(s + i, fork.number + i, parentHash, txs)
  BY <1>1, BranchHashStep
<1>5. s + i \in Nat /\ number \in Nat /\ number + 1 = fork.number + i /\ fork.number + i \in Nat
  BY <1>1, <1>2
<1>6. txs \in Seq(Txs)
  BY <1>1
<1>7. block = BuildBlock(s + i, number, parentHash, txs)
  BY DEF BranchBlocks
<1> HIDE DEF block, parentHash, number, hash, txs
<1>8. block \in Blocks
  BY <1>3, <1>5, <1>6, <1>7, BuildBlockType
<1>9. /\ block.number = number + 1
      /\ block.hash = HashBlock(s + i, number + 1, parentHash, txs)
      /\ block.parentHash = parentHash
  BY <1>7 DEF BuildBlock
<1>10. HashBlock(s + i, fork.number + i, parentHash, txs)[Len(parentHash) + 1].seq = s + i
  <2> DEFINE a == s + i
             b == fork.number + i
  <2>1. a \in Nat /\ b \in Nat /\ parentHash \in Hashes
    BY <1>3, <1>5
  <2> HIDE DEF a, b
  <2>2. HashBlock(a, b, parentHash, txs)[Len(parentHash) + 1].seq = a
    BY <1>6, <2>1, HashBlockType
  <2> QED
    BY <2>2 DEF a, b
<1>11. Len(parentHash) + 1 = Len(fork.hash) + i
  BY <1>1, <1>2, <1>3
<1>12. block.number = fork.number + i /\ block.hash = hash
  BY <1>4, <1>5, <1>9
<1>13. Len(block.hash) = Len(fork.hash) + i /\ block.hash[Len(block.hash)].seq = s + i
  BY <1>4, <1>10, <1>11, <1>12
<1> QED
  BY <1>8, <1>9, <1>12, <1>13 DEF block, parentHash, hash, BuiltAt

\* A branch is a sequence of as many blocks as there are transaction lists.
\* Their numbers count from the fork point, each one's parent is the one before
\* it, the sequence numbers count from the driver's, and no two share a hash.
IsBranch(new, s, fork, branch) ==
    /\ new \in Seq(Blocks)
    /\ Len(new) = Len(branch)
    /\ \A i \in 1 .. Len(branch) :
          /\ new[i].number = fork.number + i
          /\ new[i].parentHash = IF i = 1 THEN fork.hash ELSE new[i - 1].hash
          /\ Len(new[i].hash) > 0
          /\ new[i].hash[Len(new[i].hash)].seq = s + i
    /\ \A i, j \in 1 .. Len(branch) : new[i].hash = new[j].hash => i = j

LEMMA BranchFacts ==
    ASSUME NEW s \in Nat, NEW fork \in Blocks, NEW branch \in Seq(Seq(Txs))
    PROVE  IsBranch(BranchBlocks(s, fork, branch), s, fork, branch)
<1> DEFINE new == BranchBlocks(s, fork, branch)
           len == Len(branch)
<1>1. len \in Nat /\ DOMAIN branch = 1 .. len /\ Len(fork.hash) \in Nat
  BY DEF Blocks, Hashes
<1>2. ASSUME NEW i \in 1 .. len
      PROVE  BuiltAt(new[i], i, s, fork, branch)
  BY BranchBlockIs
<1>3. DOMAIN new = 1 .. len /\ new = [i \in 1 .. len |-> new[i]]
  BY <1>1 DEF BranchBlocks
<1> HIDE DEF new, len
<1>4. new \in Seq(Blocks) /\ Len(new) = len
  <2>1. \A i \in 1 .. len : new[i] \in Blocks
    BY <1>2 DEF BuiltAt
  <2>2. new \in [1 .. len -> Blocks]
    BY <1>3, <2>1
  <2> QED
    BY <1>1, <2>2
<1>5. ASSUME NEW i \in 1 .. len
      PROVE  /\ new[i].number = fork.number + i
             /\ new[i].parentHash = IF i = 1 THEN fork.hash ELSE new[i - 1].hash
             /\ Len(new[i].hash) > 0
             /\ new[i].hash[Len(new[i].hash)].seq = s + i
  <2>1. /\ new[i].number = fork.number + i
        /\ new[i].parentHash = BranchHash(s, fork, branch, i - 1)
        /\ Len(new[i].hash) = Len(fork.hash) + i
        /\ new[i].hash[Len(new[i].hash)].seq = s + i
    BY <1>2 DEF BuiltAt
  <2>2. CASE i = 1
    <3>1. BranchHash(s, fork, branch, 0) = fork.hash
      BY <1>1, BranchHashStep DEF len
    <3> QED
      BY <1>1, <2>1, <2>2, <3>1
  <2>3. CASE i # 1
    <3>1. i - 1 \in 1 .. len
      BY <1>1, <2>3
    <3>2. new[i - 1].hash = BranchHash(s, fork, branch, i - 1)
      BY <1>2, <3>1 DEF BuiltAt
    <3> QED
      BY <1>1, <2>1, <2>3, <3>2
  <2> QED
    BY <2>2, <2>3
<1>6. ASSUME NEW i \in 1 .. len, NEW j \in 1 .. len, new[i].hash = new[j].hash
      PROVE  i = j
  <2>1. Len(new[i].hash) = Len(fork.hash) + i /\ Len(new[j].hash) = Len(fork.hash) + j
    BY <1>2 DEF BuiltAt
  <2> QED
    BY <1>1, <1>6, <2>1
<1> QED
  BY <1>4, <1>5, <1>6 DEF new, len, IsBranch

\* Cutting a path after index f and appending to it: the prefix stays in place
\* and the new elements follow it.
LEMMA CutAndAppend ==
    ASSUME NEW H, NEW path \in Seq(H), NEW new \in Seq(H),
           NEW f \in 0 .. Len(path) - 1
    PROVE  /\ SubSeq(path, 1, f + 1) \o new \in Seq(H)
           /\ Len(SubSeq(path, 1, f + 1) \o new) = f + 1 + Len(new)
           /\ \A i \in 1 .. f + 1 : (SubSeq(path, 1, f + 1) \o new)[i] = path[i]
           /\ \A i \in 1 .. Len(new) :
                (SubSeq(path, 1, f + 1) \o new)[f + 1 + i] = new[i]
<1> DEFINE cut == SubSeq(path, 1, f + 1)
<1>1. cut \in Seq(H) /\ Len(cut) = f + 1 /\ \A i \in 1 .. f + 1 : cut[i] = path[i]
  BY SubSeqProperties
<1> HIDE DEF cut
<1>2. /\ cut \o new \in Seq(H)
      /\ Len(cut \o new) = Len(cut) + Len(new)
      /\ \A i \in 1 .. Len(cut) + Len(new) :
           (cut \o new)[i] = IF i <= Len(cut) THEN cut[i] ELSE new[i - Len(cut)]
  BY <1>1, ConcatProperties
<1>3. Len(new) \in Nat /\ f \in Nat
  BY LenProperties
<1> DEFINE both == cut \o new
<1> HIDE DEF both
<1>4. /\ both \in Seq(H)
      /\ Len(both) = f + 1 + Len(new)
      /\ \A i \in 1 .. f + 1 + Len(new) :
           both[i] = IF i <= f + 1 THEN cut[i] ELSE new[i - (f + 1)]
  BY <1>1, <1>2 DEF both
<1>5. ASSUME NEW i \in 1 .. f + 1
      PROVE  both[i] = path[i]
  <2>1. i \in 1 .. f + 1 + Len(new) /\ i <= f + 1
    BY <1>3
  <2> QED
    BY <1>1, <1>4, <2>1
<1>6. ASSUME NEW i \in 1 .. Len(new)
      PROVE  both[f + 1 + i] = new[i]
  <2>1. /\ f + 1 + i \in 1 .. f + 1 + Len(new)
        /\ ~(f + 1 + i <= f + 1)
        /\ f + 1 + i - (f + 1) = i
    BY <1>3
  <2> QED
    BY <1>4, <2>1
<1> QED
  BY <1>4, <1>5, <1>6 DEF cut, both

\* Blocks with distinct hashes go into the map under their hashes, and disturb
\* nothing that was there under another.
LEMMA AddBlocksFacts ==
    ASSUME NEW blocks, NEW new \in Seq(Blocks),
           \A i, j \in 1 .. Len(new) : new[i].hash = new[j].hash => i = j
    PROVE  /\ DOMAIN AddBlocks(blocks, new)
                = DOMAIN blocks \cup {new[i].hash : i \in 1 .. Len(new)}
           /\ \A i \in 1 .. Len(new) : AddBlocks(blocks, new)[new[i].hash] = new[i]
           /\ \A h \in DOMAIN blocks :
                h \notin {new[i].hash : i \in 1 .. Len(new)}
                  => AddBlocks(blocks, new)[h] = blocks[h]
<1>1. DOMAIN new = 1 .. Len(new)
  OBVIOUS
<1>2. DOMAIN AddBlocks(blocks, new)
        = DOMAIN blocks \cup {new[i].hash : i \in 1 .. Len(new)}
  BY <1>1 DEF AddBlocks
<1>3. ASSUME NEW i \in 1 .. Len(new)
      PROVE  AddBlocks(blocks, new)[new[i].hash] = new[i]
  <2>1. (CHOOSE j \in 1 .. Len(new) : new[j].hash = new[i].hash) = i
    OBVIOUS
  <2> QED
    BY <1>1, <2>1 DEF AddBlocks
<1>4. ASSUME NEW h \in DOMAIN blocks, h \notin {new[i].hash : i \in 1 .. Len(new)}
      PROVE  AddBlocks(blocks, new)[h] = blocks[h]
  BY <1>1, <1>4 DEF AddBlocks
<1> QED
  BY <1>2, <1>3, <1>4

(***************************************************************************)
(* The inductive invariant                                                 *)
(***************************************************************************)

\* CanonicalIsAPath alone is not inductive: a branch block whose hash was taken
\* would overwrite a block the path goes through.  SeqIsAhead rules that out,
\* and FinalizedWithinChain keeps the fork point inside the path.
IInv ==
    /\ TypeOK
    /\ CanonicalIsAPath
    /\ FinalizedWithinChain
    /\ SeqIsAhead

\* The head of a well-formed snapshot is its last canonical block, and any
\* height up to it has a block.
LEMMA HeadFacts ==
    ASSUME IInv
    PROVE  /\ Len(current.canonical) \in Nat \ {0}
           /\ HeadBlock(current) = current.blocks[current.head]
           /\ HeadBlock(current) \in Blocks
           /\ HeadBlock(current).hash = current.head
           /\ HeadBlock(current).number = Len(current.canonical) - 1
           /\ Height(current) = Len(current.canonical) - 1
<1> DEFINE path == current.canonical
<1>1. path \in Seq(Hashes) /\ Len(path) > 0 /\ current.head = path[Len(path)]
  BY DEF IInv, TypeOK, CanonicalIsAPath
<1>2. Len(path) \in Nat \ {0} /\ Len(path) \in 1 .. Len(path)
  <2> HIDE DEF path
  <2> QED
    BY <1>1
<1>3. /\ current.head \in DOMAIN current.blocks
      /\ current.blocks[current.head].number = Len(path) - 1
  BY <1>1, <1>2 DEF IInv, CanonicalIsAPath
<1>4. /\ current.blocks[current.head] \in Blocks
      /\ current.blocks[current.head].hash = current.head
  BY <1>3 DEF IInv, TypeOK
<1>5. HeadBlock(current) = current.blocks[current.head]
  BY <1>3 DEF HeadBlock, ByHash
<1>6. HeadBlock(current) # Nil
  BY <1>4, <1>5, NilAssumption
<1>7. Height(current) = Len(path) - 1
  BY <1>3, <1>5, <1>6 DEF Height
<1> QED
  BY <1>2, <1>3, <1>4, <1>5, <1>7

\* Any height of the path has its canonical block.
LEMMA ByNumberFacts ==
    ASSUME IInv, NEW n \in 0 .. Len(current.canonical) - 1
    PROVE  /\ ByNumber(current, n) = current.blocks[current.canonical[n + 1]]
           /\ ByNumber(current, n) \in Blocks
           /\ ByNumber(current, n).hash = current.canonical[n + 1]
           /\ ByNumber(current, n).number = n
<1>1. Len(current.canonical) \in Nat
  BY HeadFacts
<1>2. n + 1 \in 1 .. Len(current.canonical) /\ n < Len(current.canonical)
  BY <1>1
<1>3. ByNumber(current, n) = current.blocks[current.canonical[n + 1]]
  BY <1>1, <1>2 DEF ByNumber
<1>4. /\ current.canonical[n + 1] \in DOMAIN current.blocks
      /\ current.blocks[current.canonical[n + 1]].number = (n + 1) - 1
  BY <1>2 DEF IInv, CanonicalIsAPath
<1> QED
  BY <1>3, <1>4 DEF IInv, TypeOK

\* The step that grows the chain: on the block at height fork, which is not
\* below the watermark, stand the blocks new, linked to one another, none of
\* them known and all of them numbered by seq after the last one built.
GrowsBy(fork, new) ==
    /\ fork \in current.finalized .. Len(current.canonical) - 1
    /\ new \in Seq(Blocks)
    /\ fork + Len(new) >= Len(current.canonical)
    /\ seq' \in seq .. MaxSeq
    /\ current' = Extend(current, fork, new)
    /\ \A i \in 1 .. Len(new) :
         /\ new[i].number = fork + i
         /\ new[i].parentHash = IF i = 1 THEN current.canonical[fork + 1]
                                         ELSE new[i - 1].hash
         /\ Len(new[i].hash) > 0
         /\ new[i].hash[Len(new[i].hash)].seq \in seq + 1 .. seq'
    /\ \A i, j \in 1 .. Len(new) : new[i].hash = new[j].hash => i = j

\* What the step leaves in every field of the snapshot.
LEMMA GrowsFacts ==
    ASSUME IInv, NEW fork, NEW new, GrowsBy(fork, new)
    PROVE  /\ Len(new) \in Nat \ {0}
           /\ fork \in Nat
           /\ DOMAIN current' = {"blocks", "canonical", "head", "finalized"}
           /\ current'.canonical \in Seq(Hashes)
           /\ Len(current'.canonical) = fork + 1 + Len(new)
           /\ \A i \in 1 .. fork + 1 : current'.canonical[i] = current.canonical[i]
           /\ \A i \in 1 .. Len(new) : current'.canonical[fork + 1 + i] = new[i].hash
           /\ DOMAIN current'.blocks
                = DOMAIN current.blocks \cup {new[i].hash : i \in 1 .. Len(new)}
           /\ \A i \in 1 .. Len(new) : new[i].hash \notin DOMAIN current.blocks
           /\ \A i \in 1 .. Len(new) : current'.blocks[new[i].hash] = new[i]
           /\ \A h \in DOMAIN current.blocks : current'.blocks[h] = current.blocks[h]
           /\ current'.head = new[Len(new)].hash
           /\ current'.finalized = current.finalized
<1> DEFINE path   == current.canonical
           hashes == [i \in DOMAIN new |-> new[i].hash]
<1>1. /\ Len(path) \in Nat \ {0}
      /\ current.finalized \in Nat
      /\ path \in Seq(Hashes)
      /\ seq \in Nat
  BY HeadFacts DEF IInv, TypeOK
<1>2. /\ fork \in 0 .. Len(path) - 1
      /\ fork + Len(new) >= Len(path)
      /\ new \in Seq(Blocks)
      /\ current' = Extend(current, fork, new)
  BY <1>1 DEF GrowsBy
<1>3. Len(new) \in Nat \ {0} /\ DOMAIN new = 1 .. Len(new)
  <2>1. Len(new) \in Nat /\ DOMAIN new = 1 .. Len(new)
    BY <1>2
  <2> HIDE DEF path
  <2> QED
    BY <1>1, <1>2, <2>1
<1>4. hashes \in Seq(Hashes) /\ Len(hashes) = Len(new)
  <2>1. \A i \in 1 .. Len(new) : new[i].hash \in Hashes
    <3>1. \A i \in 1 .. Len(new) : new[i] \in Blocks
      BY <1>2
    <3> QED
      BY <3>1 DEF Blocks
  <2> QED
    BY <1>3, <2>1
<1>5. current' = [blocks    |-> AddBlocks(current.blocks, new),
                  canonical |-> SubSeq(path, 1, fork + 1) \o hashes,
                  head      |-> new[Len(new)].hash,
                  finalized |-> current.finalized]
  BY <1>2 DEF Extend
<1>6. /\ DOMAIN current' = {"blocks", "canonical", "head", "finalized"}
      /\ current'.blocks = AddBlocks(current.blocks, new)
      /\ current'.canonical = SubSeq(path, 1, fork + 1) \o hashes
      /\ current'.head = new[Len(new)].hash
      /\ current'.finalized = current.finalized
  BY <1>5
<1>7. /\ current'.canonical \in Seq(Hashes)
      /\ Len(current'.canonical) = fork + 1 + Len(new)
      /\ \A i \in 1 .. fork + 1 : current'.canonical[i] = path[i]
      /\ \A i \in 1 .. Len(new) : current'.canonical[fork + 1 + i] = hashes[i]
  <2> DEFINE path2 == current'.canonical
  <2>1. path2 = SubSeq(path, 1, fork + 1) \o hashes
    BY <1>6
  <2> HIDE DEF path, hashes, path2
  <2>2. /\ path2 \in Seq(Hashes)
        /\ Len(path2) = fork + 1 + Len(new)
        /\ \A i \in 1 .. fork + 1 : path2[i] = path[i]
        /\ \A i \in 1 .. Len(new) : path2[fork + 1 + i] = hashes[i]
    <3> DEFINE joined == SubSeq(path, 1, fork + 1) \o hashes
    <3>1. /\ joined \in Seq(Hashes)
          /\ Len(joined) = fork + 1 + Len(hashes)
          /\ \A i \in 1 .. fork + 1 : joined[i] = path[i]
          /\ \A i \in 1 .. Len(hashes) : joined[fork + 1 + i] = hashes[i]
      <4>1. path \in Seq(Hashes) /\ hashes \in Seq(Hashes) /\ fork \in 0 .. Len(path) - 1
        BY <1>1, <1>2, <1>4
      <4> QED
        BY <4>1, CutAndAppend
    <3> QED
      BY <1>4, <2>1, <3>1
  <2> QED
    BY <2>2 DEF path2
<1>8. \A i \in 1 .. Len(new) : new[i].hash \notin DOMAIN current.blocks
  <2>1. ASSUME NEW i \in 1 .. Len(new)
        PROVE  new[i].hash[Len(new[i].hash)].seq > seq
    <3>1. new[i].hash[Len(new[i].hash)].seq \in seq + 1 .. seq'
      BY DEF GrowsBy
    <3>2. seq \in Nat /\ seq' \in Nat
      BY <1>1, ChainAssumption DEF GrowsBy
    <3> QED
      BY <3>1, <3>2
  <2>2. ASSUME NEW h \in DOMAIN current.blocks
        PROVE  ~(h[Len(h)].seq > seq)
    <3>1. h \in Seq(Preimages) /\ Len(h) > 0 /\ h[Len(h)].seq <= seq
      BY DEF IInv, TypeOK, SeqIsAhead, Hashes
    <3>2. h[Len(h)] \in Preimages
      BY <3>1
    <3>3. h[Len(h)].seq \in Nat
      BY <3>2 DEF Preimages
    <3> QED
      BY <1>1, <3>1, <3>3
  <2> QED
    BY <2>1, <2>2
<1>9. /\ DOMAIN current'.blocks
           = DOMAIN current.blocks \cup {new[i].hash : i \in 1 .. Len(new)}
      /\ \A i \in 1 .. Len(new) : current'.blocks[new[i].hash] = new[i]
      /\ \A h \in DOMAIN current.blocks : current'.blocks[h] = current.blocks[h]
  <2>1. \A i, j \in 1 .. Len(new) : new[i].hash = new[j].hash => i = j
    BY DEF GrowsBy
  <2> DEFINE added == AddBlocks(current.blocks, new)
  <2>2. /\ DOMAIN added = DOMAIN current.blocks \cup {new[i].hash : i \in 1 .. Len(new)}
        /\ \A i \in 1 .. Len(new) : added[new[i].hash] = new[i]
        /\ \A h \in DOMAIN current.blocks :
             h \notin {new[i].hash : i \in 1 .. Len(new)} => added[h] = current.blocks[h]
    BY <1>2, <2>1, AddBlocksFacts
  <2>3. current'.blocks = added
    BY <1>6
  <2> HIDE DEF added
  <2>4. \A h \in DOMAIN current.blocks : h \notin {new[i].hash : i \in 1 .. Len(new)}
    BY <1>8
  <2> QED
    BY <2>2, <2>3, <2>4
<1>10. Len(new) \in Nat \ {0} /\ fork \in Nat
  BY <1>1, <1>2, <1>3
<1>11. \A i \in 1 .. Len(new) : current'.canonical[fork + 1 + i] = new[i].hash
  <2>1. \A i \in 1 .. Len(new) : hashes[i] = new[i].hash
    BY <1>3
  <2> HIDE DEF hashes
  <2> QED
    BY <1>7, <2>1, Zenon
<1> QED
  BY <1>6, <1>7, <1>8, <1>9, <1>10, <1>11, Zenon

\* The step preserves the invariant.
LEMMA GrowsPreserves ==
    ASSUME IInv, NEW fork, NEW new, GrowsBy(fork, new)
    PROVE  IInv'
<1> USE GrowsFacts
<1>1. /\ new \in Seq(Blocks)
      /\ \A i \in 1 .. Len(new) : new[i] \in Blocks
      /\ seq \in Nat /\ seq' \in seq .. MaxSeq
      /\ Len(current.canonical) \in Nat \ {0}
      /\ fork \in current.finalized .. Len(current.canonical) - 1
      /\ current.finalized \in Nat
  BY HeadFacts DEF GrowsBy, IInv, TypeOK
<1>0. Len(new) \in 1 .. Len(new)
  OBVIOUS
<1>2. TypeOK'
  <2>1. ASSUME NEW h \in DOMAIN current'.blocks
        PROVE  h \in Hashes /\ current'.blocks[h] \in Blocks /\ current'.blocks[h].hash = h
    <3>1. CASE h \in DOMAIN current.blocks
      BY <3>1 DEF IInv, TypeOK
    <3>2. CASE h \in {new[i].hash : i \in 1 .. Len(new)}
      <4>1. PICK i \in 1 .. Len(new) : h = new[i].hash
        BY <3>2
      <4>2. current'.blocks[h] = new[i]
        BY <4>1
      <4> QED
        BY <1>1, <4>1, <4>2 DEF Blocks
    <3> QED
      BY <2>1, <3>1, <3>2
  <2>2. current'.head \in Hashes
    <3>1. new[Len(new)] \in Blocks
      BY <1>0, <1>1
    <3> QED
      BY <3>1 DEF Blocks
  <2>3. seq' \in 0 .. MaxSeq
    BY <1>1, ChainAssumption
  <2> QED
    BY <1>1, <2>1, <2>2, <2>3 DEF TypeOK
<1>3. CanonicalIsAPath'
  <2> DEFINE path  == current.canonical
             path2 == current'.canonical
  <2>1. Len(path2) = fork + 1 + Len(new) /\ Len(path2) > 0
    BY <1>1
  <2>2. path2[1] = Genesis.hash
    BY <1>1 DEF IInv, CanonicalIsAPath
  <2>3. current'.head = path2[Len(path2)]
    BY <2>1
  <2>4. ASSUME NEW i \in 1 .. Len(path2), i <= fork + 1
        PROVE  /\ path2[i] \in DOMAIN current'.blocks
               /\ current'.blocks[path2[i]].number = i - 1
               /\ i > 1 => current'.blocks[path2[i]].parentHash = path2[i - 1]
    <3>1. i \in 1 .. fork + 1 /\ i \in 1 .. Len(path) /\ path2[i] = path[i]
      BY <1>1, <2>4
    <3>2. /\ path[i] \in DOMAIN current.blocks
          /\ current.blocks[path[i]].number = i - 1
          /\ i > 1 => current.blocks[path[i]].parentHash = path[i - 1]
      BY <3>1 DEF IInv, CanonicalIsAPath
    <3>3. i > 1 => path2[i - 1] = path[i - 1]
      <4>1. i > 1 => i - 1 \in 1 .. fork + 1
        BY <1>1, <3>1
      <4> QED
        BY <4>1
    <3> QED
      BY <3>1, <3>2, <3>3
  <2>5. ASSUME NEW i \in 1 .. Len(path2), ~(i <= fork + 1)
        PROVE  /\ path2[i] \in DOMAIN current'.blocks
               /\ current'.blocks[path2[i]].number = i - 1
               /\ i > 1 => current'.blocks[path2[i]].parentHash = path2[i - 1]
    <3> DEFINE k == i - (fork + 1)
    <3>1. k \in 1 .. Len(new) /\ i = fork + 1 + k
      BY <1>1, <2>1, <2>5
    <3> HIDE DEF k
    <3>2. path2[i] = new[k].hash /\ current'.blocks[new[k].hash] = new[k]
      BY <3>1
    <3>3. /\ new[k].number = fork + k
          /\ new[k].parentHash = IF k = 1 THEN path[fork + 1] ELSE new[k - 1].hash
      BY <3>1 DEF GrowsBy
    <3>4. path2[i - 1] = IF k = 1 THEN path[fork + 1] ELSE new[k - 1].hash
      <4>1. CASE k = 1
        <5>1. i - 1 = fork + 1 /\ fork + 1 \in 1 .. fork + 1
          BY <1>1, <3>1, <4>1
        <5> QED
          BY <4>1, <5>1
      <4>2. CASE k # 1
        <5>1. k - 1 \in 1 .. Len(new) /\ i - 1 = fork + 1 + (k - 1)
          BY <1>1, <3>1, <4>2
        <5> QED
          BY <4>2, <5>1
      <4> QED
        BY <4>1, <4>2
    <3>5. i - 1 = fork + k
      BY <1>1, <3>1
    <3>6. path2[i] \in DOMAIN current'.blocks /\ current'.blocks[path2[i]] = new[k]
      BY <3>1, <3>2
    <3> QED
      BY <3>3, <3>4, <3>5, <3>6
  <2> QED
    BY <2>1, <2>2, <2>3, <2>4, <2>5 DEF CanonicalIsAPath
<1>4. SeqIsAhead'
  <2>1. ASSUME NEW h \in DOMAIN current'.blocks
        PROVE  Len(h) > 0 /\ h[Len(h)].seq <= seq'
    <3>1. CASE h \in DOMAIN current.blocks
      <4>1. h \in Seq(Preimages) /\ Len(h) > 0 /\ h[Len(h)].seq <= seq
        BY <3>1 DEF IInv, TypeOK, SeqIsAhead, Hashes
      <4>2. h[Len(h)].seq \in Nat
        <5>1. h[Len(h)] \in Preimages
          BY <4>1
        <5> QED
          BY <5>1 DEF Preimages
      <4> QED
        BY <1>1, <4>1, <4>2, ChainAssumption
    <3>2. CASE h \in {new[i].hash : i \in 1 .. Len(new)}
      <4>1. PICK i \in 1 .. Len(new) : h = new[i].hash
        BY <3>2
      <4>2. Len(new[i].hash) > 0 /\ new[i].hash[Len(new[i].hash)].seq \in seq + 1 .. seq'
        BY DEF GrowsBy
      <4> QED
        BY <4>1, <4>2
    <3> QED
      BY <2>1, <3>1, <3>2
  <2> QED
    BY <2>1 DEF SeqIsAhead
<1>5. FinalizedWithinChain'
  <2>1. HeadBlock(current)' = new[Len(new)]
    <3>1. /\ current'.head \in DOMAIN current'.blocks
          /\ current'.blocks[current'.head] = new[Len(new)]
      <4>1. current'.head = new[Len(new)].hash
        OBVIOUS
      <4>2. new[Len(new)].hash \in {new[i].hash : i \in 1 .. Len(new)}
        BY <1>0
      <4>3. current'.blocks[new[Len(new)].hash] = new[Len(new)]
        BY <1>0
      <4> QED
        BY <4>1, <4>2, <4>3
    <3> QED
      BY <3>1 DEF HeadBlock, ByHash
  <2>2. new[Len(new)] \in Blocks /\ new[Len(new)].number = fork + Len(new)
    BY <1>1 DEF GrowsBy
  <2>3. Height(current)' = fork + Len(new)
    BY <2>1, <2>2, NilAssumption DEF Height
  <2> QED
    BY <1>1, <2>3 DEF FinalizedWithinChain
<1> QED
  BY <1>2, <1>3, <1>4, <1>5 DEF IInv

(***************************************************************************)
(* Both writers grow the chain                                             *)
(***************************************************************************)

\* ProduceBlock grows the chain on its head by one block.
LEMMA ProduceGrows ==
    ASSUME IInv, NEW txs \in Seq(Txs), ProduceBlock(txs)
    PROVE  GrowsBy(Len(current.canonical) - 1,
                   <<BuildBlock(seq + 1, HeadBlock(current).number, HeadBlock(current).hash, txs)>>)
<1> DEFINE path   == current.canonical
           parent == HeadBlock(current)
           block  == BuildBlock(seq + 1, parent.number, parent.hash, txs)
           fork   == Len(path) - 1
           new    == <<block>>
<1>1. /\ Len(path) \in Nat \ {0} /\ path \in Seq(Hashes)
      /\ parent.number = fork /\ parent.hash = path[Len(path)]
      /\ parent.number \in Nat /\ parent.hash \in Hashes
      /\ current.finalized \in 0 .. fork
      /\ seq \in Nat /\ seq + 1 \in 0 .. MaxSeq
  <2>1. /\ Len(path) \in Nat \ {0}
        /\ parent \in Blocks /\ parent.hash = current.head /\ parent.number = Len(path) - 1
        /\ Height(current) = Len(path) - 1
    BY HeadFacts
  <2>2. parent.number \in Nat /\ parent.hash \in Hashes
    BY <2>1 DEF Blocks
  <2>3. current.head = path[Len(path)] /\ path \in Seq(Hashes)
    BY DEF IInv, CanonicalIsAPath, TypeOK
  <2>4. current.finalized \in Nat /\ current.finalized <= Len(path) - 1
    BY <2>1 DEF IInv, TypeOK, FinalizedWithinChain
  <2>5. seq \in Nat /\ seq < MaxSeq
    BY DEF IInv, TypeOK, ProduceBlock
  <2> QED
    BY <2>1, <2>2, <2>3, <2>4, <2>5, ChainAssumption
<1>2. txs \in Seq(Txs)
  OBVIOUS
<1>3. block \in Blocks
  BY <1>1, <1>2, BuildBlockType
<1>4. /\ block.number = fork + 1
      /\ block.parentHash = path[Len(path)]
      /\ block.hash = HashBlock(seq + 1, fork + 1, parent.hash, txs)
  BY <1>1 DEF BuildBlock
<1>5. Len(block.hash) > 0 /\ block.hash[Len(block.hash)].seq = seq + 1
  <2>1. Len(parent.hash) \in Nat
    BY <1>1 DEF Hashes
  <2>2. fork + 1 \in Nat
    BY <1>1
  <2>3. seq + 1 \in Nat
    BY <1>1
  <2> DEFINE above  == parent.hash
             digest == HashBlock(seq + 1, fork + 1, above, txs)
  <2>4. Len(digest) = Len(above) + 1 /\ digest[Len(above) + 1].seq = seq + 1
    <3>1. above \in Hashes
      BY <1>1
    <3> HIDE DEF above, fork
    <3> QED
      BY <1>2, <2>2, <2>3, <3>1, HashBlockType
  <2> HIDE DEF parent, block, digest
  <2>5. block.hash = digest
    BY <1>4 DEF digest
  <2> QED
    BY <2>1, <2>4, <2>5
<1>6. seq' = seq + 1
      /\ current' = [blocks    |-> AddBlocks(current.blocks, new),
                     canonical |-> Append(path, block.hash),
                     head      |-> block.hash,
                     finalized |-> current.finalized]
  BY DEF ProduceBlock
<1> HIDE DEF block
<1>7. new \in Seq(Blocks) /\ Len(new) = 1 /\ new[1] = block
  BY <1>3
<1>8. Append(path, block.hash)
        = SubSeq(path, 1, fork + 1) \o [i \in DOMAIN new |-> new[i].hash]
  <2> DEFINE h == block.hash
  <2>1. [i \in DOMAIN new |-> new[i].hash] = <<h>>
    BY <1>7
  <2>2. h \in Hashes
    BY <1>3 DEF Blocks
  <2>3. SubSeq(path, 1, fork + 1) = path
    <3> HIDE DEF path
    <3> QED
      BY <1>1
  <2>4. Append(path, h) = path \o <<h>>
    <3> HIDE DEF path, h
    <3> QED
      BY <1>1, <2>2
  <2> QED
    BY <2>1, <2>3, <2>4
<1>9. current' = Extend(current, fork, new)
  BY <1>6, <1>7, <1>8 DEF Extend
<1>10. GrowsBy(fork, new)
  <2>1. /\ fork \in current.finalized .. Len(path) - 1
        /\ fork + Len(new) >= Len(path)
        /\ seq' \in seq .. MaxSeq
    BY <1>1, <1>6, <1>7
  <2>2. ASSUME NEW i \in 1 .. Len(new)
        PROVE  /\ new[i].number = fork + i
               /\ new[i].parentHash = IF i = 1 THEN path[fork + 1] ELSE new[i - 1].hash
               /\ Len(new[i].hash) > 0
               /\ new[i].hash[Len(new[i].hash)].seq \in seq + 1 .. seq'
    <3>1. i = 1 /\ new[i] = block /\ fork + 1 = Len(path)
      BY <1>1, <1>7
    <3> QED
      BY <1>1, <1>4, <1>5, <1>6, <3>1
  <2>3. \A i, j \in 1 .. Len(new) : new[i].hash = new[j].hash => i = j
    BY <1>7
  <2> QED
    BY <1>7, <1>9, <2>1, <2>2, <2>3 DEF GrowsBy
<1> QED
  BY <1>10 DEF block

\* Reorg grows the chain on its fork point by the blocks of the branch.
LEMMA ReorgGrows ==
    ASSUME IInv, NEW forkFrom \in Nat, NEW branch \in Seq(Seq(Txs)), Reorg(forkFrom, branch)
    PROVE  GrowsBy(forkFrom, BranchBlocks(seq, ByNumber(current, forkFrom), branch))
<1> DEFINE path == current.canonical
           fork == ByNumber(current, forkFrom)
           new  == BranchBlocks(seq, fork, branch)
<1>1. /\ Len(path) \in Nat \ {0}
      /\ Height(current) = Len(path) - 1
      /\ current.finalized \in Nat /\ seq \in Nat
  BY HeadFacts, ChainAssumption DEF IInv, TypeOK
<1>2. Len(branch) \in Nat
  OBVIOUS
<1>3. /\ forkFrom \in current.finalized .. Len(path) - 1
      /\ forkFrom + Len(branch) >= Len(path)
  <2>1. /\ ~(forkFrom < current.finalized)
        /\ ~(forkFrom > Height(current))
        /\ ~(forkFrom + Len(branch) <= Height(current))
    BY DEF Reorg, ReorgError
  <2> HIDE DEF path
  <2> QED
    BY <1>1, <1>2, <2>1
<1>4. fork \in Blocks /\ fork.hash = path[forkFrom + 1] /\ fork.number = forkFrom
  <2>1. forkFrom \in 0 .. Len(path) - 1
    BY <1>1, <1>3
  <2> QED
    BY <2>1, ByNumberFacts
<1>5. /\ seq' = seq + Len(branch) /\ seq' \in seq .. MaxSeq
      /\ current' = Extend(current, forkFrom, new)
  <2>1. /\ seq + Len(branch) <= MaxSeq
        /\ seq' = seq + Len(branch)
        /\ current' = Extend(current, forkFrom, new)
    BY DEF Reorg
  <2> QED
    BY <1>1, <1>2, <2>1, ChainAssumption
<1> HIDE DEF fork
<1>6. IsBranch(new, seq, fork, branch)
  BY <1>1, <1>2, <1>4, BranchFacts
<1> HIDE DEF new, path
<1>7. /\ new \in Seq(Blocks) /\ Len(new) = Len(branch)
      /\ \A i, j \in 1 .. Len(branch) : new[i].hash = new[j].hash => i = j
  BY <1>6 DEF IsBranch
<1>8. ASSUME NEW i \in 1 .. Len(branch)
      PROVE  /\ new[i].number = forkFrom + i
             /\ new[i].parentHash = IF i = 1 THEN path[forkFrom + 1] ELSE new[i - 1].hash
             /\ Len(new[i].hash) > 0
             /\ new[i].hash[Len(new[i].hash)].seq = seq + i
  BY <1>4, <1>6 DEF IsBranch
<1>9. GrowsBy(forkFrom, new)
  <2>1. /\ forkFrom \in current.finalized .. Len(current.canonical) - 1
        /\ forkFrom + Len(new) >= Len(current.canonical)
    BY <1>3, <1>7 DEF path
  <2>2. ASSUME NEW i \in 1 .. Len(new)
        PROVE  /\ new[i].number = forkFrom + i
               /\ new[i].parentHash
                    = IF i = 1 THEN current.canonical[forkFrom + 1] ELSE new[i - 1].hash
               /\ Len(new[i].hash) > 0
               /\ new[i].hash[Len(new[i].hash)].seq \in seq + 1 .. seq'
    <3>1. i \in 1 .. Len(branch)
      BY <1>7
    <3>2. seq + i \in seq + 1 .. seq'
      BY <1>1, <1>2, <1>5, <3>1
    <3> QED
      BY <1>8, <3>1, <3>2 DEF path
  <2>3. \A i, j \in 1 .. Len(new) : new[i].hash = new[j].hash => i = j
    BY <1>7
  <2> QED
    BY <1>5, <1>7, <2>1, <2>2, <2>3 DEF GrowsBy
<1> QED
  BY <1>9 DEF fork, new

(***************************************************************************)
(* The invariant holds                                                     *)
(***************************************************************************)

LEMMA InitEstablishesIInv == Init => IInv
<1> SUFFICES ASSUME Init PROVE IInv
  OBVIOUS
<1>1. /\ current = [blocks    |-> [h \in {Genesis.hash} |-> Genesis],
                    canonical |-> <<Genesis.hash>>,
                    head      |-> Genesis.hash,
                    finalized |-> 0]
      /\ seq = 0
  BY DEF Init, GenesisSnapshot
<1>2. /\ DOMAIN current = {"blocks", "canonical", "head", "finalized"}
      /\ current.blocks = [h \in {Genesis.hash} |-> Genesis]
      /\ current.canonical = <<Genesis.hash>>
      /\ current.head = Genesis.hash
      /\ current.finalized = 0
  BY <1>1
<1> USE GenesisType
<1>3. TypeOK
  BY <1>1, <1>2, ChainAssumption DEF TypeOK
<1>4. CanonicalIsAPath
  <2>1. /\ Len(current.canonical) = 1
        /\ current.canonical[1] = Genesis.hash
        /\ DOMAIN current.blocks = {Genesis.hash}
        /\ current.blocks[Genesis.hash] = Genesis
    BY <1>2
  <2> QED
    BY <1>2, <2>1 DEF CanonicalIsAPath
<1>5. SeqIsAhead
  BY <1>1, <1>2 DEF SeqIsAhead
<1>6. FinalizedWithinChain
  <2>1. HeadBlock(current) = Genesis
    BY <1>2 DEF HeadBlock, ByHash
  <2> QED
    BY <1>2, <2>1 DEF FinalizedWithinChain, Height
<1> QED
  BY <1>3, <1>4, <1>5, <1>6 DEF IInv

\* Finalize moves the watermark up, to a height of the chain, and leaves the
\* rest of the snapshot alone.
LEMMA FinalizeFacts ==
    ASSUME IInv, NEW height \in Nat, Finalize(height)
    PROVE  /\ seq' = seq
           /\ DOMAIN current' = DOMAIN current
           /\ current'.blocks = current.blocks
           /\ current'.canonical = current.canonical
           /\ current'.head = current.head
           /\ current'.finalized = height
           /\ height \in current.finalized .. Len(current.canonical) - 1
<1>1. /\ DOMAIN current = {"blocks", "canonical", "head", "finalized"}
      /\ current.finalized \in Nat
      /\ Len(current.canonical) \in Nat
      /\ Height(current) = Len(current.canonical) - 1
  BY HeadFacts DEF IInv, TypeOK
<1>2. ~(height > Height(current)) /\ ~(height < current.finalized)
  BY DEF Finalize, FinalizeError
<1>3. current' = [current EXCEPT !.finalized = height] /\ seq' = seq
  BY DEF Finalize
<1> QED
  BY <1>1, <1>2, <1>3

LEMMA FinalizePreserves ==
    ASSUME IInv, NEW height \in Nat, Finalize(height)
    PROVE  IInv'
<1>1. /\ seq' = seq
      /\ DOMAIN current' = DOMAIN current
      /\ current'.blocks = current.blocks
      /\ current'.canonical = current.canonical
      /\ current'.head = current.head
      /\ current'.finalized = height
      /\ height \in current.finalized .. Len(current.canonical) - 1
  BY FinalizeFacts
<1>2. TypeOK'
  BY <1>1 DEF IInv, TypeOK
<1>3. CanonicalIsAPath'
  BY <1>1 DEF IInv, CanonicalIsAPath
<1>4. SeqIsAhead'
  BY <1>1 DEF IInv, SeqIsAhead
<1>5. FinalizedWithinChain'
  <2>1. Height(current)' = Height(current)
    BY <1>1 DEF Height, HeadBlock, ByHash
  <2>2. Height(current) = Len(current.canonical) - 1
    BY HeadFacts
  <2> QED
    BY <1>1, <2>1, <2>2 DEF FinalizedWithinChain
<1> QED
  BY <1>2, <1>3, <1>4, <1>5 DEF IInv

\* A step of the driver grows the chain, finalizes a height, or changes nothing.
LEMMA StepCases ==
    ASSUME IInv, [Next]_chainVars
    PROVE  \/ \E fork, new : GrowsBy(fork, new)
           \/ \E height \in Nat : Finalize(height)
           \/ UNCHANGED chainVars
<1>1. CASE \E txs \in TxLists : ProduceBlock(txs)
  <2>1. PICK txs \in TxLists : ProduceBlock(txs)
    BY <1>1
  <2>2. txs \in Seq(Txs)
    BY ChainAssumption
  <2> QED
    BY <2>1, <2>2, ProduceGrows
<1>2. CASE \E height \in Heights : Finalize(height)
  BY <1>2, ChainAssumption DEF Heights
<1>3. CASE \E forkFrom \in Heights, branch \in Branches : Reorg(forkFrom, branch)
  <2>1. PICK forkFrom \in Heights, branch \in Branches : Reorg(forkFrom, branch)
    BY <1>3
  <2>2. forkFrom \in Nat /\ branch \in Seq(Seq(Txs))
    BY BranchesType, ChainAssumption DEF Heights
  <2> QED
    BY <2>1, <2>2, ReorgGrows
<1>4. CASE UNCHANGED chainVars
  BY <1>4
<1> QED
  BY <1>1, <1>2, <1>3, <1>4 DEF Next

LEMMA StepPreservesIInv == IInv /\ [Next]_chainVars => IInv'
<1> SUFFICES ASSUME IInv, [Next]_chainVars PROVE IInv'
  OBVIOUS
<1>1. CASE \E fork, new : GrowsBy(fork, new)
  BY <1>1, GrowsPreserves
<1>2. CASE \E height \in Nat : Finalize(height)
  BY <1>2, FinalizePreserves
<1>3. CASE UNCHANGED chainVars
  BY <1>3 DEF IInv, TypeOK, CanonicalIsAPath, SeqIsAhead, FinalizedWithinChain,
              Height, HeadBlock, ByHash, chainVars
<1> QED
  BY <1>1, <1>2, <1>3, StepCases

LEMMA SpecIInv == Spec => []IInv
  BY InitEstablishesIInv, StepPreservesIInv, PTL DEF Spec

\* The driver's state keeps its type (driver.go:23-32, snapshot.go:11-16).
THEOREM TypeCorrect == Spec => []TypeOK
<1>1. IInv => TypeOK
  BY DEF IInv
<1> QED
  BY <1>1, SpecIInv, PTL

\* The canonical chain is a path of known blocks from genesis to the head,
\* after any sequence of productions, finalizations and reorgs.
THEOREM CanonicalPath == Spec => [](CanonicalIsAPath /\ FinalizedWithinChain /\ SeqIsAhead)
<1>1. IInv => CanonicalIsAPath /\ FinalizedWithinChain /\ SeqIsAhead
  BY DEF IInv
<1> QED
  BY <1>1, SpecIInv, PTL

(***************************************************************************)
(* What a step never does                                                  *)
(***************************************************************************)

\* A step does not lower the watermark, nor change a block at or below it.
LEMMA FinalityStep ==
    ASSUME IInv, [Next]_chainVars
    PROVE  /\ current'.finalized >= current.finalized
           /\ \A n \in 0 .. current.finalized : ByNumber(current', n) = ByNumber(current, n)
<1>1. /\ current.finalized \in Nat /\ current.finalized <= Len(current.canonical) - 1
      /\ Len(current.canonical) \in Nat
  BY HeadFacts DEF IInv, TypeOK, FinalizedWithinChain
<1>2. ASSUME NEW fork, NEW new, GrowsBy(fork, new)
      PROVE  /\ current'.finalized >= current.finalized
             /\ \A n \in 0 .. current.finalized : ByNumber(current', n) = ByNumber(current, n)
  <2>1. fork \in current.finalized .. Len(current.canonical) - 1
    BY <1>2 DEF GrowsBy
  <2>2. /\ current'.finalized = current.finalized
        /\ Len(new) \in Nat \ {0}
        /\ Len(current'.canonical) = fork + 1 + Len(new)
        /\ \A i \in 1 .. fork + 1 : current'.canonical[i] = current.canonical[i]
        /\ \A h \in DOMAIN current.blocks : current'.blocks[h] = current.blocks[h]
    BY <1>2, GrowsFacts
  <2>3. ASSUME NEW n \in 0 .. current.finalized
        PROVE  ByNumber(current', n) = ByNumber(current, n)
    <3>1. /\ n + 1 \in 1 .. fork + 1 /\ n + 1 \in 1 .. Len(current.canonical)
          /\ ~(n >= Len(current.canonical)) /\ ~(n >= Len(current'.canonical))
      BY <1>1, <2>1, <2>2
    <3>2. current.canonical[n + 1] \in DOMAIN current.blocks
      BY <3>1 DEF IInv, CanonicalIsAPath
    <3> QED
      BY <2>2, <3>1, <3>2 DEF ByNumber
  <2> QED
    BY <1>1, <2>2, <2>3
<1>3. ASSUME NEW height \in Nat, Finalize(height)
      PROVE  /\ current'.finalized >= current.finalized
             /\ \A n \in 0 .. current.finalized : ByNumber(current', n) = ByNumber(current, n)
  <2>1. /\ current'.blocks = current.blocks
        /\ current'.canonical = current.canonical
        /\ current'.finalized = height
        /\ height \in current.finalized .. Len(current.canonical) - 1
    BY <1>3, FinalizeFacts
  <2> QED
    BY <1>1, <2>1 DEF ByNumber
<1>4. CASE UNCHANGED chainVars
  BY <1>1, <1>4 DEF ByNumber, chainVars
<1> QED
  BY <1>2, <1>3, <1>4, StepCases

\* Finality: the watermark never falls and what it covers never changes.
THEOREM Finality == Spec => FinalityIsPermanent
<1>1. IInv /\ [Next]_chainVars
        => [/\ current'.finalized >= current.finalized
            /\ \A n \in 0 .. current.finalized :
                 ByNumber(current', n) = ByNumber(current, n)]_chainVars
  BY FinalityStep
<1> QED
  BY <1>1, SpecIInv, PTL DEF Spec, FinalityIsPermanent

\* Growing the chain is the move Advance of the fork choice.
LEMMA AdvanceStep ==
    ASSUME IInv, NEW fork, NEW new, GrowsBy(fork, new)
    PROVE  Contract!Advance
<1> DEFINE path  == current.canonical
           path2 == current'.canonical
<1>1. /\ Len(path) \in Nat
      /\ current.finalized \in Nat
      /\ fork \in current.finalized .. Len(path) - 1
      /\ fork + Len(new) >= Len(path)
  BY HeadFacts DEF IInv, TypeOK, GrowsBy
<1>2. /\ Len(new) \in Nat \ {0}
      /\ path2 \in Seq(Hashes)
      /\ Len(path2) = fork + 1 + Len(new)
      /\ \A i \in 1 .. fork + 1 : path2[i] = path[i]
      /\ \A i \in 1 .. Len(new) : path2[fork + 1 + i] = new[i].hash
      /\ DOMAIN current'.blocks
           = DOMAIN current.blocks \cup {new[i].hash : i \in 1 .. Len(new)}
      /\ \A i \in 1 .. Len(new) : new[i].hash \notin DOMAIN current.blocks
      /\ current'.finalized = current.finalized
  BY GrowsFacts
<1>3. Len(path2) > Len(path)
  BY <1>1, <1>2
<1>4. fork + 1 \in current.finalized + 1 .. Len(path)
  BY <1>1
<1>5. ASSUME NEW i \in fork + 1 + 1 .. Len(path2)
      PROVE  \E k \in 1 .. Len(new) : i = fork + 1 + k /\ path2[i] = new[k].hash
  <2>1. i - (fork + 1) \in 1 .. Len(new) /\ i = fork + 1 + (i - (fork + 1))
    BY <1>1, <1>2
  <2> QED
    BY <1>2, <2>1
<1>6. \A i \in fork + 1 + 1 .. Len(path2) : path2[i] \notin DOMAIN current.blocks
  BY <1>2, <1>5
<1>7. DOMAIN current'.blocks = DOMAIN current.blocks \cup {path2[i] : i \in DOMAIN path2}
  <2>1. DOMAIN path2 = 1 .. Len(path2)
    BY <1>2
  <2>2. ASSUME NEW i \in 1 .. Len(path2)
        PROVE  path2[i] \in DOMAIN current'.blocks
    <3>1. CASE i <= fork + 1
      <4>1. i \in 1 .. fork + 1 /\ i \in 1 .. Len(path)
        BY <1>1, <3>1
      <4> QED
        BY <1>2, <4>1 DEF IInv, CanonicalIsAPath
    <3>2. CASE ~(i <= fork + 1)
      <4>1. i \in fork + 1 + 1 .. Len(path2)
        BY <1>1, <1>2, <3>2
      <4> QED
        BY <1>2, <1>5, <4>1
    <3> QED
      BY <3>1, <3>2
  <2>3. ASSUME NEW k \in 1 .. Len(new)
        PROVE  new[k].hash \in {path2[i] : i \in 1 .. Len(path2)}
    <3>1. fork + 1 + k \in 1 .. Len(path2)
      BY <1>1, <1>2
    <3> QED
      BY <1>2, <3>1
  <2> DEFINE old   == DOMAIN current.blocks
             all   == DOMAIN current'.blocks
             added == {new[k].hash : k \in 1 .. Len(new)}
             above == {path2[i] : i \in 1 .. Len(path2)}
  <2>4. all = old \cup added
    BY <1>2, Zenon
  <2>5. added \subseteq above
    BY <2>3, Zenon
  <2>6. above \subseteq all
    BY <2>2, Zenon
  <2>7. all = old \cup above
    <3> HIDE DEF old, all, added, above
    <3> QED
      BY <2>4, <2>5, <2>6
  <2> QED
    BY <2>1, <2>7, Zenon
<1>8. \E f \in current.finalized + 1 .. Len(path) :
        /\ \A i \in 1 .. f : path2[i] = path[i]
        /\ \A i \in f + 1 .. Len(path2) : path2[i] \notin DOMAIN current.blocks
  BY <1>2, <1>4, <1>6, Zenon
<1> QED
  BY <1>2, <1>3, <1>7, <1>8, Zenon DEF Contract!Advance

\* A step of the driver is a step of the fork choice.
LEMMA StepImplements ==
    ASSUME IInv, [Next]_chainVars
    PROVE  [Contract!Next]_(Contract!vars)
<1>1. ASSUME NEW fork, NEW new, GrowsBy(fork, new)
      PROVE  Contract!Next
  BY <1>1, AdvanceStep DEF Contract!Next
<1>2. ASSUME NEW height \in Nat, Finalize(height)
      PROVE  Contract!Next
  BY <1>2, FinalizeFacts DEF Contract!Next, Contract!Settle
<1>3. CASE UNCHANGED chainVars
  BY <1>3 DEF chainVars, Contract!vars
<1> QED
  BY <1>1, <1>2, <1>3, StepCases

\* The driver implements the fork choice: what is final stays, the chain only
\* gets longer, and a new part of it consists of blocks never seen before.
THEOREM ForkChoiceImplemented == Spec => ImplementsForkChoice
<1>1. Init => Contract!Init
  <2>1. Init => /\ current.canonical = <<Genesis.hash>>
                /\ DOMAIN current.blocks = {Genesis.hash}
                /\ current.finalized = 0
    BY DEF Init, GenesisSnapshot
  <2> QED
    BY <2>1 DEF Contract!Init
<1>2. IInv /\ [Next]_chainVars => [Contract!Next]_(Contract!vars)
  BY StepImplements
<1> QED
  BY <1>1, <1>2, SpecIInv, PTL DEF Spec, ImplementsForkChoice, Contract!Spec

\* No orphaned block comes back: what a step makes canonical was not known.
THEOREM OrphansStay == Spec => OrphansStayOrphaned
<1>1. ASSUME IInv, [Next]_chainVars, NEW i \in DOMAIN current'.canonical,
             current'.canonical[i] \in DOMAIN current.blocks
      PROVE  i \in DOMAIN current.canonical /\ current.canonical[i] = current'.canonical[i]
  <2>1. /\ current.canonical \in Seq(Hashes)
        /\ DOMAIN current.canonical = 1 .. Len(current.canonical)
        /\ Len(current.canonical) \in Nat
    BY <1>1, HeadFacts DEF IInv, TypeOK
  <2>2. ASSUME NEW fork, NEW new, GrowsBy(fork, new)
        PROVE  i \in DOMAIN current.canonical /\ current.canonical[i] = current'.canonical[i]
    <3>1. fork \in current.finalized .. Len(current.canonical) - 1 /\ current.finalized \in Nat
      BY <1>1, <2>2 DEF GrowsBy, IInv, TypeOK
    <3>2. /\ Len(new) \in Nat \ {0}
          /\ current'.canonical \in Seq(Hashes)
          /\ Len(current'.canonical) = fork + 1 + Len(new)
          /\ \A j \in 1 .. fork + 1 : current'.canonical[j] = current.canonical[j]
          /\ \A j \in 1 .. Len(new) : current'.canonical[fork + 1 + j] = new[j].hash
          /\ \A j \in 1 .. Len(new) : new[j].hash \notin DOMAIN current.blocks
      BY <1>1, <2>2, GrowsFacts
    <3>3. i \in 1 .. fork + 1 + Len(new)
      BY <3>2
    <3>4. CASE i <= fork + 1
      BY <2>1, <3>1, <3>2, <3>3, <3>4
    <3>5. CASE ~(i <= fork + 1)
      <4>1. i - (fork + 1) \in 1 .. Len(new) /\ i = fork + 1 + (i - (fork + 1))
        BY <3>1, <3>2, <3>3, <3>5
      <4> QED
        BY <1>1, <3>2, <4>1
    <3> QED
      BY <3>4, <3>5
  <2>3. ASSUME NEW height \in Nat, Finalize(height)
        PROVE  i \in DOMAIN current.canonical /\ current.canonical[i] = current'.canonical[i]
    BY <1>1, <2>3, FinalizeFacts
  <2>4. CASE UNCHANGED chainVars
    BY <1>1, <2>4 DEF chainVars
  <2> QED
    BY <1>1, <2>2, <2>3, <2>4, StepCases
<1>2. IInv /\ [Next]_chainVars
        => [\A i \in DOMAIN current'.canonical :
              LET h == current'.canonical[i]
              IN  h \in DOMAIN current.blocks
                    => i \in DOMAIN current.canonical /\ current.canonical[i] = h]_chainVars
  BY <1>1
<1> QED
  BY <1>2, SpecIInv, PTL DEF Spec, OrphansStayOrphaned

\* The head moves only to a higher block, whatever a reorg replaces.
THEOREM HeadRises == Spec => HeadOnlyRises
<1>1. ASSUME IInv, [Next]_chainVars, current'.head # current.head
      PROVE  Height(current') > Height(current)
  <2>1. Height(current) = Len(current.canonical) - 1 /\ Len(current.canonical) \in Nat
    BY <1>1, HeadFacts
  <2>2. ASSUME NEW fork, NEW new, GrowsBy(fork, new)
        PROVE  Height(current') > Height(current)
    <3> DEFINE top == new[Len(new)]
    <3>1. /\ Len(new) \in Nat \ {0}
          /\ fork \in Nat
          /\ current'.head = top.hash
          /\ top.hash \in DOMAIN current'.blocks
          /\ current'.blocks[top.hash] = top
      <4>1. /\ Len(new) \in Nat \ {0} /\ fork \in Nat
            /\ current'.head = new[Len(new)].hash
            /\ DOMAIN current'.blocks
                 = DOMAIN current.blocks \cup {new[i].hash : i \in 1 .. Len(new)}
            /\ \A i \in 1 .. Len(new) : current'.blocks[new[i].hash] = new[i]
        BY <1>1, <2>2, GrowsFacts
      <4>2. Len(new) \in 1 .. Len(new)
        BY <4>1
      <4> QED
        BY <4>1, <4>2
    <3>2. /\ top \in Blocks
          /\ top.number = fork + Len(new)
          /\ fork + Len(new) >= Len(current.canonical)
      BY <2>2, <3>1 DEF GrowsBy
    <3>3. HeadBlock(current') = top
      BY <3>1 DEF HeadBlock, ByHash
    <3>4. Height(current') = fork + Len(new)
      BY <3>2, <3>3, NilAssumption DEF Height
    <3> QED
      BY <2>1, <3>1, <3>2, <3>4
  <2>3. ASSUME NEW height \in Nat, Finalize(height)
        PROVE  FALSE
    BY <1>1, <2>3, FinalizeFacts
  <2>4. CASE UNCHANGED chainVars
    BY <1>1, <2>4 DEF chainVars
  <2> QED
    BY <1>1, <2>2, <2>3, <2>4, StepCases
<1>2. IInv /\ [Next]_chainVars
        => [current'.head # current.head => Height(current') > Height(current)]_chainVars
  BY <1>1
<1> QED
  BY <1>2, SpecIInv, PTL DEF Spec, HeadOnlyRises

\* No block that was ever published is lost or altered, orphaned or not.
THEOREM KnownBlocks == Spec => KnownBlocksStand
<1>1. ASSUME IInv, [Next]_chainVars, NEW h \in DOMAIN current.blocks
      PROVE  ByHash(current', h) = current.blocks[h]
  <2>1. ASSUME NEW fork, NEW new, GrowsBy(fork, new)
        PROVE  ByHash(current', h) = current.blocks[h]
    <3>1. h \in DOMAIN current'.blocks /\ current'.blocks[h] = current.blocks[h]
      BY <1>1, <2>1, GrowsFacts
    <3> QED
      BY <3>1 DEF ByHash
  <2>2. ASSUME NEW height \in Nat, Finalize(height)
        PROVE  ByHash(current', h) = current.blocks[h]
    BY <1>1, <2>2, FinalizeFacts DEF ByHash
  <2>3. CASE UNCHANGED chainVars
    BY <1>1, <2>3 DEF chainVars, ByHash
  <2> QED
    BY <1>1, <2>1, <2>2, <2>3, StepCases
<1>2. IInv /\ [Next]_chainVars
        => [\A h \in DOMAIN current.blocks :
              ByHash(current', h) = current.blocks[h]]_chainVars
  BY <1>1
<1> QED
  BY <1>2, SpecIInv, PTL DEF Spec, KnownBlocksStand

(***************************************************************************)
(* The least element of a set of numbers                                   *)
(***************************************************************************)

Less == OpToRel(<, Nat)

LEMMA LessIs == \A m, n \in Nat : m < n => <<m, n>> \in Less
<1>1. Less = {p \in Nat \X Nat : p[1] < p[2]}
  BY DEF Less, OpToRel
<1> QED
  BY <1>1

LEMMA LessIsWellFounded == IsWellFoundedOn(Less, Nat)
BY NatLessThanWellFounded DEF Less

LEMMA MinFacts ==
    ASSUME NEW S \in SUBSET Nat, S # {}
    PROVE  Min(S) \in S /\ \A n \in S : Min(S) <= n
<1>1. PICK m \in S : \A n \in S : <<n, m>> \notin Less
  BY LessIsWellFounded, WFMin
<1>2. \A n \in S : m <= n
  <2> TAKE n \in S
  <2>1. m \in Nat /\ n \in Nat /\ ~(n < m)
    BY <1>1, LessIs
  <2> QED
    BY <2>1
<1> QED
  BY <1>2 DEF Min

(***************************************************************************)
(* Every block has one receipt for each of its transactions                *)
(***************************************************************************)

Mints(block) == [i \in DOMAIN block.receipts |-> block.receipts[i].txHash] = block.txs

AllMint(blocks) == \A h \in DOMAIN blocks : Mints(blocks[h])

LEMMA BuildBlockMints == \A s, n, p, txs : Mints(BuildBlock(s, n, p, txs))
<1> SUFFICES ASSUME NEW s, NEW n, NEW p, NEW txs PROVE Mints(BuildBlock(s, n, p, txs))
  OBVIOUS
<1> DEFINE receipts == [i \in DOMAIN txs |-> [txHash |-> HashTx(txs[i]), status |-> 1]]
<1>1. BuildBlock(s, n, p, txs).receipts = receipts
  BY DEF BuildBlock
<1>2. BuildBlock(s, n, p, txs).txs = [i \in DOMAIN txs |-> HashTx(txs[i])]
  BY DEF BuildBlock
<1>3. [i \in DOMAIN receipts |-> receipts[i].txHash] = [i \in DOMAIN txs |-> HashTx(txs[i])]
  OBVIOUS
<1> QED
  BY <1>1, <1>2, <1>3 DEF Mints

LEMMA AddBlocksMints ==
    ASSUME NEW blocks, AllMint(blocks), NEW new, \A i \in DOMAIN new : Mints(new[i])
    PROVE  AllMint(AddBlocks(blocks, new))
BY DEF AllMint, AddBlocks

LEMMA StepMints ==
    ASSUME AllMint(current.blocks), [Next]_chainVars
    PROVE  AllMint(current.blocks)'
<1>1. ASSUME NEW txs \in TxLists, ProduceBlock(txs)
      PROVE  AllMint(current.blocks)'
  <2> DEFINE block == BuildBlock(seq + 1, HeadBlock(current).number, HeadBlock(current).hash, txs)
  <2>1. Mints(block)
    BY BuildBlockMints
  <2>2. current'.blocks = AddBlocks(current.blocks, <<block>>)
    BY <1>1 DEF ProduceBlock
  <2> HIDE DEF block
  <2> QED
    BY <2>1, <2>2, AddBlocksMints
<1>2. ASSUME NEW height \in Heights, Finalize(height)
      PROVE  AllMint(current.blocks)'
  <2>1. current'.blocks = current.blocks
    BY <1>2 DEF Finalize
  <2> QED
    BY <2>1
<1>3. ASSUME NEW forkFrom \in Heights, NEW branch \in Branches, Reorg(forkFrom, branch)
      PROVE  AllMint(current.blocks)'
  <2> DEFINE new == BranchBlocks(seq, ByNumber(current, forkFrom), branch)
  <2>1. \A i \in DOMAIN new : Mints(new[i])
    BY BuildBlockMints DEF BranchBlocks
  <2>2. current'.blocks = AddBlocks(current.blocks, new)
    BY <1>3 DEF Reorg, Extend
  <2> HIDE DEF new
  <2> QED
    BY <2>1, <2>2, AddBlocksMints
<1> QED
  BY <1>1, <1>2, <1>3 DEF Next, chainVars

LEMMA InitMints == Init => AllMint(current.blocks)
<1>1. Mints(Genesis)
  BY DEF Mints, Genesis
<1> QED
  BY <1>1 DEF Init, GenesisSnapshot, AllMint

(***************************************************************************)
(* A snapshot, the current one or an older one that a reader holds         *)
(***************************************************************************)

Sound(s) ==
    /\ s.canonical \in Seq(Hashes) /\ Len(s.canonical) > 0
    /\ \A i \in 1 .. Len(s.canonical) :
         /\ s.canonical[i] \in DOMAIN s.blocks
         /\ s.blocks[s.canonical[i]].number = i - 1
    /\ \A h \in DOMAIN s.blocks : s.blocks[h] \in Blocks /\ s.blocks[h].hash = h
    /\ AllMint(s.blocks)
    /\ s.head = s.canonical[Len(s.canonical)]
    /\ s.finalized \in 0 .. Len(s.canonical) - 1

LEMMA PublishedIsSound ==
    ASSUME IInv, AllMint(current.blocks)
    PROVE  Sound(current)
BY HeadFacts DEF IInv, TypeOK, CanonicalIsAPath, FinalizedWithinChain, Sound

LEMMA SoundHeight ==
    ASSUME NEW s, Sound(s)
    PROVE  /\ Len(s.canonical) \in Nat \ {0}
           /\ HeadBlock(s).number = Len(s.canonical) - 1
           /\ Height(s) = Len(s.canonical) - 1
<1>1. Len(s.canonical) \in Nat \ {0} /\ Len(s.canonical) \in 1 .. Len(s.canonical)
  BY DEF Sound
<1>2. s.head \in DOMAIN s.blocks /\ s.blocks[s.head].number = Len(s.canonical) - 1
  BY <1>1 DEF Sound
<1>3. s.blocks[s.head] # Nil
  BY <1>2, NilAssumption DEF Sound
<1> QED
  BY <1>1, <1>2, <1>3 DEF Height, HeadBlock, ByHash

LEMMA SoundByNumber ==
    ASSUME NEW s, Sound(s), NEW n \in Nat
    PROVE  /\ n >= Len(s.canonical) => ByNumber(s, n) = Nil
           /\ n < Len(s.canonical)
                => /\ ByNumber(s, n) = s.blocks[s.canonical[n + 1]]
                   /\ ByNumber(s, n) \in Blocks /\ ByNumber(s, n) # Nil
                   /\ ByNumber(s, n).number = n
                   /\ ByNumber(s, n).hash = s.canonical[n + 1]
                   /\ Mints(ByNumber(s, n))
<1>1. Len(s.canonical) \in Nat
  BY SoundHeight
<1>2. n >= Len(s.canonical) => ByNumber(s, n) = Nil
  BY DEF ByNumber
<1>3. ASSUME n < Len(s.canonical)
      PROVE  /\ ByNumber(s, n) = s.blocks[s.canonical[n + 1]]
             /\ s.canonical[n + 1] \in DOMAIN s.blocks
             /\ s.blocks[s.canonical[n + 1]].number = n
  <2>1. n + 1 \in 1 .. Len(s.canonical) /\ ~(n >= Len(s.canonical)) /\ (n + 1) - 1 = n
    BY <1>1, <1>3
  <2> QED
    BY <2>1 DEF ByNumber, Sound
<1> QED
  BY <1>2, <1>3, NilAssumption DEF Sound, AllMint

\* The heights of the canonical blocks that contain a transaction.
InclusionsOf(s, t) ==
    {i \in DOMAIN s.canonical :
        \E k \in DOMAIN s.blocks[s.canonical[i]].txs : s.blocks[s.canonical[i]].txs[k] = t}

LEMMA SoundByTx ==
    ASSUME NEW s, Sound(s), NEW t
    PROVE  /\ InclusionsOf(s, t) \in SUBSET (1 .. Len(s.canonical))
           /\ InclusionsOf(s, t) = {} => BlockByTx(s, t) = Nil
           /\ InclusionsOf(s, t) # {}
                => /\ Min(InclusionsOf(s, t)) \in InclusionsOf(s, t)
                   /\ \A i \in InclusionsOf(s, t) : Min(InclusionsOf(s, t)) <= i
                   /\ BlockByTx(s, t) = ByNumber(s, Min(InclusionsOf(s, t)) - 1)
                   /\ BlockByTx(s, t).number = Min(InclusionsOf(s, t)) - 1
                   /\ BlockByTx(s, t) # Nil
<1>1. InclusionsOf(s, t) \in SUBSET (1 .. Len(s.canonical)) /\ 1 .. Len(s.canonical) \subseteq Nat
  BY DEF InclusionsOf, Sound
<1>2. BlockByTx(s, t) = IF InclusionsOf(s, t) = {} THEN Nil
                        ELSE s.blocks[s.canonical[Min(InclusionsOf(s, t))]]
  BY DEF BlockByTx, InclusionsOf
<1>3. ASSUME InclusionsOf(s, t) # {}
      PROVE  /\ Min(InclusionsOf(s, t)) \in InclusionsOf(s, t)
             /\ \A i \in InclusionsOf(s, t) : Min(InclusionsOf(s, t)) <= i
  BY <1>1, <1>3, MinFacts
<1>4. ASSUME NEW m \in 1 .. Len(s.canonical)
      PROVE  /\ s.blocks[s.canonical[m]] = ByNumber(s, m - 1)
             /\ ByNumber(s, m - 1) # Nil /\ ByNumber(s, m - 1).number = m - 1
  <2>1. m - 1 \in Nat /\ m - 1 < Len(s.canonical) /\ (m - 1) + 1 = m
    BY SoundHeight
  <2> QED
    BY <2>1, SoundByNumber
<1> QED
  BY <1>1, <1>2, <1>3, <1>4

\* Whether a height's block contains the transaction.
LEMMA IncludingIs ==
    ASSUME NEW s, Sound(s), NEW t, NEW n \in Nat, n < Len(s.canonical)
    PROVE  n + 1 \in InclusionsOf(s, t)
             <=> \E k \in DOMAIN ByNumber(s, n).txs : ByNumber(s, n).txs[k] = t
<1>1. n + 1 \in DOMAIN s.canonical
  BY SoundHeight DEF Sound
<1>2. ByNumber(s, n) = s.blocks[s.canonical[n + 1]]
  BY SoundByNumber
<1> QED
  BY <1>1, <1>2 DEF InclusionsOf

\* The transaction's first receipt in a block.
ReceiptIn(block, t) ==
    block.receipts[Min({k \in DOMAIN block.receipts : block.receipts[k].txHash = t})]

\* The receipt is looked for in the block that the transaction is found in.
LEMMA SoundReceipt ==
    ASSUME NEW s, Sound(s), NEW t, InclusionsOf(s, t) # {}
    PROVE  ReceiptOf(s, t) = ReceiptIn(BlockByTx(s, t), t)
<1> DEFINE at(n)  == s.blocks[s.canonical[n + 1]].receipts
           minted == {n \in 0 .. HeadBlock(s).number : \E k \in DOMAIN at(n) : at(n)[k].txHash = t}
           first  == Min(InclusionsOf(s, t))
<1>1. /\ first \in InclusionsOf(s, t) /\ \A i \in InclusionsOf(s, t) : first <= i
      /\ InclusionsOf(s, t) \in SUBSET (1 .. Len(s.canonical))
      /\ BlockByTx(s, t) = ByNumber(s, first - 1)
  BY SoundByTx
<1>2. Len(s.canonical) \in Nat \ {0} /\ HeadBlock(s).number = Len(s.canonical) - 1
  BY SoundHeight
<1>3. ASSUME NEW n \in 0 .. Len(s.canonical) - 1
      PROVE  /\ at(n) = ByNumber(s, n).receipts
             /\ n \in minted <=> n + 1 \in InclusionsOf(s, t)
  <2>1. n \in Nat /\ n < Len(s.canonical)
    BY <1>2
  <2>2. ByNumber(s, n) = s.blocks[s.canonical[n + 1]] /\ Mints(ByNumber(s, n))
    BY <2>1, SoundByNumber
  <2>3. /\ DOMAIN at(n) = DOMAIN ByNumber(s, n).txs
        /\ \A k \in DOMAIN at(n) : at(n)[k].txHash = ByNumber(s, n).txs[k]
    BY <2>2 DEF Mints
  <2>4. n \in minted <=> \E k \in DOMAIN at(n) : at(n)[k].txHash = t
    BY <1>2
  <2>5. n + 1 \in InclusionsOf(s, t)
          <=> \E k \in DOMAIN ByNumber(s, n).txs : ByNumber(s, n).txs[k] = t
    BY <2>1, IncludingIs
  <2>6. at(n) = ByNumber(s, n).receipts
    BY <2>2
  <2> HIDE DEF at, minted
  <2> QED
    BY <2>3, <2>4, <2>5, <2>6
<1>4. minted \in SUBSET Nat /\ minted \subseteq 0 .. Len(s.canonical) - 1
  BY <1>2
<1> HIDE DEF minted, at, first
<1>5. first - 1 \in minted /\ first \in Nat
  <2>1. first \in 1 .. Len(s.canonical)
    BY <1>1
  <2>2. first - 1 \in 0 .. Len(s.canonical) - 1 /\ (first - 1) + 1 = first
    BY <1>2, <2>1
  <2> QED
    BY <1>1, <1>3, <2>1, <2>2
<1>6. Min(minted) = first - 1
  <2>1. Min(minted) \in minted /\ Min(minted) <= first - 1
    BY <1>4, <1>5, MinFacts
  <2>2. Min(minted) + 1 \in InclusionsOf(s, t) /\ Min(minted) \in Nat
    BY <1>3, <1>4, <2>1
  <2>3. first <= Min(minted) + 1
    BY <1>1, <2>2
  <2> QED
    BY <1>5, <2>1, <2>2, <2>3
<1>7. at(first - 1) = BlockByTx(s, t).receipts
  BY <1>1, <1>3, <1>4, <1>5
<1>8. ReceiptOf(s, t)
        = IF minted = {} THEN Nil
          ELSE at(Min(minted))[Min({k \in DOMAIN at(Min(minted)) : at(Min(minted))[k].txHash = t})]
  BY DEF ReceiptOf, minted, at
<1> QED
  BY <1>5, <1>6, <1>7, <1>8 DEF ReceiptIn

(***************************************************************************)
(* A finalized inclusion stands                                            *)
(***************************************************************************)

\* Two snapshots that agree up to the first one's watermark agree on what is
\* included there.
LEMMA InclusionsAgree ==
    ASSUME NEW s, NEW r, Sound(s), Sound(r), NEW t,
           \A n \in 0 .. s.finalized : ByNumber(r, n) = ByNumber(s, n),
           BlockByTx(s, t) # Nil, BlockByTx(s, t).number <= s.finalized
    PROVE  BlockByTx(r, t) = BlockByTx(s, t) /\ ReceiptOf(r, t) = ReceiptOf(s, t)
<1> DEFINE first == Min(InclusionsOf(s, t))
           again == Min(InclusionsOf(r, t))
<1>1. /\ InclusionsOf(s, t) # {} /\ first \in InclusionsOf(s, t) /\ \A i \in InclusionsOf(s, t) : first <= i
      /\ first \in 1 .. Len(s.canonical)
      /\ BlockByTx(s, t) = ByNumber(s, first - 1) /\ BlockByTx(s, t).number = first - 1
  BY SoundByTx
<1>2. /\ Len(s.canonical) \in Nat /\ Len(r.canonical) \in Nat /\ s.finalized \in Nat
      /\ s.finalized < Len(s.canonical)
  BY SoundHeight DEF Sound
<1>3. ASSUME NEW n \in 0 .. s.finalized
      PROVE  n < Len(r.canonical) /\ (n + 1 \in InclusionsOf(r, t) <=> n + 1 \in InclusionsOf(s, t))
  <2>1. n \in Nat /\ n < Len(s.canonical)
    BY <1>2
  <2>2. n < Len(r.canonical)
    BY <1>2, <2>1, SoundByNumber
  <2> QED
    BY <2>1, <2>2, IncludingIs
<1> HIDE DEF first, again
<1>4. first \in Nat /\ first - 1 \in 0 .. s.finalized /\ (first - 1) + 1 = first
  BY <1>1, <1>2
<1>5. first \in InclusionsOf(r, t)
  BY <1>1, <1>3, <1>4
<1>6. /\ again \in InclusionsOf(r, t) /\ again <= first /\ again \in 1 .. Len(r.canonical)
      /\ BlockByTx(r, t) = ByNumber(r, again - 1)
  BY <1>5, SoundByTx DEF again
<1>7. again - 1 \in 0 .. s.finalized /\ (again - 1) + 1 = again /\ again \in Nat
  BY <1>2, <1>4, <1>6
<1>8. again \in InclusionsOf(s, t)
  BY <1>3, <1>6, <1>7
<1>9. again = first
  BY <1>1, <1>4, <1>6, <1>7, <1>8
<1>10. BlockByTx(r, t) = BlockByTx(s, t)
  BY <1>1, <1>4, <1>6, <1>9
<1> QED
  BY <1>1, <1>5, <1>10, SoundReceipt

InclusionInv == IInv /\ AllMint(current.blocks)

LEMMA InclusionInvariant == Spec => []InclusionInv
<1>1. Init => InclusionInv
  BY InitEstablishesIInv, InitMints DEF InclusionInv
<1>2. InclusionInv /\ [Next]_chainVars => InclusionInv'
  BY StepPreservesIInv, StepMints DEF InclusionInv
<1> QED
  BY <1>1, <1>2, PTL DEF Spec

\* Once the block that BlockByTx gives for a transaction is finalized, no later
\* production, finalization or reorg changes the answer, or the receipt
\* (snapshot.go:50-73, driver.go:110-149).
THEOREM InclusionStands == Spec => FinalizedInclusionStands
<1>1. InclusionInv /\ InclusionInv' /\ [Next]_chainVars
        => [\A t \in TxHashes :
              LET block == BlockByTx(current, t)
              IN  block # Nil /\ block.number <= current.finalized
                    => /\ BlockByTx(current', t) = block
                       /\ ReceiptOf(current', t) = ReceiptOf(current, t)]_chainVars
  <2> SUFFICES ASSUME InclusionInv, InclusionInv', [Next]_chainVars, NEW t \in TxHashes,
                      BlockByTx(current, t) # Nil, BlockByTx(current, t).number <= current.finalized
               PROVE  /\ BlockByTx(current', t) = BlockByTx(current, t)
                      /\ ReceiptOf(current', t) = ReceiptOf(current, t)
    OBVIOUS
  <2>1. Sound(current)
    BY PublishedIsSound DEF InclusionInv
  <2>2. (IInv /\ AllMint(current.blocks) => Sound(current))'
    BY PublishedIsSound, PTL
  <2>3. Sound(current')
    BY <2>2 DEF InclusionInv, Sound, AllMint
  <2>4. \A n \in 0 .. current.finalized : ByNumber(current', n) = ByNumber(current, n)
    BY FinalityStep DEF InclusionInv
  <2> QED
    BY <2>1, <2>3, <2>4, InclusionsAgree
<1> QED
  BY <1>1, InclusionInvariant, PTL DEF Spec, FinalizedInclusionStands
=============================================================================

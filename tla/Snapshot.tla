------------------------------ MODULE Snapshot ------------------------------
(***************************************************************************)
(* The values of internal/chain: hashes, blocks, and the immutable         *)
(* ChainSnapshot with its queries (hash.go, types.go, snapshot.go).        *)
(*                                                                         *)
(* A SHA-256 digest is modelled by its preimage.  A block's preimage holds *)
(* its parent's digest, so a block hash is the sequence of the preimages   *)
(* along its ancestry: equal hashes have equal preimages (collision        *)
(* freedom), and nothing but the digested fields tells two blocks apart.   *)
(* What hashBlock leaves out of its preimage is therefore free to collide. *)
(*                                                                         *)
(* A definition with an underscore in its name (Preimage_NoSeq) is a       *)
(* mutant of the one it precedes: the form a plausible bug would give it.  *)
(* No specification uses the mutants; the runs show that a property fails  *)
(* when one takes the place of the definition.                             *)
(***************************************************************************)
EXTENDS Integers, Sequences, FiniteSetsExt

CONSTANTS
    Txs,            \* transactions; one value stands for ID, From, To and Value
    Nil,            \* Go's nil *Block, *Receipt
    GenesisTime,    \* Driver.genesisTime
    BlockInterval,  \* Driver.blockInterval
    TimeModulus     \* timestamps are uint64: 2^64 in the code

\* WithBlockInterval ignores 0, so the interval is never 0.
ASSUME ClockAssumption ==
    /\ TimeModulus \in Nat \ {0}
    /\ GenesisTime \in 0 .. TimeModulus - 1
    /\ BlockInterval \in Nat \ {0}

(***************************************************************************)
(* hash.go                                                                 *)
(***************************************************************************)

\* hashTx digests every field of a transaction but Hash: one digest for each
\* transaction, and two transactions never share one.
HashTx(tx) == [digestOf |-> tx]

TxHashes == {HashTx(tx) : tx \in Txs}

Preimage_NoSeq(seq, number, txs) ==
    [seq |-> 0, number |-> number, txs |-> [i \in DOMAIN txs |-> HashTx(txs[i])]]

\* The preimage of hashBlock, all but the parent's digest.
Preimage(seq, number, txs) ==
    [seq |-> seq, number |-> number, txs |-> [i \in DOMAIN txs |-> HashTx(txs[i])]]

Preimages == [seq : Nat, number : Nat, txs : Seq(TxHashes)]

Hashes == Seq(Preimages)

ZeroHash == <<>>

HashBlock(seq, number, parentHash, txs) ==
    Append(parentHash, Preimage(seq, number, txs))

(***************************************************************************)
(* types.go, and the construction of a block (buildBlock, timestampAt)     *)
(***************************************************************************)

Receipts == [txHash : TxHashes, status : {1}]

Blocks ==
    [number : Nat, hash : Hashes, parentHash : Hashes,
     timestamp : 0 .. TimeModulus - 1, txs : Seq(TxHashes), receipts : Seq(Receipts)]

TimestampAt(number) == (GenesisTime + number * BlockInterval) % TimeModulus

BuildBlock_NoReceipts(seq, parentNumber, parentHash, txs) ==
    [number     |-> parentNumber + 1,
     hash       |-> HashBlock(seq, parentNumber + 1, parentHash, txs),
     parentHash |-> parentHash,
     timestamp  |-> TimestampAt(parentNumber + 1),
     txs        |-> [i \in DOMAIN txs |-> HashTx(txs[i])],
     receipts   |-> <<>>]

\* The block built on a parent with the sequence number seq.  A transaction of
\* a block is represented by its stamped hash, which hashTx makes unique.
BuildBlock(seq, parentNumber, parentHash, txs) ==
    [number     |-> parentNumber + 1,
     hash       |-> HashBlock(seq, parentNumber + 1, parentHash, txs),
     parentHash |-> parentHash,
     timestamp  |-> TimestampAt(parentNumber + 1),
     txs        |-> [i \in DOMAIN txs |-> HashTx(txs[i])],
     receipts   |-> [i \in DOMAIN txs |-> [txHash |-> HashTx(txs[i]), status |-> 1]]]

Genesis ==
    [number     |-> 0,
     hash       |-> HashBlock(0, 0, ZeroHash, <<>>),
     parentHash |-> ZeroHash,
     timestamp  |-> GenesisTime,
     txs        |-> <<>>,
     receipts   |-> <<>>]

(***************************************************************************)
(* snapshot.go.  canonical is a Go slice: height n is index n + 1 here.    *)
(***************************************************************************)

\* nil is no block: a query that found nothing is told from one that did.
ASSUME NilAssumption == Nil \notin Blocks

GenesisSnapshot ==
    [blocks    |-> [h \in {Genesis.hash} |-> Genesis],
     canonical |-> <<Genesis.hash>>,
     head      |-> Genesis.hash,
     finalized |-> 0]

ByHash(s, h) == IF h \in DOMAIN s.blocks THEN s.blocks[h] ELSE Nil

HeadBlock(s) == ByHash(s, s.head)

Height(s) == IF HeadBlock(s) = Nil THEN 0 ELSE HeadBlock(s).number

ByNumber(s, n) == IF n >= Len(s.canonical) THEN Nil ELSE s.blocks[s.canonical[n + 1]]

BlockByTx_Latest(s, txHash) ==
    LET including == {i \in DOMAIN s.canonical :
                        \E k \in DOMAIN s.blocks[s.canonical[i]].txs :
                            s.blocks[s.canonical[i]].txs[k] = txHash}
    IN  IF including = {} THEN Nil ELSE s.blocks[s.canonical[Max(including)]]

\* The first canonical block that contains the transaction.
BlockByTx(s, txHash) ==
    LET including == {i \in DOMAIN s.canonical :
                        \E k \in DOMAIN s.blocks[s.canonical[i]].txs :
                            s.blocks[s.canonical[i]].txs[k] = txHash}
    IN  IF including = {} THEN Nil ELSE s.blocks[s.canonical[Min(including)]]

\* The first receipt of the transaction, looked for up to the head's height
\* (not up to the end of canonical, as BlockByTx does).
ReceiptOf(s, txHash) ==
    LET receiptsAt(n) == s.blocks[s.canonical[n + 1]].receipts
        minted == {n \in 0 .. HeadBlock(s).number :
                     \E k \in DOMAIN receiptsAt(n) : receiptsAt(n)[k].txHash = txHash}
        first == receiptsAt(Min(minted))
    IN  IF minted = {}
        THEN Nil
        ELSE first[Min({k \in DOMAIN first : first[k].txHash = txHash})]
=============================================================================

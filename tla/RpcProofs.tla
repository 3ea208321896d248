------------------------------ MODULE RpcProofs ------------------------------
(***************************************************************************)
(* Theorems about RpcHandler, for any chain under it, any messages and any *)
(* faults that keep to FaultSource.                                        *)
(***************************************************************************)
EXTENDS RpcHandler, ChainProofs

(***************************************************************************)
(* The methods on a sound snapshot                                         *)
(***************************************************************************)

Replies == [got : Kinds, number : Int, hash : Hashes, txs : Seq(TxHashes)]

NamingMethods ==
    {"eth_getBlockByNumber", "eth_getTransactionReceipt", "eth_getTransactionByHash"}

\* A result of a naming method names the canonical block of its height.
Names(s, r) ==
    /\ r.number \in 0 .. Len(s.canonical) - 1
    /\ r.hash = ByNumber(s, r.number).hash

LEMMA FixedReplies ==
    /\ Null \in Replies /\ Null.got = "null" /\ Null # Internal
    /\ InvalidParams \in Replies /\ InvalidParams.got = "error" /\ InvalidParams # Internal
    /\ Internal.got = "error"
    /\ \A method \in {"garbage", "none", "other"} :
         /\ Refusal(method) \in Replies /\ Refusal(method).got = "error"
         /\ Refusal(method) # Internal
<1>1. ZeroHash \in Hashes /\ <<>> \in Seq(TxHashes)
  BY DEF ZeroHash, Hashes
<1>2. \A code \in Int : Error(code) \in Replies /\ Error(code).got = "error" /\ Error(code).number = code
  BY <1>1 DEF Error, Reply, Replies, Kinds
<1>3. Null \in Replies /\ Null.got = "null"
  BY <1>1 DEF Null, Reply, Replies, Kinds
<1>4. /\ InvalidParams \in Replies /\ InvalidParams.got = "error" /\ InvalidParams.number = -32602
      /\ Internal.got = "error" /\ Internal.number = -32603
  BY <1>2 DEF InvalidParams, Internal
<1>5. /\ ParseError \in Replies /\ ParseError.got = "error" /\ ParseError.number = -32700
      /\ InvalidRequest \in Replies /\ InvalidRequest.got = "error" /\ InvalidRequest.number = -32600
      /\ MethodNotFound \in Replies /\ MethodNotFound.got = "error"
      /\ MethodNotFound.number = -32601
  BY <1>2 DEF ParseError, InvalidRequest, MethodNotFound
<1>6. /\ Null # Internal /\ InvalidParams # Internal /\ ParseError # Internal
      /\ InvalidRequest # Internal /\ MethodNotFound # Internal
  BY <1>3, <1>4, <1>5
<1>7. /\ Refusal("garbage") = ParseError /\ Refusal("none") = InvalidRequest
      /\ Refusal("other") = MethodNotFound
  BY DEF Refusal
<1>8. ASSUME NEW method \in {"garbage", "none", "other"}
      PROVE  /\ Refusal(method) \in Replies /\ Refusal(method).got = "error"
             /\ Refusal(method) # Internal
  <2>1. method = "garbage" \/ method = "none" \/ method = "other"
    OBVIOUS
  <2>2. Refusal(method) \in {ParseError, InvalidRequest, MethodNotFound}
    BY <1>7, <2>1
  <2> QED
    BY <1>5, <1>6, <2>2
<1> QED
  BY <1>3, <1>4, <1>6, <1>8

LEMMA ValueReply ==
    ASSUME NEW number \in Int, NEW hash \in Hashes, NEW txs \in Seq(TxHashes),
           NEW r, r = Reply("value", number, hash, txs)
    PROVE  /\ r \in Replies /\ r # Internal /\ r.got = "value"
           /\ r.number = number /\ r.hash = hash
<1>1. r \in Replies /\ r.got = "value" /\ r.number = number /\ r.hash = hash
  BY DEF Reply, Replies, Kinds
<1> QED
  BY <1>1, FixedReplies

LEMMA ReplyOfBlock ==
    ASSUME NEW block \in Blocks, NEW txs \in Seq(TxHashes),
           NEW r, r = Reply("value", block.number, block.hash, txs)
    PROVE  /\ r \in Replies /\ r # Internal /\ r.got = "value"
           /\ r.number = block.number /\ r.hash = block.hash
<1>1. block.number \in Int /\ block.hash \in Hashes
  BY DEF Blocks
<1> QED
  BY <1>1, ValueReply

LEMMA BlockResultFacts ==
    ASSUME NEW block, block = Nil \/ block \in Blocks, NEW item
    PROVE  LET r == BlockResult(block, item)
           IN  /\ r \in Replies /\ r # Internal
               /\ r.got = "value" => /\ block # Nil
                                     /\ r.number = block.number /\ r.hash = block.hash
<1>1. CASE ~item.fullTx \/ block = Nil
  BY <1>1, FixedReplies DEF BlockResult
<1>2. CASE item.fullTx /\ block # Nil
  <2>1. block \in Blocks /\ block.txs \in Seq(TxHashes)
    BY <1>2 DEF Blocks
  <2> QED
    BY <1>2, <2>1, ReplyOfBlock DEF BlockResult
<1> QED
  BY <1>1, <1>2

\* The receipt and the transaction are answered from the first inclusion, and
\* alike.
LEMMA TxResultFacts ==
    ASSUME NEW s, Sound(s), NEW tx \in TxHashes
    PROVE  LET r == Transaction(s, tx)
           IN  /\ Receipt(s, tx) = r
               /\ r \in Replies /\ r # Internal
               /\ r.got = "value" => Names(s, r)
<1>1. CASE InclusionsOf(s, tx) = {}
  <2>1. BlockByTx(s, tx) = Nil
    BY <1>1, SoundByTx
  <2>2. Transaction(s, tx) = Null /\ Receipt(s, tx) = Null
    BY <2>1 DEF Transaction, Receipt, Including
  <2> QED
    BY <2>2, FixedReplies
<1>2. CASE InclusionsOf(s, tx) # {}
  <2> DEFINE n == Min(InclusionsOf(s, tx)) - 1
             block == BlockByTx(s, tx)
  <2>1. /\ n + 1 \in InclusionsOf(s, tx) /\ block = ByNumber(s, n) /\ block # Nil
        /\ n \in Nat /\ n < Len(s.canonical) /\ Len(s.canonical) \in Nat
    BY <1>2, SoundByTx, SoundHeight
  <2> HIDE DEF n
  <2>2. block \in Blocks /\ block.number = n /\ Mints(block)
    BY <2>1, SoundByNumber
  <2>3. \E i \in DOMAIN block.txs : block.txs[i] = tx
    BY <2>1, IncludingIs
  <2>4. ReceiptTxs(block) = block.txs
    BY <2>2 DEF Mints, ReceiptTxs
  <2> DEFINE r == Reply("value", block.number, block.hash, <<tx>>)
  <2>5. r \in Replies /\ r # Internal /\ r.number = block.number /\ r.hash = block.hash
    <3>1. <<tx>> \in Seq(TxHashes)
      OBVIOUS
    <3> QED
      BY <2>2, <3>1, ReplyOfBlock
  <2>6. Transaction(s, tx) = r /\ Receipt(s, tx) = r
    BY <2>1, <2>3, <2>4 DEF Transaction, Receipt, Including
  <2> HIDE DEF r
  <2>7. Names(s, r)
    <3>1. n \in 0 .. Len(s.canonical) - 1
      BY <2>1
    <3> QED
      BY <2>1, <2>2, <2>5, <3>1 DEF Names
  <2> QED
    BY <2>5, <2>6, <2>7
<1> QED
  BY <1>1, <1>2

\* A number alone.
LEMMA PlainReply ==
    ASSUME NEW number \in Nat
    PROVE  LET r == Reply("value", number, ZeroHash, <<>>)
           IN  r \in Replies /\ r # Internal /\ r.number = number /\ r.hash = ZeroHash
<1> DEFINE r == Reply("value", number, ZeroHash, <<>>)
<1>1. r.got = "value" /\ r.number = number /\ r.hash = ZeroHash
  BY DEF Reply
<1>2. r \in Replies
  BY DEF Reply, Replies, Kinds, ZeroHash, Hashes
<1> HIDE DEF r
<1>3. r # Internal
  BY <1>1, FixedReplies
<1> QED
  BY <1>1, <1>2, <1>3 DEF r

\* A method that does not come as far as the snapshot answers alike on any.
LEMMA UnreadResult ==
    ASSUME NEW item \in Items, item.method \in Methods, ~Reads(item), NEW s, NEW hash
    PROVE  LET r == Result(item, s, hash)
           IN  /\ r = IF item.method \in {"eth_chainId", "net_version"}
                      THEN Reply("value", 0, ZeroHash, <<>>) ELSE InvalidParams
               /\ r \in Replies /\ r # Internal /\ r.hash = ZeroHash
               /\ item.method \in NamingMethods \cup {"eth_blockNumber"} => r.got # "value"
<1>1. Result(item, s, hash) = IF item.method \in {"eth_chainId", "net_version"}
                              THEN Reply("value", 0, ZeroHash, <<>>) ELSE InvalidParams
  BY DEF Result, Reads, Methods
<1>2. LET r == Reply("value", 0, ZeroHash, <<>>)
      IN  r \in Replies /\ r # Internal /\ r.hash = ZeroHash
  BY PlainReply
<1>3. InvalidParams.hash = ZeroHash
  BY DEF InvalidParams, Error, Reply
<1>4. CASE item.method \in {"eth_chainId", "net_version"}
  BY <1>1, <1>2, <1>4 DEF NamingMethods
<1>5. CASE item.method \notin {"eth_chainId", "net_version"}
  BY <1>1, <1>3, <1>5, FixedReplies
<1> QED
  BY <1>1, <1>4, <1>5

LEMMA HeightOfTag ==
    ASSUME NEW s, Sound(s), NEW item \in Items
    PROVE  /\ ResolveHeight(s, item) \in Nat
           /\ item.tag \in {"latest", "pending"} => ResolveHeight(s, item) = Height(s)
           /\ item.tag \in {"finalized", "safe"} => ResolveHeight(s, item) = s.finalized
<1>1. Height(s) \in Nat /\ s.finalized \in Nat /\ item.height \in Nat
  BY SoundHeight DEF Sound, Items
<1> QED
  BY <1>1 DEF ResolveHeight

LEMMA ByNumberResult ==
    ASSUME NEW s, Sound(s), NEW item \in Items, item.method = "eth_getBlockByNumber", Reads(item),
           NEW hash
    PROVE  LET r == Result(item, s, hash)
           IN  /\ r \in Replies /\ r # Internal
               /\ r.got = "value" => Names(s, r) /\ r.number = ResolveHeight(s, item)
<1> DEFINE n == ResolveHeight(s, item)
           r == Result(item, s, hash)
<1>1. r = InvalidParams \/ r = BlockResult(ByNumber(s, n), item)
  BY DEF Result
<1>2. CASE r = InvalidParams
  BY <1>2, FixedReplies
<1>3. CASE r = BlockResult(ByNumber(s, n), item)
  <2>1. n \in Nat /\ Len(s.canonical) \in Nat
    BY HeightOfTag, SoundHeight
  <2> HIDE DEF n, r
  <2>2. \/ n >= Len(s.canonical) /\ ByNumber(s, n) = Nil
        \/ n < Len(s.canonical) /\ ByNumber(s, n) \in Blocks /\ ByNumber(s, n).number = n
    BY <2>1, SoundByNumber
  <2>3. /\ r \in Replies /\ r # Internal
        /\ r.got = "value" => /\ ByNumber(s, n) # Nil
                              /\ r.number = ByNumber(s, n).number /\ r.hash = ByNumber(s, n).hash
    BY <1>3, <2>2, BlockResultFacts
  <2>4. r.got = "value" => n \in 0 .. Len(s.canonical) - 1 /\ r.number = n
    BY <2>1, <2>2, <2>3
  <2> QED
    BY <2>3, <2>4 DEF Names, n, r
<1> QED
  BY <1>1, <1>2, <1>3

\* Every result on a sound snapshot: no method finds the chain broken, and what
\* names a block names the canonical one.
LEMMA ReadResult ==
    ASSUME NEW s, Sound(s), NEW item \in Items, item.method \in Methods, Reads(item), NEW hash
    PROVE  LET r == Result(item, s, hash)
           IN  /\ r \in Replies /\ r # Internal
               /\ item.method \in NamingMethods /\ r.got = "value" => Names(s, r)
               /\ item.method = "eth_blockNumber" => r.number = Height(s) /\ r.hash = ZeroHash
               /\ item.method = "eth_getBlockByNumber" /\ r.got = "value"
                    => r.number = ResolveHeight(s, item)
               /\ item.method \in {"eth_getTransactionReceipt", "eth_getTransactionByHash"}
                    => r = Transaction(s, item.tx)
<1> DEFINE r == Result(item, s, hash)
<1>1. CASE item.method = "eth_getBlockByNumber"
  BY <1>1, ByNumberResult
<1>2. CASE item.method = "eth_blockNumber"
  <2>1. r = Reply("value", Height(s), ZeroHash, <<>>)
    BY <1>2 DEF Result
  <2>2. Height(s) \in Nat
    BY SoundHeight
  <2>3. r \in Replies /\ r # Internal /\ r.number = Height(s) /\ r.hash = ZeroHash
    <3> HIDE DEF r
    <3> QED
      BY <2>1, <2>2, PlainReply
  <2> QED
    BY <1>2, <2>3 DEF NamingMethods
<1>3. CASE item.method = "eth_getBlockByHash"
  <2>1. ByHash(s, hash) = Nil \/ ByHash(s, hash) \in Blocks
    BY DEF ByHash, Sound
  <2>2. r = BlockResult(ByHash(s, hash), item)
    BY <1>3 DEF Result, Reads
  <2> QED
    BY <1>3, <2>1, <2>2, BlockResultFacts DEF NamingMethods
<1>4. CASE item.method \in {"eth_getTransactionReceipt", "eth_getTransactionByHash"}
  <2>1. item.tx \in TxHashes
    BY DEF Items
  <2>2. r = Transaction(s, item.tx)
    <3>1. r \in {Transaction(s, item.tx), Receipt(s, item.tx)}
      BY <1>4 DEF Result, Reads
    <3> QED
      BY <2>1, <3>1, TxResultFacts
  <2> QED
    BY <1>4, <2>1, <2>2, TxResultFacts
<1> QED
  BY <1>1, <1>2, <1>3, <1>4 DEF Reads

(***************************************************************************)
(* The inductive invariant                                                 *)
(***************************************************************************)

MessageOK ==
    /\ message.items \in Messages \cup {<<>>} /\ message.items \in Seq(Items)
    /\ message.answers \in Seq(Replies)
    /\ Len(message.answers) <= Len(message.items)
    /\ message.once \in BOOLEAN
    /\ turn.phase \in {"idle", "before", "handle"} /\ turn.got \in Kinds /\ turn.sent \in Kinds
    /\ turn.phase # "idle" => ~Done /\ Item.method \in Methods

\* The answer that an item of a served message has got.
Answers(item, answer, s) ==
    IF item.method \in Methods THEN \E hash : answer = Result(item, s, hash)
                               ELSE answer = Refusal(item.method)

\* Every answer was given on the one snapshot the message took, if it took any.
AnswersOK == \A i \in Answered : Answers(message.items[i], message.answers[i], message.snap)

SnapOK ==
    /\ message.once <=> HasRead
    /\ message.once => Sound(message.snap)

\* What the client was told is final is so in a snapshot.
Final(s) == \A f \in finals : f[1] \in 0 .. s.finalized /\ f[2] = ByNumber(s, f[1]).hash

\* What a snapshot has as final, the chain still has.
Stands(s) ==
    /\ s.finalized <= current.finalized
    /\ \A n \in 0 .. s.finalized : ByNumber(current, n) = ByNumber(s, n)

FinalsOK ==
    /\ Final(current)
    /\ message.once => Final(message.snap) /\ Stands(message.snap)

VersionsOK ==
    /\ woke \in Nat /\ asOf \in Nat /\ woke <= Version
    /\ message.once => woke <= asOf

RpcInv == InclusionInv /\ MessageOK /\ AnswersOK /\ SnapOK /\ FinalsOK /\ VersionsOK

LEMMA VersionType == ASSUME IInv PROVE Version \in Nat
BY DEF IInv, TypeOK, Version

LEMMA ServedItem ==
    ASSUME MessageOK, ~Done
    PROVE  /\ Len(message.answers) + 1 \in 1 .. Len(message.items)
           /\ Item \in Items
           /\ Answered = 1 .. Len(message.answers)
           /\ Len(message.answers) \in Nat
<1>1. Len(message.answers) \in Nat /\ Len(message.items) \in Nat
  BY DEF MessageOK
<1>2. Len(message.answers) + 1 \in 1 .. Len(message.items)
  BY <1>1 DEF MessageOK, Done
<1>3. Item \in Items
  BY <1>2, ElementOfSeq DEF MessageOK, Item
<1> QED
  BY <1>1, <1>2, <1>3 DEF MessageOK, Answered

LEMMA RpcInitInv == RpcInit => RpcInv
<1> SUFFICES ASSUME RpcInit PROVE RpcInv
  OBVIOUS
<1>1. InclusionInv /\ IInv
  BY InitEstablishesIInv, InitMints DEF RpcInit, InclusionInv
<1>2. /\ message.items = <<>> /\ message.answers = <<>> /\ message.once = FALSE
      /\ finals = {} /\ woke = 0 /\ asOf = 0 /\ turn.phase = "idle"
  BY DEF RpcInit, FaultInit, Phase
<1>3. Answered = {}
  BY <1>2 DEF Answered
<1>4. MessageOK
  <2>1. <<>> \in Seq(Items) /\ <<>> \in Seq(Replies) /\ Len(<<>>) = 0 /\ 0 <= 0
    OBVIOUS
  <2>2. turn.phase = "idle" /\ turn.got \in Kinds /\ turn.sent \in Kinds
    BY DEF RpcInit, FaultInit, Phase, Kinds
  <2> QED
    BY <1>2, <2>1, <2>2 DEF MessageOK
<1>5. AnswersOK /\ SnapOK /\ FinalsOK
  BY <1>2, <1>3 DEF AnswersOK, SnapOK, HasRead, FinalsOK, Final
<1>6. VersionsOK
  BY <1>1, <1>2, VersionType DEF VersionsOK
<1> QED
  BY <1>1, <1>4, <1>5, <1>6 DEF RpcInv

(***************************************************************************)
(* The steps                                                               *)
(***************************************************************************)

\* The writers move the chain on, and nothing that was final changes.
LEMMA ChainMoves ==
    ASSUME InclusionInv, [Next]_chainVars
    PROVE  /\ InclusionInv'
           /\ Sound(current) /\ Sound(current')
           /\ Version' >= Version
           /\ current'.finalized >= current.finalized
           /\ \A n \in 0 .. current.finalized : ByNumber(current', n) = ByNumber(current, n)
<1>1. InclusionInv'
  BY StepPreservesIInv, StepMints DEF InclusionInv
<1>2. Sound(current)
  BY PublishedIsSound DEF InclusionInv
<1>3. (IInv /\ AllMint(current.blocks) => Sound(current))'
  BY PublishedIsSound, PTL
<1>4. Sound(current')
  BY <1>1, <1>3 DEF InclusionInv, Sound, AllMint
<1>5. /\ current'.finalized >= current.finalized
      /\ \A n \in 0 .. current.finalized : ByNumber(current', n) = ByNumber(current, n)
  BY FinalityStep DEF InclusionInv
<1>6. /\ current.finalized \in Nat /\ current'.finalized \in Nat /\ seq \in Nat /\ seq' \in Nat
  BY <1>1 DEF InclusionInv, IInv, TypeOK
<1>7. seq' >= seq
  <2>1. ASSUME NEW fork, NEW new, GrowsBy(fork, new) PROVE seq' >= seq
    BY <1>6, <2>1, ChainAssumption DEF GrowsBy
  <2>2. ASSUME NEW height \in Nat, Finalize(height) PROVE seq' >= seq
    BY <1>6, <2>2 DEF Finalize
  <2>3. CASE UNCHANGED chainVars
    BY <1>6, <2>3 DEF chainVars
  <2> QED
    BY <2>1, <2>2, <2>3, StepCases DEF InclusionInv
<1>8. Version' >= Version
  BY <1>5, <1>6, <1>7 DEF Version
<1> QED
  BY <1>1, <1>2, <1>4, <1>5, <1>8

LEMMA WriteChainKeeps ==
    ASSUME RpcInv, WriteChain \/ UNCHANGED rpcVars
    PROVE  RpcInv'
<1>1. [Next]_chainVars /\ UNCHANGED <<turn, message, rpcHist>>
  BY DEF WriteChain, rpcVars
<1>2. /\ InclusionInv' /\ Version' >= Version
      /\ current.finalized \in Nat /\ current'.finalized \in Nat
      /\ current'.finalized >= current.finalized
      /\ \A n \in 0 .. current.finalized : ByNumber(current', n) = ByNumber(current, n)
      /\ Version \in Nat /\ Version' \in Nat
  <2>1. InclusionInv /\ InclusionInv'
    BY <1>1, ChainMoves DEF RpcInv
  <2>2. Version \in Nat /\ current.finalized \in Nat
    BY <2>1, VersionType DEF InclusionInv, IInv, TypeOK
  <2>3. (IInv => Version \in Nat)'
    BY VersionType, PTL
  <2>4. current'.finalized \in Nat
    BY <2>1 DEF InclusionInv, IInv, TypeOK
  <2> QED
    BY <1>1, <2>1, <2>2, <2>3, <2>4, ChainMoves DEF RpcInv, InclusionInv
<1>3. MessageOK' /\ AnswersOK' /\ SnapOK'
  BY <1>1 DEF RpcInv, MessageOK, AnswersOK, SnapOK, HasRead, Answered, Done, Item
<1>4. FinalsOK'
  <2>1. ASSUME NEW f \in finals
        PROVE  f[1] \in 0 .. current'.finalized /\ f[2] = ByNumber(current', f[1]).hash
    BY <1>2 DEF RpcInv, FinalsOK, Final
  <2>2. ASSUME NEW s, Sound(s), Stands(s)
        PROVE  s.finalized <= current'.finalized /\ \A n \in 0 .. s.finalized : ByNumber(current', n) = ByNumber(s, n)
    <3>1. s.finalized \in Nat /\ s.finalized <= current.finalized
      BY <2>2, SoundHeight DEF Sound, Stands
    <3>2. \A n \in 0 .. s.finalized : n \in 0 .. current.finalized
      BY <1>2, <3>1
    <3> QED
      BY <1>2, <2>2, <3>1, <3>2 DEF Stands
  <2>3. message.once => Stands(message.snap)'
    BY <1>1, <2>2 DEF RpcInv, FinalsOK, SnapOK, Stands
  <2>4. Final(current)' /\ (message.once => Final(message.snap)')
    BY <1>1, <2>1 DEF RpcInv, FinalsOK, Final, rpcHist
  <2> QED
    BY <1>1, <2>3, <2>4 DEF FinalsOK
<1>5. VersionsOK'
  BY <1>1, <1>2 DEF RpcInv, VersionsOK, rpcHist
<1> QED
  BY <1>2, <1>3, <1>4, <1>5 DEF RpcInv

\* The steps that leave the chain alone.
LEMMA Still ==
    ASSUME RpcInv, UNCHANGED chainVars
    PROVE  InclusionInv' /\ current' = current /\ Version' = Version /\ Version \in Nat
<1>1. InclusionInv'
  BY ChainMoves DEF RpcInv
<1>2. Version \in Nat
  BY VersionType DEF RpcInv, InclusionInv
<1> QED
  BY <1>1, <1>2 DEF chainVars, Version

LEMMA ArriveKeeps ==
    ASSUME RpcInv, NEW items \in Messages, Arrive(items)
    PROVE  RpcInv'
<1>1. /\ message'.items = items /\ message'.answers = <<>> /\ message'.once = FALSE
      /\ UNCHANGED <<chainVars, turn, told, finals>> /\ asOf' = 0 /\ woke' = 0
      /\ turn.phase = "idle"
  BY DEF Arrive
<1>2. InclusionInv' /\ current' = current /\ Version' = Version /\ Version \in Nat
  BY <1>1, Still
<1>3. items \in Seq(Items)
  BY MessagesAssumption
<1>4. Answered' = {}
  BY <1>1 DEF Answered
<1>5. MessageOK'
  <2>1. <<>> \in Seq(Replies) /\ Len(<<>>) = 0 /\ Len(items) \in Nat
    BY <1>3
  <2>2. message'.answers \in Seq(Replies) /\ Len(message'.answers) <= Len(message'.items)
    BY <1>1, <2>1
  <2>3. turn'.phase = "idle" /\ message'.once \in BOOLEAN
    BY <1>1
  <2> QED
    BY <1>1, <1>3, <2>2, <2>3 DEF RpcInv, MessageOK
<1>6. AnswersOK' /\ SnapOK'
  BY <1>1, <1>4 DEF AnswersOK, SnapOK, HasRead
<1>7. FinalsOK' /\ VersionsOK'
  BY <1>1, <1>2 DEF RpcInv, FinalsOK, Final, Stands, VersionsOK
<1> QED
  BY <1>2, <1>5, <1>6, <1>7 DEF RpcInv

LEMMA TurnKeeps ==
    ASSUME RpcInv, Call \/ Proceed
    PROVE  RpcInv'
<1>1. UNCHANGED <<chainVars, message, asOf, finals>>
  BY DEF Call, Proceed, rpcHist
<1>2. InclusionInv' /\ current' = current /\ Version' = Version /\ Version \in Nat
  BY <1>1, Still
<1>3. ~Done /\ Item.method \in Methods
  BY DEF Call, Proceed, RpcInv, MessageOK, Ready
<1>4. turn'.phase \in {"before", "handle"} /\ turn'.got \in Kinds /\ turn'.sent \in Kinds
  BY DEF Call, Proceed, Begin, Ready, Phase, Kinds
<1>5. MessageOK' /\ AnswersOK' /\ SnapOK' /\ FinalsOK'
  BY <1>1, <1>2, <1>3, <1>4 DEF RpcInv, MessageOK, AnswersOK, SnapOK, FinalsOK, Final, Stands,
     HasRead, Answered, Done, Item
<1>6. VersionsOK'
  BY <1>1, <1>2 DEF Call, Proceed, rpcHist, RpcInv, VersionsOK, SnapOK
<1> QED
  BY <1>2, <1>5, <1>6 DEF RpcInv

\* One more answer, of the item being served.
LEMMA OneMore ==
    ASSUME MessageOK, ~Done, NEW answer \in Replies, message'.items = message.items,
           message'.answers = Append(message.answers, answer)
    PROVE  LET n == Len(message.answers) + 1
           IN  /\ Answered' = Answered \cup {n} /\ n \notin Answered
               /\ message'.answers \in Seq(Replies)
               /\ Len(message'.answers) <= Len(message'.items)
               /\ message'.answers[n] = answer
               /\ \A i \in Answered : message'.answers[i] = message.answers[i]
<1> DEFINE n == Len(message.answers) + 1
<1>1. message.answers \in Seq(Replies) /\ Answered = 1 .. Len(message.answers)
      /\ Len(message.answers) \in Nat /\ n <= Len(message.items)
  BY ServedItem DEF MessageOK
<1>2. /\ message'.answers \in Seq(Replies) /\ Len(message'.answers) = n
      /\ message'.answers[n] = answer
      /\ \A i \in 1 .. Len(message.answers) : message'.answers[i] = message.answers[i]
  BY <1>1, AppendProperties
<1>3. Answered' = 1 .. n
  BY <1>2 DEF Answered
<1>4. 1 .. n = 1 .. Len(message.answers) \cup {n} /\ n \notin 1 .. Len(message.answers)
  BY <1>1
<1> QED
  BY <1>1, <1>2, <1>3, <1>4

LEMMA RefuseKeeps ==
    ASSUME RpcInv, Refuse
    PROVE  RpcInv'
<1> DEFINE n == Len(message.answers) + 1
<1>1. /\ message'.items = message.items /\ message'.once = message.once
      /\ message'.snap = message.snap
      /\ message'.answers = Append(message.answers, Refusal(Item.method))
      /\ UNCHANGED <<chainVars, turn, asOf, woke, finals>>
      /\ turn.phase = "idle" /\ ~Done /\ Item.method \notin Methods
  BY DEF Refuse, rpcHist
<1>2. /\ MessageOK /\ Item \in Items /\ InclusionInv' /\ current' = current
      /\ Version' = Version /\ Version \in Nat
  BY <1>1, Still, ServedItem DEF RpcInv
<1>3. Refusal(Item.method) \in Replies
  BY <1>1, <1>2, FixedReplies DEF Items
<1>4. /\ Answered' = Answered \cup {n} /\ n \notin Answered
      /\ message'.answers \in Seq(Replies) /\ Len(message'.answers) <= Len(message'.items)
      /\ message'.answers[n] = Refusal(Item.method)
      /\ \A i \in Answered : message'.answers[i] = message.answers[i]
  BY <1>1, <1>2, <1>3, OneMore
<1>5. message.items[n] = Item
  BY DEF Item
<1>6. ~Reads(Item)
  BY <1>1 DEF Reads, Methods
<1> HIDE DEF n
<1>7. MessageOK'
  BY <1>1, <1>2, <1>4 DEF MessageOK
<1>8. AnswersOK'
  BY <1>1, <1>4, <1>5 DEF RpcInv, AnswersOK, Answers
<1>9. SnapOK'
  BY <1>1, <1>4, <1>5, <1>6 DEF RpcInv, SnapOK, HasRead
<1>10. FinalsOK' /\ VersionsOK'
  BY <1>1, <1>2 DEF RpcInv, FinalsOK, Final, Stands, VersionsOK
<1> QED
  BY <1>2, <1>7, <1>8, <1>9, <1>10 DEF RpcInv

LEMMA HandleKeeps ==
    ASSUME RpcInv, NEW hash, NEW sent \in Kinds, Handle(hash, sent)
    PROVE  RpcInv'
<1> DEFINE n == Len(message.answers) + 1
           snap == TakeSnapshot(Item)
           result == Result(Item, snap, hash)
           takes == Reads(Item) /\ ~message.once
<1>1. /\ message'.items = message.items /\ message'.snap = snap
      /\ message'.once = (message.once \/ Reads(Item))
      /\ message'.answers = Append(message.answers, result)
      /\ UNCHANGED <<chainVars, woke>> /\ asOf' = IF takes THEN Version ELSE asOf
      /\ turn.phase = "handle" /\ turn'.phase = "idle" /\ sent \in MayBeSent(result.got)
      /\ turn'.got = result.got /\ turn'.sent = sent
  BY DEF Handle, Answer
<1>2. finals' = IF sent = "value" /\ result.hash # ZeroHash /\ Item.tag \in {"finalized", "safe"}
                THEN finals \cup {<<result.number, result.hash>>} ELSE finals
  BY DEF Handle
<1>3. /\ MessageOK /\ ~Done /\ Item \in Items /\ Item.method \in Methods
      /\ InclusionInv' /\ current' = current /\ Version' = Version /\ Version \in Nat
      /\ message.once \in BOOLEAN
  BY <1>1, Still, ServedItem DEF RpcInv, MessageOK
<1>4. Sound(current)
  BY PublishedIsSound DEF RpcInv, InclusionInv
<1>5. snap = IF takes THEN current ELSE message.snap
  BY DEF TakeSnapshot
<1>6. Reads(Item) \/ message.once => Sound(snap) /\ Final(snap) /\ Stands(snap)
  BY <1>4, <1>5 DEF RpcInv, SnapOK, FinalsOK, Stands, Sound
<1> HIDE DEF snap
<1>7. result \in Replies
  BY <1>3, <1>6, ReadResult, UnreadResult
<1>8. /\ Answered' = Answered \cup {n} /\ n \notin Answered
      /\ message'.answers \in Seq(Replies) /\ Len(message'.answers) <= Len(message'.items)
      /\ message'.answers[n] = result
      /\ \A i \in Answered : message'.answers[i] = message.answers[i]
  BY <1>1, <1>3, <1>7, OneMore
<1>9. message.items[n] = Item
  BY DEF Item
<1>10. \A i \in Answered : message.items[i] \in Items
  <2> TAKE i \in Answered
  <2>1. i \in 1 .. Len(message.items)
    BY <1>3, ServedItem DEF MessageOK
  <2> QED
    BY <1>3, <2>1, ElementOfSeq DEF MessageOK
<1>11. MessageOK'
  BY <1>1, <1>3, <1>7, <1>8 DEF MessageOK, Replies
<1>12. AnswersOK'
  <2>1. Answers(Item, result, snap)
    BY <1>3 DEF Answers
  <2>2. ASSUME NEW i \in Answered
        PROVE  Answers(message.items[i], message.answers[i], snap)
    <3>1. Answers(message.items[i], message.answers[i], message.snap)
      BY DEF RpcInv, AnswersOK
    <3>2. CASE ~takes
      BY <1>5, <3>1, <3>2
    <3>3. CASE takes /\ message.items[i].method \in Methods
      <4>1. ~Reads(message.items[i])
        BY <3>3 DEF RpcInv, SnapOK, HasRead
      <4>2. PICK h : message.answers[i] = Result(message.items[i], message.snap, h)
        BY <3>1, <3>3 DEF Answers
      <4>3. Result(message.items[i], message.snap, h) = Result(message.items[i], snap, h)
        BY <1>10, <3>3, <4>1, UnreadResult
      <4> QED
        BY <3>3, <4>2, <4>3 DEF Answers
    <3>4. CASE message.items[i].method \notin Methods
      BY <3>1, <3>4 DEF Answers
    <3> QED
      BY <3>2, <3>3, <3>4
  <2> HIDE DEF n, result
  <2> QED
    BY <1>1, <1>8, <1>9, <2>1, <2>2 DEF AnswersOK
<1> HIDE DEF n
<1>13. SnapOK'
  BY <1>1, <1>6, <1>8, <1>9 DEF RpcInv, SnapOK, HasRead
<1>14. FinalsOK'
  <2>1. ASSUME sent = "value", result.hash # ZeroHash, Item.tag \in {"finalized", "safe"}
        PROVE  /\ Reads(Item)
               /\ result.number = snap.finalized
               /\ result.hash = ByNumber(snap, snap.finalized).hash
    <3>1. result.got = "value"
      BY <1>1, <2>1 DEF MayBeSent
    <3>2. Item.method \in {"eth_getBlockByNumber", "eth_blockNumber", "eth_chainId", "net_version"}
      BY <1>3, <2>1 DEF Items, TagsOf, Methods
    <3>3. Reads(Item)
      BY <1>3, <2>1, UnreadResult DEF Reads
    <3>4. Item.method = "eth_getBlockByNumber"
      BY <1>3, <1>6, <2>1, <3>2, <3>3, ReadResult DEF Reads
    <3>5. /\ Names(snap, result) /\ result.number = ResolveHeight(snap, Item)
      BY <1>3, <1>6, <3>1, <3>3, <3>4, ReadResult DEF NamingMethods
    <3>6. ResolveHeight(snap, Item) = snap.finalized
      BY <1>3, <1>6, <2>1, <3>3, HeightOfTag
    <3> QED
      BY <3>3, <3>5, <3>6 DEF Names
  <2>2. ASSUME NEW f \in finals', f \notin finals
        PROVE  /\ Reads(Item)
               /\ f[1] = snap.finalized /\ f[2] = ByNumber(snap, snap.finalized).hash
    BY <1>2, <2>1, <2>2
  <2> HIDE DEF result
  <2>3. current.finalized \in Nat
    BY <1>4, SoundHeight DEF Sound
  <2>4. ASSUME NEW f \in finals'
        PROVE  f[1] \in 0 .. current.finalized /\ f[2] = ByNumber(current, f[1]).hash
    <3>1. CASE f \in finals
      BY <3>1 DEF RpcInv, FinalsOK, Final
    <3>2. CASE f \notin finals
      <4>1. snap.finalized \in Nat
        BY <1>6, <2>2, <3>2, SoundHeight DEF Sound
      <4> QED
        BY <1>6, <2>2, <2>3, <3>2, <4>1 DEF Stands
    <3> QED
      BY <3>1, <3>2
  <2>5. ASSUME NEW f \in finals', Reads(Item) \/ message.once
        PROVE  f[1] \in 0 .. snap.finalized /\ f[2] = ByNumber(snap, f[1]).hash
    <3>1. CASE f \in finals
      BY <1>6, <2>5, <3>1 DEF Final
    <3>2. CASE f \notin finals
      <4>1. snap.finalized \in Nat
        BY <1>6, <2>2, <3>2, SoundHeight DEF Sound
      <4> QED
        BY <2>2, <3>2, <4>1
    <3> QED
      BY <3>1, <3>2
  <2> QED
    BY <1>1, <1>3, <1>6, <2>4, <2>5 DEF FinalsOK, Final, Stands
<1>15. VersionsOK'
  BY <1>1, <1>3 DEF RpcInv, VersionsOK
<1> QED
  BY <1>3, <1>11, <1>12, <1>13, <1>14, <1>15 DEF RpcInv

LEMMA RpcInvariant == RpcSpec => []RpcInv
<1>1. RpcInv /\ [RpcNext]_rpcVars => RpcInv'
  BY WriteChainKeeps, ArriveKeeps, TurnKeeps, RefuseKeeps, HandleKeeps DEF RpcNext
<1> QED
  BY <1>1, RpcInitInv, PTL DEF RpcSpec

(***************************************************************************)
(* The theorems                                                            *)
(***************************************************************************)

\* What an answer of a reading method says of the one snapshot.
LEMMA AnswerFacts ==
    ASSUME RpcInv, NEW i \in Answered
    PROVE  /\ message.items[i] \in Items
           /\ message.answers[i] # Internal
           /\ Canonical(i) \/ Got(i, "eth_blockNumber")
                => Reads(message.items[i]) /\ Sound(message.snap) /\ message.once
           /\ Canonical(i) => Names(message.snap, message.answers[i])
           /\ Canonical(i) /\ message.items[i].tag \in {"latest", "pending"}
                => message.answers[i].number = Height(message.snap)
           /\ Got(i, "eth_blockNumber") => message.answers[i].number = Height(message.snap)
           /\ \A method \in {"eth_getTransactionReceipt", "eth_getTransactionByHash"} :
                Asks(message.items[i], method)
                  => message.answers[i] = Transaction(message.snap, message.items[i].tx)
<1> DEFINE item == message.items[i]
           answer == message.answers[i]
           s == message.snap
<1>1. item \in Items /\ Answers(item, answer, s)
  <2>1. i \in 1 .. Len(message.items)
    BY DEF RpcInv, MessageOK, Answered
  <2> QED
    BY <2>1, ElementOfSeq DEF RpcInv, MessageOK, AnswersOK
<1>2. Reads(item) => Sound(s) /\ message.once
  BY DEF RpcInv, SnapOK, HasRead
<1> HIDE DEF item, answer, s
<1>3. CASE item.method \notin Methods
  <2>1. item.method \in {"garbage", "none", "other"} /\ answer = Refusal(item.method)
    BY <1>1, <1>3 DEF Answers, Items
  <2>2. answer # Internal
    BY <2>1, FixedReplies
  <2>3. item.method \notin NamingMethods \cup {"eth_blockNumber"}
    BY <2>1 DEF NamingMethods
  <2> QED
    BY <1>1, <2>2, <2>3 DEF Canonical, Got, Asks, NamingMethods, item, answer, s
<1>4. CASE item.method \in Methods /\ ~Reads(item)
  <2>1. PICK hash : answer = Result(item, s, hash)
    BY <1>1, <1>4 DEF Answers
  <2>2. /\ answer # Internal
        /\ item.method \in NamingMethods \cup {"eth_blockNumber"} => answer.got # "value"
    BY <1>1, <1>4, <2>1, UnreadResult
  <2>3. ~Canonical(i) /\ ~Got(i, "eth_blockNumber")
    BY <2>2 DEF Canonical, Got, NamingMethods, item, answer
  <2>4. \A method \in {"eth_getTransactionReceipt", "eth_getTransactionByHash"} :
          ~Asks(item, method)
    BY <1>4 DEF Asks, Reads
  <2> QED
    BY <1>1, <2>2, <2>3, <2>4 DEF item, answer, s
<1>5. CASE item.method \in Methods /\ Reads(item)
  <2>1. PICK hash : answer = Result(item, s, hash)
    BY <1>1, <1>5 DEF Answers
  <2>2. /\ answer # Internal
        /\ item.method \in NamingMethods /\ answer.got = "value" => Names(s, answer)
        /\ item.method = "eth_blockNumber" => answer.number = Height(s)
        /\ item.method = "eth_getBlockByNumber" /\ answer.got = "value"
             => answer.number = ResolveHeight(s, item)
        /\ item.method \in {"eth_getTransactionReceipt", "eth_getTransactionByHash"}
             => answer = Transaction(s, item.tx)
    BY <1>1, <1>2, <1>5, <2>1, ReadResult
  <2>3. Canonical(i) => item.method \in NamingMethods /\ answer.got = "value"
    BY DEF Canonical, Got, NamingMethods, item, answer
  <2>4. ASSUME Canonical(i), item.tag \in {"latest", "pending"}
        PROVE  answer.number = Height(s)
    <3>1. item.method = "eth_getBlockByNumber" /\ answer.got = "value"
      BY <1>1, <2>3, <2>4 DEF NamingMethods, Items, TagsOf
    <3> QED
      BY <1>1, <1>2, <1>5, <2>2, <2>4, <3>1, HeightOfTag
  <2>5. Got(i, "eth_blockNumber") => answer.number = Height(s)
    BY <2>2 DEF Got, item, answer
  <2>6. \A method \in {"eth_getTransactionReceipt", "eth_getTransactionByHash"} :
          Asks(item, method) => answer = Transaction(s, item.tx)
    BY <2>2 DEF Asks
  <2> QED
    BY <1>1, <1>2, <1>5, <2>2, <2>3, <2>4, <2>5, <2>6 DEF item, answer, s
<1> QED
  BY <1>3, <1>4, <1>5

\* The message keeps its type: no answer without its item, no call without an
\* item left to answer, and the snapshot is taken exactly when a method has read
\* (handler.go:107-141).
THEOREM RpcTypes == RpcSpec => []RpcTypeOK
<1>1. RpcInv => RpcTypeOK
  BY DEF RpcInv, MessageOK, SnapOK, RpcTypeOK
<1> QED
  BY <1>1, RpcInvariant, PTL

\* A message is answered from one state of the chain (handler.go:17-34).
THEOREM OneState == RpcSpec => []BatchAgrees
<1>1. ASSUME RpcInv, NEW i \in Answered, NEW j \in Answered
      PROVE  LET a == message.answers[i]
                 b == message.answers[j]
                 p == message.items[i]
                 q == message.items[j]
             IN  /\ Canonical(i) /\ Canonical(j) /\ a.number = b.number => a.hash = b.hash
                 /\ Canonical(i) /\ Got(j, "eth_blockNumber") => a.number <= b.number
                 /\ Canonical(i) /\ Got(j, "eth_blockNumber") /\ p.tag \in {"latest", "pending"}
                      => a.number = b.number
                 /\ Asks(p, "eth_getTransactionReceipt") /\ Asks(q, "eth_getTransactionByHash")
                      /\ p.tx = q.tx => a = b
  <2> DEFINE a == message.answers[i]
             b == message.answers[j]
  <2>1. Canonical(i) /\ Canonical(j) /\ a.number = b.number => a.hash = b.hash
    BY <1>1, AnswerFacts DEF Names
  <2>2. Canonical(i) /\ Got(j, "eth_blockNumber") => a.number <= b.number
    BY <1>1, AnswerFacts, SoundHeight DEF Names
  <2>3. Canonical(i) /\ Got(j, "eth_blockNumber") /\ message.items[i].tag \in {"latest", "pending"}
          => a.number = b.number
    BY <1>1, AnswerFacts
  <2>4. Asks(message.items[i], "eth_getTransactionReceipt")
          /\ Asks(message.items[j], "eth_getTransactionByHash")
          /\ message.items[i].tx = message.items[j].tx => a = b
    <3> SUFFICES ASSUME Asks(message.items[i], "eth_getTransactionReceipt"),
                        Asks(message.items[j], "eth_getTransactionByHash"),
                        message.items[i].tx = message.items[j].tx
                 PROVE  a = b
      OBVIOUS
    <3>1. a = Transaction(message.snap, message.items[i].tx)
      BY <1>1, AnswerFacts
    <3>2. b = Transaction(message.snap, message.items[j].tx)
      BY <1>1, AnswerFacts
    <3>3. Transaction(message.snap, message.items[i].tx) = Transaction(message.snap, message.items[j].tx)
      OBVIOUS
    <3> QED
      BY <3>1, <3>2, <3>3
  <2> QED
    BY <2>1, <2>2, <2>3, <2>4
<1>2. RpcInv => BatchAgrees
  BY <1>1 DEF BatchAgrees
<1> QED
  BY <1>2, RpcInvariant, PTL

\* No method ever finds a block without the receipt of its transaction
\* (methods.go:98).
THEOREM NoInternalError == RpcSpec => []NeverInternalError
<1>1. RpcInv => NeverInternalError
  BY AnswerFacts DEF NeverInternalError
<1> QED
  BY <1>1, RpcInvariant, PTL

\* The look at the chain comes after the delay (handler.go:17-20).
THEOREM FreshFirstRead == RpcSpec => []FirstReadIsFresh
<1>1. RpcInv => FirstReadIsFresh
  BY DEF RpcInv, SnapOK, VersionsOK, FirstReadIsFresh
<1> QED
  BY <1>1, RpcInvariant, PTL

\* The block a client was sent for finalized or safe is the one every later
\* answer gives for that height (methods.go:125-136, driver.go:110-131).
THEOREM FinalForClients == RpcSpec => []FinalizedIsFinal
<1>1. ASSUME RpcInv, NEW i \in Answered, NEW f \in finals,
             Canonical(i), message.answers[i].number = f[1]
      PROVE  message.answers[i].hash = f[2]
  <2>1. Names(message.snap, message.answers[i]) /\ message.once
    BY <1>1, AnswerFacts
  <2>2. f[2] = ByNumber(message.snap, f[1]).hash
    BY <1>1, <2>1 DEF RpcInv, FinalsOK, Final
  <2> QED
    BY <1>1, <2>1, <2>2 DEF Names
<1>2. RpcInv => FinalizedIsFinal
  BY <1>1 DEF FinalizedIsFinal
<1> QED
  BY <1>2, RpcInvariant, PTL
=============================================================================

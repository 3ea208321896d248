----------------------------- MODULE RpcHandler -----------------------------
(***************************************************************************)
(* rpc.Handler (internal/rpc/handler.go, methods.go, wire.go): one client  *)
(* that sends one message after the other, each a request or a batch, over *)
(* a chain that is written to meanwhile and faults that delay and lie.     *)
(*                                                                         *)
(* The items of a message are answered in order.  The snapshot is taken by *)
(* the first of them that reads the chain, once its delay is over, and     *)
(* serves the rest.  An answer keeps of a block, receipt or transaction    *)
(* the block's number and hash and the transactions; hex and JSON are      *)
(* left out, and so are ids, as the i-th answer is the i-th item's.        *)
(***************************************************************************)
EXTENDS Chain, FaultSource, SequencesExt

CONSTANT Messages  \* the messages of the client: sequences of items

Methods ==
    {"eth_blockNumber", "eth_chainId", "net_version", "eth_getBlockByNumber",
     "eth_getBlockByHash", "eth_getTransactionReceipt", "eth_getTransactionByHash"}

\* A first parameter that is missing or no string, one that does not decode,
\* a block tag, a quantity, a hash the client was told, or a transaction's.  An
\* item that does not parse has the method garbage, one without a method none.
Tags ==
    {"malformed", "bad", "latest", "pending", "earliest", "finalized", "safe",
     "quantity", "told", "tx"}

\* What a method can make of its parameter.
TagsOf(method) ==
    CASE method = "eth_getBlockByNumber" -> Tags \ {"told", "tx"}
      [] method = "eth_getBlockByHash"   -> {"malformed", "bad", "told"}
      [] method \in {"eth_getTransactionReceipt", "eth_getTransactionByHash"}
                                         -> {"malformed", "bad", "tx"}
      [] OTHER                           -> Tags

Items ==
    {item \in [method : Methods \cup {"garbage", "none", "other"}, tag : Tags, height : Nat,
               tx : TxHashes, fullTx : BOOLEAN] : item.tag \in TagsOf(item.method)}

ASSUME MessagesAssumption == Messages \subseteq Seq(Items)

VARIABLE
    message   \* the message being served: [items, answers, once, snap]

\* History of the run, read by the properties only.
VARIABLES
    asOf,     \* the version of the chain message.snap is of
    woke,     \* the version when Before last returned before that
    told,     \* hashes of the blocks the client was sent
    finals    \* the numbers and hashes it was sent for a finalized block

rpcHist == <<asOf, woke, told, finals>>
rpcVars == <<chainVars, turn, message, rpcHist>>

\* Both grow, so equal versions are equal states of the chain.
Version == seq + current.finalized

Item == message.items[Len(message.answers) + 1]

Done == Len(message.answers) = Len(message.items)

Answered == DOMAIN message.answers

(***************************************************************************)
(* The methods                                                             *)
(***************************************************************************)

Reply(kind, number, hash, txs) == [got |-> kind, number |-> number, hash |-> hash, txs |-> txs]

Null == Reply("null", 0, ZeroHash, <<>>)
Error(code) == Reply("error", code, ZeroHash, <<>>)

ParseError     == Error(-32700)
InvalidRequest == Error(-32600)
MethodNotFound == Error(-32601)
InvalidParams  == Error(-32602)
Internal       == Error(-32603)

\* Whether the method comes as far as g.snapshot().
Reads(item) ==
    \/ item.method = "eth_blockNumber"
    \/ item.method = "eth_getBlockByNumber" /\ item.tag # "malformed"
    \/ /\ item.method \in {"eth_getBlockByHash", "eth_getTransactionReceipt",
                           "eth_getTransactionByHash"}
       /\ item.tag \notin {"malformed", "bad"}

HasRead == \E i \in Answered : Reads(message.items[i])

ResolveHeight_FinalizedIsHead(s, item) ==
    CASE item.tag \in {"latest", "pending", "finalized", "safe"} -> Height(s)
      [] item.tag = "earliest" -> 0
      [] OTHER -> item.height

ResolveHeight(s, item) ==
    CASE item.tag \in {"latest", "pending"} -> Height(s)
      [] item.tag = "earliest" -> 0
      [] item.tag \in {"finalized", "safe"} -> s.finalized
      [] OTHER -> item.height

\* A missing or malformed fullTx is an error even for a block that is not there.
BlockResult(block, item) ==
    IF ~item.fullTx THEN InvalidParams
    ELSE IF block = Nil THEN Null
    ELSE Reply("value", block.number, block.hash, block.txs)

Including(block, tx, list) ==
    IF block = Nil THEN Null
    ELSE IF \E i \in DOMAIN list : list[i] = tx
         THEN Reply("value", block.number, block.hash, <<tx>>)
         ELSE Internal

ReceiptTxs(block) == [i \in DOMAIN block.receipts |-> block.receipts[i].txHash]

Receipt(s, tx) ==
    LET block == BlockByTx(s, tx)
    IN  Including(block, tx, IF block = Nil THEN <<>> ELSE ReceiptTxs(block))

Transaction(s, tx) ==
    LET block == BlockByTx(s, tx)
    IN  Including(block, tx, IF block = Nil THEN <<>> ELSE block.txs)

\* The result of a method on the snapshot s, hash being the one it asks for.
Result(item, s, hash) ==
    IF item.method = "eth_blockNumber" THEN Reply("value", Height(s), ZeroHash, <<>>)
    ELSE IF item.method \in {"eth_chainId", "net_version"} THEN Reply("value", 0, ZeroHash, <<>>)
    ELSE IF item.tag \in {"malformed", "bad"} THEN InvalidParams
    ELSE CASE item.method = "eth_getBlockByNumber" ->
                BlockResult(ByNumber(s, ResolveHeight(s, item)), item)
           [] item.method = "eth_getBlockByHash"        -> BlockResult(ByHash(s, hash), item)
           [] item.method = "eth_getTransactionReceipt" -> Receipt(s, item.tx)
           [] item.method = "eth_getTransactionByHash"  -> Transaction(s, item.tx)

(***************************************************************************)
(* ServeRPC, serveBatch, serveSingle                                       *)
(***************************************************************************)

TakeSnapshot_EveryTime(item) == IF Reads(item) THEN current ELSE message.snap

\* lazySnapshot: at the first need, and at most once for a message.
TakeSnapshot(item) == IF Reads(item) /\ ~message.once THEN current ELSE message.snap

Arrive_Eager(items) ==
    /\ turn.phase = "idle" /\ Done
    /\ message' = [items |-> items, answers |-> <<>>, once |-> TRUE, snap |-> current]
    /\ asOf' = Version /\ woke' = 0
    /\ UNCHANGED <<chainVars, turn, told, finals>>

\* A message that does not parse is one garbage item, an empty batch one item
\* without a method.
Arrive(items) ==
    /\ turn.phase = "idle" /\ Done
    /\ message' = [items |-> items, answers |-> <<>>, once |-> FALSE, snap |-> Nil]
    /\ asOf' = 0 /\ woke' = 0
    /\ UNCHANGED <<chainVars, turn, told, finals>>

Refusal(method) ==
    CASE method = "garbage" -> ParseError
      [] method = "none"    -> InvalidRequest
      [] method = "other"   -> MethodNotFound

\* What is no request, or names no method that is served: no fault is consulted.
Refuse ==
    /\ turn.phase = "idle" /\ ~Done /\ Item.method \notin Methods
    /\ message' = [items   |-> message.items,
                   answers |-> Append(message.answers, Refusal(Item.method)),
                   once    |-> message.once,
                   snap    |-> message.snap]
    /\ UNCHANGED <<chainVars, turn, rpcHist>>

Call ==
    /\ ~Done /\ Item.method \in Methods
    /\ Begin
    /\ UNCHANGED <<chainVars, message, rpcHist>>

\* Before returns, after a delay or none.
Proceed ==
    /\ Ready
    /\ woke' = IF HasRead THEN woke ELSE Version
    /\ UNCHANGED <<chainVars, message, asOf, told, finals>>

\* The method, and After.  A hash asked for is one the client was told, or one
\* that no block has.
Handle(hash, sent) ==
    LET snap   == TakeSnapshot(Item)
        result == Result(Item, snap, hash)
        names  == sent = "value" /\ result.hash # ZeroHash
    IN  /\ Answer(result.got, sent)
        /\ message' = [items   |-> message.items,
                       answers |-> Append(message.answers, result),
                       once    |-> message.once \/ Reads(Item),
                       snap    |-> snap]
        /\ asOf' = IF Reads(Item) /\ ~message.once THEN Version ELSE asOf
        /\ told' = IF names THEN told \cup {result.hash} ELSE told
        /\ finals' = IF names /\ Item.tag \in {"finalized", "safe"}
                     THEN finals \cup {<<result.number, result.hash>>} ELSE finals
        /\ UNCHANGED <<chainVars, woke>>

RpcInit ==
    /\ Init
    /\ FaultInit
    /\ message = [items |-> <<>>, answers |-> <<>>, once |-> FALSE, snap |-> Nil]
    /\ asOf = 0 /\ woke = 0 /\ told = {} /\ finals = {}

WriteChain == Next /\ UNCHANGED <<turn, message, rpcHist>>

RpcNext ==
    \/ \E items \in Messages : Arrive(items)
    \/ Refuse \/ Call \/ Proceed
    \/ \E hash \in told \cup {ZeroHash}, sent \in Kinds : Handle(hash, sent)
    \/ WriteChain

RpcSpec == RpcInit /\ [][RpcNext]_rpcVars

(***************************************************************************)
(* Properties                                                              *)
(***************************************************************************)

\* The message has its type: no answer without its item, no delay without its
\* call, no result of a reading method without a snapshot (handler.go:107-141).
RpcTypeOK ==
    /\ turn.phase \in {"idle", "before", "handle"}
    /\ turn.got \in Kinds /\ turn.sent \in Kinds
    /\ message.items \in Messages \cup {<<>>}
    /\ Len(message.answers) <= Len(message.items)
    /\ turn.phase # "idle" => ~Done
    /\ message.once <=> HasRead

Got(i, method) == message.items[i].method = method /\ message.answers[i].got = "value"

\* Answers that say what is canonical at a height.
Canonical(i) ==
    \/ Got(i, "eth_getBlockByNumber")
    \/ Got(i, "eth_getTransactionReceipt")
    \/ Got(i, "eth_getTransactionByHash")

Asks(item, method) == item.method = method /\ item.tag = "tx"

\* A message is answered from one state of the chain, however long it takes and
\* whatever is written meanwhile: two answers never name different blocks at a
\* height, no block lies above the block number, a receipt is there exactly when
\* its transaction is (handler.go:17-34).
BatchAgrees ==
    \A i, j \in Answered :
        LET a == message.answers[i]
            b == message.answers[j]
            p == message.items[i]
            q == message.items[j]
        IN  /\ Canonical(i) /\ Canonical(j) /\ a.number = b.number => a.hash = b.hash
            /\ Canonical(i) /\ Got(j, "eth_blockNumber") => a.number <= b.number
            /\ Canonical(i) /\ Got(j, "eth_blockNumber") /\ p.tag \in {"latest", "pending"}
                 => a.number = b.number
            /\ Asks(p, "eth_getTransactionReceipt") /\ Asks(q, "eth_getTransactionByHash")
                 /\ p.tx = q.tx => a = b

\* "block found but receipt missing: invariant broken" (methods.go:98) never is.
NeverInternalError == \A i \in Answered : message.answers[i] # Internal

\* A delay comes before the look at the chain: the first answer of a message that
\* reads it shows nothing older than the end of its own delay, so a request that
\* is no batch is never answered from the past (handler.go:17-20).
FirstReadIsFresh == HasRead => asOf >= woke

\* Finality as a client sees it: the block it was sent for finalized or safe is
\* the one every later answer gives for that height (methods.go:125-136,
\* driver.go:110-131).
FinalizedIsFinal ==
    \A i \in Answered, f \in finals :
        Canonical(i) /\ message.answers[i].number = f[1] => message.answers[i].hash = f[2]
=============================================================================

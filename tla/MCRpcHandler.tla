---------------------------- MODULE MCRpcHandler ----------------------------
(* Values of the constants of RpcHandler for TLC. *)
EXTENDS RpcHandler

CONSTANT t1

MCTxs == {t1}
MCTxLists == {<<>>, <<t1>>}

Ask(method, tag) ==
    [method |-> method, tag |-> tag, height |-> 1, tx |-> HashTx(t1), fullTx |-> TRUE]

ByNumberAt(tag) == Ask("eth_getBlockByNumber", tag)

\* Batches whose items can contradict one another, and one after which a client
\* asks for a block it was told of; every tag, and every way to be refused.
MCMessages ==
    {<<Ask("eth_blockNumber", "latest"), ByNumberAt("latest"), ByNumberAt("quantity")>>,
     <<Ask("eth_getTransactionReceipt", "tx"), Ask("eth_getTransactionByHash", "tx"),
       ByNumberAt("quantity")>>,
     <<Ask("eth_chainId", "latest"), ByNumberAt("finalized"), Ask("eth_blockNumber", "latest")>>,
     <<Ask("eth_getBlockByHash", "told")>>,
     <<ByNumberAt("pending"), ByNumberAt("safe")>>,
     <<ByNumberAt("bad"), [ByNumberAt("earliest") EXCEPT !.fullTx = FALSE],
       Ask("other", "malformed"), Ask("none", "malformed")>>,
     <<Ask("garbage", "malformed")>>}
=============================================================================

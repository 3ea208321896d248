---------------------------- MODULE MCRcuDriver ----------------------------
(* Values of the constants of RcuDriver for TLC. *)
EXTENDS RcuDriver

CONSTANTS w1, w2

MCWriters == {w1, w2}

\* What a snapshot shares does not depend on the transactions: blocks are empty.
MCTxs == {}
MCTxLists == {<<>>}
=============================================================================

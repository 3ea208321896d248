------------------------------ MODULE MCChain ------------------------------
(* Values of the constants of Chain for TLC. *)
EXTENDS Chain

CONSTANTS t1, t2

MCTxs == {t1, t2}

\* An empty block, and one with two transactions.
MCTxLists == {<<>>, <<t1, t2>>}
=============================================================================

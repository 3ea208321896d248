------------------------------ MODULE MCEngine ------------------------------
(* Values of the constants of Engine for TLC. *)
EXTENDS Engine

CONSTANTS a, b, m1

MCTxs == {a, b}
MCTxLists == {<<>>}
MCServed == {m1}
MCEndHeights == {0, 5, 7}

At == 1 .. 3

\* Valid and invalid actions: a transaction twice, an empty produce, branches
\* that do not outgrow the chain or name what was not produced, and a fault on
\* a method nobody serves.
MCEvents ==
    [at : At, do : {"produce"}, txs : {<<>>, <<a>>, <<b, a>>, <<b, b>>}]
      \cup [at : At, do : {"reorg"}, forkFrom : 0 .. 2, length : {0, 2, 3}, txs : {<<>>}]
      \cup [at : At, do : {"reorg"}, forkFrom : 0 .. 2, length : {2, 3},
            txs : {<<[at |-> 2, ids |-> <<a>>]>>,
                   <<[at |-> 3, ids |-> <<b>>], [at |-> 3, ids |-> <<a>>]>>,
                   <<[at |-> 3, ids |-> <<b>>], [at |-> 2, ids |-> <<a>>]>>}]
      \cup [at : At, do : {"finalize"}, height : 0 .. 4]
      \cup [at : {2}, do : {"fault"}, method : {m1, "typo"}, type : {"delay"},
            count : {1}, delay : {"positive", "malformed"}]
      \cup [at : {3}, do : {"clear_faults"}]
=============================================================================

----------------------------- MODULE MCHeadFeed -----------------------------
(* Values of the constants of HeadFeed for TLC. *)
EXTENDS HeadFeed

\* Subscriptions do not look into blocks: every block is empty.
MCTxs == {}
MCTxLists == {<<>>}
=============================================================================

------------------------------ MODULE MCServer ------------------------------
(* Values of the constants of Server for TLC. *)
EXTENDS Server

CONSTANTS c1, c2

MCConns == {c1, c2}
=============================================================================

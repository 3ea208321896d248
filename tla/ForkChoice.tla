----------------------------- MODULE ForkChoice -----------------------------
(***************************************************************************)
(* What chain.Driver promises to those who read the chain, whatever the    *)
(* way a block is built, hashed and stored: a path of block identities     *)
(* from genesis to the head, of which a prefix is final.                   *)
(*                                                                         *)
(* This is the abstract specification: Chain implements it.                *)
(***************************************************************************)
EXTENDS Integers, Sequences

CONSTANTS Ids, Genesis

VARIABLES
    path,       \* the canonical chain, genesis first
    known,      \* every block there ever was, canonical or orphaned
    watermark   \* the finalized height: path[1 .. watermark + 1] is final

vars == <<path, known, watermark>>

Init ==
    /\ path = <<Genesis>>
    /\ known = {Genesis}
    /\ watermark = 0

\* The chain gets longer.  It keeps what is final and everything up to some
\* fork point; from there on every block is one never seen before.
Advance ==
    /\ path' \in Seq(Ids)
    /\ Len(path') > Len(path)
    /\ \E fork \in watermark + 1 .. Len(path) :
          /\ \A i \in 1 .. fork : path'[i] = path[i]
          /\ \A i \in fork + 1 .. Len(path') : path'[i] \notin known
    /\ known' = known \cup {path'[i] : i \in DOMAIN path'}
    /\ UNCHANGED watermark

\* The final prefix gets longer, up to the head.
Settle ==
    /\ watermark' \in watermark .. Len(path) - 1
    /\ UNCHANGED <<path, known>>

Next == Advance \/ Settle

Spec == Init /\ [][Next]_vars
=============================================================================

------------------------------ MODULE MCFaults ------------------------------
(* Values of the constants of Faults for TLC. *)
EXTENDS Faults

CONSTANTS c1, c2, m1, m2

MCMethods == {m1, m2}
MCOneMethod == {m1}
MCCallers == {c1, c2}
MCOneCaller == {c1}

\* A short delay and a long one that wears out first, a lie told twice, and a
\* lie and a delay told for ever.
MCCatalogue ==
    {[method |-> AllMethods, type |-> "Delay",     count |-> 0, delay |-> 1],
     [method |-> m1,         type |-> "Delay",     count |-> 1, delay |-> 2],
     [method |-> m1,         type |-> "FalseNull", count |-> 2, delay |-> 0],
     [method |-> AllMethods, type |-> "FalseNull", count |-> 0, delay |-> 0]}
=============================================================================

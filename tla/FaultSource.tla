---------------------------- MODULE FaultSource ----------------------------
(***************************************************************************)
(* What a request may count on from the faults: rpc.FaultSource and        *)
(* withFaults (internal/rpc/faults.go).  One call: Before, which may hold  *)
(* it up; the method; After, which may hide a value the method returned,   *)
(* and nothing else.  Faults implements this module; RpcHandler is built   *)
(* on it, and on nothing else of the registry.                             *)
(***************************************************************************)
VARIABLE turn  \* the call: [phase, got, sent]

Kinds == {"value", "null", "error"}

Phase(p) == [phase |-> p, got |-> "null", sent |-> "null"]

FaultInit == turn = Phase("idle")

Begin == turn.phase = "idle" /\ turn' = Phase("before")

\* Before returns, however long it took.
Ready == turn.phase = "before" /\ turn' = Phase("handle")

MayBeSent(got) == IF got = "value" THEN {"value", "null"} ELSE {got}

\* The method's result and what the client is sent.
Answer(got, sent) ==
    /\ turn.phase = "handle"
    /\ sent \in MayBeSent(got)
    /\ turn' = [phase |-> "idle", got |-> got, sent |-> sent]

FaultNext == Begin \/ Ready \/ \E got, sent \in Kinds : Answer(got, sent)

FaultSpec == FaultInit /\ [][FaultNext]_turn
=============================================================================

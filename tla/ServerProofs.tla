---------------------------- MODULE ServerProofs ----------------------------
(***************************************************************************)
(* Theorems about Server, for any set of connections.                      *)
(***************************************************************************)
EXTENDS Server, TLAPS

\* Whoever is on the way to a clean exit was asked to stop: main goes there on a
\* signal, or on the nil that Start sends when Shutdown has closed the listener,
\* and Shutdown is called nowhere else.
Asked ==
    /\ main.pc \in {"cancel", "copy", "close", "drain"} => signalled
    /\ serveErr = "nil" => signalled
    /\ main.exit = 0 => signalled

ServerInv == TypeOK /\ Asked

Mains == [pc : {"select", "cancel", "copy", "close", "drain", "exit"},
          copied : SUBSET Conns, exit : {-1, 0, 1}]

Phases == {"none", "new", "idle", "body", "delay", "reply", "upgrade",
           "hijacked", "open", "gone"}

LEMMA ServerInitInv == Init => ServerInv
<1> SUFFICES ASSUME Init PROVE ServerInv
  OBVIOUS
<1>1. main \in Mains /\ main.pc = "select" /\ main.exit = -1
  BY DEF Init, Mains
<1>2. signalled \in BOOLEAN /\ base \in BOOLEAN /\ expired \in BOOLEAN
  BY Zenon DEF Init
<1>3. phase \in [Conns -> Phases] /\ conns = {c \in Conns : phase[c] = "open"}
  BY DEF Init, Phases
<1>4. TypeOK
  BY <1>1, <1>2, <1>3 DEF Init, TypeOK, Mains, Phases
<1> QED
  BY <1>1, <1>4 DEF Init, ServerInv, Asked

\* Steps that leave main and Start's channel alone.
LEMMA MainUnmoved ==
    ASSUME ServerInv, TypeOK', main' = main, serveErr' \in {serveErr, "error"},
           signalled => signalled'
    PROVE  ServerInv'
BY DEF ServerInv, Asked

\* One connection enters a phase, and the set of connections follows.
LEMMA EnterKeeps ==
    ASSUME TypeOK, NEW c \in Conns, NEW to \in Phases, Enter(c, to),
           conns' = IF to = "open" THEN conns \cup {c} ELSE conns \ {c}
    PROVE  phase' \in [Conns -> Phases] /\ conns' = {d \in Conns : phase'[d] = "open"}
<1>1. phase' \in [Conns -> Phases] /\ \A d \in Conns : phase'[d] = IF d = c THEN to ELSE phase[d]
  BY DEF TypeOK, Phases, Enter
<1> QED
  BY <1>1 DEF TypeOK

\* The steps of the handlers and of the connections' clients.
LEMMA ConnSteps ==
    ASSUME ServerInv, NEW c \in Conns,
           \/ Accept(c) \/ Request(c) \/ Handler(c) \/ Elapse(c) \/ ClientLeaves(c)
           \/ CloseIdle(c)
    PROVE  ServerInv'
<1>1. TypeOK
  BY DEF ServerInv
<1>2. CASE ClientLeaves(c)
  <2>1. TypeOK'
    BY <1>1, <1>2 DEF ClientLeaves, TypeOK, serving, sockets
  <2> QED
    BY <1>2, <2>1, MainUnmoved DEF ClientLeaves, serving
<1>3. CASE ~ClientLeaves(c)
  <2>1. main' = main /\ UNCHANGED <<outside, serving, shut>>
    BY <1>3 DEF Accept, Request, Handler, Elapse, CloseIdle, ReadBody, Interrupt, Reply, Upgrade,
       AddConn, RemoveConn, Discard
  <2>2. \E to \in Phases :
          /\ Enter(c, to)
          /\ conns' = IF to = "open" THEN conns \cup {c} ELSE conns \ {c}
    <3>1. c \in conns <=> phase[c] = "open"
      BY <1>1 DEF TypeOK
    <3>2. CASE AddConn(c)
      BY <3>2 DEF AddConn, Phases
    <3>3. CASE RemoveConn(c)
      BY <3>3 DEF RemoveConn, Phases
    <3>4. CASE ~AddConn(c) /\ ~RemoveConn(c)
      <4>1. /\ \E to \in Phases \ {"open"} : Enter(c, to)
            /\ conns' = conns /\ phase[c] # "open"
        BY <1>3, <3>4 DEF Accept, Request, Handler, Elapse, CloseIdle, ReadBody, Interrupt, Reply,
           Upgrade, Discard, Phases
      <4> QED
        BY <3>1, <4>1
    <3> QED
      BY <3>2, <3>3, <3>4
  <2>3. phase' \in [Conns -> Phases] /\ conns' = {d \in Conns : phase'[d] = "open"}
    BY <1>1, <2>2, EnterKeeps
  <2>4. TypeOK'
    BY <1>1, <2>1, <2>3 DEF TypeOK, outside, serving, Phases
  <2> QED
    BY <2>1, <2>4, MainUnmoved DEF outside, serving
<1> QED
  BY <1>2, <1>3

\* main's steps.
LEMMA MainSteps ==
    ASSUME ServerInv, MainStep
    PROVE  ServerInv'
<1>1. TypeOK /\ Asked /\ main \in Mains
  BY DEF ServerInv, TypeOK, Mains
<1>2. ASSUME NEW to \in {"cancel", "copy", "close", "drain"}, Goto(to), signalled,
             UNCHANGED <<outside, sockets>>, listener' \in {listener, "closed"},
             serveErr' \in {serveErr, "nil"}, base' \in BOOLEAN, expired' = expired
      PROVE  ServerInv'
  <2>1. main' \in Mains /\ main'.pc = to /\ main'.exit = main.exit
    BY <1>1, <1>2 DEF Goto, Mains
  <2>2. TypeOK'
    BY <1>1, <1>2, <2>1 DEF TypeOK, Mains, outside, sockets
  <2> QED
    BY <1>1, <1>2, <2>1, <2>2 DEF ServerInv, Asked, outside
<1>3. ASSUME NEW code \in {0, 1}, Exit(code), code = 0 => signalled,
             UNCHANGED <<outside, serving, sockets>>
      PROVE  ServerInv'
  <2>1. main' \in Mains /\ main'.pc = "exit" /\ main'.exit = code
    BY <1>1, <1>3 DEF Exit, Mains
  <2>2. TypeOK'
    BY <1>1, <1>3, <2>1 DEF TypeOK, Mains, outside, serving, sockets
  <2> QED
    BY <1>1, <1>3, <2>1, <2>2 DEF ServerInv, Asked, outside, serving
<1>4. CASE SelectSignal
  BY <1>1, <1>2, <1>4 DEF SelectSignal, serving, TypeOK
<1>5. CASE SelectServeErr
  <2>1. CASE serveErr = "error"
    BY <1>3, <1>5, <2>1 DEF SelectServeErr
  <2>2. CASE serveErr = "nil"
    BY <1>1, <1>2, <1>5, <2>2 DEF SelectServeErr, serving, TypeOK, Asked
  <2> QED
    BY <1>1, <1>5, <2>1, <2>2 DEF SelectServeErr, TypeOK
<1>6. CASE SelectScenarioErr
  BY <1>3, <1>6 DEF SelectScenarioErr
<1>7. CASE BaseCancel
  BY <1>1, <1>2, <1>7 DEF BaseCancel, Asked
<1>8. CASE CopyConns
  <2>1. main' \in Mains /\ main'.pc = "close" /\ main'.exit = main.exit /\ signalled
    BY <1>1, <1>8 DEF CopyConns, Mains, Asked, TypeOK
  <2>2. TypeOK'
    BY <1>1, <1>8, <2>1 DEF CopyConns, TypeOK, Mains, outside, serving, sockets
  <2> QED
    BY <1>1, <1>8, <2>1, <2>2 DEF CopyConns, ServerInv, Asked, outside, serving
<1>9. ASSUME NEW c \in Conns, CloseConn(c)
      PROVE  ServerInv'
  <2>1. TypeOK'
    BY <1>1, <1>9 DEF CloseConn, TypeOK, outside, serving
  <2> QED
    BY <1>9, <2>1, MainUnmoved DEF CloseConn, outside, serving
<1>10. CASE StopListening
  BY <1>1, <1>2, <1>10 DEF StopListening, Asked, TypeOK
<1>11. ASSUME NEW c \in Conns, CloseIdle(c)
       PROVE  ServerInv'
  BY <1>11, ConnSteps
<1>12. CASE Drained
  BY <1>1, <1>3, <1>12 DEF Drained, Asked
<1>13. CASE DrainExpires
  BY <1>3, <1>13 DEF DrainExpires
<1> QED
  BY <1>4, <1>5, <1>6, <1>7, <1>8, <1>9, <1>10, <1>11, <1>12, <1>13 DEF MainStep

\* The listener, the deadline, the worker and the operator.
LEMMA OtherSteps ==
    ASSUME ServerInv, Expire \/ Listen \/ ServeFails \/ WorkerEnds \/ WorkerStops \/ Signal
    PROVE  ServerInv'
<1>1. TypeOK'
  <2>1. CASE Expire
    BY <2>1 DEF ServerInv, TypeOK, Expire, outside, serving, sockets
  <2>2. CASE Listen
    BY <2>2 DEF ServerInv, TypeOK, Listen, outside, serving, sockets
  <2>3. CASE ServeFails
    BY <2>3 DEF ServerInv, TypeOK, ServeFails, outside, serving, sockets
  <2>4. CASE WorkerEnds
    BY <2>4 DEF ServerInv, TypeOK, WorkerEnds, outside, serving, sockets
  <2>5. CASE WorkerStops
    BY <2>5 DEF ServerInv, TypeOK, WorkerStops, outside, serving, sockets
  <2>6. CASE Signal
    BY <2>6 DEF ServerInv, TypeOK, Signal, outside, serving, sockets
  <2> QED
    BY <2>1, <2>2, <2>3, <2>4, <2>5, <2>6
<1> QED
  BY <1>1, MainUnmoved DEF Expire, Listen, ServeFails, WorkerEnds, WorkerStops, Signal, outside,
     serving

LEMMA ServerNextInv == ServerInv /\ [Next]_vars => ServerInv'
<1> SUFFICES ASSUME ServerInv, [Next]_vars PROVE ServerInv'
  OBVIOUS
<1>1. CASE UNCHANGED vars
  BY <1>1 DEF ServerInv, TypeOK, Asked, vars, outside, serving, sockets
<1> QED
  BY <1>1, MainSteps, OtherSteps, ConnSteps DEF Next

LEMMA ServerInvariant == Spec => []ServerInv
BY ServerInitInv, ServerNextInv, PTL DEF Spec

(***************************************************************************)
(* The theorems                                                            *)
(***************************************************************************)

\* Every variable keeps its type, and a connection is in the set exactly while its
\* handler has added it and not returned (server.go:84-94).
THEOREM ServerTypes == Spec => []TypeOK
<1>1. ServerInv => TypeOK
  BY DEF ServerInv
<1> QED
  BY <1>1, ServerInvariant, PTL

\* A process that was not asked to stop does not exit with success, whichever of
\* the ready cases main's select takes (main.go:113-124).
THEOREM UnaskedFails == Spec => []UnaskedIsFailure
<1>1. ServerInv => UnaskedIsFailure
  BY DEF ServerInv, Asked, UnaskedIsFailure
<1> QED
  BY <1>1, ServerInvariant, PTL
=============================================================================

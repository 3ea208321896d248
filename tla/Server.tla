------------------------------- MODULE Server -------------------------------
(***************************************************************************)
(* transport.Server and the command around it (internal/transport/         *)
(* server.go, http.go and cmd/gaslight/main.go): the listener, the HTTP    *)
(* requests and WebSocket upgrades in flight, the set of connections, and  *)
(* main's way from a signal or a failure to an exit code.                  *)
(*                                                                         *)
(* Of net/http it has what Shutdown depends on: it closes the listener,    *)
(* closes connections with no request in progress, and waits for the rest, *)
(* but knows nothing of a connection once it is hijacked.  A connection    *)
(* that sent nothing yet counts as busy for five seconds.  What goes on in *)
(* an open WebSocket connection is WsConn.                                 *)
(***************************************************************************)
EXTENDS Integers, FiniteSets

CONSTANT Conns  \* the TCP connections clients make

VARIABLES
    main,       \* the main goroutine: [pc, copied, exit]
    signalled,  \* the context of signal.NotifyContext is done
    worker,     \* the goroutine of the scenario, or of produceBlocks
    listener,   \* starting, open, failed or closed
    serveErr,   \* what the goroutine of Start sent
    base,       \* Server.baseCtx is cancelled
    expired,    \* Shutdown's deadline has passed
    conns,      \* Server.conns
    phase,      \* how far the server is with each connection
    left,       \* connections whose client is gone
    shut        \* WebSocket connections that closeAllConns closed

outside == <<signalled, worker, left>>
serving == <<listener, serveErr, base, expired>>
sockets == <<conns, phase, shut>>
vars    == <<main, outside, serving, sockets>>

\* Connections net/http keeps count of.
Tracked == {c \in Conns : phase[c] \in {"new", "idle", "body", "delay", "reply", "upgrade"}}

Hijacked == {c \in Conns : phase[c] \in {"hijacked", "open"}}

Enter(c, to) == phase' = [phase EXCEPT ![c] = to]

(***************************************************************************)
(* Start, and the handlers                                                 *)
(***************************************************************************)

Listen ==
    /\ listener = "starting" /\ listener' = "open"
    /\ UNCHANGED <<main, outside, serveErr, base, expired, sockets>>

ServeFails_SaysNil ==
    /\ listener \in {"starting", "open"} /\ listener' = "failed"
    /\ serveErr' = "nil"
    /\ UNCHANGED <<main, outside, base, expired, sockets>>

\* net.Listen or Serve returns an error.
ServeFails ==
    /\ listener \in {"starting", "open"} /\ listener' = "failed"
    /\ serveErr' = "error"
    /\ UNCHANGED <<main, outside, base, expired, sockets>>

Accept(c) ==
    /\ listener = "open" /\ phase[c] = "none"
    /\ Enter(c, "new")
    /\ UNCHANGED <<main, outside, serving, conns, shut>>

\* ServeHTTP: an upgrade, a POST whose body is to be read, or a refusal.
Request(c) ==
    /\ phase[c] \in {"new", "idle"} /\ c \notin left
    /\ \E to \in {"upgrade", "body", "reply"} : Enter(c, to)
    /\ UNCHANGED <<main, outside, serving, conns, shut>>

\* io.ReadAll returns, with the body, which ServeRPC may answer late, or not.
ReadBody(c) ==
    /\ phase[c] = "body"
    /\ \E to \in {"delay", "reply"} : Enter(c, to)
    /\ UNCHANGED <<main, outside, serving, conns, shut>>

Elapse(c) ==
    /\ phase[c] = "delay" /\ Enter(c, "reply")
    /\ UNCHANGED <<main, outside, serving, conns, shut>>

\* r.Context(): done with the server's, or when net/http sees the client go.
Interrupt(c) == (base \/ c \in left) /\ Elapse(c)

\* net/http keeps no connection alive once Shutdown has begun.
Reply(c) ==
    /\ phase[c] = "reply"
    /\ \E to \in {"idle", "gone"} : Enter(c, to) /\ (main.pc = "drain" => to = "gone")
    /\ UNCHANGED <<main, outside, serving, conns, shut>>

\* upgrader.Upgrade: the connection is hijacked, or refused.
Upgrade(c) ==
    /\ phase[c] = "upgrade"
    /\ \E to \in {"hijacked", "gone"} : Enter(c, to)
    /\ UNCHANGED <<main, outside, serving, conns, shut>>

AddConn(c) ==
    /\ phase[c] = "hijacked" /\ Enter(c, "open")
    /\ conns' = conns \cup {c}
    /\ UNCHANGED <<main, outside, serving, shut>>

\* The read loop returned: removeConn.
RemoveConn(c) ==
    /\ phase[c] = "open" /\ c \in left \cup shut
    /\ Enter(c, "gone")
    /\ conns' = conns \ {c}
    /\ UNCHANGED <<main, outside, serving, shut>>

\* net/http closes a connection that its client left.
Discard(c) ==
    /\ phase[c] \in {"new", "idle"} /\ c \in left
    /\ Enter(c, "gone")
    /\ UNCHANGED <<main, outside, serving, conns, shut>>

(***************************************************************************)
(* main: the select, Shutdown, the exit code                               *)
(***************************************************************************)

Goto(pc) == main' = [main EXCEPT !.pc = pc]
Exit(code) == main' = [main EXCEPT !.pc = "exit", !.exit = code]

\* One of the ready cases of the select, whichever.
SelectSignal ==
    /\ main.pc = "select" /\ signalled /\ Goto("cancel")
    /\ UNCHANGED <<outside, serving, sockets>>

SelectServeErr ==
    /\ main.pc = "select" /\ serveErr # "none"
    /\ IF serveErr = "error" THEN Exit(1) ELSE Goto("cancel")
    /\ UNCHANGED <<outside, serving, sockets>>

SelectScenarioErr ==
    /\ main.pc = "select" /\ worker = "failed" /\ Exit(1)
    /\ UNCHANGED <<outside, serving, sockets>>

BaseCancel_Forgotten ==
    /\ main.pc = "cancel" /\ Goto("copy") /\ base' = base
    /\ UNCHANGED <<outside, listener, serveErr, expired, sockets>>

BaseCancel ==
    /\ main.pc = "cancel" /\ Goto("copy") /\ base' = TRUE
    /\ UNCHANGED <<outside, listener, serveErr, expired, sockets>>

\* closeAllConns copies the set with connMu held.
CopyConns ==
    /\ main.pc = "copy"
    /\ main' = [main EXCEPT !.pc = "close", !.copied = conns]
    /\ UNCHANGED <<outside, serving, sockets>>

\* closeWithReason, one connection after the other.
CloseConn(c) ==
    /\ main.pc = "close" /\ c \in main.copied \ shut
    /\ shut' = shut \cup {c}
    /\ UNCHANGED <<main, outside, serving, conns, phase>>

\* httpSrv.Shutdown closes the listener; Start's goroutine then sends nil.
StopListening ==
    /\ main.pc = "close" /\ main.copied \subseteq shut /\ Goto("drain")
    /\ listener' = IF listener = "failed" THEN listener ELSE "closed"
    /\ serveErr' = IF listener = "failed" THEN serveErr ELSE "nil"
    /\ UNCHANGED <<outside, base, expired, sockets>>

CloseIdle(c) ==
    /\ main.pc = "drain" /\ phase[c] \in {"new", "idle"}
    /\ Enter(c, "gone")
    /\ UNCHANGED <<main, outside, serving, conns, shut>>

Drained == main.pc = "drain" /\ Tracked = {} /\ Exit(0) /\ UNCHANGED <<outside, serving, sockets>>

DrainExpires == main.pc = "drain" /\ expired /\ Exit(1) /\ UNCHANGED <<outside, serving, sockets>>

Expire ==
    /\ main.pc \in {"cancel", "copy", "close", "drain"} /\ ~expired
    /\ expired' = TRUE
    /\ UNCHANGED <<main, outside, listener, serveErr, base, sockets>>

(***************************************************************************)
(* The goroutine that drives the chain, the operator, the clients          *)
(***************************************************************************)

\* A scenario ends, or cannot be performed.
WorkerEnds ==
    /\ worker = "scenario" /\ worker' \in {"complete", "failed"}
    /\ UNCHANGED <<main, signalled, left, serving, sockets>>

\* Run and produceBlocks return when the signal's context is done.
WorkerStops ==
    /\ worker \in {"scenario", "blocks"} /\ signalled /\ worker' = "cancelled"
    /\ UNCHANGED <<main, signalled, left, serving, sockets>>

Signal ==
    /\ ~signalled /\ signalled' = TRUE
    /\ UNCHANGED <<main, worker, left, serving, sockets>>

ClientLeaves(c) ==
    /\ phase[c] \notin {"none", "gone"} /\ c \notin left /\ left' = left \cup {c}
    /\ UNCHANGED <<main, signalled, worker, serving, sockets>>

(***************************************************************************)
(* The specification                                                       *)
(***************************************************************************)

Init ==
    /\ main = [pc |-> "select", copied |-> {}, exit |-> -1]
    /\ signalled = FALSE /\ worker \in {"none", "scenario", "blocks"} /\ left = {}
    /\ listener = "starting" /\ serveErr = "none" /\ base = FALSE /\ expired = FALSE
    /\ conns = {} /\ phase = [c \in Conns |-> "none"] /\ shut = {}

\* What a handler's goroutine does by itself, given its client sends what it began.
Handler(c) ==
    \/ ReadBody(c) \/ Interrupt(c) \/ Reply(c) \/ Upgrade(c) \/ AddConn(c)
    \/ RemoveConn(c) \/ Discard(c)

MainStep ==
    \/ SelectSignal \/ SelectServeErr \/ SelectScenarioErr
    \/ BaseCancel \/ CopyConns \/ (\E c \in Conns : CloseConn(c)) \/ StopListening
    \/ (\E c \in Conns : CloseIdle(c)) \/ Drained \/ DrainExpires

\* The handlers go on when main has returned, as they do where the server is
\* not a process of its own (the transport's tests).
Next ==
    \/ MainStep \/ Expire \/ Listen \/ ServeFails
    \/ \E c \in Conns : Accept(c) \/ Request(c) \/ Handler(c) \/ Elapse(c) \/ ClientLeaves(c)
    \/ WorkerEnds \/ WorkerStops \/ Signal

Spec == Init /\ [][Next]_vars

\* Goroutines keep running, a client that began a request sends it or leaves, and
\* a connection without a request is idle in the end.  Nothing is said of delay
\* timers, nor of the deadline: a clean shutdown is to need neither.
Fairness ==
    /\ WF_vars(MainStep)
    /\ \A c \in Conns : WF_vars(Handler(c)) /\ WF_vars(CloseIdle(c))
    /\ WF_vars(WorkerStops)

FairSpec == Spec /\ Fairness

(***************************************************************************)
(* Properties                                                              *)
(***************************************************************************)

\* Every variable has its type, and a connection is in the set exactly while its
\* handler has added it and not returned (server.go:84-94).
TypeOK ==
    /\ main \in [pc : {"select", "cancel", "copy", "close", "drain", "exit"},
                 copied : SUBSET Conns, exit : {-1, 0, 1}]
    /\ signalled \in BOOLEAN /\ base \in BOOLEAN /\ expired \in BOOLEAN
    /\ worker \in {"none", "scenario", "blocks", "complete", "failed", "cancelled"}
    /\ listener \in {"starting", "open", "failed", "closed"}
    /\ serveErr \in {"none", "nil", "error"}
    /\ phase \in [Conns -> {"none", "new", "idle", "body", "delay", "reply", "upgrade",
                            "hijacked", "open", "gone"}]
    /\ conns = {c \in Conns : phase[c] = "open"}
    /\ left \subseteq Conns /\ shut \subseteq Conns

\* A process that stops unasked reports it: no failure to listen, and none of
\* the scenario, looks like a clean exit (main.go:113-124).
UnaskedIsFailure == main.exit = 0 => signalled

\* The comment on Shutdown (server.go:72-74): "WebSocket connections are hijacked, so
\* http.Server never touches them: they are closed here, which ends their read
\* loops and pump goroutines."
ShutdownClosesWebSockets == main.exit = 0 => Hijacked \subseteq shut

\* Shutdown needs neither its deadline nor the end of a delay: once asked to
\* stop, the process does (server.go:26-28, 76-79).
SignalEndsProcess == signalled ~> main.pc = "exit"

=============================================================================

------------------------------- MODULE WsConn -------------------------------
(***************************************************************************)
(* One WebSocket connection (internal/transport/ws.go): the read loop that *)
(* serves its requests, the pump of each of its subscriptions, and the     *)
(* write lock they share, over the head source and a socket.               *)
(*                                                                         *)
(* The socket holds SocketRoom frames the client has not read.  A write    *)
(* that finds no room fails at its deadline; a connection on which a write *)
(* failed, or a close frame was sent, accepts no other (gorilla keeps the  *)
(* first write error).  Frames to a client that left may still be taken.   *)
(* The lock subMu is held for single map operations, which are steps here. *)
(***************************************************************************)
EXTENDS HeadSource

CONSTANTS
    SocketRoom,   \* frames the socket takes before its client reads
    MaxRequests   \* bound: the requests of the client

ASSUME WsAssumption == SocketRoom \in Nat \ {0} /\ MaxRequests \in Nat

VARIABLES
    loop,      \* the goroutine of readLoop: [pc, sub, rest, then]
    pump,      \* the program counter of each subscription's pump
    subs,      \* wsConn.subs: the ids registered
    unread,    \* frames in the socket
    broken,    \* the connection's sticky write error
    closed,    \* conn.Close was called
    peerGone,  \* the client closed its end
    ctxDone,   \* wsConn.ctx is cancelled
    closer,    \* Server.Shutdown's hold on this connection
    asked      \* requests read so far

\* History of the run, read by the properties only.
VARIABLES
    told,      \* ids whose subscribe response was written
    pushed     \* ids of which a notification was written

socket  == <<unread, broken>>
wsHist  == <<told, pushed>>
wsVars  == <<stream, loop, pump, subs, socket, closed, peerGone, ctxDone, closer,
             asked, wsHist>>

\* loop.sub is the subscription the reply is about, loop.rest those to hand to
\* their unsubscribe functions before going on at loop.then.
At(pc) == [pc |-> pc, sub |-> 0, rest |-> {}, then |-> "read"]
Replying(id) == [pc |-> "reply", sub |-> id, rest |-> {}, then |-> "read"]
Unsubbing(ids, then) == [pc |-> "unsub", sub |-> 0, rest |-> ids, then |-> then]

(***************************************************************************)
(* write: one frame, under c.mu                                            *)
(***************************************************************************)

LockFree == loop.pc # "write" /\ \A id \in SubIds : pump[id] # "write"

CanSend == unread < SocketRoom /\ ~broken /\ ~closed

FrameSent == CanSend /\ unread' = unread + 1 /\ UNCHANGED broken

FrameFails_NoDeadline ==
    /\ broken \/ closed \/ peerGone
    /\ broken' = TRUE /\ UNCHANGED unread

FrameFails ==
    /\ ~CanSend \/ peerGone
    /\ broken' = TRUE /\ UNCHANGED unread

\* closeWithReason's WriteControl takes no part in c.mu; it gives up when it
\* cannot have the socket by its deadline.
Farewell ==
    \/ LockFree /\ CanSend /\ unread' = unread + 1 /\ broken' = TRUE
    \/ (~LockFree \/ ~CanSend \/ peerGone) /\ UNCHANGED unread /\ broken' \in {broken, TRUE}

(***************************************************************************)
(* The read loop                                                           *)
(***************************************************************************)

\* A request arrives and handleMessage takes it.
Asked == loop.pc = "read" /\ asked < MaxRequests /\ asked' = asked + 1

HandleSubscribe_PumpFirst(id) ==
    /\ Asked
    /\ SubscribeHeads(id)
    /\ subs' = subs \cup {id}
    /\ loop' = Replying(id)
    /\ pump' = [pump EXCEPT ![id] = "recv"]
    /\ UNCHANGED <<socket, closed, peerGone, ctxDone, closer, wsHist>>

\* eth_subscribe: the reply is yet to be written, the pump to be started.
HandleSubscribe(id) ==
    /\ Asked
    /\ SubscribeHeads(id)
    /\ subs' = subs \cup {id}
    /\ loop' = Replying(id)
    /\ UNCHANGED <<pump, socket, closed, peerGone, ctxDone, closer, wsHist>>

HandleUnsubscribe_KeepsIt(id) ==
    /\ Asked
    /\ loop' = IF id \in subs THEN Unsubbing({id}, "reply") ELSE At("reply")
    /\ UNCHANGED <<subs, stream, pump, socket, closed, peerGone, ctxDone, closer, wsHist>>

\* eth_unsubscribe, with an id that is registered or not.
HandleUnsubscribe(id) ==
    /\ Asked
    /\ loop' = IF id \in subs THEN Unsubbing({id}, "reply") ELSE At("reply")
    /\ subs' = subs \ {id}
    /\ UNCHANGED <<stream, pump, socket, closed, peerGone, ctxDone, closer, wsHist>>

\* Any other request, an invalid one or a batch: ServeRPC, which may delay.
HandleCall ==
    /\ Asked
    /\ loop' \in {At("delay"), At("reply")}
    /\ UNCHANGED <<stream, subs, pump, socket, closed, peerGone, ctxDone, closer, wsHist>>

Elapse ==
    /\ loop.pc = "delay" /\ loop' = At("reply")
    /\ UNCHANGED <<stream, subs, pump, socket, closed, peerGone, ctxDone, closer, asked, wsHist>>

Interrupt == ctxDone /\ Elapse

ReplyLock ==
    /\ loop.pc = "reply" /\ LockFree
    /\ loop' = [loop EXCEPT !.pc = "write"]
    /\ UNCHANGED <<stream, subs, pump, socket, closed, peerGone, ctxDone, closer, asked, wsHist>>

ReplySent ==
    LET new == SubIds \cap {loop.sub}
    IN  /\ loop.pc = "write" /\ FrameSent
        /\ loop' = At("read")
        /\ pump' = [id \in SubIds |-> IF id \in new THEN "recv" ELSE pump[id]]
        /\ told' = told \cup new
        /\ UNCHANGED <<stream, subs, closed, peerGone, ctxDone, closer, asked, pushed>>

ReplyFails_ForgetsUnsub ==
    /\ loop.pc = "write" /\ FrameFails
    /\ subs' = subs \ {loop.sub}
    /\ loop' = At("closeSubs")
    /\ UNCHANGED <<stream, pump, closed, peerGone, ctxDone, closer, asked, wsHist>>

\* A subscription whose response was not written is given back.
ReplyFails ==
    /\ loop.pc = "write" /\ FrameFails
    /\ subs' = subs \ {loop.sub}
    /\ loop' = Unsubbing(subs \cap {loop.sub}, "closeSubs")
    /\ UNCHANGED <<stream, pump, closed, peerGone, ctxDone, closer, asked, wsHist>>

\* ReadMessage returns an error.
ReadEnds ==
    /\ loop.pc = "read" /\ (closed \/ peerGone)
    /\ loop' = At("closeSubs")
    /\ UNCHANGED <<stream, subs, pump, socket, closed, peerGone, ctxDone, closer, asked, wsHist>>

CloseAllSubs_ForgetsUnsub ==
    /\ loop.pc = "closeSubs"
    /\ loop' = Unsubbing({}, "leave") /\ subs' = {}
    /\ UNCHANGED <<stream, pump, socket, closed, peerGone, ctxDone, closer, asked, wsHist>>

CloseAllSubs ==
    /\ loop.pc = "closeSubs"
    /\ loop' = Unsubbing(subs, "leave") /\ subs' = {}
    /\ UNCHANGED <<stream, pump, socket, closed, peerGone, ctxDone, closer, asked, wsHist>>

\* The unsubscribe functions taken from the map, in any order.
CallUnsub ==
    /\ loop.pc = "unsub"
    /\ \/ \E id \in loop.rest :
            Unsubscribe(id) /\ loop' = [loop EXCEPT !.rest = @ \ {id}]
       \/ loop.rest = {} /\ loop' = At(loop.then) /\ UNCHANGED stream
    /\ UNCHANGED <<subs, pump, socket, closed, peerGone, ctxDone, closer, asked, wsHist>>

\* serveWS returns: removeConn, cancel, conn.Close.
Leave ==
    /\ loop.pc = "leave" /\ loop' = At("done")
    /\ ctxDone' = TRUE /\ closed' = TRUE
    /\ UNCHANGED <<stream, subs, pump, socket, peerGone, closer, asked, wsHist>>

(***************************************************************************)
(* A pump                                                                  *)
(***************************************************************************)

PumpReceive(id) ==
    /\ pump[id] = "recv" /\ Receive(id)
    /\ pump' = [pump EXCEPT ![id] = "lock"]
    /\ UNCHANGED <<loop, subs, socket, closed, peerGone, ctxDone, closer, asked, wsHist>>

PumpLock(id) ==
    /\ pump[id] = "lock" /\ LockFree
    /\ pump' = [pump EXCEPT ![id] = "write"]
    /\ UNCHANGED <<stream, loop, subs, socket, closed, peerGone, ctxDone, closer, asked, wsHist>>

\* A notification is written, or the pump returns and leaves its id registered: it
\* has ended with "failed", where others end with "gone".
PumpWrite(id) ==
    /\ pump[id] = "write"
    /\ \/ FrameSent /\ pump' = [pump EXCEPT ![id] = "recv"] /\ pushed' = pushed \cup {id}
       \/ FrameFails /\ pump' = [pump EXCEPT ![id] = "failed"] /\ UNCHANGED pushed
    /\ UNCHANGED <<stream, loop, subs, closed, peerGone, ctxDone, closer, asked, told>>

PumpEnd_SaysNothing(id) ==
    /\ pump[id] = "recv" /\ AtEnd(id)
    /\ subs' = subs \ {id}
    /\ pump' = [pump EXCEPT ![id] = "gone"]
    /\ UNCHANGED <<stream, loop, socket, closed, peerGone, ctxDone, closer, asked, wsHist>>

\* The channel's end: still registered means dropped by the chain.
PumpEnd(id) ==
    /\ pump[id] = "recv" /\ AtEnd(id)
    /\ subs' = subs \ {id}
    /\ pump' = [pump EXCEPT ![id] = IF id \in subs THEN "farewell" ELSE "gone"]
    /\ UNCHANGED <<stream, loop, socket, closed, peerGone, ctxDone, closer, asked, wsHist>>

\* closeWithReason(ClosePolicyViolation): the frame, then conn.Close.
PumpFarewell(id) ==
    /\ pump[id] = "farewell" /\ Farewell
    /\ pump' = [pump EXCEPT ![id] = "hangup"]
    /\ UNCHANGED <<stream, loop, subs, closed, peerGone, ctxDone, closer, asked, wsHist>>

PumpHangUp(id) ==
    /\ pump[id] = "hangup"
    /\ pump' = [pump EXCEPT ![id] = "gone"] /\ closed' = TRUE
    /\ UNCHANGED <<stream, loop, subs, socket, peerGone, ctxDone, closer, asked, wsHist>>

(***************************************************************************)
(* Shutdown, as this connection meets it: baseCancel, then, if the         *)
(* connection is in the set closeAllConns copied, closeWithReason.         *)
(***************************************************************************)

BaseCancel ==
    /\ closer = "idle" /\ closer' = "cancelled"
    /\ ctxDone' = TRUE
    /\ UNCHANGED <<stream, loop, subs, pump, socket, closed, peerGone, asked, wsHist>>

ServerFarewell ==
    /\ closer = "cancelled" /\ Farewell /\ closer' = "hangup"
    /\ UNCHANGED <<stream, loop, subs, pump, closed, peerGone, ctxDone, asked, wsHist>>

ServerHangUp ==
    /\ closer = "hangup" /\ closer' = "done" /\ closed' = TRUE
    /\ UNCHANGED <<stream, loop, subs, pump, socket, peerGone, ctxDone, asked, wsHist>>

(***************************************************************************)
(* The chain and the client                                                *)
(***************************************************************************)

Head(id) ==
    /\ Push(id) \/ Overflow(id)
    /\ UNCHANGED <<loop, subs, pump, socket, closed, peerGone, ctxDone, closer, asked, wsHist>>

ClientReads ==
    /\ unread > 0 /\ ~peerGone /\ unread' = unread - 1
    /\ UNCHANGED <<stream, loop, subs, pump, broken, closed, peerGone, ctxDone, closer, asked, wsHist>>

ClientLeaves ==
    /\ ~peerGone /\ peerGone' = TRUE
    /\ UNCHANGED <<stream, loop, subs, pump, socket, closed, ctxDone, closer, asked, wsHist>>

(***************************************************************************)
(* The specification                                                       *)
(***************************************************************************)

WsInit ==
    /\ SourceInit
    /\ loop = At("read") /\ pump = [id \in SubIds |-> "none"] /\ subs = {}
    /\ unread = 0 /\ broken = FALSE /\ closed = FALSE /\ peerGone = FALSE
    /\ ctxDone = FALSE /\ closer = "idle" /\ asked = 0
    /\ told = {} /\ pushed = {}

Request ==
    \/ \E id \in SubIds : HandleSubscribe(id) \/ HandleUnsubscribe(id)
    \/ HandleCall

\* What the read loop does by itself, its wait for the lock apart.
LoopStep ==
    \/ Interrupt \/ ReplySent \/ ReplyFails \/ ReadEnds
    \/ CloseAllSubs \/ CallUnsub \/ Leave

PumpStep(id) ==
    \/ PumpReceive(id) \/ PumpWrite(id) \/ PumpEnd(id)
    \/ PumpFarewell(id) \/ PumpHangUp(id)

WsNext ==
    \/ Request \/ Elapse \/ LoopStep \/ ReplyLock
    \/ \E id \in SubIds : PumpStep(id) \/ PumpLock(id) \/ Head(id)
    \/ BaseCancel \/ ServerFarewell \/ ServerHangUp
    \/ ClientReads \/ ClientLeaves

WsSpec == WsInit /\ [][WsNext]_wsVars

\* Goroutines keep running, and sync.Mutex hands itself to whoever has waited
\* longest.  Nothing is said of the client, of heads, or of a delay's timer.
WsFairness ==
    /\ WF_wsVars(LoopStep) /\ SF_wsVars(ReplyLock)
    /\ \A id \in SubIds : WF_wsVars(PumpStep(id)) /\ SF_wsVars(PumpLock(id))
    /\ WF_wsVars(ServerHangUp)

WsFairSpec == WsSpec /\ WsFairness

(***************************************************************************)
(* Type correctness                                                        *)
(***************************************************************************)

Pcs == {"read", "delay", "reply", "write", "unsub", "closeSubs", "leave", "done"}

Thens == {"read", "reply", "closeSubs", "leave"}

Loops == [pc : Pcs, sub : 0 .. MaxSubs, rest : SUBSET SubIds, then : Thens]

PumpPcs == {"none", "recv", "lock", "write", "farewell", "hangup", "failed", "gone"}

Flags ==
    broken \in BOOLEAN /\ closed \in BOOLEAN /\ peerGone \in BOOLEAN /\ ctxDone \in BOOLEAN

\* Every variable has its type, and only ids given out have a pump or an entry
\* in the map (ws.go:28-37).
WsTypeOK ==
    /\ stream \in Streams
    /\ loop \in Loops
    /\ pump \in [SubIds -> PumpPcs]
    /\ subs \subseteq SubIds
    /\ \A id \in SubIds : id \in subs \/ pump[id] # "none" => stream[id].state # "unused"
    /\ unread \in 0 .. SocketRoom /\ asked \in 0 .. MaxRequests
    /\ closer \in {"idle", "cancelled", "hangup", "done"}
    /\ told \subseteq SubIds /\ pushed \subseteq SubIds
    /\ Flags

(***************************************************************************)
(* Safety                                                                  *)
(***************************************************************************)

\* No notification overtakes the response that tells the client the id it
\* carries (ws.go:102-112).
ResponseBeforePush == pushed \subseteq told

\* A connection is closed for slowness only over a subscription that the chain
\* dropped; one that its client gave up, or that went with the connection, ends
\* without a word, whatever its pump was doing (ws.go:122-125, 178-183).
OnlyTheSlowAreClosed ==
    \A id \in SubIds : pump[id] \in {"farewell", "hangup"} => Dropped(id)

\* When the handler has returned the chain holds nothing of the connection: each
\* subscription it made, even one whose response could not be written, is over
\* (ws.go:105-110, 163-164).
NothingLeft == loop.pc = "done" => \A id \in SubIds : ~IsOpen(id)

(***************************************************************************)
(* Liveness                                                                *)
(***************************************************************************)

\* A client that stops reading stalls neither the read loop nor a pump: whoever
\* has a frame to write gets the lock and is done with it (ws.go:17-20).
WritesEnd ==
    /\ loop.pc \in {"reply", "write"} ~> loop.pc \notin {"reply", "write"}
    /\ \A id \in SubIds : pump[id] \in {"lock", "write"} ~> pump[id] \notin {"lock", "write"}

\* Nothing of a connection outlives it: when Shutdown has closed it, whatever it
\* was waiting for, or its read loop has returned, the read loop and every pump
\* end, heads or no heads (server.go:72-80, ws.go:164, ws_test.go:358-362).
ConnectionEnds ==
    (closer = "done" \/ loop.pc = "done")
      ~> (loop.pc = "done" /\ \A id \in SubIds : pump[id] \in {"none", "failed", "gone"})

\* eth_unsubscribe has taken the id from the map.
GivenUp(id) == loop.pc = "unsub" /\ loop.then = "reply" /\ id \in loop.rest

\* A subscription that the chain dropped is not silently dead: its connection is
\* closed, and not only its id forgotten, unless its client gives it up before or
\* its pump has ended at a write that failed (ws.go:178-183, ws_test.go:455-456).
SlowIsTold ==
    \A id \in SubIds :
        (Dropped(id) /\ id \in subs) ~> (closed \/ GivenUp(id) \/ pump[id] = "failed")

\* The comment on a connection's context (ws.go:154-155): "Cancelled when this
\* connection ends, so anything waiting on behalf of it (a delay fault, say) stops
\* instead of outliving the connection."
DelayEndsWithConnection == (loop.pc = "delay" /\ (closed \/ peerGone)) ~> loop.pc # "delay"
=============================================================================

---------------------------- MODULE WsConnProofs ----------------------------
(***************************************************************************)
(* Theorems about WsConn, for any number of subscriptions and requests and *)
(* any room in the channels and the socket.                                *)
(*                                                                         *)
(* The invariant says who answers for a subscription at every moment: the  *)
(* map, the unsubscribe functions the read loop has in hand, or nobody,    *)
(* because it is over.                                                     *)
(***************************************************************************)
EXTENDS WsConn, TLAPS

\* What is open is registered, or about to be handed back.
Held == \A id \in SubIds : IsOpen(id) => id \in subs \cup loop.rest

\* What is registered was not handed back: it is open, or the chain dropped it.
Kept == \A id \in subs : stream[id].state \in {"open", "dropped"} /\ id \notin loop.rest

\* The read loop has functions in hand only while it calls them, and, on its way
\* out, leaves no other registered.
InHand ==
    /\ loop.pc # "unsub" => loop.rest = {}
    /\ loop.pc \in {"leave", "done"} \/ (loop.pc = "unsub" /\ loop.then = "leave") => subs = {}

\* A pump runs for a client that was told the id.
Introduced ==
    /\ loop.sub \in SubIds => stream[loop.sub].state # "unused"
    /\ \A id \in SubIds : pump[id] # "none" => id \in told

WsInv ==
    /\ WsTypeOK /\ Held /\ Kept /\ InHand /\ Introduced
    /\ ResponseBeforePush /\ OnlyTheSlowAreClosed

(***************************************************************************)
(* Streams                                                                 *)
(***************************************************************************)

\* What each operation of the head source does to the states of the streams.
LEMMA StreamSteps ==
    ASSUME stream \in Streams, NEW id \in SubIds
    PROVE  /\ SubscribeHeads(id) =>
                /\ stream' \in Streams /\ stream[id].state = "unused"
                /\ \A j \in SubIds : stream'[j].state = IF j = id THEN "open" ELSE stream[j].state
           /\ Push(id) \/ Receive(id) =>
                /\ stream' \in Streams
                /\ \A j \in SubIds : stream'[j].state = stream[j].state
           /\ Overflow(id) =>
                /\ stream' \in Streams /\ IsOpen(id)
                /\ \A j \in SubIds : stream'[j].state = IF j = id THEN "dropped" ELSE stream[j].state
           /\ Unsubscribe(id) =>
                /\ stream' \in Streams
                /\ \A j \in SubIds :
                     stream'[j].state = IF j = id /\ IsOpen(id) THEN "closed" ELSE stream[j].state
<1> USE SourceAssumption DEF Streams, States
<1>1. ASSUME SubscribeHeads(id)
      PROVE  /\ stream' \in Streams /\ stream[id].state = "unused"
             /\ \A j \in SubIds : stream'[j].state = IF j = id THEN "open" ELSE stream[j].state
  BY <1>1 DEF SubscribeHeads
<1>2. ASSUME Push(id)
      PROVE  stream' \in Streams /\ \A j \in SubIds : stream'[j].state = stream[j].state
  BY <1>2 DEF Push
<1>3. ASSUME Receive(id)
      PROVE  stream' \in Streams /\ \A j \in SubIds : stream'[j].state = stream[j].state
  BY <1>3 DEF Receive
<1>4. ASSUME Overflow(id)
      PROVE  /\ stream' \in Streams /\ IsOpen(id)
             /\ \A j \in SubIds : stream'[j].state = IF j = id THEN "dropped" ELSE stream[j].state
  BY <1>4 DEF Overflow
<1>5. ASSUME Unsubscribe(id)
      PROVE  /\ stream' \in Streams
             /\ \A j \in SubIds :
                  stream'[j].state = IF j = id /\ IsOpen(id) THEN "closed" ELSE stream[j].state
  BY <1>5 DEF Unsubscribe, IsOpen
<1> QED
  BY <1>1, <1>2, <1>3, <1>4, <1>5

(***************************************************************************)
(* The read loop's record                                                  *)
(***************************************************************************)

\* The records the read loop's steps are described with.
LEMMA AtRecord ==
    \A pc \in Pcs :
        /\ At(pc) \in Loops /\ At(pc).pc = pc /\ At(pc).sub = 0
        /\ At(pc).rest = {} /\ At(pc).then = "read"
BY SourceAssumption DEF Pcs, Thens, At, Loops

LEMMA ReplyingRecord ==
    \A id \in SubIds :
        /\ Replying(id) \in Loops /\ Replying(id).pc = "reply" /\ Replying(id).sub = id
        /\ Replying(id).rest = {} /\ Replying(id).then = "read"
BY SourceAssumption DEF Pcs, Thens, SubIds, Replying, Loops

LEMMA UnsubbingRecord ==
    \A ids \in SUBSET SubIds, then \in Thens :
        /\ Unsubbing(ids, then) \in Loops /\ Unsubbing(ids, then).pc = "unsub"
        /\ Unsubbing(ids, then).sub = 0 /\ Unsubbing(ids, then).rest = ids
        /\ Unsubbing(ids, then).then = then
BY SourceAssumption DEF Pcs, Thens, Unsubbing, Loops

(***************************************************************************)
(* The invariant                                                           *)
(***************************************************************************)

LEMMA WsInitInv == WsInit => WsInv
<1> SUFFICES ASSUME WsInit PROVE WsInv
  OBVIOUS
<1>1. stream \in Streams /\ \A id \in SubIds : stream[id].state = "unused"
  BY SourceAssumption DEF WsInit, SourceInit, Unused, Streams, States
<1>2. loop \in Loops /\ loop.pc = "read" /\ loop.sub = 0 /\ loop.rest = {} /\ subs = {}
  BY AtRecord DEF WsInit, Pcs
<1>3. pump \in [SubIds -> PumpPcs] /\ \A id \in SubIds : pump[id] = "none"
  BY DEF WsInit, PumpPcs
<1>4. Flags
  BY Zenon DEF WsInit, Flags
<1>5. WsTypeOK
  BY <1>1, <1>2, <1>3, <1>4, WsAssumption DEF WsInit, WsTypeOK
<1> QED
  BY <1>1, <1>2, <1>3, <1>5 DEF WsInit, WsInv, Held, Kept, InHand, Introduced,
     ResponseBeforePush, OnlyTheSlowAreClosed, IsOpen, SubIds

\* The flags are flags whatever happens; nothing below depends on them.
LEMMA FlagsStay == Flags /\ [WsNext]_wsVars => Flags'
<1> SUFFICES ASSUME Flags, [WsNext]_wsVars PROVE Flags'
  OBVIOUS
<1>1. broken' \in BOOLEAN /\ closed' \in BOOLEAN /\ peerGone' \in BOOLEAN /\ ctxDone' \in BOOLEAN
  BY Zenon DEF Flags, WsNext, wsVars, socket, Request, LoopStep, PumpStep, HandleSubscribe,
     HandleUnsubscribe, HandleCall, Elapse, Interrupt, ReplyLock, ReplySent, ReplyFails, ReadEnds,
     CloseAllSubs, CallUnsub, Leave, PumpReceive, PumpLock, PumpWrite, PumpEnd, PumpFarewell,
     PumpHangUp, BaseCancel, ServerFarewell, ServerHangUp, Head, ClientReads, ClientLeaves,
     FrameSent, FrameFails, Farewell
<1> QED
  BY <1>1 DEF Flags

\* The requests the read loop takes.
LEMMA RequestsKeep ==
    ASSUME WsInv, Flags', Request
    PROVE  WsInv'
<1> USE SourceAssumption, WsAssumption DEF WsInv
<1>1. ASSUME NEW id \in SubIds, HandleSubscribe(id) PROVE WsInv'
  <2>1. /\ stream' \in Streams /\ stream[id].state = "unused"
        /\ \A j \in SubIds : stream'[j].state = IF j = id THEN "open" ELSE stream[j].state
    BY <1>1, StreamSteps DEF HandleSubscribe, WsTypeOK
  <2>2. /\ loop' \in Loops /\ loop'.pc = "reply" /\ loop'.sub = id /\ loop'.rest = {}
        /\ loop'.then = "read"
    BY <1>1, ReplyingRecord DEF HandleSubscribe
  <2>3. /\ loop.pc = "read" /\ loop.rest = {} /\ pump' = pump
        /\ subs \subseteq SubIds /\ subs' = subs \cup {id}
    BY <1>1 DEF HandleSubscribe, Asked, InHand, WsTypeOK
  <2>4. WsTypeOK'
    BY <1>1, <2>1, <2>2, <2>3 DEF HandleSubscribe, WsTypeOK, Asked, wsHist, socket
  <2>5. Held' /\ Kept' /\ InHand'
    BY <2>1, <2>2, <2>3 DEF Held, Kept, InHand, IsOpen
  <2>6. Introduced' /\ ResponseBeforePush' /\ OnlyTheSlowAreClosed'
    BY <1>1, <2>1, <2>2, <2>3 DEF HandleSubscribe, wsHist, Introduced, ResponseBeforePush,
       OnlyTheSlowAreClosed, Dropped
  <2> QED
    BY <2>4, <2>5, <2>6
<1>2. ASSUME NEW id \in SubIds, HandleUnsubscribe(id) PROVE WsInv'
  <2>1. /\ loop.pc = "read" /\ loop.rest = {}
        /\ stream' = stream /\ pump' = pump /\ subs' = subs \ {id} /\ wsHist' = wsHist
    BY <1>2 DEF HandleUnsubscribe, Asked, InHand
  <2>2. /\ loop' \in Loops /\ loop'.sub = 0 /\ loop'.then \in {"read", "reply"}
        /\ loop'.rest = subs \cap {id} /\ loop'.pc \in {"unsub", "reply"}
        /\ loop'.pc = "reply" => loop'.rest = {}
    <3>1. CASE id \in subs
      BY <1>2, <3>1, UnsubbingRecord DEF HandleUnsubscribe, Thens
    <3>2. CASE id \notin subs
      BY <1>2, <3>2, AtRecord DEF HandleUnsubscribe, Pcs
    <3> QED
      BY <3>1, <3>2
  <2>3. WsTypeOK'
    BY <1>2, <2>1, <2>2 DEF HandleUnsubscribe, WsTypeOK, Asked, wsHist, socket
  <2>4. Held' /\ Kept' /\ InHand'
    BY <2>1, <2>2 DEF Held, Kept, InHand, IsOpen
  <2>5. Introduced' /\ ResponseBeforePush' /\ OnlyTheSlowAreClosed'
    BY <2>1, <2>2 DEF wsHist, Introduced, ResponseBeforePush, OnlyTheSlowAreClosed, Dropped, SubIds
  <2> QED
    BY <2>3, <2>4, <2>5
<1>3. CASE HandleCall
  <2>1. /\ loop.pc = "read" /\ loop.rest = {}
        /\ stream' = stream /\ pump' = pump /\ subs' = subs /\ wsHist' = wsHist
    BY <1>3 DEF HandleCall, Asked, InHand
  <2>2. /\ loop' \in Loops /\ loop'.sub = 0 /\ loop'.rest = {} /\ loop'.pc \in {"delay", "reply"}
    BY <1>3, AtRecord DEF HandleCall, Pcs
  <2>3. WsTypeOK'
    BY <1>3, <2>1, <2>2 DEF HandleCall, WsTypeOK, Asked, wsHist, socket
  <2>4. Held' /\ Kept' /\ InHand'
    BY <2>1, <2>2 DEF Held, Kept, InHand, IsOpen
  <2>5. Introduced' /\ ResponseBeforePush' /\ OnlyTheSlowAreClosed'
    BY <2>1, <2>2 DEF wsHist, Introduced, ResponseBeforePush, OnlyTheSlowAreClosed, Dropped, SubIds
  <2> QED
    BY <2>3, <2>4, <2>5
<1> QED
  BY <1>1, <1>2, <1>3 DEF Request

\* A step of the read loop that registers, takes out and hands back nothing.
LEMMA IdleLoop ==
    ASSUME WsInv, WsTypeOK', loop.rest = {}, loop'.rest = {},
           stream' = stream, pump' = pump, subs' = subs, wsHist' = wsHist,
           loop'.sub \in {0, loop.sub},
           loop'.pc \in {"leave", "done"} => subs = {},
           loop'.pc # "unsub"
    PROVE  WsInv'
<1>1. Held' /\ Kept' /\ InHand'
  BY DEF WsInv, Held, Kept, InHand, IsOpen
<1>2. Introduced' /\ ResponseBeforePush' /\ OnlyTheSlowAreClosed'
  BY DEF WsInv, wsHist, Introduced, ResponseBeforePush, OnlyTheSlowAreClosed, Dropped, SubIds
<1> QED
  BY <1>1, <1>2 DEF WsInv

\* What the read loop does by itself.
LEMMA LoopKeeps ==
    ASSUME WsInv, Flags', Elapse \/ LoopStep \/ ReplyLock
    PROVE  WsInv'
<1> USE SourceAssumption, WsAssumption DEF WsInv
<1>1. CASE Elapse
  <2>1. loop' \in Loops /\ loop'.pc = "reply" /\ loop'.sub = 0 /\ loop'.rest = {}
    BY <1>1, AtRecord DEF Elapse, Pcs
  <2>2. WsTypeOK' /\ loop.rest = {}
    BY <1>1, <2>1 DEF Elapse, WsTypeOK, InHand, wsHist, socket
  <2> QED
    BY <1>1, <2>1, <2>2, IdleLoop DEF Elapse
<1>2. CASE Interrupt
  BY <1>1, <1>2 DEF Interrupt
<1>3. CASE ReplyLock
  <2>1. /\ loop' \in Loops /\ loop'.pc = "write" /\ loop'.sub = loop.sub /\ loop'.rest = loop.rest
        /\ loop.rest = {}
    BY <1>3 DEF ReplyLock, WsTypeOK, Loops, Pcs, InHand
  <2>2. WsTypeOK'
    BY <1>3, <2>1 DEF ReplyLock, WsTypeOK, wsHist, socket
  <2> QED
    BY <1>3, <2>1, <2>2, IdleLoop DEF ReplyLock
<1>4. CASE ReplySent
  <2> DEFINE new == SubIds \cap {loop.sub}
  <2>1. loop' \in Loops /\ loop'.pc = "read" /\ loop'.sub = 0 /\ loop'.rest = {} /\ loop.rest = {}
    BY <1>4, AtRecord DEF ReplySent, Pcs, InHand
  <2>2. /\ stream' = stream /\ subs' = subs /\ told' = told \cup new /\ pushed' = pushed
        /\ pump' \in [SubIds -> PumpPcs]
        /\ \A id \in SubIds : pump'[id] = IF id \in new THEN "recv" ELSE pump[id]
    BY <1>4 DEF ReplySent, WsTypeOK, PumpPcs
  <2>3. unread' \in 0 .. SocketRoom
    BY <1>4 DEF ReplySent, FrameSent, CanSend, WsTypeOK
  <2>4. \A id \in new : stream[id].state # "unused"
    BY DEF Introduced
  <2>5. WsTypeOK'
    BY <1>4, <2>1, <2>2, <2>3, <2>4 DEF ReplySent, WsTypeOK
  <2>6. Held' /\ Kept' /\ InHand'
    BY <2>1, <2>2 DEF Held, Kept, InHand, IsOpen
  <2>7. Introduced' /\ ResponseBeforePush' /\ OnlyTheSlowAreClosed'
    BY <2>1, <2>2, <2>4 DEF Introduced, ResponseBeforePush, OnlyTheSlowAreClosed, Dropped, SubIds
  <2> QED
    BY <2>5, <2>6, <2>7
<1>5. CASE ReplyFails
  <2>1. /\ loop' \in Loops /\ loop'.pc = "unsub" /\ loop'.sub = 0 /\ loop'.then = "closeSubs"
        /\ loop'.rest = subs \cap {loop.sub} /\ loop.rest = {}
    BY <1>5, UnsubbingRecord DEF ReplyFails, Thens, WsTypeOK, InHand
  <2>2. /\ stream' = stream /\ pump' = pump /\ wsHist' = wsHist
        /\ subs' = subs \ {loop.sub} /\ unread' = unread
    BY <1>5 DEF ReplyFails, FrameFails
  <2>3. WsTypeOK'
    BY <1>5, <2>1, <2>2 DEF ReplyFails, WsTypeOK, wsHist
  <2>4. Held' /\ Kept' /\ InHand'
    BY <2>1, <2>2 DEF Held, Kept, InHand, IsOpen
  <2>5. Introduced' /\ ResponseBeforePush' /\ OnlyTheSlowAreClosed'
    BY <2>1, <2>2 DEF wsHist, Introduced, ResponseBeforePush, OnlyTheSlowAreClosed, Dropped, SubIds
  <2> QED
    BY <2>3, <2>4, <2>5
<1>6. CASE ReadEnds
  <2>1. loop' \in Loops /\ loop'.pc = "closeSubs" /\ loop'.sub = 0 /\ loop'.rest = {}
    BY <1>6, AtRecord DEF ReadEnds, Pcs
  <2>2. WsTypeOK' /\ loop.rest = {}
    BY <1>6, <2>1 DEF ReadEnds, WsTypeOK, InHand, wsHist, socket
  <2> QED
    BY <1>6, <2>1, <2>2, IdleLoop DEF ReadEnds
<1>7. CASE CloseAllSubs
  <2>1. /\ loop' \in Loops /\ loop'.pc = "unsub" /\ loop'.sub = 0 /\ loop'.then = "leave"
        /\ loop'.rest = subs /\ loop.rest = {}
    BY <1>7, UnsubbingRecord DEF CloseAllSubs, Thens, WsTypeOK, InHand
  <2>2. stream' = stream /\ pump' = pump /\ wsHist' = wsHist /\ subs' = {}
    BY <1>7 DEF CloseAllSubs
  <2>3. WsTypeOK'
    BY <1>7, <2>1, <2>2 DEF CloseAllSubs, WsTypeOK, wsHist, socket
  <2>4. Held' /\ Kept' /\ InHand'
    BY <2>1, <2>2 DEF Held, Kept, InHand, IsOpen
  <2>5. Introduced' /\ ResponseBeforePush' /\ OnlyTheSlowAreClosed'
    BY <2>1, <2>2 DEF wsHist, Introduced, ResponseBeforePush, OnlyTheSlowAreClosed, Dropped, SubIds
  <2> QED
    BY <2>3, <2>4, <2>5
<1>8. CASE CallUnsub
  <2>1. ASSUME NEW id \in loop.rest, Unsubscribe(id), loop' = [loop EXCEPT !.rest = @ \ {id}]
        PROVE  WsInv'
    <3>1. id \in SubIds /\ id \notin subs
      BY DEF WsTypeOK, Loops, Kept
    <3>2. /\ loop.pc = "unsub" /\ loop' \in Loops /\ loop'.pc = "unsub" /\ loop'.sub = loop.sub
          /\ loop'.then = loop.then /\ loop'.rest = loop.rest \ {id}
      BY <1>8, <2>1 DEF CallUnsub, WsTypeOK, Loops
    <3>3. /\ stream' \in Streams
          /\ \A j \in SubIds :
               stream'[j].state = IF j = id /\ IsOpen(id) THEN "closed" ELSE stream[j].state
      BY <2>1, <3>1, StreamSteps DEF WsTypeOK
    <3>4. subs' = subs /\ pump' = pump /\ wsHist' = wsHist
      BY <1>8 DEF CallUnsub
    <3>5. WsTypeOK'
      BY <1>8, <3>2, <3>3, <3>4 DEF CallUnsub, WsTypeOK, wsHist, socket
    <3>6. Held' /\ Kept' /\ InHand'
      BY <3>1, <3>2, <3>3, <3>4 DEF Held, Kept, InHand, IsOpen, WsTypeOK
    <3>7. Introduced' /\ ResponseBeforePush' /\ OnlyTheSlowAreClosed'
      BY <3>2, <3>3, <3>4 DEF wsHist, Introduced, ResponseBeforePush, OnlyTheSlowAreClosed,
         Dropped, IsOpen
    <3> QED
      BY <3>5, <3>6, <3>7
  <2>2. CASE loop.rest = {} /\ loop' = At(loop.then) /\ UNCHANGED stream
    <3>1. loop.then \in Thens /\ loop.pc = "unsub"
      BY <1>8 DEF CallUnsub, WsTypeOK, Loops
    <3>2. loop' \in Loops /\ loop'.pc = loop.then /\ loop'.sub = 0 /\ loop'.rest = {}
      BY <2>2, <3>1, AtRecord DEF Thens, Pcs
    <3>3. WsTypeOK' /\ (loop'.pc \in {"leave", "done"} => subs = {}) /\ loop'.pc # "unsub"
      BY <1>8, <2>2, <3>1, <3>2 DEF CallUnsub, WsTypeOK, InHand, wsHist, socket, Thens
    <3> QED
      BY <1>8, <2>2, <3>2, <3>3, IdleLoop DEF CallUnsub
  <2> QED
    BY <1>8, <2>1, <2>2 DEF CallUnsub
<1>9. CASE Leave
  <2>1. loop' \in Loops /\ loop'.pc = "done" /\ loop'.sub = 0 /\ loop'.rest = {}
    BY <1>9, AtRecord DEF Leave, Pcs
  <2>2. WsTypeOK' /\ loop.rest = {} /\ subs = {}
    BY <1>9, <2>1 DEF Leave, WsTypeOK, InHand, wsHist, socket
  <2> QED
    BY <1>9, <2>1, <2>2, IdleLoop DEF Leave
<1> QED
  BY <1>1, <1>2, <1>3, <1>4, <1>5, <1>6, <1>7, <1>8, <1>9 DEF LoopStep

\* The steps of a pump and of the others, over a socket that never holds more
\* frames than it has room for.
LEMMA Room ==
    ASSUME unread \in 0 .. SocketRoom, FrameSent \/ FrameFails \/ Farewell
    PROVE  unread' \in 0 .. SocketRoom
<1>1. CanSend => unread + 1 \in 0 .. SocketRoom
  BY WsAssumption DEF CanSend
<1> QED
  BY <1>1 DEF FrameSent, FrameFails, Farewell

LEMMA PumpKeeps ==
    ASSUME WsInv, Flags', NEW id \in SubIds, PumpStep(id) \/ PumpLock(id)
    PROVE  WsInv'
<1> USE SourceAssumption, WsAssumption DEF WsInv
<1>1. /\ loop' = loop /\ told' = told
      /\ stream' \in Streams /\ \A j \in SubIds : stream'[j].state = stream[j].state
      /\ pump[id] # "none"
  <2>1. CASE PumpReceive(id)
    BY <2>1, StreamSteps DEF PumpReceive, WsTypeOK, wsHist
  <2>2. CASE ~PumpReceive(id)
    BY <2>2 DEF PumpStep, PumpLock, PumpWrite, PumpEnd, PumpFarewell, PumpHangUp, WsTypeOK, wsHist
  <2> QED
    BY <2>1, <2>2
<1>2. /\ unread' \in 0 .. SocketRoom /\ asked' = asked /\ closer' = closer
      /\ pushed' \in {pushed, pushed \cup {id}}
  BY Room DEF PumpStep, PumpReceive, PumpLock, PumpWrite, PumpEnd, PumpFarewell, PumpHangUp,
     WsTypeOK, wsHist, socket
<1>3. \E pc \in PumpPcs \ {"none"} :
        /\ pump' = [pump EXCEPT ![id] = pc]
        /\ subs' = IF pc \in {"farewell", "gone"} /\ AtEnd(id) /\ pump[id] = "recv"
                   THEN subs \ {id} ELSE subs
        /\ pc = "farewell" => id \in subs /\ AtEnd(id)
        /\ pc = "hangup" => pump[id] = "farewell"
        /\ AtEnd(id) /\ pump[id] = "recv" => IsOpen(id) = FALSE
  <2>1. CASE PumpReceive(id)
    BY <2>1 DEF PumpReceive, PumpPcs, AtEnd, IsOpen
  <2>2. CASE PumpLock(id)
    BY <2>2 DEF PumpLock, PumpPcs, AtEnd, IsOpen
  <2>3. CASE PumpWrite(id)
    BY <2>3 DEF PumpWrite, PumpPcs, AtEnd, IsOpen
  <2>4. CASE PumpEnd(id)
    BY <2>4 DEF PumpEnd, PumpPcs, AtEnd, IsOpen
  <2>5. CASE PumpFarewell(id)
    BY <2>5 DEF PumpFarewell, PumpPcs, AtEnd, IsOpen
  <2>6. CASE PumpHangUp(id)
    BY <2>6 DEF PumpHangUp, PumpPcs, AtEnd, IsOpen
  <2> QED
    BY <2>1, <2>2, <2>3, <2>4, <2>5, <2>6 DEF PumpStep
<1>4. PICK pc \in PumpPcs \ {"none"} :
        /\ pump' = [pump EXCEPT ![id] = pc]
        /\ subs' = IF pc \in {"farewell", "gone"} /\ AtEnd(id) /\ pump[id] = "recv"
                   THEN subs \ {id} ELSE subs
        /\ pc = "farewell" => id \in subs /\ AtEnd(id)
        /\ pc = "hangup" => pump[id] = "farewell"
        /\ AtEnd(id) /\ pump[id] = "recv" => IsOpen(id) = FALSE
  BY <1>3
<1>5. /\ pump' \in [SubIds -> PumpPcs]
      /\ \A j \in SubIds : pump'[j] = IF j = id THEN pc ELSE pump[j]
      /\ subs' \in {subs, subs \ {id}} /\ (subs' # subs => ~IsOpen(id))
  BY <1>4 DEF WsTypeOK
<1>6. WsTypeOK'
  BY <1>1, <1>2, <1>5 DEF WsTypeOK
<1>7. Held' /\ Kept' /\ InHand'
  BY <1>1, <1>5 DEF Held, Kept, InHand, IsOpen, WsTypeOK
<1>8. Introduced' /\ ResponseBeforePush'
  BY <1>1, <1>2, <1>5 DEF Introduced, ResponseBeforePush, WsTypeOK, Loops
<1>9. OnlyTheSlowAreClosed'
  <2>1. pc = "farewell" => Dropped(id)
    BY <1>4 DEF Kept, AtEnd, Dropped
  <2> QED
    BY <1>1, <1>4, <1>5, <2>1 DEF OnlyTheSlowAreClosed, Dropped
<1> QED
  BY <1>6, <1>7, <1>8, <1>9

\* Heads, the server and the client.
LEMMA OthersKeep ==
    ASSUME WsInv, Flags',
           \/ \E id \in SubIds : Head(id)
           \/ BaseCancel \/ ServerFarewell \/ ServerHangUp \/ ClientReads \/ ClientLeaves
    PROVE  WsInv'
<1> USE SourceAssumption, WsAssumption DEF WsInv
<1>1. loop' = loop /\ pump' = pump /\ subs' = subs /\ asked' = asked /\ told' = told /\ pushed' = pushed
  BY DEF Head, BaseCancel, ServerFarewell, ServerHangUp, ClientReads, ClientLeaves, wsHist
<1>2. /\ unread' \in 0 .. SocketRoom
      /\ closer' \in {"idle", "cancelled", "hangup", "done"}
  <2>1. ClientReads => unread' \in 0 .. SocketRoom
    BY DEF ClientReads, WsTypeOK
  <2> QED
    BY <2>1, Room DEF Head, BaseCancel, ServerFarewell, ServerHangUp, ClientReads, ClientLeaves,
       WsTypeOK, socket
<1>3. /\ stream' \in Streams
      /\ \A j \in SubIds :
           \/ stream'[j].state = stream[j].state
           \/ stream[j].state = "open" /\ stream'[j].state = "dropped"
  <2>1. ASSUME NEW id \in SubIds, Head(id)
        PROVE  /\ stream' \in Streams
               /\ \A j \in SubIds :
                    \/ stream'[j].state = stream[j].state
                    \/ stream[j].state = "open" /\ stream'[j].state = "dropped"
    BY <2>1, StreamSteps DEF Head, WsTypeOK, IsOpen
  <2>2. CASE BaseCancel \/ ServerFarewell \/ ServerHangUp \/ ClientReads \/ ClientLeaves
    BY <2>2 DEF BaseCancel, ServerFarewell, ServerHangUp, ClientReads, ClientLeaves, WsTypeOK
  <2> QED
    BY <2>1, <2>2
<1>4. WsTypeOK'
  BY <1>1, <1>2, <1>3 DEF WsTypeOK
<1>5. Held' /\ Kept' /\ InHand'
  BY <1>1, <1>3 DEF Held, Kept, InHand, IsOpen, WsTypeOK
<1>6. Introduced' /\ ResponseBeforePush' /\ OnlyTheSlowAreClosed'
  BY <1>1, <1>3 DEF Introduced, ResponseBeforePush, OnlyTheSlowAreClosed, Dropped, WsTypeOK, Loops
<1> QED
  BY <1>4, <1>5, <1>6

LEMMA WsStutter == WsInv /\ UNCHANGED wsVars => WsInv'
BY DEF WsInv, WsTypeOK, Flags, Held, Kept, InHand, Introduced, ResponseBeforePush,
   OnlyTheSlowAreClosed, IsOpen, Dropped, wsVars, socket, wsHist

LEMMA WsNextInv == WsInv /\ [WsNext]_wsVars => WsInv'
<1> SUFFICES ASSUME WsInv, [WsNext]_wsVars PROVE WsInv'
  OBVIOUS
<1>1. Flags'
  BY FlagsStay DEF WsInv, WsTypeOK
<1>2. CASE Request
  BY <1>1, <1>2, RequestsKeep
<1>3. CASE Elapse \/ LoopStep \/ ReplyLock
  BY <1>1, <1>3, LoopKeeps
<1>4. ASSUME NEW id \in SubIds, PumpStep(id) \/ PumpLock(id) PROVE WsInv'
  BY <1>1, <1>4, PumpKeeps
<1>5. CASE \/ \E id \in SubIds : Head(id)
           \/ BaseCancel \/ ServerFarewell \/ ServerHangUp \/ ClientReads \/ ClientLeaves
  BY <1>1, <1>5, OthersKeep
<1>6. CASE UNCHANGED wsVars
  BY <1>6, WsStutter
<1> QED
  BY <1>2, <1>3, <1>4, <1>5, <1>6 DEF WsNext

LEMMA WsInvariant == WsSpec => []WsInv
BY WsInitInv, WsNextInv, PTL DEF WsSpec

(***************************************************************************)
(* The theorems                                                            *)
(***************************************************************************)

\* Every variable of a connection keeps its type, and only ids that were given
\* out have a pump or stand in the map (ws.go:28-37).
THEOREM ConnectionTypes == WsSpec => []WsTypeOK
<1>1. WsInv => WsTypeOK
  BY DEF WsInv
<1> QED
  BY <1>1, WsInvariant, PTL

\* No notification is written before the response that carries its id, however
\* the pumps and the read loop contend for the write lock (ws.go:102-112).
THEOREM ResponseFirst == WsSpec => []ResponseBeforePush
<1>1. WsInv => ResponseBeforePush
  BY DEF WsInv
<1> QED
  BY <1>1, WsInvariant, PTL

\* A pump closes the connection only over a subscription that the chain dropped,
\* never over one the client gave up (ws.go:122-125, 178-183).
THEOREM ClosedForSlowness == WsSpec => []OnlyTheSlowAreClosed
<1>1. WsInv => OnlyTheSlowAreClosed
  BY DEF WsInv
<1> QED
  BY <1>1, WsInvariant, PTL

\* When a connection's handler has returned, the chain holds none of its
\* subscriptions, whatever failed on the way (ws.go:105-110, 163-164).
THEOREM NothingIsLeft == WsSpec => []NothingLeft
<1>1. WsInv => NothingLeft
  BY DEF WsInv, NothingLeft, InHand, Held
<1> QED
  BY <1>1, WsInvariant, PTL

=============================================================================

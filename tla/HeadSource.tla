----------------------------- MODULE HeadSource -----------------------------
(***************************************************************************)
(* What the transport may count on from the chain: transport.HeadSource    *)
(* (internal/transport/server.go), one method, as chain.Driver keeps it    *)
(* (internal/chain/events.go).  A subscription is a channel: whether it is *)
(* open, and how many heads wait in it.  HeadFeed implements this module;  *)
(* WsConn is built on it, and on nothing else of the chain.                *)
(***************************************************************************)
EXTENDS Integers

CONSTANTS
    HeadSubBuffer,  \* headSubBuffer: 64 in the code
    MaxSubs         \* bound: the calls of SubscribeHeads

ASSUME SourceAssumption ==
    /\ HeadSubBuffer \in Nat \ {0}
    /\ MaxSubs \in Nat

VARIABLE stream  \* the channel of every subscription: [state, buffered]

SubIds == 1 .. MaxSubs

States == {"unused", "open", "dropped", "closed"}

Streams == [SubIds -> [state : States, buffered : 0 .. HeadSubBuffer]]

Unused == [state |-> "unused", buffered |-> 0]

IsOpen(id) == stream[id].state = "open"

Dropped(id) == stream[id].state = "dropped"

SourceInit == stream = [id \in SubIds |-> Unused]

SubscribeHeads(id) ==
    /\ stream[id].state = "unused"
    /\ stream' = [stream EXCEPT ![id].state = "open"]

\* A head is announced: it is sent, or the subscriber is behind and is dropped.
Push(id) ==
    /\ IsOpen(id)
    /\ stream[id].buffered < HeadSubBuffer
    /\ stream' = [stream EXCEPT ![id].buffered = @ + 1]

Overflow(id) ==
    /\ IsOpen(id)
    /\ stream[id].buffered = HeadSubBuffer
    /\ stream' = [stream EXCEPT ![id].state = "dropped"]

\* The function SubscribeHeads returned; nothing for a subscription dropped.
Unsubscribe(id) ==
    stream' = IF IsOpen(id) THEN [stream EXCEPT ![id].state = "closed"] ELSE stream

\* The channel is closed; what waits in it is still received.
Receive(id) ==
    /\ stream[id].buffered > 0
    /\ stream' = [stream EXCEPT ![id].buffered = @ - 1]

AtEnd(id) == stream[id].state \in {"dropped", "closed"} /\ stream[id].buffered = 0

SourceNext ==
    \E id \in SubIds :
        SubscribeHeads(id) \/ Push(id) \/ Overflow(id) \/ Unsubscribe(id) \/ Receive(id)

SourceSpec == SourceInit /\ [][SourceNext]_stream
=============================================================================

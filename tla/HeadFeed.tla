------------------------------ MODULE HeadFeed ------------------------------
(***************************************************************************)
(* chain.Driver's head subscriptions (internal/chain/events.go) on top of  *)
(* its writers: SubscribeHeads, the unsubscribe function it returns, and   *)
(* notifyHeads, which ProduceBlock and Reorg call before they unlock.      *)
(*                                                                         *)
(* A writer publishes the new snapshot and then tells the subscribers one  *)
(* by one, in the order of a Go map range (any order), still holding       *)
(* Driver.mu: no other writer, subscribe or unsubscribe gets in between,   *)
(* but subscribers receive all the while.  A Go channel is its buffer and  *)
(* whether it is closed; a receiver of a closed channel drains the buffer  *)
(* first and only then sees the end.                                       *)
(***************************************************************************)
EXTENDS Chain

CONSTANTS
    HeadSubBuffer,  \* headSubBuffer: 64 in the code
    MaxSubs         \* bound: the calls of SubscribeHeads

ASSUME FeedAssumption ==
    /\ HeadSubBuffer \in Nat \ {0}
    /\ MaxSubs \in Nat

VARIABLES
    subs,    \* Driver.subs: the ids registered
    subSeq,  \* Driver.subSeq: ids given out so far
    chans,   \* the channel of every id given out: [buf, closed]
    notice   \* notifyHeads at work: the head, and the ids still to be told it

\* History of the run, read by the properties only.
VARIABLES
    heads,   \* every head announced, in order
    origin,  \* origin[id]: how many heads had been announced when id subscribed
    seen,    \* seen[id]: what the subscriber received, in order
    ended,   \* ids whose subscriber received the end of the channel
    left     \* ids whose subscription ended by unsubscribing

feedVars == <<subs, subSeq, chans, notice>>
history  == <<heads, origin, seen, ended, left>>
vars     == <<chainVars, feedVars, history>>

Ids == 1 .. subSeq

\* No writer is between its first notification and its unlock.
Unlocked == notice.to = {}

(***************************************************************************)
(* notifyHeads: one subscriber at a time, a send that never blocks.  A     *)
(* channel with no room is dropped from the map and closed.                *)
(***************************************************************************)

HasRoom_OffByOne(id) == Len(chans[id].buf) < HeadSubBuffer - 1

HasRoom(id) == Len(chans[id].buf) < HeadSubBuffer

Send(id) ==
    /\ HasRoom(id)
    /\ chans' = [chans EXCEPT ![id].buf = Append(@, notice.head)]
    /\ UNCHANGED subs

Drop_KeepsRegistered(id) ==
    /\ ~HasRoom(id)
    /\ chans' = [chans EXCEPT ![id].closed = TRUE]
    /\ UNCHANGED subs

Drop_Waits(id) == FALSE /\ UNCHANGED <<chans, subs>>

Drop(id) ==
    /\ ~HasRoom(id)
    /\ chans' = [chans EXCEPT ![id].closed = TRUE]
    /\ subs' = subs \ {id}

Notify(id) ==
    /\ id \in notice.to
    /\ Send(id) \/ Drop(id)
    /\ notice' = [notice EXCEPT !.to = @ \ {id}]
    /\ UNCHANGED <<chainVars, subSeq, history>>

(***************************************************************************)
(* The operations                                                          *)
(***************************************************************************)

FeedInit ==
    /\ Init
    /\ subs = {} /\ subSeq = 0 /\ chans = <<>>
    /\ notice = [head |-> Genesis.hash, to |-> {}]
    /\ heads = <<>> /\ origin = <<>> /\ seen = <<>> /\ ended = {} /\ left = {}

\* The call of notifyHeads, after the snapshot is published.
Announce(hash) ==
    /\ Unlocked
    /\ notice' = [head |-> hash, to |-> subs]
    /\ heads' = Append(heads, hash)
    /\ UNCHANGED <<subs, subSeq, chans, origin, seen, ended, left>>

FeedProduceBlock(txs) == ProduceBlock(txs) /\ Announce(current'.head)

FeedReorg_AnnouncesForkChild(forkFrom, branch) ==
    Reorg(forkFrom, branch) /\ Announce(current'.canonical[forkFrom + 2])

\* Only the last block of the branch is announced.
FeedReorg(forkFrom, branch) == Reorg(forkFrom, branch) /\ Announce(current'.head)

FeedFinalize(height) ==
    /\ Unlocked
    /\ Finalize(height)
    /\ UNCHANGED <<feedVars, history>>

SubscribeHeads_WithoutLock ==
    /\ subSeq < MaxSubs
    /\ subSeq' = subSeq + 1
    /\ subs' = subs \cup {subSeq'}
    /\ chans' = Append(chans, [buf |-> <<>>, closed |-> FALSE])
    /\ notice' = [notice EXCEPT !.to = IF @ = {} THEN @ ELSE @ \cup {subSeq'}]
    /\ origin' = Append(origin, Len(heads))
    /\ seen' = Append(seen, <<>>)
    /\ UNCHANGED <<chainVars, heads, ended, left>>

SubscribeHeads ==
    /\ subSeq < MaxSubs
    /\ Unlocked
    /\ subSeq' = subSeq + 1
    /\ subs' = subs \cup {subSeq'}
    /\ chans' = Append(chans, [buf |-> <<>>, closed |-> FALSE])
    /\ origin' = Append(origin, Len(heads))
    /\ seen' = Append(seen, <<>>)
    /\ UNCHANGED <<chainVars, notice, heads, ended, left>>

Unsubscribe_NeverCloses(id) ==
    /\ Unlocked
    /\ id \in subs
    /\ subs' = subs \ {id}
    /\ left' = left \cup {id}
    /\ UNCHANGED <<chainVars, subSeq, chans, notice, heads, origin, seen, ended>>

\* The function SubscribeHeads returned.  Called again, or after notifyHeads
\* dropped the subscriber, it finds no registration and changes nothing.
Unsubscribe(id) ==
    /\ Unlocked
    /\ id \in subs
    /\ subs' = subs \ {id}
    /\ chans' = [chans EXCEPT ![id].closed = TRUE]
    /\ left' = left \cup {id}
    /\ UNCHANGED <<chainVars, subSeq, notice, heads, origin, seen, ended>>

\* The subscriber's side: head := <-heads.  It takes no lock.
Receive(id) ==
    /\ chans[id].buf # <<>>
    /\ chans' = [chans EXCEPT ![id].buf = Tail(@)]
    /\ seen' = [seen EXCEPT ![id] = Append(@, Head(chans[id].buf))]
    /\ UNCHANGED <<chainVars, subs, subSeq, notice, heads, origin, ended, left>>

\* The subscriber's range loop ends.
ReceiveEnd(id) ==
    /\ id \notin ended
    /\ chans[id].buf = <<>> /\ chans[id].closed
    /\ ended' = ended \cup {id}
    /\ UNCHANGED <<chainVars, feedVars, heads, origin, seen, left>>

Write ==
    \/ \E txs \in TxLists : FeedProduceBlock(txs)
    \/ \E height \in Heights : FeedFinalize(height)
    \/ \E forkFrom \in Heights, branch \in Branches : FeedReorg(forkFrom, branch)

Consume(id) == Receive(id) \/ ReceiveEnd(id)

FeedNext ==
    \/ Write
    \/ SubscribeHeads
    \/ \E id \in Ids : Notify(id) \/ Unsubscribe(id) \/ Consume(id)

FeedSpec == FeedInit /\ [][FeedNext]_vars

\* The goroutine that produces blocks keeps running, between its statements and
\* from one tick to the next.
ProducerFairness ==
    /\ WF_vars(\E txs \in TxLists : FeedProduceBlock(txs))
    /\ WF_vars(\E id \in notice.to : Notify(id))

\* A subscriber that keeps reading: pump ranges over the channel.
ConsumerFairness == \A id \in 1 .. MaxSubs : WF_vars(id \in Ids /\ Consume(id))

(***************************************************************************)
(* Type correctness                                                        *)
(***************************************************************************)

\* The subscriptions' state has its type: a channel for every id given out, and
\* none that holds more than its capacity (events.go:3-15).
FeedTypeOK ==
    /\ TypeOK
    /\ subSeq \in 0 .. MaxSubs
    /\ subs \subseteq Ids /\ ended \subseteq Ids /\ left \subseteq Ids
    /\ notice.head \in Hashes /\ notice.to \subseteq subs
    /\ DOMAIN chans = Ids /\ DOMAIN seen = Ids /\ DOMAIN origin = Ids
    /\ \A id \in Ids :
         /\ chans[id].buf \in Seq(Hashes) /\ Len(chans[id].buf) <= HeadSubBuffer
         /\ chans[id].closed \in BOOLEAN
         /\ seen[id] \in Seq(Hashes)
         /\ origin[id] \in 0 .. Len(heads)
    /\ heads \in Seq(Hashes)

(***************************************************************************)
(* Safety                                                                  *)
(***************************************************************************)

\* A channel is open exactly while it is registered: notifyHeads never sends on
\* a closed channel and neither it nor unsubscribe closes one twice, either of
\* which would panic under the driver's lock (events.go:17-37).
RegisteredIffOpen == \A id \in Ids : id \in subs <=> ~chans[id].closed

\* What a subscriber received and has still to receive is, without gap,
\* repetition or reordering, the run of heads announced from the moment it
\* subscribed.  While it is registered it reaches the latest head, but for the
\* one it is about to be told.
NoGap ==
    \A id \in Ids :
        LET got  == seen[id] \o chans[id].buf
            upTo == origin[id] + Len(got)
        IN  /\ upTo <= Len(heads)
            /\ got = SubSeq(heads, origin[id] + 1, upTo)
            /\ id \in subs => upTo = Len(heads) - (IF id \in notice.to THEN 1 ELSE 0)

\* A registered subscriber that has read everything knows the chain's head, if
\* the head ever moved since it subscribed (driver.go:104-105, 171-172).
CaughtUpKnowsHead ==
    \A id \in subs \ notice.to :
        chans[id].buf = <<>> /\ seen[id] # <<>>
          => seen[id][Len(seen[id])] = current.head

\* A subscription as the transport sees it.
Stream(id) ==
    IF id \notin Ids THEN [state |-> "unused", buffered |-> 0]
    ELSE [state    |-> IF ~chans[id].closed THEN "open"
                       ELSE IF id \in left THEN "closed" ELSE "dropped",
          buffered |-> Len(chans[id].buf)]

Source == INSTANCE HeadSource WITH stream <- [id \in 1 .. MaxSubs |-> Stream(id)]

\* The driver keeps the promise the transport is built on: nothing is sent into a
\* subscription that is over, none is over but by its owner or by falling behind
\* a full buffer, and none that is over comes back (server.go:15-19,
\* events.go:5-39).
ImplementsHeadSource == Source!SourceSpec

(***************************************************************************)
(* Liveness                                                                *)
(***************************************************************************)

\* No subscriber, however slow, stops the chain: the producer's fairness alone
\* gets every block built, as the send in notifyHeads never waits
\* (events.go:29-38).
WriterNeverBlocks == ProducerFairness => <>(seq = MaxSeq)

\* A subscription that is over, dropped or unsubscribed, is seen to be over by
\* a subscriber that keeps reading, whatever the producer does: the pump
\* goroutine ends (events.go:24, 35).
EndIsSeen ==
    ConsumerFairness =>
        \A id \in 1 .. MaxSubs : (id \in Ids /\ id \notin subs) ~> (id \in ended)
=============================================================================

--------------------------- MODULE HeadFeedProofs ---------------------------
(***************************************************************************)
(* Theorems about HeadFeed, for any chain, any number of subscribers and   *)
(* any buffer.                                                             *)
(***************************************************************************)
EXTENDS HeadFeed, ChainProofs

(***************************************************************************)
(* What a subscriber got and has still to get, against what was announced  *)
(***************************************************************************)

\* got, and then wait, are the elements of all from the place after from on.
Follows(got, wait, from, all) ==
    /\ from + Len(got) + Len(wait) <= Len(all)
    /\ \A i \in 1 .. Len(got) : got[i] = all[from + i]
    /\ \A i \in 1 .. Len(wait) : wait[i] = all[from + Len(got) + i]

LEMMA FollowsNothing ==
    ASSUME NEW all, Len(all) \in Nat, NEW got, NEW wait, Len(got) = 0, Len(wait) = 0
    PROVE  Follows(got, wait, Len(all), all)
BY DEF Follows

LEMMA FollowsAnnounce ==
    ASSUME NEW S, NEW got \in Seq(S), NEW wait \in Seq(S), NEW all \in Seq(S), NEW from \in Nat,
           NEW e \in S, Follows(got, wait, from, all)
    PROVE  Follows(got, wait, from, Append(all, e))
<1>1. Len(Append(all, e)) = Len(all) + 1 /\ \A i \in 1 .. Len(all) : Append(all, e)[i] = all[i]
  BY AppendProperties
<1>2. /\ \A i \in 1 .. Len(got) : from + i \in 1 .. Len(all)
      /\ \A i \in 1 .. Len(wait) : from + Len(got) + i \in 1 .. Len(all)
  BY DEF Follows
<1> QED
  BY <1>1, <1>2 DEF Follows

LEMMA FollowsSend ==
    ASSUME NEW S, NEW got \in Seq(S), NEW wait \in Seq(S), NEW all \in Seq(S), NEW from \in Nat,
           Follows(got, wait, from, all), from + Len(got) + Len(wait) = Len(all) - 1
    PROVE  Follows(got, Append(wait, all[Len(all)]), from, all)
<1> DEFINE more == Append(wait, all[Len(all)])
<1>1. Len(all) \in 1 .. Len(all) /\ all[Len(all)] \in S
  <2>1. Len(all) \in Nat /\ Len(all) - 1 \in Nat
    OBVIOUS
  <2>2. Len(all) \in 1 .. Len(all)
    BY <2>1
  <2> QED
    BY <2>2, ElementOfSeq
<1>2. /\ Len(more) = Len(wait) + 1 /\ more[Len(wait) + 1] = all[Len(all)]
      /\ \A i \in 1 .. Len(wait) : more[i] = wait[i]
  BY <1>1, AppendProperties
<1>3. from + Len(got) + (Len(wait) + 1) = Len(all)
  OBVIOUS
<1> HIDE DEF more
<1>4. \A i \in 1 .. Len(wait) + 1 : i = Len(wait) + 1 \/ i \in 1 .. Len(wait)
  OBVIOUS
<1>5. Follows(got, more, from, all)
  BY <1>2, <1>3, <1>4 DEF Follows
<1> QED
  BY <1>5 DEF more

LEMMA FollowsReceive ==
    ASSUME NEW S, NEW got \in Seq(S), NEW wait \in Seq(S), NEW all \in Seq(S), NEW from \in Nat,
           Follows(got, wait, from, all), wait # <<>>
    PROVE  /\ Follows(Append(got, Head(wait)), Tail(wait), from, all)
           /\ Append(got, Head(wait)) \in Seq(S) /\ Tail(wait) \in Seq(S)
           /\ Len(Append(got, Head(wait))) = Len(got) + 1 /\ Len(Tail(wait)) = Len(wait) - 1
<1> DEFINE more == Append(got, Head(wait))
           rest == Tail(wait)
<1>1. /\ Head(wait) \in S /\ rest \in Seq(S) /\ Len(rest) = Len(wait) - 1 /\ Head(wait) = wait[1]
      /\ \A i \in 1 .. Len(rest) : rest[i] = wait[i + 1]
  BY HeadTailProperties
<1>2. /\ more \in Seq(S) /\ Len(more) = Len(got) + 1 /\ more[Len(got) + 1] = wait[1]
      /\ \A i \in 1 .. Len(got) : more[i] = got[i]
  BY <1>1, AppendProperties
<1> HIDE DEF more, rest
<1>3. Len(wait) \in Nat \ {0} /\ 1 \in 1 .. Len(wait)
  OBVIOUS
<1>4. from + Len(more) + Len(rest) <= Len(all)
  BY <1>1, <1>2, <1>3 DEF Follows
<1>5. ASSUME NEW i \in 1 .. Len(more) PROVE more[i] = all[from + i]
  <2>1. CASE i = Len(got) + 1
    <3>1. wait[1] = all[from + Len(got) + 1]
      BY <1>3 DEF Follows
    <3>2. from + Len(got) + 1 = from + i
      BY <2>1
    <3> QED
      BY <1>2, <2>1, <3>1, <3>2
  <2>2. CASE i # Len(got) + 1
    <3>1. i \in 1 .. Len(got)
      BY <1>2, <2>2
    <3> QED
      BY <1>2, <3>1 DEF Follows
  <2> QED
    BY <2>1, <2>2
<1>6. ASSUME NEW i \in 1 .. Len(rest) PROVE rest[i] = all[from + Len(more) + i]
  <2>1. i + 1 \in 1 .. Len(wait) /\ from + Len(got) + (i + 1) = from + Len(more) + i
    BY <1>1, <1>2, <1>3
  <2>2. wait[i + 1] = all[from + Len(got) + (i + 1)]
    BY <2>1 DEF Follows
  <2> QED
    BY <1>1, <2>1, <2>2
<1>7. Follows(more, rest, from, all)
  BY <1>4, <1>5, <1>6 DEF Follows
<1> QED
  BY <1>1, <1>2, <1>7 DEF more, rest

\* What follows is a piece of what was announced.
LEMMA FollowsIsSubSeq ==
    ASSUME NEW S, NEW got \in Seq(S), NEW wait \in Seq(S), NEW all \in Seq(S), NEW from \in Nat,
           Follows(got, wait, from, all)
    PROVE  /\ from + Len(got \o wait) = from + Len(got) + Len(wait)
           /\ from + Len(got \o wait) <= Len(all)
           /\ got \o wait = SubSeq(all, from + 1, from + Len(got \o wait))
<1> DEFINE g == got \o wait
           p == SubSeq(all, from + 1, from + Len(g))
<1>1. /\ g \in Seq(S) /\ Len(g) = Len(got) + Len(wait)
      /\ \A i \in 1 .. Len(g) : g[i] = IF i <= Len(got) THEN got[i] ELSE wait[i - Len(got)]
  BY ConcatProperties
<1> HIDE DEF g
<1>2. \A i \in from + 1 .. from + Len(g) : i \in 1 .. Len(all)
  BY <1>1 DEF Follows
<1>3. \A i \in from + 1 .. from + Len(g) : all[i] \in S
  BY <1>2, ElementOfSeq
<1>4. /\ p \in Seq(S)
      /\ Len(p) = IF from + 1 <= from + Len(g) THEN (from + Len(g)) - (from + 1) + 1 ELSE 0
      /\ \A i \in 1 .. (from + Len(g)) - (from + 1) + 1 : p[i] = all[(from + 1) + i - 1]
  <2>1. from + 1 \in Int /\ from + Len(g) \in Int
    BY <1>1
  <2> QED
    BY <1>3, <2>1, SubSeqProperties
<1> HIDE DEF p
<1>5. Len(p) = Len(g) /\ Len(g) \in Nat
  BY <1>1, <1>4
<1>6. ASSUME NEW i \in 1 .. Len(g) PROVE g[i] = p[i]
  <2>1. p[i] = all[from + i]
    <3>1. i \in 1 .. (from + Len(g)) - (from + 1) + 1 /\ (from + 1) + i - 1 = from + i
      BY <1>5
    <3> QED
      BY <1>4, <3>1
  <2>2. CASE i <= Len(got)
    <3>1. i \in 1 .. Len(got)
      BY <1>5, <2>2
    <3> QED
      BY <1>1, <2>1, <2>2, <3>1 DEF Follows
  <2>3. CASE ~(i <= Len(got))
    <3>1. i - Len(got) \in 1 .. Len(wait) /\ from + Len(got) + (i - Len(got)) = from + i
      BY <1>1, <1>5, <2>3
    <3>2. wait[i - Len(got)] = all[from + Len(got) + (i - Len(got))]
      BY <3>1 DEF Follows
    <3> QED
      BY <1>1, <2>1, <2>3, <3>1, <3>2
  <2> QED
    BY <2>2, <2>3
<1>7. g = p
  BY <1>1, <1>4, <1>5, <1>6, SeqEqual
<1>8. from + Len(g) = from + Len(got) + Len(wait) /\ from + Len(g) <= Len(all)
  BY <1>1 DEF Follows
<1> QED
  BY <1>7, <1>8 DEF g, p

(***************************************************************************)
(* The inductive invariant                                                 *)
(***************************************************************************)

Channels == [buf : Seq(Hashes), closed : BOOLEAN]

FeedShape ==
    /\ subSeq \in 0 .. MaxSubs
    /\ chans \in Seq(Channels) /\ Len(chans) = subSeq
    /\ seen \in Seq(Seq(Hashes)) /\ Len(seen) = subSeq
    /\ origin \in Seq(Nat) /\ Len(origin) = subSeq
    /\ heads \in Seq(Hashes)
    /\ subs \subseteq Ids /\ left \subseteq Ids /\ ended \subseteq Ids
    /\ notice \in [head : Hashes, to : SUBSET Ids] /\ notice.to \subseteq subs

\* What notifyHeads tells is the latest head, which is the chain's.
Latest ==
    /\ notice.to # {} => heads # <<>> /\ notice.head = heads[Len(heads)]
    /\ heads # <<>> => heads[Len(heads)] = current.head

\* A subscriber misses nothing, a registered one lacks nothing but the head it is
\* about to be told, its channel is open, and no other's is.
SubscriberOK(id) ==
    /\ Follows(seen[id], chans[id].buf, origin[id], heads)
    /\ Len(chans[id].buf) <= HeadSubBuffer
    /\ id \in subs => origin[id] + Len(seen[id]) + Len(chans[id].buf)
                        = Len(heads) - (IF id \in notice.to THEN 1 ELSE 0)
    /\ id \in subs => chans[id].closed = FALSE
    /\ id \notin subs => chans[id].closed = TRUE
    /\ id \in left => id \notin subs

SubscribersOK == \A id \in Ids : SubscriberOK(id)

FeedInv == IInv /\ FeedShape /\ Latest /\ SubscribersOK

\* The state of one subscriber has its types.
LEMMA SubscriberTypes ==
    ASSUME FeedShape, NEW id \in Ids
    PROVE  /\ chans[id] \in Channels /\ chans[id].buf \in Seq(Hashes) /\ chans[id].closed \in BOOLEAN
           /\ seen[id] \in Seq(Hashes) /\ origin[id] \in Nat
           /\ id \in 1 .. Len(chans) /\ id \in 1 .. Len(seen) /\ id \in 1 .. Len(origin)
<1>1. id \in 1 .. Len(chans) /\ id \in 1 .. Len(seen) /\ id \in 1 .. Len(origin)
  BY DEF FeedShape, Ids
<1>2. chans[id] \in Channels /\ seen[id] \in Seq(Hashes) /\ origin[id] \in Nat
  BY <1>1, ElementOfSeq DEF FeedShape
<1> QED
  BY <1>1, <1>2 DEF Channels

\* What the code's assignments to one of a channel's fields make of it.
LEMMA ChannelUpdate ==
    ASSUME NEW ch \in Channels
    PROVE  /\ \A b \in Seq(Hashes) : [ch EXCEPT !.buf = b] = [buf |-> b, closed |-> ch.closed]
           /\ \A c \in BOOLEAN : [ch EXCEPT !.closed = c] = [buf |-> ch.buf, closed |-> c]
           /\ ch = [buf |-> ch.buf, closed |-> ch.closed]
<1>1. ch = [buf |-> ch.buf, closed |-> ch.closed]
  BY DEF Channels
<1>2. \A b \in Seq(Hashes) : [ch EXCEPT !.buf = b] = [buf |-> b, closed |-> ch.closed]
  BY DEF Channels
<1>3. \A c \in BOOLEAN : [ch EXCEPT !.closed = c] = [buf |-> ch.buf, closed |-> c]
  BY DEF Channels
<1> QED
  BY <1>1, <1>2, <1>3

LEMMA FeedInitInv == FeedInit => FeedInv
<1> SUFFICES ASSUME FeedInit PROVE FeedInv
  OBVIOUS
<1>1. IInv
  BY InitEstablishesIInv DEF FeedInit
<1>2. Ids = {}
  BY DEF FeedInit, Ids
<1>3. FeedShape
  BY <1>2, GenesisType, FeedAssumption DEF FeedInit, FeedShape
<1>4. Latest /\ SubscribersOK
  BY <1>2 DEF FeedInit, Latest, SubscribersOK
<1> QED
  BY <1>1, <1>3, <1>4 DEF FeedInv

(***************************************************************************)
(* The steps                                                               *)
(***************************************************************************)

\* A write that announces the new head.
LEMMA AnnounceKeeps ==
    ASSUME FeedInv, IInv', Announce(current'.head)
    PROVE  FeedInv'
<1>1. /\ subs' = subs /\ subSeq' = subSeq /\ chans' = chans /\ origin' = origin /\ seen' = seen
      /\ ended' = ended /\ left' = left /\ Ids' = Ids
      /\ notice.to = {} /\ notice' = [head |-> current'.head, to |-> subs]
  BY DEF Announce, Unlocked, Ids
<1>2. current'.head \in Hashes
  BY DEF IInv, TypeOK
<1>3. /\ heads' = Append(heads, current'.head) /\ heads' \in Seq(Hashes)
      /\ heads' # <<>> /\ Len(heads') = Len(heads) + 1 /\ heads'[Len(heads')] = current'.head
  BY <1>2, AppendProperties DEF Announce, FeedInv, FeedShape
<1>4. FeedShape'
  BY <1>1, <1>2, <1>3 DEF FeedInv, FeedShape
<1>5. Latest'
  BY <1>1, <1>3 DEF Latest
<1>6. ASSUME NEW id \in Ids PROVE SubscriberOK(id)'
  <2>1. /\ seen[id] \in Seq(Hashes) /\ chans[id].buf \in Seq(Hashes) /\ origin[id] \in Nat
        /\ heads \in Seq(Hashes)
    BY SubscriberTypes DEF FeedInv, FeedShape
  <2>2. Follows(seen[id], chans[id].buf, origin[id], heads')
    BY <1>2, <1>3, <2>1, FollowsAnnounce DEF FeedInv, SubscribersOK, SubscriberOK
  <2>3. id \in subs => origin[id] + Len(seen[id]) + Len(chans[id].buf) = Len(heads') - 1
    BY <1>1, <1>3, <2>1 DEF FeedInv, SubscribersOK, SubscriberOK
  <2> QED
    BY <1>1, <2>2, <2>3 DEF FeedInv, SubscribersOK, SubscriberOK
<1> QED
  BY <1>1, <1>4, <1>5, <1>6 DEF FeedInv, SubscribersOK

\* The steps of the writers.
LEMMA WriteKeeps ==
    ASSUME FeedInv, Write
    PROVE  FeedInv'
<1>1. ASSUME NEW txs \in TxLists, FeedProduceBlock(txs) PROVE FeedInv'
  <2>1. IInv'
    BY <1>1, StepPreservesIInv DEF FeedInv, FeedProduceBlock, Next
  <2> QED
    BY <1>1, <2>1, AnnounceKeeps DEF FeedProduceBlock
<1>2. ASSUME NEW forkFrom \in Heights, NEW branch \in Branches, FeedReorg(forkFrom, branch)
      PROVE  FeedInv'
  <2>1. IInv'
    BY <1>2, StepPreservesIInv DEF FeedInv, FeedReorg, Next
  <2> QED
    BY <1>2, <2>1, AnnounceKeeps DEF FeedReorg
<1>3. ASSUME NEW height \in Heights, FeedFinalize(height) PROVE FeedInv'
  <2>1. IInv' /\ current'.head = current.head
    <3>1. height \in Nat
      BY ChainAssumption DEF Heights
    <3> QED
      BY <1>3, <3>1, FinalizePreserves, FinalizeFacts DEF FeedInv, FeedFinalize
  <2> QED
    BY <1>3, <2>1 DEF FeedFinalize, feedVars, history, FeedInv, FeedShape, Latest, SubscribersOK,
       SubscriberOK, Ids
<1> QED
  BY <1>1, <1>2, <1>3 DEF Write

\* One subscriber's channel and what it received change, and maybe its place in
\* the map and among those still to be told.
LEMMA OneSubscriber ==
    ASSUME FeedInv, NEW id \in Ids, UNCHANGED <<chainVars, subSeq, heads, origin>>,
           NEW buf \in Seq(Hashes), NEW closed \in BOOLEAN, NEW got \in Seq(Hashes),
           chans' = [chans EXCEPT ![id] = [buf |-> buf, closed |-> closed]],
           seen' = [seen EXCEPT ![id] = got],
           subs' \in {subs, subs \ {id}}, left' \in {left, left \cup {id}},
           ended' \in {ended, ended \cup {id}},
           notice'.to \in {notice.to, notice.to \ {id}}, notice'.head = notice.head,
           notice' \in [head : Hashes, to : SUBSET Ids], id \in notice'.to => id \in subs',
           SubscriberOK(id)'
    PROVE  FeedInv'
<1>1. Ids' = Ids
  BY DEF Ids
<1>2. FeedShape
  BY DEF FeedInv
<1>3. [buf |-> buf, closed |-> closed] \in Channels
  BY DEF Channels
<1>4. /\ chans' \in Seq(Channels) /\ Len(chans') = subSeq
      /\ \A j \in Ids : chans'[j] = IF j = id THEN [buf |-> buf, closed |-> closed] ELSE chans[j]
  BY <1>2, <1>3, ExceptSeq DEF FeedShape, Ids
<1>5. /\ seen' \in Seq(Seq(Hashes)) /\ Len(seen') = subSeq
      /\ \A j \in Ids : seen'[j] = IF j = id THEN got ELSE seen[j]
  BY <1>2, ExceptSeq DEF FeedShape, Ids
<1>6. FeedShape'
  BY <1>1, <1>2, <1>4, <1>5 DEF FeedShape
<1>7. IInv' /\ Latest'
  BY StepPreservesIInv DEF FeedInv, Latest, chainVars
<1>8. ASSUME NEW j \in Ids PROVE SubscriberOK(j)'
  <2>1. CASE j = id
    BY <2>1
  <2>2. CASE j # id
    <3>1. chans'[j] = chans[j] /\ seen'[j] = seen[j]
      BY <1>4, <1>5, <2>2
    <3>2. /\ j \in subs' <=> j \in subs
          /\ j \in left' <=> j \in left
          /\ j \in ended' <=> j \in ended
          /\ j \in notice'.to <=> j \in notice.to
      BY <2>2
    <3>3. SubscriberOK(j)
      BY DEF FeedInv, SubscribersOK
    <3> QED
      BY <3>1, <3>2, <3>3 DEF SubscriberOK
  <2> QED
    BY <2>1, <2>2
<1> QED
  BY <1>1, <1>6, <1>7, <1>8 DEF FeedInv, SubscribersOK

LEMMA NotifyKeeps ==
    ASSUME FeedInv, NEW id \in Ids, Notify(id)
    PROVE  FeedInv'
<1> DEFINE b == chans[id].buf
           c == chans[id].closed
           h == heads[Len(heads)]
<1>1. /\ FeedShape /\ SubscriberOK(id) /\ id \in notice.to /\ id \in subs
      /\ notice.head = h /\ heads \in Seq(Hashes) /\ heads # <<>>
  BY DEF FeedInv, SubscribersOK, Notify, Latest, FeedShape
<1>2. /\ chans[id] \in Channels
      /\ chans[id] = [buf |-> b, closed |-> c] /\ b \in Seq(Hashes) /\ c \in BOOLEAN
      /\ seen[id] \in Seq(Hashes) /\ origin[id] \in Nat
      /\ id \in 1 .. Len(chans) /\ id \in 1 .. Len(seen)
  BY <1>1, SubscriberTypes, ChannelUpdate
<1>3. /\ UNCHANGED <<chainVars, subSeq, heads, origin, seen, ended, left>>
      /\ notice' = [head |-> notice.head, to |-> notice.to \ {id}]
      /\ notice' \in [head : Hashes, to : SUBSET Ids]
  BY <1>1 DEF Notify, history, FeedShape
<1>4. seen' = [seen EXCEPT ![id] = seen[id]]
  BY <1>1, <1>2, <1>3 DEF FeedShape
<1> HIDE DEF b, c
<1>5. CASE Send(id)
  <2>1. h \in Hashes /\ Len(heads) \in 1 .. Len(heads)
    <3>1. Len(heads) \in 1 .. Len(heads)
      BY <1>1
    <3> QED
      BY <1>1, <3>1, ElementOfSeq
  <2> HIDE DEF h
  <2> DEFINE more == Append(b, h)
  <2>2. more \in Seq(Hashes) /\ Len(more) = Len(b) + 1
    BY <1>2, <2>1, AppendProperties
  <2>3. Follows(seen[id], more, origin[id], heads)
    <3>1. origin[id] + Len(seen[id]) + Len(b) = Len(heads) - 1 /\ Follows(seen[id], b, origin[id], heads)
      BY <1>1 DEF SubscriberOK, b
    <3> QED
      BY <1>1, <1>2, <3>1, FollowsSend DEF h
  <2> HIDE DEF more
  <2>4. chans' = [chans EXCEPT ![id] = [buf |-> more, closed |-> c]] /\ subs' = subs
    <3>1. chans' = [chans EXCEPT ![id].buf = Append(@, h)]
      BY <1>1, <1>5 DEF Send
    <3>2. [chans[id] EXCEPT !.buf = more] = [buf |-> more, closed |-> c]
      BY <1>2, <2>2, ChannelUpdate DEF c
    <3> QED
      BY <1>2, <1>5, <3>1, <3>2 DEF Send, more, b
  <2>5. chans'[id].buf = more /\ chans'[id].closed = c
    BY <1>1, <1>2, <2>4 DEF FeedShape
  <2>6. SubscriberOK(id)'
    <3>1. Len(b) < HeadSubBuffer /\ Len(b) \in Nat /\ HeadSubBuffer \in Nat
      BY <1>2, <1>5, FeedAssumption DEF Send, HasRoom, b
    <3>2. Len(more) <= HeadSubBuffer
      BY <2>2, <3>1
    <3>3. origin[id] + Len(seen[id]) + Len(more) = Len(heads)
      BY <1>1, <1>2, <2>2 DEF SubscriberOK, b
    <3> QED
      BY <1>1, <1>3, <2>3, <2>4, <2>5, <3>2, <3>3 DEF SubscriberOK, b, c
  <2> QED
    BY <1>1, <1>2, <1>3, <1>4, <2>2, <2>4, <2>6, OneSubscriber DEF FeedInv
<1>6. CASE Drop(id)
  <2>1. chans' = [chans EXCEPT ![id] = [buf |-> b, closed |-> TRUE]] /\ subs' = subs \ {id}
    <3>1. [chans[id] EXCEPT !.closed = TRUE] = [buf |-> b, closed |-> TRUE]
      BY <1>2, ChannelUpdate DEF b
    <3> QED
      BY <1>2, <1>6, <3>1 DEF Drop
  <2>2. chans'[id].buf = b /\ chans'[id].closed = TRUE
    BY <1>1, <1>2, <2>1 DEF FeedShape
  <2>3. SubscriberOK(id)'
    BY <1>1, <1>3, <2>1, <2>2 DEF SubscriberOK, b
  <2> QED
    BY <1>1, <1>2, <1>3, <1>4, <2>1, <2>3, OneSubscriber DEF FeedInv
<1> QED
  BY <1>5, <1>6 DEF Notify

LEMMA UnsubscribeKeeps ==
    ASSUME FeedInv, NEW id \in Ids, Unsubscribe(id)
    PROVE  FeedInv'
<1> DEFINE b == chans[id].buf
<1>1. FeedShape /\ SubscriberOK(id) /\ notice.to = {}
  BY DEF FeedInv, SubscribersOK, Unsubscribe, Unlocked
<1>2. /\ chans[id] \in Channels /\ b \in Seq(Hashes) /\ seen[id] \in Seq(Hashes)
      /\ id \in 1 .. Len(chans) /\ id \in 1 .. Len(seen)
  BY <1>1, SubscriberTypes
<1>3. /\ UNCHANGED <<chainVars, subSeq, heads, origin, seen, ended, notice>>
      /\ subs' = subs \ {id} /\ left' = left \cup {id}
      /\ notice \in [head : Hashes, to : SUBSET Ids]
  BY <1>1 DEF Unsubscribe, FeedShape
<1>4. seen' = [seen EXCEPT ![id] = seen[id]]
  BY <1>1, <1>2, <1>3 DEF FeedShape
<1>5. chans' = [chans EXCEPT ![id] = [buf |-> b, closed |-> TRUE]]
  <2>1. [chans[id] EXCEPT !.closed = TRUE] = [buf |-> b, closed |-> TRUE]
    BY <1>2, ChannelUpdate
  <2> QED
    BY <1>2, <2>1 DEF Unsubscribe
<1>6. chans'[id].buf = b /\ chans'[id].closed = TRUE
  BY <1>1, <1>2, <1>5 DEF FeedShape
<1>7. SubscriberOK(id)'
  BY <1>1, <1>3, <1>6 DEF SubscriberOK
<1> HIDE DEF b
<1> QED
  BY <1>1, <1>2, <1>3, <1>4, <1>5, <1>7, OneSubscriber DEF FeedInv

LEMMA ConsumeKeeps ==
    ASSUME FeedInv, NEW id \in Ids, Consume(id)
    PROVE  FeedInv'
<1> DEFINE b == chans[id].buf
           c == chans[id].closed
           got == Append(seen[id], Head(b))
           rest == Tail(b)
<1>1. /\ FeedShape /\ SubscriberOK(id) /\ heads \in Seq(Hashes)
      /\ notice \in [head : Hashes, to : SUBSET Ids] /\ notice.to \subseteq subs
  BY DEF FeedInv, SubscribersOK, FeedShape
<1>2. /\ chans[id] \in Channels
      /\ chans[id] = [buf |-> b, closed |-> c] /\ b \in Seq(Hashes) /\ c \in BOOLEAN
      /\ seen[id] \in Seq(Hashes) /\ origin[id] \in Nat
      /\ id \in 1 .. Len(chans) /\ id \in 1 .. Len(seen)
  BY <1>1, SubscriberTypes, ChannelUpdate
<1>3. CASE Receive(id)
  <2>1. /\ UNCHANGED <<chainVars, subs, subSeq, notice, heads, origin, ended, left>>
        /\ seen' = [seen EXCEPT ![id] = got] /\ b # <<>>
    BY <1>3 DEF Receive
  <2>2. chans' = [chans EXCEPT ![id] = [buf |-> rest, closed |-> c]]
    <3>1. [chans[id] EXCEPT !.buf = rest] = [buf |-> rest, closed |-> c]
      BY <1>2, <2>1, HeadTailProperties, ChannelUpdate
    <3> QED
      BY <1>2, <1>3, <3>1 DEF Receive
  <2>3. /\ Follows(got, rest, origin[id], heads) /\ got \in Seq(Hashes) /\ rest \in Seq(Hashes)
        /\ Len(got) = Len(seen[id]) + 1 /\ Len(rest) = Len(b) - 1
    BY <1>1, <1>2, <2>1, FollowsReceive DEF SubscriberOK
  <2> HIDE DEF b, c, got, rest
  <2>4. chans'[id].buf = rest /\ chans'[id].closed = c /\ seen'[id] = got
    BY <1>1, <1>2, <2>1, <2>2 DEF FeedShape
  <2>5. SubscriberOK(id)'
    <3>1. Len(b) \in Nat /\ Len(seen[id]) \in Nat
      BY <1>2
    <3>2. Len(rest) <= HeadSubBuffer
      BY <1>1, <2>3, <3>1, FeedAssumption DEF SubscriberOK, b
    <3>3. Len(got) = Len(seen[id]) + 1 /\ Len(rest) = Len(b) - 1 /\ origin[id] \in Nat
      BY <1>2, <2>3
    <3>4. origin[id] + Len(got) + Len(rest) = origin[id] + Len(seen[id]) + Len(b)
      BY <3>1, <3>3
    <3> QED
      BY <1>1, <2>1, <2>3, <2>4, <3>2, <3>4 DEF SubscriberOK, b, c
  <2> QED
    BY <1>1, <1>2, <2>1, <2>2, <2>3, <2>5, OneSubscriber DEF FeedInv
<1>4. CASE ReceiveEnd(id)
  <2>1. /\ UNCHANGED <<chainVars, subs, subSeq, chans, notice, heads, origin, seen, left>>
        /\ ended' = ended \cup {id}
    BY <1>4 DEF ReceiveEnd, feedVars
  <2>2. chans' = [chans EXCEPT ![id] = [buf |-> b, closed |-> c]]
        /\ seen' = [seen EXCEPT ![id] = seen[id]]
    BY <1>1, <1>2, <2>1 DEF FeedShape
  <2>3. SubscriberOK(id)'
    BY <1>1, <2>1 DEF SubscriberOK
  <2> HIDE DEF b, c
  <2> QED
    BY <1>1, <1>2, <2>1, <2>2, <2>3, OneSubscriber DEF FeedInv
<1> QED
  BY <1>3, <1>4 DEF Consume

\* A new subscriber is owed what will be announced from now on.
LEMMA SubscribeKeeps ==
    ASSUME FeedInv, SubscribeHeads
    PROVE  FeedInv'
<1> PICK k : k = subSeq + 1
  OBVIOUS
<1> DEFINE new == [buf |-> <<>>, closed |-> FALSE]
<1>1. /\ FeedShape /\ notice.to = {} /\ subSeq \in Nat /\ subSeq < MaxSubs /\ MaxSubs \in Nat
      /\ heads \in Seq(Hashes)
  BY FeedAssumption DEF FeedInv, FeedShape, SubscribeHeads, Unlocked
<1>2. /\ UNCHANGED <<chainVars, notice, heads, ended, left>>
      /\ subSeq' = k /\ subs' = subs \cup {k}
      /\ chans' = Append(chans, new) /\ origin' = Append(origin, Len(heads))
      /\ seen' = Append(seen, <<>>)
  BY DEF SubscribeHeads
<1>3. Ids' = Ids \cup {k} /\ k \notin Ids /\ k \in 0 .. MaxSubs
  BY <1>1, <1>2 DEF Ids
<1>4. new \in Channels /\ <<>> \in Seq(Hashes)
  BY DEF Channels
<1> HIDE DEF new
<1>5. /\ chans' \in Seq(Channels) /\ Len(chans') = k /\ chans'[k] = new
      /\ \A j \in Ids : chans'[j] = chans[j]
  BY <1>1, <1>2, <1>4, AppendProperties DEF FeedShape, Ids
<1>6. /\ seen' \in Seq(Seq(Hashes)) /\ Len(seen') = k /\ seen'[k] = <<>>
      /\ \A j \in Ids : seen'[j] = seen[j]
  BY <1>1, <1>2, <1>4, AppendProperties DEF FeedShape, Ids
<1>7. /\ origin' \in Seq(Nat) /\ Len(origin') = k /\ origin'[k] = Len(heads)
      /\ \A j \in Ids : origin'[j] = origin[j]
  BY <1>1, <1>2, AppendProperties DEF FeedShape, Ids
<1>8. FeedShape'
  BY <1>1, <1>2, <1>3, <1>5, <1>6, <1>7 DEF FeedShape
<1>9. IInv' /\ Latest'
  BY <1>2, StepPreservesIInv DEF FeedInv, Latest, chainVars
<1>10. ASSUME NEW id \in Ids PROVE SubscriberOK(id)'
  BY <1>1, <1>2, <1>3, <1>5, <1>6, <1>7 DEF FeedInv, SubscribersOK, SubscriberOK
<1>11. SubscriberOK(k)'
  <2>1. chans'[k].buf = <<>> /\ chans'[k].closed = FALSE
    BY <1>5 DEF new
  <2>2. Len(<<>>) = 0 /\ Len(heads) \in Nat /\ k \notin left /\ 0 <= HeadSubBuffer
    BY <1>1, <1>3, FeedAssumption DEF FeedShape
  <2>3. Follows(<<>>, <<>>, Len(heads), heads)
    BY <2>2, FollowsNothing
  <2>4. Len(heads) + Len(<<>>) + Len(<<>>) = Len(heads)
    BY <2>2
  <2>5. /\ seen'[k] = <<>> /\ origin'[k] = Len(heads) /\ heads' = heads /\ k \notin notice'.to
        /\ k \in subs' /\ k \notin left'
    BY <1>1, <1>2, <1>6, <1>7, <2>2
  <2> QED
    BY <2>1, <2>2, <2>3, <2>4, <2>5 DEF SubscriberOK
<1> QED
  BY <1>3, <1>8, <1>9, <1>10, <1>11 DEF FeedInv, SubscribersOK

LEMMA FeedNextInv == FeedInv /\ [FeedNext]_vars => FeedInv'
<1> SUFFICES ASSUME FeedInv, [FeedNext]_vars PROVE FeedInv'
  OBVIOUS
<1>1. CASE UNCHANGED vars
  <2>1. IInv'
    BY <1>1, StepPreservesIInv DEF FeedInv, vars
  <2> QED
    BY <1>1, <2>1 DEF vars, feedVars, history, chainVars, FeedInv, FeedShape, Latest,
       SubscribersOK, SubscriberOK, Ids
<1> QED
  BY <1>1, WriteKeeps, SubscribeKeeps, NotifyKeeps, UnsubscribeKeeps, ConsumeKeeps DEF FeedNext

LEMMA FeedInvariant == FeedSpec => []FeedInv
BY FeedInitInv, FeedNextInv, PTL DEF FeedSpec

(***************************************************************************)
(* The theorems                                                            *)
(***************************************************************************)

\* The subscriptions' state keeps its type: a channel for every id given out, and
\* none that holds more than its capacity (events.go:3-15).
THEOREM FeedTypes == FeedSpec => []FeedTypeOK
<1>1. ASSUME FeedInv PROVE FeedTypeOK
  <2>1. FeedShape /\ TypeOK
    BY <1>1 DEF FeedInv, IInv
  <2>2. DOMAIN chans = Ids /\ DOMAIN seen = Ids /\ DOMAIN origin = Ids
    BY <2>1 DEF FeedShape, Ids
  <2>3. ASSUME NEW id \in Ids
        PROVE  /\ chans[id].buf \in Seq(Hashes) /\ Len(chans[id].buf) <= HeadSubBuffer
               /\ chans[id].closed \in BOOLEAN
               /\ seen[id] \in Seq(Hashes)
    BY <1>1, SubscriberTypes DEF FeedInv, SubscribersOK, SubscriberOK
  <2>4. ASSUME NEW id \in Ids PROVE origin[id] \in 0 .. Len(heads)
    <3>1. /\ origin[id] \in Nat /\ Len(seen[id]) \in Nat /\ Len(chans[id].buf) \in Nat
          /\ Len(heads) \in Nat
          /\ origin[id] + Len(seen[id]) + Len(chans[id].buf) <= Len(heads)
      BY <1>1, <2>1, SubscriberTypes DEF FeedInv, FeedShape, SubscribersOK, SubscriberOK, Follows
    <3> QED
      BY <3>1
  <2> QED
    BY <2>1, <2>2, <2>3, <2>4 DEF FeedTypeOK, FeedShape
<1> QED
  BY <1>1, FeedInvariant, PTL

\* A channel is open exactly while it is registered, so that nothing is sent into
\* a closed one and none is closed twice (events.go:17-37).
THEOREM OpenIffRegistered == FeedSpec => []RegisteredIffOpen
<1>1. FeedInv => RegisteredIffOpen
  BY DEF FeedInv, SubscribersOK, SubscriberOK, RegisteredIffOpen
<1> QED
  BY <1>1, FeedInvariant, PTL

\* A subscriber gets the announced heads without gap, repetition or reordering,
\* and a registered one all of them (events.go:17-39).
THEOREM GapFree == FeedSpec => []NoGap
<1>1. ASSUME FeedInv PROVE NoGap
  <2> SUFFICES ASSUME NEW id \in Ids
               PROVE  LET got  == seen[id] \o chans[id].buf
                          upTo == origin[id] + Len(got)
                      IN  /\ upTo <= Len(heads)
                          /\ got = SubSeq(heads, origin[id] + 1, upTo)
                          /\ id \in subs
                               => upTo = Len(heads) - (IF id \in notice.to THEN 1 ELSE 0)
    BY DEF NoGap
  <2>1. /\ seen[id] \in Seq(Hashes) /\ chans[id].buf \in Seq(Hashes) /\ origin[id] \in Nat
        /\ heads \in Seq(Hashes) /\ SubscriberOK(id)
    BY <1>1, SubscriberTypes DEF FeedInv, FeedShape, SubscribersOK
  <2>2. Follows(seen[id], chans[id].buf, origin[id], heads)
    BY <2>1 DEF SubscriberOK
  <2>3. id \in subs => origin[id] + Len(seen[id]) + Len(chans[id].buf)
                         = Len(heads) - (IF id \in notice.to THEN 1 ELSE 0)
    BY <2>1 DEF SubscriberOK
  <2> DEFINE got  == seen[id] \o chans[id].buf
             upTo == origin[id] + Len(got)
  <2>4. upTo = origin[id] + Len(seen[id]) + Len(chans[id].buf)
    BY <2>1, <2>2, FollowsIsSubSeq
  <2>5. upTo <= Len(heads) /\ got = SubSeq(heads, origin[id] + 1, upTo)
    BY <2>1, <2>2, FollowsIsSubSeq
  <2>6. id \in subs => upTo = Len(heads) - (IF id \in notice.to THEN 1 ELSE 0)
    BY <2>3, <2>4
  <2> HIDE DEF got, upTo
  <2> QED
    BY <2>5, <2>6 DEF got, upTo
<1> QED
  BY <1>1, FeedInvariant, PTL

\* A registered subscriber that has read everything knows the head
\* (driver.go:104-105, 171-172).
THEOREM KnowsHead == FeedSpec => []CaughtUpKnowsHead
<1>1. ASSUME FeedInv PROVE CaughtUpKnowsHead
  <2> SUFFICES ASSUME NEW id \in subs \ notice.to, chans[id].buf = <<>>, seen[id] # <<>>
               PROVE  seen[id][Len(seen[id])] = current.head
    BY DEF CaughtUpKnowsHead
  <2>1. id \in Ids /\ FeedShape /\ SubscriberOK(id) /\ heads \in Seq(Hashes)
    BY <1>1 DEF FeedInv, FeedShape, SubscribersOK
  <2>2. seen[id] \in Seq(Hashes) /\ origin[id] \in Nat
    BY <2>1, SubscriberTypes
  <2>3. /\ Len(seen[id]) \in 1 .. Len(seen[id]) /\ Len(chans[id].buf) = 0
        /\ origin[id] + Len(seen[id]) + Len(chans[id].buf) = Len(heads)
    BY <2>1, <2>2 DEF SubscriberOK
  <2>4. seen[id][Len(seen[id])] = heads[origin[id] + Len(seen[id])]
    BY <2>1, <2>3 DEF SubscriberOK, Follows
  <2>5. origin[id] + Len(seen[id]) = Len(heads) /\ heads # <<>>
    BY <2>1, <2>2, <2>3
  <2> QED
    BY <1>1, <2>4, <2>5 DEF FeedInv, Latest
<1> QED
  BY <1>1, FeedInvariant, PTL


(***************************************************************************)
(* The implementation of HeadSource                                        *)
(***************************************************************************)

Seen == [id \in 1 .. MaxSubs |-> Stream(id)]

StreamType == [state : Source!States, buffered : Nat]

LEMMA StreamUpdate ==
    ASSUME NEW r \in StreamType
    PROVE  /\ \A s \in Source!States :
                 [r EXCEPT !.state = s] = [state |-> s, buffered |-> r.buffered]
           /\ \A n \in Nat : [r EXCEPT !.buffered = n] = [state |-> r.state, buffered |-> n]
<1>1. \A s \in Source!States : [r EXCEPT !.state = s] = [state |-> s, buffered |-> r.buffered]
  BY DEF StreamType
<1>2. \A n \in Nat : [r EXCEPT !.buffered = n] = [state |-> r.state, buffered |-> n]
  BY DEF StreamType
<1> QED
  BY <1>1, <1>2

\* What the transport sees of a subscription that was given out.
LEMMA StreamOf ==
    ASSUME FeedInv, NEW id \in Ids
    PROVE  /\ id \in 1 .. MaxSubs
           /\ Seen[id] = Stream(id) /\ Stream(id) \in StreamType
           /\ Stream(id).buffered = Len(chans[id].buf)
           /\ id \in subs => Stream(id).state = "open"
           /\ id \notin subs => Stream(id).state = IF id \in left THEN "closed" ELSE "dropped"
<1>1. id \in 1 .. MaxSubs
  BY FeedAssumption DEF FeedInv, FeedShape, Ids
<1>2. Len(chans[id].buf) \in Nat /\ SubscriberOK(id)
  BY SubscriberTypes DEF FeedInv, SubscribersOK
<1>3. Seen[id] = Stream(id)
  BY <1>1 DEF Seen
<1>4. /\ Stream(id).buffered = Len(chans[id].buf)
      /\ Stream(id).state = IF ~chans[id].closed THEN "open"
                            ELSE IF id \in left THEN "closed" ELSE "dropped"
  BY DEF Stream
<1>5. Stream(id) \in StreamType
  BY <1>2 DEF Stream, StreamType, Source!States
<1> QED
  BY <1>1, <1>2, <1>3, <1>4, <1>5 DEF SubscriberOK

\* One subscription is seen to change.
LEMMA SeenUpdate ==
    ASSUME NEW id \in 1 .. MaxSubs,
           \A j \in 1 .. MaxSubs : j # id => Stream(j)' = Stream(j)
    PROVE  Seen' = [Seen EXCEPT ![id] = Stream(id)']
BY DEF Seen

\* The channel of one subscription changes, or only its place in the map.
LEMMA OthersSeenAlike ==
    ASSUME FeedInv, NEW id \in Ids, subSeq' = subSeq, NEW buf, NEW closed,
           chans' = [chans EXCEPT ![id] = [buf |-> buf, closed |-> closed]],
           left' = left \/ left' = left \cup {id}
    PROVE  /\ Seen' = [Seen EXCEPT ![id] = Stream(id)']
           /\ Stream(id)' = [state    |-> IF ~closed THEN "open"
                                          ELSE IF id \in left' THEN "closed" ELSE "dropped",
                             buffered |-> Len(buf)]
<1>1. Ids' = Ids /\ id \in 1 .. MaxSubs
  BY StreamOf DEF Ids
<1>2. /\ chans'[id] = [buf |-> buf, closed |-> closed]
      /\ \A j \in Ids : j # id => chans'[j] = chans[j]
  BY DEF FeedInv, FeedShape, Ids
<1>3. \A j \in 1 .. MaxSubs : j # id => Stream(j)' = Stream(j)
  BY <1>1, <1>2 DEF Stream
<1>4. Seen' = [Seen EXCEPT ![id] = Stream(id)']
  BY <1>1, <1>3, SeenUpdate
<1>5. chans'[id].buf = buf /\ chans'[id].closed = closed
  BY <1>2
<1> QED
  BY <1>1, <1>4, <1>5 DEF Stream

LEMMA SendIsPush ==
    ASSUME FeedInv, NEW id \in Ids, Notify(id), Send(id)
    PROVE  Source!Push(id)
<1> DEFINE b == chans[id].buf
           c == chans[id].closed
           more == Append(b, notice.head)
<1>1. /\ id \in subs /\ FeedShape /\ SubscriberOK(id) /\ notice.head \in Hashes
      /\ chans[id] \in Channels /\ b \in Seq(Hashes) /\ c = FALSE
  <2>1. /\ FeedShape /\ SubscriberOK(id) /\ id \in subs /\ notice.head \in Hashes
    BY DEF FeedInv, SubscribersOK, FeedShape, Notify
  <2>2. c = FALSE
    BY <2>1 DEF SubscriberOK
  <2> QED
    BY <2>1, <2>2, SubscriberTypes
<1>2. more \in Seq(Hashes) /\ Len(more) = Len(b) + 1 /\ Len(b) \in Nat
  BY <1>1, AppendProperties
<1>3. chans' = [chans EXCEPT ![id] = [buf |-> more, closed |-> c]]
  <2>1. [chans[id] EXCEPT !.buf = more] = [buf |-> more, closed |-> c]
    BY <1>1, <1>2, ChannelUpdate
  <2> QED
    BY <2>1 DEF Send
<1>4. Len(b) < HeadSubBuffer /\ subSeq' = subSeq /\ left' = left
  BY DEF Send, HasRoom, Notify, history
<1> HIDE DEF b, c, more
<1>5. /\ Seen' = [Seen EXCEPT ![id] = Stream(id)']
      /\ Stream(id)' = [state |-> "open", buffered |-> Len(b) + 1]
  BY <1>1, <1>2, <1>3, <1>4, OthersSeenAlike
<1>6. /\ Seen[id] \in StreamType /\ Seen[id].state = "open" /\ Seen[id].buffered = Len(b)
      /\ id \in 1 .. MaxSubs
  BY <1>1, StreamOf DEF b
<1>7. [Seen[id] EXCEPT !.buffered = Len(b) + 1] = Stream(id)'
  BY <1>2, <1>5, <1>6, StreamUpdate
<1>8. Seen' = [Seen EXCEPT ![id].buffered = @ + 1]
  BY <1>5, <1>6, <1>7
<1> QED
  BY <1>4, <1>6, <1>8 DEF Source!Push, Source!IsOpen, Seen

LEMMA DropIsOverflow ==
    ASSUME FeedInv, NEW id \in Ids, Notify(id), Drop(id)
    PROVE  Source!Overflow(id)
<1> DEFINE b == chans[id].buf
<1>1. /\ id \in subs /\ id \notin left /\ SubscriberOK(id)
      /\ chans[id] \in Channels /\ b \in Seq(Hashes) /\ Len(b) \in Nat
  <2>1. FeedShape /\ SubscriberOK(id) /\ id \in subs
    BY DEF FeedInv, SubscribersOK, FeedShape, Notify
  <2>2. id \notin left
    BY <2>1 DEF SubscriberOK
  <2>3. chans[id] \in Channels /\ b \in Seq(Hashes)
    BY <2>1, SubscriberTypes
  <2> HIDE DEF b
  <2> QED
    BY <2>1, <2>2, <2>3
<1>2. chans' = [chans EXCEPT ![id] = [buf |-> b, closed |-> TRUE]]
  <2>1. [chans[id] EXCEPT !.closed = TRUE] = [buf |-> b, closed |-> TRUE]
    BY <1>1, ChannelUpdate
  <2> QED
    BY <2>1 DEF Drop
<1>3. Len(b) = HeadSubBuffer
  BY <1>1, FeedAssumption DEF Drop, HasRoom, SubscriberOK
<1>4. subSeq' = subSeq /\ left' = left
  BY DEF Notify, history
<1> HIDE DEF b
<1>5. /\ Seen' = [Seen EXCEPT ![id] = Stream(id)']
      /\ Stream(id)' = [state |-> "dropped", buffered |-> Len(b)]
  BY <1>1, <1>2, <1>4, OthersSeenAlike
<1>6. /\ Seen[id] \in StreamType /\ Seen[id].state = "open" /\ Seen[id].buffered = Len(b)
      /\ id \in 1 .. MaxSubs
  BY <1>1, StreamOf DEF b
<1>7. [Seen[id] EXCEPT !.state = "dropped"] = Stream(id)'
  BY <1>5, <1>6, StreamUpdate DEF Source!States
<1>8. Seen' = [Seen EXCEPT ![id].state = "dropped"]
  BY <1>5, <1>6, <1>7
<1> QED
  BY <1>3, <1>6, <1>8 DEF Source!Overflow, Source!IsOpen, Seen

LEMMA UnsubscribeIsUnsubscribe ==
    ASSUME FeedInv, NEW id \in Ids, Unsubscribe(id)
    PROVE  Source!Unsubscribe(id)
<1> DEFINE b == chans[id].buf
<1>1. /\ id \in subs /\ chans[id] \in Channels /\ b \in Seq(Hashes)
      /\ subSeq' = subSeq /\ left' = left \cup {id}
  BY SubscriberTypes DEF FeedInv, Unsubscribe
<1>2. chans' = [chans EXCEPT ![id] = [buf |-> b, closed |-> TRUE]]
  <2>1. [chans[id] EXCEPT !.closed = TRUE] = [buf |-> b, closed |-> TRUE]
    BY <1>1, ChannelUpdate
  <2> QED
    BY <2>1 DEF Unsubscribe
<1> HIDE DEF b
<1>3. /\ Seen' = [Seen EXCEPT ![id] = Stream(id)']
      /\ Stream(id)' = [state |-> "closed", buffered |-> Len(b)]
  BY <1>1, <1>2, OthersSeenAlike
<1>4. /\ Seen[id] \in StreamType /\ Seen[id].state = "open" /\ Seen[id].buffered = Len(b)
      /\ id \in 1 .. MaxSubs
  BY <1>1, StreamOf DEF b
<1>5. [Seen[id] EXCEPT !.state = "closed"] = Stream(id)'
  BY <1>3, <1>4, StreamUpdate DEF Source!States
<1>6. Seen' = [Seen EXCEPT ![id].state = "closed"]
  BY <1>3, <1>4, <1>5
<1> QED
  BY <1>4, <1>6 DEF Source!Unsubscribe, Source!IsOpen, Seen

LEMMA ReceiveIsReceive ==
    ASSUME FeedInv, NEW id \in Ids, Receive(id)
    PROVE  Source!Receive(id)
<1> DEFINE b == chans[id].buf
           c == chans[id].closed
           rest == Tail(b)
<1>1. /\ SubscriberOK(id) /\ chans[id] \in Channels /\ b \in Seq(Hashes) /\ c \in BOOLEAN
      /\ b # <<>> /\ subSeq' = subSeq /\ left' = left /\ subs' = subs
  BY SubscriberTypes DEF FeedInv, SubscribersOK, Receive
<1>2. rest \in Seq(Hashes) /\ Len(rest) = Len(b) - 1 /\ Len(b) \in Nat /\ Len(b) > 0
  BY <1>1, HeadTailProperties
<1>3. chans' = [chans EXCEPT ![id] = [buf |-> rest, closed |-> c]]
  <2>1. [chans[id] EXCEPT !.buf = rest] = [buf |-> rest, closed |-> c]
    BY <1>1, <1>2, ChannelUpdate
  <2> QED
    BY <2>1 DEF Receive
<1> HIDE DEF b, c, rest
<1>4. /\ Seen' = [Seen EXCEPT ![id] = Stream(id)']
      /\ Stream(id)' = [state    |-> IF ~c THEN "open"
                                     ELSE IF id \in left THEN "closed" ELSE "dropped",
                        buffered |-> Len(b) - 1]
  BY <1>1, <1>2, <1>3, OthersSeenAlike
<1>5. /\ Seen[id] \in StreamType /\ Seen[id] = Stream(id) /\ Seen[id].buffered = Len(b)
      /\ id \in 1 .. MaxSubs
  BY StreamOf DEF b
<1>6. Seen[id].state = IF ~c THEN "open" ELSE IF id \in left THEN "closed" ELSE "dropped"
  BY <1>5 DEF Stream, c
<1>7. [Seen[id] EXCEPT !.buffered = Len(b) - 1] = Stream(id)'
  BY <1>2, <1>4, <1>5, <1>6, StreamUpdate
<1>8. Seen' = [Seen EXCEPT ![id].buffered = @ - 1]
  BY <1>4, <1>5, <1>7
<1> QED
  BY <1>2, <1>5, <1>8 DEF Source!Receive, Seen

LEMMA SubscribeIsSubscribe ==
    ASSUME FeedInv, SubscribeHeads
    PROVE  \E id \in 1 .. MaxSubs : Source!SubscribeHeads(id)
<1> PICK k : k = subSeq + 1
  OBVIOUS
<1>1. /\ FeedShape /\ k \in 1 .. MaxSubs /\ k \notin Ids /\ subSeq' = k /\ Ids' = Ids \cup {k}
      /\ k \notin left /\ left' = left
  <2>1. FeedShape /\ subSeq \in Nat /\ subSeq < MaxSubs /\ MaxSubs \in Nat /\ subSeq' = k
        /\ left' = left
    BY FeedAssumption DEF FeedInv, FeedShape, SubscribeHeads
  <2>2. k \in 1 .. MaxSubs /\ k \notin Ids /\ Ids' = Ids \cup {k}
    BY <2>1 DEF Ids
  <2> QED
    BY <2>1, <2>2 DEF FeedShape
<1> DEFINE new == [buf |-> <<>>, closed |-> FALSE]
<1>2. new \in Channels /\ chans' = Append(chans, new)
  BY DEF SubscribeHeads, Channels
<1> HIDE DEF new
<1>3. chans'[k] = new /\ \A j \in Ids : chans'[j] = chans[j]
  BY <1>1, <1>2, AppendProperties DEF FeedShape, Ids
<1>4. \A j \in 1 .. MaxSubs : j # k => Stream(j)' = Stream(j)
  BY <1>1, <1>3 DEF Stream
<1>5. Stream(k)' = [state |-> "open", buffered |-> 0]
  BY <1>1, <1>3 DEF Stream, new
<1>6. Seen' = [Seen EXCEPT ![k] = Stream(k)']
  BY <1>1, <1>4, SeenUpdate
<1>7. Seen[k] = Stream(k) /\ Stream(k) = [state |-> "unused", buffered |-> 0]
  BY <1>1 DEF Seen, Stream
<1>8. Seen[k] \in StreamType /\ Seen[k].state = "unused" /\ Seen[k].buffered = 0
  BY <1>7 DEF StreamType, Source!States
<1>9. [Seen[k] EXCEPT !.state = "open"] = Stream(k)'
  BY <1>5, <1>8, StreamUpdate DEF Source!States
<1>10. Seen' = [Seen EXCEPT ![k].state = "open"]
  BY <1>6, <1>9
<1> QED
  BY <1>1, <1>8, <1>10 DEF Source!SubscribeHeads, Seen

\* Nothing else of a subscription is seen to change.
LEMMA SeenUnchanged ==
    ASSUME UNCHANGED <<subSeq, chans, left>>
    PROVE  Seen' = Seen
BY DEF Seen, Stream, Ids

LEMMA StepIsSourceStep ==
    ASSUME FeedInv, [FeedNext]_vars
    PROVE  Source!SourceNext \/ Seen' = Seen
<1>1. ASSUME NEW id \in Ids,
             Source!Push(id) \/ Source!Overflow(id) \/ Source!Unsubscribe(id) \/ Source!Receive(id)
      PROVE  Source!SourceNext
  BY <1>1, StreamOf DEF Source!SourceNext, Source!SubIds
<1>2. CASE Write
  BY <1>2, SeenUnchanged DEF Write, FeedProduceBlock, FeedReorg, FeedFinalize, Announce, feedVars,
     history
<1>3. CASE SubscribeHeads
  BY <1>3, SubscribeIsSubscribe DEF Source!SourceNext, Source!SubIds
<1>4. ASSUME NEW id \in Ids, Notify(id) PROVE Source!SourceNext
  BY <1>1, <1>4, SendIsPush, DropIsOverflow DEF Notify
<1>5. ASSUME NEW id \in Ids, Unsubscribe(id) PROVE Source!SourceNext
  BY <1>1, <1>5, UnsubscribeIsUnsubscribe
<1>6. ASSUME NEW id \in Ids, Consume(id) PROVE Source!SourceNext \/ Seen' = Seen
  BY <1>1, <1>6, ReceiveIsReceive, SeenUnchanged DEF Consume, ReceiveEnd, feedVars
<1>7. CASE UNCHANGED vars
  BY <1>7, SeenUnchanged DEF vars, feedVars, history
<1> QED
  BY <1>2, <1>3, <1>4, <1>5, <1>6, <1>7 DEF FeedNext

\* The driver keeps the promise the transport is built on (server.go:15-19,
\* events.go:5-39).
THEOREM HeadSourceImplemented == FeedSpec => ImplementsHeadSource
<1>1. FeedInit => Source!SourceInit
  BY DEF FeedInit, Source!SourceInit, Source!SubIds, Source!Unused, Stream, Ids
<1>2. FeedInv /\ [FeedNext]_vars => [Source!SourceNext]_Seen
  BY StepIsSourceStep
<1> QED
  BY <1>1, <1>2, FeedInvariant, PTL DEF FeedSpec, ImplementsHeadSource, Source!SourceSpec, Seen
=============================================================================

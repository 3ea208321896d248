----------------------------- MODULE EngineProofs -----------------------------
(***************************************************************************)
(* Theorems about Engine, for every scenario that validation accepts.      *)
(***************************************************************************)
EXTENDS Engine, ChainProofs

(***************************************************************************)
(* The outcomes of a timeline's beginnings                                 *)
(***************************************************************************)

\* v is the model of the chain that validate goes through in n events.
Plays(v, events, n) ==
    v = [k \in 0 .. n |-> IF k = 0 THEN Start ELSE After(v[k - 1], events[k])]

LEMMA PlaysExist ==
    ASSUME NEW events, NEW n \in Nat
    PROVE  \E v : Plays(v, events, n)
<1> DEFINE Bad == {k \in Nat : ~ \E v : Plays(v, events, k)}
<1>1. SUFFICES ASSUME Bad # {} PROVE FALSE
  OBVIOUS
<1> DEFINE m == Min(Bad)
<1>2. m \in Bad /\ \A k \in Bad : m <= k
  BY <1>1, MinFacts
<1> HIDE DEF m
<1>3. m # 0
  <2>1. Plays([k \in 0 .. 0 |-> Start], events, 0)
    BY DEF Plays
  <2> QED
    BY <1>2, <2>1
<1>4. m \in Nat /\ m - 1 \in Nat /\ ~(m <= m - 1)
  BY <1>2, <1>3
<1>5. PICK v : Plays(v, events, m - 1)
  BY <1>2, <1>4
<1> DEFINE w == [k \in 0 .. m |-> IF k = m THEN After(v[m - 1], events[m]) ELSE v[k]]
<1>6. ASSUME NEW k \in 0 .. m
      PROVE  w[k] = IF k = 0 THEN Start ELSE After(w[k - 1], events[k])
  <2>1. CASE k = m
    BY <1>4, <2>1
  <2>2. CASE k # m
    <3>1. k \in 0 .. m - 1 /\ w[k] = v[k]
      BY <1>4, <2>2
    <3>2. v[k] = IF k = 0 THEN Start ELSE After(v[k - 1], events[k])
      BY <1>5, <3>1 DEF Plays
    <3>3. k # 0 => w[k - 1] = v[k - 1]
      BY <1>4, <3>1
    <3> QED
      BY <3>1, <3>2, <3>3
  <2> QED
    BY <2>1, <2>2
<1>7. Plays(w, events, m)
  <2> DEFINE u == [k \in 0 .. m |-> IF k = 0 THEN Start ELSE After(w[k - 1], events[k])]
  <2>1. \A k \in 0 .. m : w[k] = u[k]
    BY <1>6
  <2>2. w = u
    BY <2>1
  <2> QED
    BY <2>2 DEF Plays
<1> QED
  BY <1>2, <1>7

\* It is the same model as far as the events are the same.
LEMMA PlaysAgree ==
    ASSUME NEW n \in Nat, NEW v, NEW events, Plays(v, events, n),
           NEW m \in Nat, NEW w, NEW others, Plays(w, others, m),
           n <= m, \A k \in 1 .. n : events[k] = others[k]
    PROVE  \A k \in 0 .. n : v[k] = w[k]
<1> DEFINE Bad == {k \in 0 .. n : v[k] # w[k]}
<1>1. SUFFICES ASSUME Bad # {} PROVE FALSE
  OBVIOUS
<1> DEFINE j == Min(Bad)
<1>2. j \in Bad /\ \A k \in Bad : j <= k
  BY <1>1, MinFacts
<1> HIDE DEF j
<1>3. j \in 0 .. n /\ j \in 0 .. m
  BY <1>2
<1>4. /\ v[j] = IF j = 0 THEN Start ELSE After(v[j - 1], events[j])
      /\ w[j] = IF j = 0 THEN Start ELSE After(w[j - 1], others[j])
  BY <1>3 DEF Plays
<1>5. j # 0
  BY <1>2, <1>4
<1>6. j - 1 \in 0 .. n /\ ~(j <= j - 1) /\ j \in 1 .. n
  BY <1>3, <1>5
<1>7. v[j - 1] = w[j - 1]
  BY <1>2, <1>6
<1> QED
  BY <1>2, <1>4, <1>6, <1>7

LEMMA OutcomeIs ==
    ASSUME NEW events, Len(events) \in Nat
    PROVE  \E v : Plays(v, events, Len(events)) /\ Outcome(events) = v[Len(events)]
<1> DEFINE v == CHOOSE v : v = [n \in 0 .. Len(events) |->
                                  IF n = 0 THEN Start ELSE After(v[n - 1], events[n])]
<1>1. Plays(v, events, Len(events))
  BY PlaysExist DEF Plays
<1>2. Outcome(events) = v[Len(events)]
  BY DEF Outcome
<1> QED
  BY <1>1, <1>2

\* The chain that validate expects after the first k events.
Expected(events, k) == Outcome(SubSeq(events, 1, k))

LEMMA ExpectedFirst ==
    ASSUME NEW S, NEW events \in Seq(S)
    PROVE  Expected(events, 0) = Start
<1> DEFINE none == SubSeq(events, 1, 0)
<1>1. Len(none) \in Nat
  OBVIOUS
<1>3. Len(none) = 0
  OBVIOUS
<1> HIDE DEF none
<1>2. PICK v : Plays(v, none, Len(none)) /\ Outcome(none) = v[Len(none)]
  BY <1>1, OutcomeIs
<1>4. v[0] = Start
  BY <1>2, <1>3 DEF Plays
<1> QED
  BY <1>2, <1>3, <1>4 DEF Expected, none

LEMMA ExpectedNext ==
    ASSUME NEW S, NEW events \in Seq(S), NEW k \in 0 .. Len(events) - 1
    PROVE  Expected(events, k + 1) = After(Expected(events, k), events[k + 1])
<1> DEFINE less == SubSeq(events, 1, k)
           more == SubSeq(events, 1, k + 1)
<1>1. /\ Len(less) = k /\ Len(more) = k + 1 /\ k \in Nat /\ k + 1 \in Nat
      /\ more[k + 1] = events[k + 1]
  OBVIOUS
<1>2. \A i \in 1 .. k : less[i] = more[i]
  OBVIOUS
<1> HIDE DEF less, more
<1>3. PICK v : Plays(v, less, k) /\ Outcome(less) = v[k]
  BY <1>1, OutcomeIs
<1>4. PICK w : Plays(w, more, k + 1) /\ Outcome(more) = w[k + 1]
  BY <1>1, OutcomeIs
<1>5. v[k] = w[k]
  BY <1>1, <1>2, <1>3, <1>4, PlaysAgree
<1>6. w[k + 1] = After(w[k], more[k + 1])
  BY <1>1, <1>4 DEF Plays
<1> QED
  BY <1>1, <1>3, <1>4, <1>5, <1>6 DEF Expected, less, more

(***************************************************************************)
(* What was accepted                                                       *)
(***************************************************************************)

\* Every event passes its checks where it stands.
Passes(events) ==
    /\ events \in Seq(Events)
    /\ \A k \in 0 .. Len(events) - 1 : ValidEvent(Expected(events, k), events[k + 1])

\* Timelines of one event more, each passing after the timeline it continues.
Continued(shorter) ==
    UNION {{Append(events, e) : e \in {f \in Events : ValidEvent(Outcome(events), f)}} :
             events \in shorter}

Lists(t, n) == t = [k \in 0 .. n |-> IF k = 0 THEN {<<>>} ELSE Continued(t[k - 1])]

LEMMA ListsExist ==
    ASSUME NEW n \in Nat
    PROVE  \E t : Lists(t, n)
<1> DEFINE Bad == {k \in Nat : ~ \E t : Lists(t, k)}
<1>1. SUFFICES ASSUME Bad # {} PROVE FALSE
  OBVIOUS
<1> DEFINE m == Min(Bad)
<1>2. m \in Bad /\ \A k \in Bad : m <= k
  BY <1>1, MinFacts
<1> HIDE DEF m
<1>3. m # 0
  <2>1. Lists([k \in 0 .. 0 |-> {<<>>}], 0)
    BY DEF Lists
  <2> QED
    BY <1>2, <2>1
<1>4. m \in Nat /\ m - 1 \in Nat /\ ~(m <= m - 1)
  BY <1>2, <1>3
<1>5. PICK t : Lists(t, m - 1)
  BY <1>2, <1>4
<1> DEFINE w == [k \in 0 .. m |-> IF k = m THEN Continued(t[m - 1]) ELSE t[k]]
<1>6. ASSUME NEW k \in 0 .. m
      PROVE  w[k] = IF k = 0 THEN {<<>>} ELSE Continued(w[k - 1])
  <2>1. CASE k = m
    BY <1>4, <2>1
  <2>2. CASE k # m
    <3>1. k \in 0 .. m - 1 /\ w[k] = t[k]
      BY <1>4, <2>2
    <3>2. t[k] = IF k = 0 THEN {<<>>} ELSE Continued(t[k - 1])
      BY <1>5, <3>1 DEF Lists
    <3>3. k # 0 => w[k - 1] = t[k - 1]
      BY <1>4, <3>1
    <3> QED
      BY <3>1, <3>2, <3>3
  <2> QED
    BY <2>1, <2>2
<1>7. Lists(w, m)
  <2> DEFINE u == [k \in 0 .. m |-> IF k = 0 THEN {<<>>} ELSE Continued(w[k - 1])]
  <2>1. \A k \in 0 .. m : w[k] = u[k]
    BY <1>6
  <2>2. w = u
    BY <2>1
  <2> QED
    BY <2>2 DEF Lists
<1> QED
  BY <1>2, <1>7

LEMMA TimelinesList == Lists(Timelines, MaxEvents)
<1>1. \E t : Lists(t, MaxEvents)
  BY ListsExist, ScenarioAssumption
<1> QED
  BY <1>1 DEF Timelines, Lists, Continued

LEMMA ContinuedPasses ==
    ASSUME NEW events, Passes(events), NEW e \in Events, ValidEvent(Outcome(events), e)
    PROVE  Passes(Append(events, e))
<1> DEFINE more == Append(events, e)
           len  == Len(events)
<1>1. events \in Seq(Events) /\ len \in Nat
  BY DEF Passes
<1>2. more \in Seq(Events) /\ Len(more) = len + 1
  BY <1>1
<1>3. ASSUME NEW k \in 0 .. len
      PROVE  SubSeq(more, 1, k) = SubSeq(events, 1, k)
  <2>1. \A i \in 1 .. k : more[i] = events[i]
    BY <1>1
  <2>2. /\ SubSeq(more, 1, k) = [i \in 1 .. k |-> more[i]]
        /\ SubSeq(events, 1, k) = [i \in 1 .. k |-> events[i]]
    BY <1>1, <1>2
  <2> QED
    BY <2>1, <2>2
<1>4. SubSeq(events, 1, len) = events
  BY <1>1
<1>5. \A k \in 0 .. len : Expected(more, k) = Expected(events, k)
  BY <1>3 DEF Expected
<1>6. Expected(events, len) = Outcome(events)
  BY <1>4 DEF Expected
<1>7. more[len + 1] = e /\ \A i \in 1 .. len : more[i] = events[i]
  BY <1>1
<1>8. ASSUME NEW k \in 0 .. Len(more) - 1
      PROVE  ValidEvent(Expected(more, k), more[k + 1])
  <2>1. CASE k = len
    BY <1>1, <1>5, <1>6, <1>7, <2>1
  <2>2. CASE k # len
    <3>1. k \in 0 .. len - 1 /\ k + 1 \in 1 .. len /\ k \in 0 .. len
      BY <1>1, <1>2, <2>2
    <3>2. more[k + 1] = events[k + 1] /\ Expected(more, k) = Expected(events, k)
      BY <1>5, <1>7, <3>1
    <3>3. ValidEvent(Expected(events, k), events[k + 1])
      BY <3>1 DEF Passes
    <3> QED
      BY <3>2, <3>3
  <2> QED
    BY <2>1, <2>2
<1> QED
  BY <1>2, <1>8 DEF Passes

LEMMA TimelinesPass ==
    ASSUME NEW n \in 0 .. MaxEvents
    PROVE  \A events \in Timelines[n] : Passes(events)
<1> DEFINE Bad == {k \in 0 .. MaxEvents : ~ \A events \in Timelines[k] : Passes(events)}
<1>0. MaxEvents \in Nat
  BY ScenarioAssumption
<1>1. SUFFICES ASSUME Bad # {} PROVE FALSE
  OBVIOUS
<1> DEFINE m == Min(Bad)
<1>2. m \in Bad /\ \A k \in Bad : m <= k
  BY <1>0, <1>1, MinFacts
<1> HIDE DEF m
<1>3. m \in 0 .. MaxEvents
  BY <1>2
<1>4. Timelines[m] = IF m = 0 THEN {<<>>} ELSE Continued(Timelines[m - 1])
  <2>1. \A k \in 0 .. MaxEvents :
           Timelines[k] = IF k = 0 THEN {<<>>} ELSE Continued(Timelines[k - 1])
    <3> DEFINE t == Timelines
    <3>1. Lists(t, MaxEvents)
      BY TimelinesList
    <3> HIDE DEF t
    <3>2. \A k \in 0 .. MaxEvents : t[k] = IF k = 0 THEN {<<>>} ELSE Continued(t[k - 1])
      BY <3>1 DEF Lists
    <3> QED
      BY <3>2 DEF t
  <2> QED
    BY <1>3, <2>1
<1>5. CASE m = 0
  <2>1. Passes(<<>>)
    BY DEF Passes
  <2> QED
    BY <1>2, <1>4, <1>5, <2>1
<1>6. CASE m # 0
  <2>1. m - 1 \in 0 .. MaxEvents /\ ~(m <= m - 1)
    BY <1>0, <1>3, <1>6
  <2>2. \A events \in Timelines[m - 1] : Passes(events)
    BY <1>2, <2>1
  <2>3. ASSUME NEW longer \in Timelines[m] PROVE Passes(longer)
    <3>1. PICK events \in Timelines[m - 1] :
             longer \in {Append(events, e) : e \in {f \in Events : ValidEvent(Outcome(events), f)}}
      BY <1>4, <1>6 DEF Continued
    <3>2. PICK e \in Events : ValidEvent(Outcome(events), e) /\ longer = Append(events, e)
      BY <3>1
    <3> QED
      BY <2>2, <3>2, ContinuedPasses
  <2> QED
    BY <1>2, <2>3
<1> QED
  BY <1>5, <1>6

LEMMA MaxOfTwo ==
    ASSUME NEW a \in Nat, NEW b \in Nat
    PROVE  Max({a, b}) = IF a >= b THEN a ELSE b
BY DEF Max

\* The height that an event of the timeline finds is not below the one that
\* validate left, and the event never leaves the chain lower than it found it.
LEMMA EventRaises ==
    ASSUME NEW v, NEW e \in Events, ValidEvent(v, e),
           v.height \in Nat, v.finalized \in Nat, v.finalized <= v.height
    PROVE  /\ HeightFound(v, e) \in Nat /\ HeightFound(v, e) >= v.height
           /\ e.do # "produce" => HeightFound(v, e) = IF v.height >= e.at THEN v.height ELSE e.at
           /\ After(v, e).prevAt = e.at
           /\ After(v, e).height \in Nat /\ After(v, e).height >= HeightFound(v, e)
           /\ e.do = "produce" => /\ e.at > v.height /\ After(v, e).height = e.at
                                  /\ After(v, e).ids = v.ids \cup ToSet(e.txs)
           /\ e.do # "produce" => After(v, e).ids = v.ids
           /\ e.do = "reorg" => /\ e.length \in Nat
                                /\ After(v, e).height = e.forkFrom + e.length
           /\ e.do \notin {"produce", "reorg"} => After(v, e).height = HeightFound(v, e)
           /\ e.do = "finalize" => After(v, e).finalized = e.height
           /\ e.do # "finalize" => After(v, e).finalized = v.finalized
           /\ After(v, e).finalized \in Nat /\ After(v, e).finalized <= After(v, e).height
<1>1. /\ e.at \in Nat
      /\ e.do \in {"produce", "reorg", "finalize", "fault", "clear_faults"}
      /\ e.do = "finalize" => e.height \in Nat
      /\ e.do = "reorg" => e.forkFrom \in Nat /\ e.length \in Int
  BY EventAssumption
<1>2. /\ HeightFound(v, e) \in Nat /\ HeightFound(v, e) >= v.height
      /\ e.do # "produce" => HeightFound(v, e) = IF v.height >= e.at THEN v.height ELSE e.at
      /\ e.do = "produce" => HeightFound(v, e) = v.height
  BY <1>1, MaxOfTwo DEF HeightFound
<1> DEFINE found == HeightFound(v, e)
<1> HIDE DEF found
<1>3. CASE e.do = "produce"
  <2>1. e.at > v.height
    BY <1>3 DEF ValidEvent, ValidProduce
  <2> QED
    BY <1>1, <1>2, <1>3, <2>1 DEF After
<1>4. CASE e.do = "reorg"
  <2>1. e.length >= 1 /\ e.forkFrom + e.length > found
    BY <1>4 DEF ValidEvent, ValidReorg, found
  <2> QED
    BY <1>1, <1>2, <1>4, <2>1 DEF After, found
<1>5. CASE e.do = "finalize"
  <2>1. e.height \in v.finalized .. found
    BY <1>5 DEF ValidEvent, ValidFinalize, found
  <2> QED
    BY <1>1, <1>2, <1>5, <2>1 DEF After, found
<1>6. CASE e.do \in {"fault", "clear_faults"}
  BY <1>1, <1>2, <1>6 DEF After
<1> QED
  BY <1>1, <1>3, <1>4, <1>5, <1>6

\* What validate expects after k events, in numbers.
ExpectedOK(events, k) ==
    LET v == Expected(events, k)
    IN  /\ v.height \in Nat
        /\ v.finalized \in Nat /\ v.finalized <= v.height
        /\ v.prevAt = IF k = 0 THEN 0 ELSE events[k].at

LEMMA ExpectedNumbers ==
    ASSUME NEW events, Passes(events), NEW k \in 0 .. Len(events)
    PROVE  ExpectedOK(events, k)
<1> DEFINE Bad == {i \in 0 .. Len(events) : ~ExpectedOK(events, i)}
<1>0. events \in Seq(Events) /\ Len(events) \in Nat
  BY DEF Passes
<1>1. SUFFICES ASSUME Bad # {} PROVE FALSE
  OBVIOUS
<1> DEFINE m == Min(Bad)
<1>2. m \in Bad /\ \A i \in Bad : m <= i
  <2>1. Bad \subseteq Nat
    BY <1>0
  <2> HIDE DEF Bad
  <2> QED
    BY <1>1, <2>1, MinFacts
<1> HIDE DEF m
<1>3. m \in 0 .. Len(events)
  BY <1>2
<1>4. m # 0
  <2>1. ExpectedOK(events, 0)
    BY <1>0, ExpectedFirst DEF ExpectedOK, Start
  <2> QED
    BY <1>2, <2>1
<1> DEFINE n == m - 1
           v == Expected(events, n)
           e == events[n + 1]
<1>5. n \in 0 .. Len(events) - 1 /\ ~(m <= n) /\ n + 1 = m /\ n \in 0 .. Len(events)
  BY <1>0, <1>3, <1>4
<1> HIDE DEF n
<1>6. ExpectedOK(events, n)
  BY <1>2, <1>5
<1>7. e \in Events /\ ValidEvent(v, e)
  BY <1>0, <1>5 DEF Passes
<1>8. Expected(events, m) = After(v, e)
  BY <1>0, <1>5, ExpectedNext
<1>9. v.height \in Nat /\ v.finalized \in Nat /\ v.finalized <= v.height
  BY <1>6 DEF ExpectedOK
<1> HIDE DEF v, e
<1>10. /\ After(v, e).height \in Nat /\ After(v, e).finalized \in Nat
       /\ After(v, e).finalized <= After(v, e).height
       /\ After(v, e).prevAt = e.at
  BY <1>7, <1>9, EventRaises
<1>11. ExpectedOK(events, m)
  BY <1>4, <1>5, <1>8, <1>10 DEF ExpectedOK, e
<1> QED
  BY <1>2, <1>11

\* No later event leaves the chain lower.
LEMMA ExpectedRises ==
    ASSUME NEW events, Passes(events), NEW k \in 0 .. Len(events)
    PROVE  Expected(events, k).height <= Expected(events, Len(events)).height
<1> DEFINE len  == Len(events)
           H(i) == Expected(events, i).height
           Bad  == {d \in 0 .. len : H(len - d) > H(len)}
<1>0. events \in Seq(Events) /\ len \in Nat
  BY DEF Passes
<1> HIDE DEF len
<1>1. ASSUME Bad # {} PROVE FALSE
  <2> DEFINE m == Min(Bad)
  <2>1. m \in Bad /\ \A d \in Bad : m <= d
    <3>1. Bad \subseteq Nat
      BY <1>0
    <3> HIDE DEF Bad
    <3> QED
      BY <1>1, <3>1, MinFacts
  <2> HIDE DEF m
  <2>2. m \in 0 .. len /\ H(len) \in Nat
    <3>1. m \in 0 .. len
      BY <2>1
    <3>2. len \in 0 .. Len(events)
      BY <1>0 DEF len
    <3>3. ExpectedOK(events, len)
      BY <3>2, ExpectedNumbers
    <3> QED
      BY <3>1, <3>3 DEF ExpectedOK
  <2>3. m # 0
    BY <1>0, <2>1, <2>2
  <2> DEFINE n == len - m
             v == Expected(events, n)
             e == events[n + 1]
  <2>4. /\ n \in 0 .. len - 1 /\ n \in 0 .. len /\ m - 1 \in 0 .. len /\ ~(m <= m - 1)
        /\ n + 1 = len - (m - 1) /\ n + 1 \in 0 .. len
    BY <1>0, <2>2, <2>3
  <2>5. H(n + 1) <= H(len) /\ H(n + 1) \in Nat
    <3>1. H(n + 1) \in Nat
      BY <2>4, ExpectedNumbers DEF ExpectedOK, len
    <3>2. ~(H(n + 1) > H(len))
      BY <2>1, <2>4
    <3> QED
      BY <2>2, <3>1, <3>2
  <2>6. e \in Events /\ ValidEvent(v, e)
    BY <1>0, <2>4 DEF Passes, len
  <2>7. Expected(events, n + 1) = After(v, e)
    BY <1>0, <2>4, ExpectedNext DEF len
  <2>8. v.height \in Nat /\ v.finalized \in Nat /\ v.finalized <= v.height
    BY <2>4, ExpectedNumbers DEF ExpectedOK, len
  <2>9. H(n) > H(len)
    BY <2>1
  <2> HIDE DEF n, v, e
  <2>10. /\ After(v, e).height \in Nat /\ HeightFound(v, e) \in Nat
         /\ After(v, e).height >= HeightFound(v, e) /\ HeightFound(v, e) >= v.height
    BY <2>6, <2>8, EventRaises
  <2> QED
    BY <2>2, <2>5, <2>7, <2>8, <2>9, <2>10 DEF v
<1>2. len - k \in 0 .. len /\ len - (len - k) = k
  BY <1>0 DEF len
<1>3. ~(H(k) > H(len))
  BY <1>1, <1>2
<1>4. H(k) \in Nat /\ H(len) \in Nat
  BY <1>0, ExpectedNumbers DEF ExpectedOK, len
<1> QED
  BY <1>3, <1>4 DEF len

\* The timeline is in the order of its heights.
LEMMA TimelineSorted ==
    ASSUME NEW events, Passes(events)
    PROVE  \A i, j \in 1 .. Len(events) : i <= j => events[i].at <= events[j].at
<1> SUFFICES ASSUME NEW i \in 1 .. Len(events)
             PROVE  \A j \in 1 .. Len(events) : i <= j => events[i].at <= events[j].at
  OBVIOUS
<1>0. /\ events \in Seq(Events) /\ Len(events) \in Nat
      /\ \A j \in 1 .. Len(events) : events[j] \in Events /\ events[j].at \in Nat
  BY EventAssumption DEF Passes
<1> DEFINE Bad == {j \in 1 .. Len(events) : i <= j /\ ~(events[i].at <= events[j].at)}
<1>1. SUFFICES ASSUME Bad # {} PROVE FALSE
  OBVIOUS
<1> DEFINE m == Min(Bad)
<1>2. m \in Bad /\ \A j \in Bad : m <= j
  <2>1. Bad \subseteq Nat
    BY <1>0
  <2> HIDE DEF Bad
  <2> QED
    BY <1>1, <2>1, MinFacts
<1> HIDE DEF m
<1>3. m \in 1 .. Len(events) /\ i <= m /\ ~(events[i].at <= events[m].at)
  BY <1>2
<1>4. i # m
  BY <1>0, <1>3
<1> DEFINE n == m - 1
<1>5. n \in 1 .. Len(events) /\ n \in 0 .. Len(events) - 1 /\ i <= n /\ ~(m <= n) /\ n + 1 = m
      /\ n \in 0 .. Len(events) /\ n # 0
  BY <1>0, <1>3, <1>4
<1> HIDE DEF n
<1>6. events[i].at <= events[n].at
  BY <1>2, <1>5
<1>7. ValidEvent(Expected(events, n), events[n + 1])
  BY <1>5 DEF Passes
<1>8. Expected(events, n).prevAt = events[n].at
  BY <1>5, ExpectedNumbers DEF ExpectedOK
<1>9. events[m].at >= events[n].at
  BY <1>5, <1>7, <1>8 DEF ValidEvent
<1> QED
  BY <1>0, <1>3, <1>5, <1>6, <1>9

(***************************************************************************)
(* The whole scenario                                                      *)
(***************************************************************************)

AcceptedOK(s) ==
    /\ Passes(s.timeline)
    /\ Expected(s.timeline, Len(s.timeline)) = Outcome(s.timeline)
    /\ s.endAtHeight \in Nat
    /\ FinalHeight(s.timeline, s.endAtHeight) \in Nat
    /\ FinalHeight(s.timeline, s.endAtHeight) >= s.endAtHeight
    /\ FinalHeight(s.timeline, s.endAtHeight) >= Outcome(s.timeline).height
    /\ ClockFits(s.timeline, s.endAtHeight)

LEMMA AcceptedFacts ==
    ASSUME NEW s \in Accepted
    PROVE  AcceptedOK(s)
<1> DEFINE events == s.timeline
           end    == s.endAtHeight
<1>1. /\ \E n \in 1 .. MaxEvents : events \in Timelines[n]
      /\ end \in EndHeights
      /\ ClockFits(events, end)
  BY DEF Accepted
<1>2. Passes(events)
  BY <1>1, TimelinesPass, ScenarioAssumption
<1> HIDE DEF events, end
<1>3. events \in Seq(Events)
  BY <1>2 DEF Passes
<1>4. Expected(events, Len(events)) = Outcome(events)
  <2>1. SubSeq(events, 1, Len(events)) = events
    BY <1>3
  <2> QED
    BY <2>1 DEF Expected
<1>5. Outcome(events).height \in Nat
  BY <1>2, <1>3, <1>4, ExpectedNumbers DEF ExpectedOK
<1>6. end \in Nat
  BY <1>1, ScenarioAssumption
<1>7. /\ FinalHeight(events, end) \in Nat
      /\ FinalHeight(events, end) >= end
      /\ FinalHeight(events, end) >= Outcome(events).height
  BY <1>5, <1>6, MaxOfTwo DEF FinalHeight
<1> QED
  BY <1>1, <1>2, <1>4, <1>6, <1>7 DEF AcceptedOK, events, end

(***************************************************************************)
(* The invariant                                                           *)
(***************************************************************************)

\* Every block has the time of its height.
AllTimed(blocks) == \A h \in DOMAIN blocks : blocks[h].timestamp = TimestampAt(blocks[h].number)

\* No block, orphans included, is above the head.
NoneAbove == \A h \in DOMAIN current.blocks : current.blocks[h].number <= Height(current)

\* The chain is what validate expects after the events done, but for the blocks
\* that have since filled the gap to the next event.
OnCourse ==
    LET v == Expected(Timeline, cursor)
    IN  /\ height = Height(current)
        /\ v.height <= height
        /\ current.finalized = v.finalized
        /\ resolved = v.ids

\* The gap is never overshot: the next event finds the height that validate had
\* it find.
NotPast ==
    /\ MoreEvents =>
         IF Event.do = "produce"
         THEN height < Event.at
         ELSE height <= HeightFound(Expected(Timeline, cursor), Event)
    /\ ~MoreEvents => height <= FinalHeight(Timeline, scenario.endAtHeight)

\* HeightIsTheChains alone would survive a refused event, or one that finds the
\* chain too high; that none is refused needs the chain to be where validate had
\* it, and that needs the gaps to end where the events begin.
EngineInv ==
    /\ IInv
    /\ AllTimed(current.blocks)
    /\ NoneAbove
    /\ scenario \in Accepted
    /\ cursor \in 0 .. Len(Timeline)
    /\ OnCourse
    /\ NotPast
    /\ pc # "failed"

(***************************************************************************)
(* The chain under the engine                                              *)
(***************************************************************************)

Timed(block) == block.timestamp = TimestampAt(block.number)

ChainOK == IInv /\ AllTimed(current.blocks) /\ NoneAbove

\* Growing by timed blocks raises the head to the last of them, above every block.
LEMMA GrowsHeight ==
    ASSUME ChainOK, NEW fork, NEW new, GrowsBy(fork, new), \A i \in 1 .. Len(new) : Timed(new[i])
    PROVE  /\ ChainOK'
           /\ Height(current)' = fork + Len(new)
           /\ current'.finalized = current.finalized
<1>1. /\ Len(new) \in Nat \ {0} /\ fork \in Nat
      /\ Len(current'.canonical) = fork + 1 + Len(new)
      /\ DOMAIN current'.blocks
           = DOMAIN current.blocks \cup {new[i].hash : i \in 1 .. Len(new)}
      /\ \A i \in 1 .. Len(new) : current'.blocks[new[i].hash] = new[i]
      /\ \A h \in DOMAIN current.blocks : current'.blocks[h] = current.blocks[h]
      /\ current'.finalized = current.finalized
  BY GrowsFacts DEF ChainOK
<1>2. IInv'
  BY GrowsPreserves DEF ChainOK
<1>3. (IInv => Height(current) = Len(current.canonical) - 1)'
  BY HeadFacts, PTL
<1>4. Height(current)' = fork + Len(new)
  BY <1>1, <1>2, <1>3
<1>5. AllTimed(current.blocks)'
  BY <1>1 DEF ChainOK, AllTimed, Timed
<1>6. NoneAbove'
  <2>1. /\ Height(current) = Len(current.canonical) - 1 /\ Len(current.canonical) \in Nat
        /\ fork + Len(new) >= Len(current.canonical)
    BY HeadFacts DEF ChainOK, GrowsBy
  <2>2. ASSUME NEW h \in DOMAIN current'.blocks
        PROVE  current'.blocks[h].number <= fork + Len(new)
    <3>1. CASE h \in DOMAIN current.blocks
      <4>1. current.blocks[h].number <= Height(current) /\ current.blocks[h].number \in Nat
        BY <3>1 DEF ChainOK, NoneAbove, IInv, TypeOK, Blocks
      <4>2. current'.blocks[h] = current.blocks[h]
        BY <1>1, <3>1
      <4> QED
        BY <1>1, <2>1, <4>1, <4>2
    <3>2. ASSUME NEW i \in 1 .. Len(new), h = new[i].hash
          PROVE  current'.blocks[h].number <= fork + Len(new)
      <4>1. current'.blocks[h] = new[i] /\ new[i].number = fork + i
        BY <1>1, <3>2 DEF GrowsBy
      <4> QED
        BY <1>1, <4>1
    <3> QED
      BY <1>1, <3>1, <3>2
  <2> QED
    BY <1>4, <2>2 DEF NoneAbove
<1> QED
  BY <1>1, <1>2, <1>4, <1>5, <1>6 DEF ChainOK

LEMMA BuildBlockTimed == \A s, n, p, txs : Timed(BuildBlock(s, n, p, txs))
BY DEF Timed, BuildBlock

LEMMA ProduceHeight ==
    ASSUME ChainOK, NEW txs \in Seq(Txs), ProduceBlock(txs)
    PROVE  /\ ChainOK'
           /\ Height(current)' = Height(current) + 1
           /\ current'.finalized = current.finalized
<1> DEFINE block == BuildBlock(seq + 1, HeadBlock(current).number, HeadBlock(current).hash, txs)
<1>1. Timed(block)
  BY BuildBlockTimed
<1>2. GrowsBy(Len(current.canonical) - 1, <<block>>)
  BY ProduceGrows DEF ChainOK
<1> HIDE DEF block
<1>3. Len(<<block>>) = 1 /\ \A i \in 1 .. Len(<<block>>) : Timed(<<block>>[i])
  BY <1>1
<1>4. Height(current) = Len(current.canonical) - 1 /\ Len(current.canonical) \in Nat
  BY HeadFacts DEF ChainOK
<1> DEFINE fork == Len(current.canonical) - 1
           new  == <<block>>
<1> HIDE DEF fork, new
<1>5. /\ ChainOK' /\ Height(current)' = fork + Len(new)
      /\ current'.finalized = current.finalized
  BY <1>2, <1>3, GrowsHeight DEF fork, new
<1> QED
  BY <1>3, <1>4, <1>5 DEF fork, new

LEMMA ReorgHeight ==
    ASSUME ChainOK, NEW forkFrom \in Nat, NEW branch \in Seq(Seq(Txs)), Reorg(forkFrom, branch)
    PROVE  /\ ChainOK'
           /\ Height(current)' = forkFrom + Len(branch)
           /\ current'.finalized = current.finalized
<1> DEFINE new == BranchBlocks(seq, ByNumber(current, forkFrom), branch)
<1>1. \A i \in DOMAIN branch : Timed(new[i])
  BY BuildBlockTimed DEF BranchBlocks
<1>2. DOMAIN new = DOMAIN branch
  BY DEF BranchBlocks
<1>3. GrowsBy(forkFrom, new)
  BY ReorgGrows DEF ChainOK
<1> HIDE DEF new
<1>4. new \in Seq(Blocks)
  BY <1>3 DEF GrowsBy
<1>5. Len(new) = Len(branch) /\ \A i \in 1 .. Len(new) : Timed(new[i])
  BY <1>1, <1>2, <1>4
<1> QED
  BY <1>3, <1>5, GrowsHeight

LEMMA FinalizeHeight ==
    ASSUME ChainOK, NEW n \in Nat, Finalize(n)
    PROVE  /\ ChainOK'
           /\ Height(current)' = Height(current)
           /\ current'.finalized = n
<1>1. /\ current'.blocks = current.blocks /\ current'.head = current.head
      /\ current'.finalized = n
  BY FinalizeFacts DEF ChainOK
<1>2. IInv'
  BY FinalizePreserves DEF ChainOK
<1>3. Height(current)' = Height(current)
  BY <1>1 DEF Height, HeadBlock, ByHash
<1> QED
  BY <1>1, <1>2, <1>3 DEF ChainOK, AllTimed, NoneAbove

(***************************************************************************)
(* Where the engine stands in the timeline                                 *)
(***************************************************************************)

LEMMA NowFacts ==
    ASSUME EngineInv
    PROVE  /\ AcceptedOK(scenario) /\ Passes(Timeline)
           /\ Timeline \in Seq(Events) /\ Len(Timeline) \in Nat
           /\ ExpectedOK(Timeline, cursor)
           /\ Height(current) \in Nat /\ height \in Nat
           /\ Expected(Timeline, cursor).height
                <= FinalHeight(Timeline, scenario.endAtHeight)
<1>1. AcceptedOK(scenario)
  BY AcceptedFacts DEF EngineInv
<1>2. Passes(Timeline) /\ Timeline \in Seq(Events) /\ Len(Timeline) \in Nat
  BY <1>1 DEF AcceptedOK, Passes, Timeline
<1>3. ExpectedOK(Timeline, cursor)
  BY <1>2, ExpectedNumbers DEF EngineInv
<1>4. Height(current) \in Nat /\ height \in Nat
  BY HeadFacts DEF EngineInv, OnCourse
<1>5. Expected(Timeline, cursor).height <= Expected(Timeline, Len(Timeline)).height
  BY <1>2, ExpectedRises DEF EngineInv
<1>6. /\ Expected(Timeline, Len(Timeline)).height \in Nat
      /\ FinalHeight(Timeline, scenario.endAtHeight) \in Nat
      /\ FinalHeight(Timeline, scenario.endAtHeight) >= Expected(Timeline, Len(Timeline)).height
  <2>1. Len(Timeline) \in 0 .. Len(Timeline)
    BY <1>2
  <2>2. Expected(Timeline, Len(Timeline)).height \in Nat
    BY <1>2, <2>1, ExpectedNumbers DEF ExpectedOK
  <2> QED
    BY <1>1, <2>2 DEF AcceptedOK, Timeline
<1>7. Expected(Timeline, cursor).height \in Nat
  BY <1>3 DEF ExpectedOK
<1> QED
  BY <1>1, <1>2, <1>3, <1>4, <1>5, <1>6, <1>7

\* The next event passed its checks, against what the engine has done.
LEMMA NextEvent ==
    ASSUME EngineInv, MoreEvents
    PROVE  /\ cursor \in 0 .. Len(Timeline) - 1 /\ cursor + 1 \in 0 .. Len(Timeline)
           /\ Event \in Events
           /\ ValidEvent(Expected(Timeline, cursor), Event)
           /\ Expected(Timeline, cursor + 1) = After(Expected(Timeline, cursor), Event)
           /\ Expected(Timeline, cursor).height \in Nat
           /\ Expected(Timeline, cursor).finalized \in Nat
           /\ Expected(Timeline, cursor).finalized <= Expected(Timeline, cursor).height
<1>1. cursor \in 0 .. Len(Timeline) - 1 /\ cursor + 1 \in 0 .. Len(Timeline)
  BY NowFacts DEF EngineInv, MoreEvents
<1>2. Event \in Events /\ ValidEvent(Expected(Timeline, cursor), Event)
  BY <1>1, NowFacts DEF Passes, Event
<1>3. Expected(Timeline, cursor + 1) = After(Expected(Timeline, cursor), Event)
  BY <1>1, NowFacts, ExpectedNext DEF Event
<1> QED
  BY <1>1, <1>2, <1>3, NowFacts DEF ExpectedOK

\* An event that is due finds the height that validate had it find.
LEMMA ReachedFinds ==
    ASSUME EngineInv, Reached
    PROVE  height = HeightFound(Expected(Timeline, cursor), Event)
<1> DEFINE v == Expected(Timeline, cursor)
<1>1. /\ Event \in Events /\ ValidEvent(v, Event) /\ v.height \in Nat /\ v.finalized \in Nat
      /\ v.finalized <= v.height /\ Event.at \in Nat
  BY NextEvent, EventAssumption DEF Reached
<1>2. v.height <= height /\ height \in Nat
  BY NowFacts DEF EngineInv, OnCourse
<1>3. height <= HeightFound(v, Event) /\ Event.at <= height /\ Event.do # "produce"
  BY DEF EngineInv, NotPast, Reached
<1> HIDE DEF v
<1>4. HeightFound(v, Event) = IF v.height >= Event.at THEN v.height ELSE Event.at
  BY <1>1, <1>3, EventRaises
<1> QED
  BY <1>1, <1>2, <1>3, <1>4 DEF v

(***************************************************************************)
(* The ways a step leaves the engine                                       *)
(***************************************************************************)

\* It has done the next event, as validate expected.
Lands ==
    /\ scenario' = scenario
    /\ cursor' = cursor + 1
    /\ height' = Height(current)'
    /\ height' = Expected(Timeline, cursor + 1).height
    /\ current'.finalized = Expected(Timeline, cursor + 1).finalized
    /\ resolved' = Expected(Timeline, cursor + 1).ids

LEMMA LandsKeeps ==
    ASSUME EngineInv, MoreEvents, ChainOK', Lands, pc' # "failed"
    PROVE  EngineInv'
<1> DEFINE w == Expected(Timeline, cursor + 1)
           k == cursor + 1
<1>1. /\ cursor \in 0 .. Len(Timeline) - 1 /\ k \in 0 .. Len(Timeline)
      /\ Passes(Timeline) /\ Timeline \in Seq(Events) /\ Len(Timeline) \in Nat
      /\ AcceptedOK(scenario)
  BY NextEvent, NowFacts
<1>2. Timeline' = Timeline
  BY DEF Lands, Timeline
<1>3. ExpectedOK(Timeline, k)
  BY <1>1, ExpectedNumbers
<1>4. w.height \in Nat /\ w.finalized \in Nat /\ w.finalized <= w.height
  BY <1>3 DEF ExpectedOK
<1>5. Expected(Timeline, cursor)' = w
  BY <1>2 DEF Lands, Expected
<1>6. OnCourse'
  BY <1>4, <1>5 DEF OnCourse, Lands
<1>7. NotPast'
  <2>1. CASE k < Len(Timeline)
    <3> DEFINE e == Timeline[k + 1]
    <3>1. k \in 0 .. Len(Timeline) - 1
      BY <1>1, <2>1
    <3>2. e \in Events /\ ValidEvent(w, e) /\ Event' = e /\ MoreEvents'
      BY <1>1, <1>2, <2>1, <3>1 DEF Passes, Event, MoreEvents, Lands
    <3>3. HeightFound(w, e) >= w.height /\ (e.do = "produce" => e.at > w.height)
      <4> HIDE DEF w, e
      <4> QED
        BY <1>4, <3>2, EventRaises
    <3>4. height' = w.height
      BY DEF Lands
    <3>5. e.at \in Nat /\ HeightFound(w, e) \in Nat
      <4> HIDE DEF w, e
      <4> QED
        BY <1>4, <3>2, EventRaises, EventAssumption
    <3> HIDE DEF w, e
    <3>6. IF e.do = "produce" THEN height' < e.at ELSE height' <= HeightFound(w, e)
      BY <1>4, <3>3, <3>4, <3>5
    <3>7. (HeightFound(Expected(Timeline, cursor), Event))' = HeightFound(w, e)
      BY <1>5, <3>2 DEF HeightFound
    <3> QED
      BY <3>2, <3>6, <3>7 DEF NotPast
  <2>2. CASE k = Len(Timeline)
    <3>1. w = Outcome(Timeline)
      BY <1>1, <2>2 DEF AcceptedOK, Timeline
    <3>2. /\ FinalHeight(Timeline, scenario.endAtHeight) \in Nat
          /\ FinalHeight(Timeline, scenario.endAtHeight) >= w.height
      BY <1>1, <3>1 DEF AcceptedOK, Timeline
    <3>3. ~MoreEvents'
      BY <1>1, <1>2, <2>2 DEF MoreEvents, Lands
    <3>4. height' = w.height /\ scenario' = scenario
      BY DEF Lands
    <3>5. FinalHeight(Timeline, scenario.endAtHeight)' = FinalHeight(Timeline, scenario.endAtHeight)
      BY <1>2, <3>4 DEF FinalHeight
    <3> HIDE DEF w
    <3>6. (height <= FinalHeight(Timeline, scenario.endAtHeight))'
      BY <1>4, <3>2, <3>4, <3>5
    <3> QED
      BY <3>3, <3>6 DEF NotPast
  <2> QED
    BY <1>1, <2>1, <2>2
<1>8. (scenario \in Accepted)' /\ (cursor \in 0 .. Len(Timeline))'
  BY <1>1, <1>2 DEF Lands, EngineInv
<1> QED
  BY <1>6, <1>7, <1>8 DEF EngineInv, ChainOK

\* It has built a block below the height that the next event, or the end, is due at.
Fills ==
    /\ scenario' = scenario
    /\ cursor' = cursor
    /\ height' = height + 1
    /\ height' = Height(current)'
    /\ current'.finalized = current.finalized
    /\ resolved' = resolved
    /\ MoreEvents => IF Event.do = "produce" THEN height + 1 < Event.at ELSE height < Event.at
    /\ ~MoreEvents => height < scenario.endAtHeight

LEMMA FillsKeeps ==
    ASSUME EngineInv, ChainOK', Fills, pc' # "failed"
    PROVE  EngineInv'
<1> DEFINE v == Expected(Timeline, cursor)
<1>1. Timeline' = Timeline /\ Event' = Event /\ MoreEvents' = MoreEvents
  BY DEF Fills, Timeline, Event, MoreEvents
<1>2. Expected(Timeline, cursor)' = v
  BY <1>1 DEF Fills, Expected
<1>3. /\ v.height \in Nat /\ height \in Nat /\ v.height <= height
      /\ current.finalized = v.finalized /\ resolved = v.ids
  BY NowFacts DEF EngineInv, OnCourse, ExpectedOK
<1>4. OnCourse'
  BY <1>2, <1>3 DEF Fills, OnCourse
<1>5. NotPast'
  <2>1. CASE MoreEvents
    <3>1. /\ Event \in Events /\ ValidEvent(v, Event) /\ v.height \in Nat /\ v.finalized \in Nat
          /\ v.finalized <= v.height /\ Event.at \in Nat
      BY <2>1, NextEvent, EventAssumption
    <3>2. Event.do # "produce" =>
             HeightFound(v, Event) = IF v.height >= Event.at THEN v.height ELSE Event.at
      <4> HIDE DEF v
      <4> QED
        BY <3>1, EventRaises
    <3> HIDE DEF v
    <3>3. IF Event.do = "produce" THEN height' < Event.at ELSE height' <= HeightFound(v, Event)
      BY <1>3, <2>1, <3>1, <3>2 DEF Fills
    <3>4. (HeightFound(Expected(Timeline, cursor), Event))' = HeightFound(v, Event)
      BY <1>1, <1>2 DEF HeightFound
    <3> QED
      BY <1>1, <2>1, <3>3, <3>4 DEF NotPast
  <2>2. CASE ~MoreEvents
    <3>1. /\ FinalHeight(Timeline, scenario.endAtHeight) \in Nat
          /\ FinalHeight(Timeline, scenario.endAtHeight) >= scenario.endAtHeight
          /\ scenario.endAtHeight \in Nat
      BY NowFacts DEF AcceptedOK, Timeline
    <3>2. FinalHeight(Timeline, scenario.endAtHeight)' = FinalHeight(Timeline, scenario.endAtHeight)
      BY <1>1 DEF FinalHeight, Fills
    <3>3. (height <= FinalHeight(Timeline, scenario.endAtHeight))'
      BY <1>3, <2>2, <3>1, <3>2 DEF Fills
    <3> QED
      BY <1>1, <2>2, <3>3 DEF NotPast
  <2> QED
    BY <2>1, <2>2
<1> QED
  BY <1>1, <1>4, <1>5 DEF EngineInv, ChainOK, Fills

\* It has done nothing to the chain, nor to its place in the timeline.
LEMMA StaysKeeps ==
    ASSUME EngineInv, UNCHANGED <<chainVars, scenario, cursor, height, resolved>>, pc' # "failed"
    PROVE  EngineInv'
<1>1. UNCHANGED <<current, seq, Timeline, Event, MoreEvents>>
  BY DEF chainVars, Timeline, Event, MoreEvents
<1>2. UNCHANGED <<Height(current), Expected(Timeline, cursor),
                  FinalHeight(Timeline, scenario.endAtHeight)>>
  BY <1>1 DEF Height, HeadBlock, ByHash, Expected, FinalHeight
<1>3. IInv'
  BY StepPreservesIInv DEF EngineInv
<1>4. OnCourse'
  BY <1>1, <1>2 DEF EngineInv, OnCourse
<1>5. NotPast'
  BY <1>1, <1>2 DEF EngineInv, NotPast, HeightFound
<1>6. AllTimed(current.blocks)' /\ NoneAbove'
  BY <1>1, <1>2 DEF EngineInv, AllTimed, NoneAbove
<1> QED
  BY <1>1, <1>3, <1>4, <1>5, <1>6 DEF EngineInv

(***************************************************************************)
(* Every step keeps the invariant                                          *)
(***************************************************************************)

\* What an event that is due brings, in numbers.
LEMMA ReachedFacts ==
    ASSUME EngineInv, Reached
    PROVE  LET v == Expected(Timeline, cursor)
               w == Expected(Timeline, cursor + 1)
           IN  /\ MoreEvents /\ Event.do # "produce" /\ Event \in Events
               /\ ValidEvent(v, Event)
               /\ height = Height(current) /\ height \in Nat /\ height = HeightFound(v, Event)
               /\ current.finalized = v.finalized /\ v.finalized \in Nat
               /\ resolved = v.ids /\ w.ids = v.ids
               /\ Event.do = "reorg" => /\ Event.length \in Nat
                                        /\ w.height = Event.forkFrom + Event.length
               /\ Event.do # "reorg" => w.height = height
               /\ Event.do = "finalize" => w.finalized = Event.height
               /\ Event.do # "finalize" => w.finalized = v.finalized
<1> DEFINE v == Expected(Timeline, cursor)
           w == Expected(Timeline, cursor + 1)
<1>1. MoreEvents /\ Event.do # "produce"
  BY DEF Reached
<1>2. /\ Event \in Events /\ ValidEvent(v, Event) /\ w = After(v, Event)
      /\ v.height \in Nat /\ v.finalized \in Nat /\ v.finalized <= v.height
  BY <1>1, NextEvent
<1>3. /\ height = Height(current) /\ height \in Nat
      /\ current.finalized = v.finalized /\ resolved = v.ids
  BY NowFacts DEF EngineInv, OnCourse
<1>4. height = HeightFound(v, Event)
  BY ReachedFinds
<1> HIDE DEF v, w
<1>5. /\ w.ids = v.ids
      /\ Event.do = "reorg" => Event.length \in Nat /\ w.height = Event.forkFrom + Event.length
      /\ Event.do # "reorg" => w.height = height
      /\ Event.do = "finalize" => w.finalized = Event.height
      /\ Event.do # "finalize" => w.finalized = v.finalized
  <2>1. Event.do # "reorg" => Event.do \notin {"produce", "reorg"}
    BY <1>1
  <2> QED
    BY <1>1, <1>2, <1>4, <2>1, EventRaises
<1> QED
  BY <1>1, <1>2, <1>3, <1>4, <1>5 DEF v, w

LEMMA FinalizeKeeps ==
    ASSUME EngineInv, ApplyFinalize
    PROVE  EngineInv' /\ Lands
<1> DEFINE v == Expected(Timeline, cursor)
           w == Expected(Timeline, cursor + 1)
<1>1. Reached /\ Event.do = "finalize" /\ MoreEvents
  BY DEF ApplyFinalize, Reached
<1>2. /\ Event \in Events /\ ValidEvent(v, Event)
      /\ height = Height(current) /\ height \in Nat /\ height = HeightFound(v, Event)
      /\ current.finalized = v.finalized /\ v.finalized \in Nat
      /\ resolved = v.ids /\ w.ids = v.ids
      /\ w.height = height /\ w.finalized = Event.height
  BY <1>1, ReachedFacts
<1>3. Event.height \in v.finalized .. height /\ Event.height \in Nat
  BY <1>1, <1>2, EventAssumption DEF ValidEvent, ValidFinalize
<1> HIDE DEF v, w
<1>4. FinalizeError(current, Event.height) = "nil"
  BY <1>2, <1>3 DEF FinalizeError
<1>5. Finalize(Event.height) /\ EventDone /\ UNCHANGED <<height, registry>>
  BY <1>4 DEF ApplyFinalize
<1>6. ChainOK
  BY DEF EngineInv, ChainOK
<1>7. /\ ChainOK' /\ Height(current)' = Height(current)
      /\ current'.finalized = Event.height
  BY <1>3, <1>5, <1>6, FinalizeHeight
<1>8. Lands
  BY <1>2, <1>5, <1>7 DEF Lands, EventDone, w
<1>9. pc' # "failed"
  BY <1>5 DEF EventDone, EngineInv
<1> QED
  BY <1>1, <1>7, <1>8, <1>9, LandsKeeps

\* The branch of a reorg that passed its checks is one list for each height, of
\* transactions resolved by then.
LEMMA BranchIsBuilt ==
    ASSUME NEW v, NEW e \in Events, e.do = "reorg", e.length \in Nat, ValidBranchTxs(v, e),
           resolved = v.ids
    PROVE  /\ Branch(e) \in Seq(Seq(Txs)) /\ Len(Branch(e)) = e.length
           /\ ~BranchError(e)
<1>1. e.forkFrom \in Nat /\ e.txs \in Seq([at : Nat, ids : Seq(Txs)])
  BY EventAssumption
<1>2. ASSUME NEW i \in 1 .. e.length PROVE Branch(e)[i] \in Seq(Txs)
  <2> DEFINE here == {j \in DOMAIN e.txs : e.txs[j].at = e.forkFrom + i}
  <2>1. Branch(e)[i] = IF here = {} THEN <<>> ELSE e.txs[Max(here)].ids
    BY DEF Branch
  <2>2. CASE here = {}
    BY <2>1, <2>2
  <2>3. CASE here # {}
    <3>1. PICK j \in here : TRUE
      BY <2>3
    <3>2. \A k \in here : k = j
      BY <3>1 DEF ValidBranchTxs
    <3>3. j \in Nat /\ j >= j
      BY <1>1, <3>1
    <3>4. Max(here) \in here
      <4> HIDE DEF here
      <4> QED
        BY <3>1, <3>2, <3>3 DEF Max
    <3>5. e.txs[Max(here)] \in [at : Nat, ids : Seq(Txs)]
      <4> DEFINE m   == Max(here)
                 txs == e.txs
                 R   == [at : Nat, ids : Seq(Txs)]
      <4>1. m \in DOMAIN txs
        BY <3>4
      <4>2. txs \in Seq(R)
        BY <1>1
      <4> HIDE DEF m, txs, R
      <4>3. txs[m] \in R
        BY <4>1, <4>2
      <4> QED
        BY <4>3 DEF m, txs, R
    <3> QED
      BY <2>1, <2>3, <3>5
  <2> QED
    BY <2>2, <2>3
<1>3. Branch(e) \in [1 .. e.length -> Seq(Txs)]
  <2>1. Branch(e) = [i \in 1 .. e.length |-> Branch(e)[i]]
    BY DEF Branch
  <2> DEFINE b == Branch(e)
  <2>2. b = [i \in 1 .. e.length |-> b[i]] /\ \A i \in 1 .. e.length : b[i] \in Seq(Txs)
    BY <1>2, <2>1
  <2> HIDE DEF b
  <2>3. b \in [1 .. e.length -> Seq(Txs)]
    BY <2>2
  <2> QED
    BY <2>3 DEF b
<1>4. Branch(e) \in Seq(Seq(Txs)) /\ Len(Branch(e)) = e.length
  <2> DEFINE b == Branch(e)
  <2>1. b \in [1 .. e.length -> Seq(Txs)]
    BY <1>3
  <2> HIDE DEF b
  <2>2. b \in Seq(Seq(Txs)) /\ Len(b) = e.length
    BY <2>1
  <2> QED
    BY <2>2 DEF b
<1>5. ~BranchError(e)
  BY DEF BranchError, ValidBranchTxs
<1> QED
  BY <1>4, <1>5

LEMMA ReorgKeeps ==
    ASSUME EngineInv, ApplyReorg
    PROVE  EngineInv' /\ Lands
<1> DEFINE v == Expected(Timeline, cursor)
           w == Expected(Timeline, cursor + 1)
           e == Event
<1>1. Reached /\ e.do = "reorg" /\ MoreEvents
  BY DEF ApplyReorg, Reached
<1>2. /\ e \in Events /\ ValidEvent(v, e)
      /\ height = Height(current) /\ height \in Nat /\ height = HeightFound(v, e)
      /\ current.finalized = v.finalized /\ v.finalized \in Nat
      /\ resolved = v.ids /\ w.ids = v.ids
      /\ e.length \in Nat /\ w.height = e.forkFrom + e.length
      /\ w.finalized = v.finalized
  BY <1>1, ReachedFacts
<1> HIDE DEF v, w
<1>3. /\ e.length >= 1 /\ e.forkFrom <= height /\ e.forkFrom >= current.finalized
      /\ e.forkFrom + e.length > height
      /\ ValidBranchTxs(v, e)
      /\ e.forkFrom \in Nat
  BY <1>1, <1>2, EventAssumption DEF ValidEvent, ValidReorg
<1>4. /\ Branch(e) \in Seq(Seq(Txs)) /\ Len(Branch(e)) = e.length
      /\ ~BranchError(e)
  BY <1>1, <1>2, <1>3, BranchIsBuilt
<1> HIDE DEF e
<1>5. ChainOK
  BY DEF EngineInv, ChainOK
<1>6. ByNumber(current, e.forkFrom) # Nil
  <2>1. Height(current) = Len(current.canonical) - 1 /\ Len(current.canonical) \in Nat
    BY <1>5, HeadFacts DEF ChainOK
  <2>2. e.forkFrom <= Height(current) /\ e.forkFrom \in Nat
    BY <1>2, <1>3
  <2>3. e.forkFrom \in 0 .. Len(current.canonical) - 1
    BY <2>1, <2>2
  <2> QED
    BY <1>5, <2>3, ByNumberFacts, NilAssumption DEF ChainOK
<1>7. ReorgError(current, e.forkFrom, Branch(e)) = "nil"
  BY <1>2, <1>3, <1>4, <1>6 DEF ReorgError
<1>8. /\ Reorg(e.forkFrom, Branch(e))
      /\ height' = e.forkFrom + e.length
      /\ EventDone /\ UNCHANGED registry
  BY <1>4, <1>7 DEF ApplyReorg, e
<1>9. /\ ChainOK' /\ Height(current)' = e.forkFrom + e.length
      /\ current'.finalized = current.finalized
  BY <1>3, <1>4, <1>5, <1>8, ReorgHeight
<1>10. Lands
  BY <1>2, <1>8, <1>9 DEF Lands, EventDone, w
<1>11. pc' # "failed"
  BY <1>8 DEF EventDone, EngineInv
<1> QED
  BY <1>1, <1>9, <1>10, <1>11, LandsKeeps

\* A fault, and the end of all faults, leave the chain alone.
LEMMA FaultKeeps ==
    ASSUME EngineInv, ApplyFault \/ ApplyClearFaults
    PROVE  EngineInv' /\ Lands
<1> DEFINE v == Expected(Timeline, cursor)
           w == Expected(Timeline, cursor + 1)
<1>1. Reached /\ Event.do \in {"fault", "clear_faults"} /\ MoreEvents
  BY DEF ApplyFault, ApplyClearFaults, Reached
<1>2. /\ Event \in Events /\ ValidEvent(v, Event)
      /\ height = Height(current)
      /\ current.finalized = v.finalized
      /\ resolved = v.ids /\ w.ids = v.ids
      /\ w.height = height /\ w.finalized = v.finalized
  BY <1>1, ReachedFacts
<1>3. EventDone /\ UNCHANGED <<chainVars, height>>
  <2>1. CASE ApplyClearFaults
    BY <2>1 DEF ApplyClearFaults
  <2>2. CASE ApplyFault
    <3>1. ValidFault(Event)
      BY <1>2, <2>2 DEF ValidEvent, ApplyFault
    <3>2. Event.type \in {"false_200", "delay"} /\ Event.delay # "malformed"
      BY <3>1 DEF ValidFault
    <3> QED
      BY <2>2, <3>2 DEF ApplyFault
  <2> QED
    BY <2>1, <2>2
<1> HIDE DEF v, w
<1>4. current' = current /\ seq' = seq /\ height' = height
  BY <1>3 DEF chainVars
<1>5. Height(current)' = Height(current)
  BY <1>4 DEF Height, HeadBlock, ByHash
<1>6. ChainOK'
  <2>1. IInv'
    BY <1>3, StepPreservesIInv DEF EngineInv
  <2> QED
    BY <1>4, <1>5, <2>1 DEF EngineInv, ChainOK, AllTimed, NoneAbove
<1>7. Lands
  BY <1>2, <1>3, <1>4, <1>5 DEF Lands, EventDone, w
<1>8. pc' # "failed"
  BY <1>3 DEF EventDone, EngineInv
<1> QED
  BY <1>1, <1>6, <1>7, <1>8, LandsKeeps

LEMMA ListedKeeps ==
    ASSUME EngineInv, ProduceListed
    PROVE  EngineInv' /\ Lands
<1> DEFINE v == Expected(Timeline, cursor)
           w == Expected(Timeline, cursor + 1)
<1>1. MoreEvents /\ Event.do = "produce" /\ height + 1 = Event.at
  BY DEF ProduceListed
<1>2. /\ Event \in Events /\ ValidEvent(v, Event) /\ w = After(v, Event)
      /\ v.height \in Nat /\ v.finalized \in Nat /\ v.finalized <= v.height
      /\ Event.txs \in Seq(Txs)
  BY <1>1, NextEvent, EventAssumption
<1>3. /\ height = Height(current) /\ height \in Nat
      /\ current.finalized = v.finalized /\ resolved = v.ids
  BY NowFacts DEF EngineInv, OnCourse
<1> HIDE DEF v, w
<1>4. /\ w.height = Event.at /\ w.finalized = v.finalized
      /\ w.ids = v.ids \cup ToSet(Event.txs)
  BY <1>1, <1>2, EventRaises
<1>5. /\ ProduceBlock(Event.txs) /\ height' = height + 1 /\ cursor' = cursor + 1
      /\ resolved' = resolved \cup ToSet(Event.txs)
      /\ scenario' = scenario /\ pc' = "tick"
  BY DEF ProduceListed
<1>6. ChainOK
  BY DEF EngineInv, ChainOK
<1>7. /\ ChainOK' /\ Height(current)' = Height(current) + 1
      /\ current'.finalized = current.finalized
  BY <1>2, <1>5, <1>6, ProduceHeight
<1>8. Lands
  BY <1>1, <1>3, <1>4, <1>5, <1>7 DEF Lands, w
<1> QED
  BY <1>1, <1>5, <1>7, <1>8, LandsKeeps

LEMMA EmptyKeeps ==
    ASSUME EngineInv, ProduceEmpty
    PROVE  EngineInv' /\ Fills
<1>1. /\ ProduceBlock(<<>>) /\ height' = height + 1 /\ cursor' = cursor
      /\ resolved' = resolved /\ scenario' = scenario /\ pc' = "tick"
  BY DEF ProduceEmpty
<1>2. /\ height = Height(current) /\ height \in Nat
  BY NowFacts DEF EngineInv, OnCourse
<1>3. MoreEvents => IF Event.do = "produce" THEN height + 1 < Event.at ELSE height < Event.at
  <2>1. SUFFICES ASSUME MoreEvents
                 PROVE  IF Event.do = "produce" THEN height + 1 < Event.at ELSE height < Event.at
    OBVIOUS
  <2>2. Event.at \in Nat
    BY <2>1, NextEvent, EventAssumption
  <2>3. CASE Event.do = "produce"
    <3>1. height < Event.at /\ height + 1 # Event.at
      BY <2>1, <2>3 DEF EngineInv, NotPast, ProduceEmpty
    <3> QED
      BY <1>2, <2>2, <2>3, <3>1
  <2>4. CASE Event.do # "produce"
    <3>1. ~(Event.at <= height)
      BY <2>1, <2>4 DEF ProduceEmpty, MustProduce, Reached
    <3> QED
      BY <1>2, <2>2, <2>4, <3>1
  <2> QED
    BY <2>3, <2>4
<1>4. ~MoreEvents => height < scenario.endAtHeight
  BY DEF ProduceEmpty
<1>5. ChainOK
  BY DEF EngineInv, ChainOK
<1>6. <<>> \in Seq(Txs)
  OBVIOUS
<1>7. /\ ChainOK' /\ Height(current)' = Height(current) + 1
      /\ current'.finalized = current.finalized
  BY <1>1, <1>5, <1>6, ProduceHeight
<1>8. Fills
  BY <1>1, <1>2, <1>3, <1>4, <1>7 DEF Fills
<1> QED
  BY <1>1, <1>7, <1>8, FillsKeeps

\* A step does the next event, fills the gap to it by a block, or does nothing to
\* the chain.
LEMMA EngineStep ==
    ASSUME EngineInv, [EngineNext]_vars
    PROVE  /\ EngineInv'
           /\ \/ Lands
              \/ Fills
              \/ UNCHANGED <<chainVars, scenario, cursor, height, resolved>>
<1>1. CASE ApplyFinalize
  BY <1>1, FinalizeKeeps
<1>2. CASE ApplyReorg
  BY <1>2, ReorgKeeps
<1>3. CASE ApplyFault \/ ApplyClearFaults
  BY <1>3, FaultKeeps
<1>4. CASE ProduceListed
  BY <1>4, ListedKeeps
<1>5. CASE ProduceEmpty
  BY <1>5, EmptyKeeps
<1>6. CASE Tick \/ EventsRan \/ Finish \/ Stop \/ Cancel
  <2>1. UNCHANGED <<chainVars, scenario, cursor, height, resolved>> /\ pc' # "failed"
    BY <1>6 DEF Tick, EventsRan, Finish, Stop, Cancel, EngineInv
  <2> QED
    BY <2>1, StaysKeeps
<1>7. CASE UNCHANGED vars
  <2>1. UNCHANGED <<chainVars, scenario, cursor, height, resolved>> /\ pc' # "failed"
    BY <1>7 DEF vars, engineVars, EngineInv
  <2> QED
    BY <2>1, StaysKeeps
<1> QED
  BY <1>1, <1>2, <1>3, <1>4, <1>5, <1>6, <1>7 DEF EngineNext, Run

LEMMA InitEstablishesEngineInv == EngineInit => EngineInv
<1> SUFFICES ASSUME EngineInit PROVE EngineInv
  OBVIOUS
<1> DEFINE v == Expected(Timeline, cursor)
<1>1. IInv
  BY InitEstablishesIInv DEF EngineInit
<1>2. current = GenesisSnapshot /\ cursor = 0 /\ height = 0 /\ resolved = {} /\ pc = "tick"
      /\ scenario \in Accepted
  BY DEF EngineInit, Init
<1>3. /\ current.blocks = [h \in {Genesis.hash} |-> Genesis]
      /\ current.head = Genesis.hash /\ current.finalized = 0
  BY <1>2 DEF GenesisSnapshot
<1>4. HeadBlock(current) = Genesis
  BY <1>3 DEF HeadBlock, ByHash
<1>5. Height(current) = 0
  BY <1>4, GenesisType DEF Height, Genesis
<1>6. AllTimed(current.blocks) /\ NoneAbove
  <2>1. Genesis.number = 0 /\ Genesis.timestamp = GenesisTime
    BY DEF Genesis
  <2>2. TimestampAt(0) = GenesisTime
    <3>1. 0 * BlockInterval = 0 /\ GenesisTime + 0 = GenesisTime
      BY ClockAssumption
    <3>2. GenesisTime % TimeModulus = GenesisTime
      BY ClockAssumption
    <3> QED
      BY <3>1, <3>2 DEF TimestampAt
  <2> QED
    BY <1>3, <1>5, <2>1, <2>2 DEF AllTimed, NoneAbove
<1>7. AcceptedOK(scenario)
  BY <1>2, AcceptedFacts
<1>8. Passes(Timeline) /\ Timeline \in Seq(Events) /\ Len(Timeline) \in Nat
  BY <1>7 DEF AcceptedOK, Passes, Timeline
<1>9. v = Start
  BY <1>2, <1>8, ExpectedFirst
<1>10. OnCourse
  BY <1>2, <1>3, <1>5, <1>9 DEF OnCourse, Start
<1>11. NotPast
  <2>1. ASSUME MoreEvents
        PROVE  IF Event.do = "produce" THEN height < Event.at ELSE height <= HeightFound(v, Event)
    <3>1. 0 \in 0 .. Len(Timeline) - 1
      BY <1>2, <1>8, <2>1 DEF MoreEvents
    <3>2. Event \in Events /\ ValidEvent(Start, Event)
      <4>1. Event = Timeline[0 + 1] /\ Expected(Timeline, 0) = Start
        BY <1>2, <1>8, ExpectedFirst DEF Event
      <4>2. Timeline[0 + 1] \in Events
        BY <1>8, <3>1
      <4>3. ValidEvent(Expected(Timeline, 0), Timeline[0 + 1])
        BY <1>8, <3>1 DEF Passes
      <4> QED
        BY <4>1, <4>2, <4>3
    <3>3. Start.height = 0 /\ Start.finalized = 0
      BY DEF Start
    <3>4. /\ HeightFound(Start, Event) \in Nat
          /\ Event.do = "produce" => Event.at > 0
      BY <3>2, <3>3, EventRaises
    <3>5. Event.at \in Nat
      BY <3>2, EventAssumption
    <3> QED
      BY <1>2, <1>9, <3>4, <3>5
  <2>2. ASSUME ~MoreEvents PROVE height <= FinalHeight(Timeline, scenario.endAtHeight)
    BY <1>2, <1>7 DEF AcceptedOK, Timeline
  <2> QED
    BY <2>1, <2>2 DEF NotPast
<1>12. cursor \in 0 .. Len(Timeline)
  BY <1>2, <1>8
<1> QED
  BY <1>1, <1>2, <1>6, <1>10, <1>11, <1>12 DEF EngineInv

LEMMA EngineInvariant == EngineSpec => []EngineInv
<1>1. EngineInv /\ [EngineNext]_vars => EngineInv'
  BY EngineStep
<1> QED
  BY <1>1, InitEstablishesEngineInv, PTL DEF EngineSpec

(***************************************************************************)
(* The theorems                                                            *)
(***************************************************************************)

\* The engine's own count is the chain's height, through every reorg
\* (engine.go:98-101, 126-127).
THEOREM CountsRight == EngineSpec => []HeightIsTheChains
<1>1. EngineInv => HeightIsTheChains
  BY DEF EngineInv, OnCourse, HeightIsTheChains
<1> QED
  BY <1>1, EngineInvariant, PTL

\* An event of a scenario that validation accepted is never refused when its
\* turn comes: Run does not end in an error (validate.go:14-16, engine.go:65-67).
THEOREM NeverRefused == EngineSpec => [](pc # "failed")
<1>1. EngineInv => pc # "failed"
  BY DEF EngineInv
<1> QED
  BY <1>1, EngineInvariant, PTL

\* What a quotient bounds is bounded in the product.
LEMMA ProductFits ==
    ASSUME NEW a \in Nat, NEW b \in Nat, NEW f \in Nat \ {0}, b <= a \div f,
           NEW n \in 0 .. f
    PROVE  n * b <= a
<1>1. f * (a \div f) <= a /\ a \div f \in Nat
  OBVIOUS
<1> DEFINE q == a \div f
<1> HIDE DEF q
<1>2. f * b <= f * q
  BY <1>1 DEF q
<1>3. n * b <= f * b
  OBVIOUS
<1>4. n * b \in Nat /\ f * b \in Nat /\ f * q \in Nat
  BY <1>1 DEF q
<1> QED
  BY <1>1, <1>2, <1>3, <1>4 DEF q

\* No time wraps, because none of the heights is above the final one.
LEMMA TimesFit ==
    ASSUME EngineInv, NEW h \in DOMAIN current.blocks
    PROVE  LET block == current.blocks[h]
           IN  /\ block.timestamp = GenesisTime + block.number * BlockInterval
               /\ block.timestamp <= MaxTimestamp
<1> DEFINE block == current.blocks[h]
           n     == block.number
           final == FinalHeight(Timeline, scenario.endAtHeight)
           room  == MaxTimestamp - GenesisTime
<1>1. n \in Nat /\ n <= Height(current)
  BY DEF EngineInv, IInv, TypeOK, Blocks, NoneAbove
<1>2. final \in Nat /\ ClockFits(Timeline, scenario.endAtHeight)
  BY NowFacts DEF AcceptedOK, Timeline
<1>3. Height(current) <= final
  <2> DEFINE v == Expected(Timeline, cursor)
  <2>1. height = Height(current) /\ height \in Nat /\ v.height \in Nat /\ v.height <= final
    BY NowFacts DEF EngineInv, OnCourse, ExpectedOK
  <2>2. CASE ~MoreEvents
    BY <2>1, <2>2 DEF EngineInv, NotPast
  <2>3. CASE MoreEvents
    <3> DEFINE w == Expected(Timeline, cursor + 1)
    <3>1. /\ Event \in Events /\ ValidEvent(v, Event) /\ w = After(v, Event)
          /\ v.finalized \in Nat /\ v.finalized <= v.height
          /\ cursor + 1 \in 0 .. Len(Timeline)
      BY <2>3, NextEvent
    <3>2. w.height <= Expected(Timeline, Len(Timeline)).height
      BY <3>1, NowFacts, ExpectedRises
    <3>3. Expected(Timeline, Len(Timeline)).height \in Nat
      BY NowFacts, ExpectedNumbers DEF ExpectedOK
    <3>4. Expected(Timeline, Len(Timeline)).height <= final
      BY NowFacts DEF AcceptedOK, Timeline
    <3>5. IF Event.do = "produce" THEN height < Event.at ELSE height <= HeightFound(v, Event)
      BY <2>3 DEF EngineInv, NotPast
    <3> HIDE DEF v, w, final
    <3>6. /\ HeightFound(v, Event) \in Nat /\ w.height \in Nat
          /\ w.height >= HeightFound(v, Event)
          /\ Event.do = "produce" => w.height = Event.at
      BY <2>1, <3>1, EventRaises
    <3>7. height <= w.height
      BY <2>1, <3>5, <3>6
    <3> QED
      BY <1>2, <2>1, <3>2, <3>3, <3>4, <3>6, <3>7
  <2> QED
    BY <2>2, <2>3
<1>4. Height(current) \in Nat
  BY NowFacts
<1> HIDE DEF n, final
<1>5. n \in 0 .. final
  BY <1>1, <1>2, <1>3, <1>4
<1>6. GenesisTime <= MaxTimestamp /\ (final > 0 => BlockInterval <= room \div final)
  BY <1>2 DEF ClockFits, final
<1>7. room \in Nat
  BY <1>6, ClockAssumption, ScenarioAssumption
<1> HIDE DEF room
<1>8. n * BlockInterval <= room /\ n * BlockInterval \in Nat
  <2>1. CASE final = 0
    <3>1. n = 0
      BY <1>5, <2>1
    <3> QED
      BY <1>7, <3>1, ClockAssumption
  <2>2. CASE final # 0
    <3>1. final \in Nat \ {0} /\ BlockInterval \in Nat /\ BlockInterval <= room \div final
      BY <1>2, <1>6, <2>2, ClockAssumption
    <3>2. n * BlockInterval <= room
      BY <1>5, <1>7, <3>1, ProductFits
    <3>3. n * BlockInterval \in Nat
      BY <1>1, <3>1 DEF n
    <3> QED
      BY <3>2, <3>3
  <2> QED
    BY <2>1, <2>2
<1> DEFINE p == n * BlockInterval
<1> HIDE DEF p
<1>9. GenesisTime + p <= MaxTimestamp /\ GenesisTime + p \in Nat
  BY <1>7, <1>8, ClockAssumption, ScenarioAssumption DEF p, room
<1>10. (GenesisTime + p) % TimeModulus = GenesisTime + p
  BY <1>9, ClockAssumption, ScenarioAssumption
<1>11. block.timestamp = (GenesisTime + p) % TimeModulus
  BY DEF EngineInv, AllTimed, TimestampAt, n, p
<1> QED
  BY <1>9, <1>10, <1>11 DEF n, p

\* Every block ever built has the time of its height, unreduced and at most the
\* largest exact one (validate.go:112-135).
THEOREM ExactClock == EngineSpec => []ClockIsExact
<1>1. EngineInv => ClockIsExact
  BY TimesFit DEF ClockIsExact
<1> QED
  BY <1>1, EngineInvariant, PTL

\* Every event leaves height, watermark and transactions as validate's model of
\* the chain has them after it (validate.go:36-43).
THEOREM AsValidated == EngineSpec => RunsAsValidated
<1>1. EngineInv /\ [EngineNext]_vars
        => [cursor' # cursor =>
              LET v == Outcome(SubSeq(Timeline, 1, cursor'))
              IN  /\ Height(current') = v.height
                  /\ current'.finalized = v.finalized
                  /\ resolved' = v.ids]_vars
  <2> SUFFICES ASSUME EngineInv, [EngineNext]_vars, cursor' # cursor
               PROVE  LET v == Outcome(SubSeq(Timeline, 1, cursor'))
                      IN  /\ Height(current') = v.height
                          /\ current'.finalized = v.finalized
                          /\ resolved' = v.ids
    OBVIOUS
  <2>1. Lands
    BY EngineStep DEF Fills
  <2>2. Height(current') = height'
    BY <2>1 DEF Lands, Height, HeadBlock, ByHash
  <2> QED
    BY <2>1, <2>2 DEF Lands, Expected
<1> QED
  BY <1>1, EngineInvariant, PTL DEF EngineSpec, RunsAsValidated

\* No block is produced at a height while an event of a lower one is still to be
\* done (engine.go:70-85).
THEOREM EventsFirst == EngineSpec => EventsBeforeBlocks
<1>1. EngineInv /\ [EngineNext]_vars
        => [ProduceListed \/ ProduceEmpty
              => \A i \in cursor + 1 .. Len(Timeline) : Timeline[i].at >= height']_vars
  <2> SUFFICES ASSUME EngineInv, ProduceListed \/ ProduceEmpty,
                      NEW i \in cursor + 1 .. Len(Timeline)
               PROVE  Timeline[i].at >= height'
    OBVIOUS
  <2>1. /\ Passes(Timeline) /\ Len(Timeline) \in Nat /\ height \in Nat
        /\ cursor \in 0 .. Len(Timeline)
    BY NowFacts DEF EngineInv
  <2>2. cursor + 1 \in 1 .. Len(Timeline) /\ i \in 1 .. Len(Timeline) /\ cursor + 1 <= i
    BY <2>1
  <2>3. MoreEvents
    BY <2>1, <2>2 DEF MoreEvents
  <2>4. Event.at <= Timeline[i].at
    BY <2>1, <2>2, TimelineSorted DEF Event
  <2>5. Event.at \in Nat /\ Timeline[i].at \in Nat
    <3>1. Timeline[i] \in Events /\ Event \in Events
      BY <2>2, <2>3, NowFacts, NextEvent
    <3> QED
      BY <3>1, EventAssumption
  <2>6. Event.at >= height'
    <3>1. CASE ProduceListed
      BY <3>1 DEF ProduceListed
    <3>2. CASE ProduceEmpty
      <4>1. Fills
        BY <3>2, EmptyKeeps
      <4> QED
        BY <2>1, <2>3, <2>5, <4>1 DEF Fills
    <3> QED
      BY <3>1, <3>2
  <2>7. height' \in Nat
    BY <2>1 DEF ProduceListed, ProduceEmpty
  <2> QED
    BY <2>4, <2>5, <2>6, <2>7
<1> QED
  BY <1>1, EngineInvariant, PTL DEF EngineSpec, EventsBeforeBlocks
===============================================================================

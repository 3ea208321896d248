---------------------------- MODULE FaultsProofs ----------------------------
(***************************************************************************)
(* Theorems about Faults, for any methods, faults and callers.             *)
(*                                                                         *)
(* The counts are exact, no live fault is lost and no cleared one returns  *)
(* whatever matching gives a request to try (FaultsInv).  What a request   *)
(* is charged for does depend on it (AllCharged): matching gives faults    *)
(* that name the method and are of the kind the stage looks for.           *)
(***************************************************************************)
EXTENDS Faults, SequenceTheorems, WellFoundedInduction, TLAPS

(***************************************************************************)
(* Calls                                                                   *)
(***************************************************************************)

Fields == {"pc", "stage", "method", "todo", "n", "cancelled", "got", "answer", "paid"}

Pcs == {"idle", "match", "load", "cas", "wait", "handle"}

\* A call waits only in Before, looks for lies only about a value, and swaps only
\* a count that it read as neither zero nor negative.
CallOK(l) ==
    /\ DOMAIN l = Fields
    /\ l.pc \in Pcs /\ l.stage \in {"Before", "After"}
    /\ l.got \in Answers /\ l.answer \in Answers
    /\ l.pc \in {"wait", "handle"} => l.stage = "Before"
    /\ l.stage = "After" /\ l.pc # "idle" => l.got = "value" /\ l.answer = "value"
    /\ l.pc = "idle" => l.answer \in {l.got} \/ (l.got = "value" /\ l.answer = "null")
    /\ l.pc = "cas" => ~(l.n < 0) /\ l.n # 0

CallsOK == DOMAIN call = Callers /\ \A c \in Callers : CallOK(call[c])

LEMMA NewCallOK ==
    ASSUME NEW method, NEW cancelled
    PROVE  /\ CallOK(NewCall(method, cancelled)) /\ NewCall(method, cancelled).pc = "match"
           /\ NewCall(method, cancelled).stage = "Before"
BY DEF NewCall, CallOK, Fields, Pcs, Answers

\* How a call goes on when no fault fires, or none of those left, and when one does.
LEMMA EndedOK ==
    ASSUME NEW l, CallOK([l EXCEPT !.pc = "idle"]), DOMAIN l = Fields
    PROVE  /\ CallOK(Ended(l)) /\ Ended(l).pc = "idle"
           /\ Ended(l).got = l.got /\ Ended(l).answer = l.answer
BY DEF Ended, CallOK, Fields, Pcs

LEMMA PassOK ==
    ASSUME NEW l, CallOK(l), l.pc \in {"match", "load"}
    PROVE  /\ CallOK(Pass(l)) /\ Pass(l).got = l.got /\ Pass(l).answer = l.answer
           /\ Pass(l).pc = IF l.stage = "Before" THEN "handle" ELSE "idle"
BY DEF Pass, Ended, CallOK, Fields, Pcs

LEMMA MissOK ==
    ASSUME NEW l, CallOK(l), l.pc = "load"
    PROVE  /\ CallOK(Miss(l)) /\ Miss(l).got = l.got /\ Miss(l).answer = l.answer
           /\ \/ Miss(l).pc = "load" /\ Miss(l).stage = l.stage
              \/ Miss(l).pc = IF l.stage = "Before" THEN "handle" ELSE "idle"
<1>1. CASE Len(l.todo) = 1
  BY <1>1, PassOK DEF Miss
<1>2. CASE Len(l.todo) # 1
  BY <1>2 DEF Miss, CallOK, Fields, Pcs
<1> QED
  BY <1>1, <1>2

LEMMA HitOK ==
    ASSUME NEW l, CallOK(l), l.pc \in {"load", "cas"}
    PROVE  /\ CallOK(Hit(l)) /\ Hit(l).got = l.got
           /\ l.stage = "Before" => Hit(l).pc = "wait" /\ Hit(l).stage = "Before"
           /\ l.stage = "After" => Hit(l).pc = "idle" /\ Hit(l).answer = "null"
<1> DEFINE charged == [l EXCEPT !.paid = Append(@, Head(l.todo))]
           lied    == [charged EXCEPT !.answer = "null"]
<1>1. /\ CallOK(charged) /\ charged.pc = l.pc /\ charged.stage = l.stage
      /\ charged.got = l.got /\ charged.answer = l.answer
  BY DEF CallOK, Fields
<1>2. CASE l.stage = "Before"
  <2>1. Hit(l) = [charged EXCEPT !.pc = "wait", !.todo = <<>>, !.n = 0]
    BY <1>2 DEF Hit
  <2> HIDE DEF charged
  <2> QED
    BY <1>1, <1>2, <2>1 DEF CallOK, Fields, Pcs
<1>3. CASE l.stage # "Before"
  <2>1. Hit(l) = Ended(lied)
    BY <1>3 DEF Hit
  <2>2. l.stage = "After" /\ l.got = "value"
    BY <1>3 DEF CallOK
  <2> HIDE DEF charged
  <2> QED
    BY <1>1, <2>1, <2>2 DEF Ended, CallOK, Fields, Pcs, Answers
<1> QED
  BY <1>2, <1>3

\* What a step does to the calls, as rpc.Handler sees them.
TurnStep(c) == [Source(c)!FaultNext]_(Turn(call[c]))

\* One call moves, from a call in order to one in order.
LEMMA OneMoves ==
    ASSUME CallsOK, NEW c \in Callers, NEW l, CallOK(l), call' = [call EXCEPT ![c] = l],
           TurnStep(c)
    PROVE  CallsOK' /\ \A d \in Callers : TurnStep(d)
<1>1. /\ DOMAIN call' = Callers
      /\ \A d \in Callers : call'[d] = IF d = c THEN l ELSE call[d]
  BY DEF CallsOK
<1>2. \A d \in Callers : d # c => TurnStep(d)
  BY <1>1 DEF TurnStep, Turn
<1> QED
  BY <1>1, <1>2 DEF CallsOK

LEMMA TurnIs ==
    ASSUME NEW l
    PROVE  /\ l.pc = "idle" => Turn(l) = [phase |-> "idle", got |-> l.got, sent |-> l.answer]
           /\ l.pc # "idle" /\ (l.stage = "After" \/ l.pc = "handle")
                => Turn(l) = [phase |-> "handle", got |-> "null", sent |-> "null"]
           /\ l.pc # "idle" /\ l.stage # "After" /\ l.pc # "handle"
                => Turn(l) = [phase |-> "before", got |-> "null", sent |-> "null"]
BY DEF Turn

\* The moves of FaultSource, spelled out.
LEMMA Moves ==
    ASSUME NEW c
    PROVE  /\ Turn(call[c]).phase = "idle"
                /\ Turn(call'[c]) = [phase |-> "before", got |-> "null", sent |-> "null"]
              => TurnStep(c)
           /\ Turn(call[c]).phase = "before"
                /\ Turn(call'[c]) = [phase |-> "handle", got |-> "null", sent |-> "null"]
              => TurnStep(c)
           /\ Turn(call'[c]) = Turn(call[c]) => TurnStep(c)
           /\ \A got, sent \in Answers :
                /\ Turn(call[c]).phase = "handle"
                /\ Turn(call'[c]) = [phase |-> "idle", got |-> got, sent |-> sent]
                /\ sent = got \/ (got = "value" /\ sent = "null")
                => TurnStep(c)
BY DEF TurnStep, Source!FaultNext, Source!Begin, Source!Ready, Source!Answer, Source!Phase,
   Source!Kinds, Source!MayBeSent, Answers

\* The steps of one call.
LEMMA CallSteps ==
    ASSUME CallsOK, NEW c \in Callers,
           \/ \E method \in Methods, cancelled \in BOOLEAN : Request(c, method, cancelled)
           \/ Run(c) \/ Elapse(c) \/ Cancel(c)
    PROVE  CallsOK' /\ \A d \in Callers : TurnStep(d)
<1> DEFINE l == call[c]
<1>1. CallOK(l) /\ DOMAIN call = Callers
  BY DEF CallsOK
<1>2. ASSUME NEW m, CallOK(m), call' = [call EXCEPT ![c] = m], TurnStep(c)
      PROVE  CallsOK' /\ \A d \in Callers : TurnStep(d)
  BY <1>2, OneMoves
<1>3. ASSUME NEW m, call' = [call EXCEPT ![c] = m]
      PROVE  call'[c] = m
  BY <1>1, <1>3
<1> HIDE DEF l
<1>4. ASSUME NEW method \in Methods, NEW cancelled \in BOOLEAN, Request(c, method, cancelled)
      PROVE  CallsOK' /\ \A d \in Callers : TurnStep(d)
  <2> DEFINE m == NewCall(method, cancelled)
  <2>1. l.pc = "idle" /\ call' = [call EXCEPT ![c] = m]
    BY <1>4 DEF Request, l
  <2>2. CallOK(m) /\ m.pc = "match" /\ m.stage = "Before"
    BY NewCallOK
  <2> HIDE DEF m
  <2>3. TurnStep(c)
    BY <1>3, <2>1, <2>2, TurnIs, Moves DEF l
  <2> QED
    BY <1>2, <2>1, <2>2, <2>3
<1>5. CASE Match(c)
  <2>1. PICK todo : /\ l.pc = "match"
                    /\ call' = [call EXCEPT ![c] = IF todo = <<>> THEN Pass(l)
                                  ELSE [l EXCEPT !.pc = "load", !.todo = todo]]
    BY <1>5 DEF Match, l
  <2>2. CASE todo = <<>>
    <3>1. /\ CallOK(Pass(l)) /\ Pass(l).got = l.got /\ Pass(l).answer = l.answer
          /\ Pass(l).pc = IF l.stage = "Before" THEN "handle" ELSE "idle"
      BY <1>1, <2>1, PassOK
    <3>2. call' = [call EXCEPT ![c] = Pass(l)]
      BY <2>1, <2>2
    <3>3. call'[c] = Pass(l)
      BY <1>3, <3>2
    <3>4. TurnStep(c)
      BY <1>1, <2>1, <3>1, <3>3, TurnIs, Moves DEF l, CallOK
    <3> QED
      BY <1>2, <3>1, <3>2, <3>4
  <2>3. CASE todo # <<>>
    <3> DEFINE m == [l EXCEPT !.pc = "load", !.todo = todo]
    <3>1. CallOK(m) /\ m.pc = "load" /\ m.stage = l.stage
      BY <1>1, <2>1 DEF CallOK, Fields, Pcs
    <3>2. call' = [call EXCEPT ![c] = m]
      BY <2>1, <2>3
    <3> HIDE DEF m
    <3>3. call'[c] = m
      BY <1>3, <3>2
    <3>4. TurnStep(c)
      BY <2>1, <3>1, <3>3, TurnIs, Moves DEF l
    <3> QED
      BY <1>2, <3>1, <3>2, <3>4
  <2> QED
    BY <2>2, <2>3
<1>6. ASSUME l.pc \in {"load", "cas"}, call' = [call EXCEPT ![c] = Hit(l)]
      PROVE  CallsOK' /\ \A d \in Callers : TurnStep(d)
  <2>1. /\ CallOK(Hit(l)) /\ Hit(l).got = l.got
        /\ l.stage = "Before" => Hit(l).pc = "wait" /\ Hit(l).stage = "Before"
        /\ l.stage = "After" => Hit(l).pc = "idle" /\ Hit(l).answer = "null"
    BY <1>1, <1>6, HitOK
  <2>2. call'[c] = Hit(l)
    BY <1>3, <1>6
  <2>3. l.stage = "After" => l.got = "value" /\ "null" \in Answers /\ l.got \in Answers
    BY <1>1, <1>6 DEF CallOK, Answers
  <2>4. l.stage \in {"Before", "After"}
    BY <1>1 DEF CallOK
  <2>5. TurnStep(c)
    BY <1>6, <2>1, <2>2, <2>3, <2>4, TurnIs, Moves DEF l
  <2> QED
    BY <1>2, <1>6, <2>1, <2>5
<1>7. CASE Load(c)
  <2>1. PICK n : /\ l.pc = "load"
                 /\ call' = [call EXCEPT ![c] = IF n < 0 THEN Hit(l)
                               ELSE IF n = 0 THEN Miss(l)
                               ELSE [l EXCEPT !.pc = "cas", !.n = n]]
    BY <1>7 DEF Load, l
  <2>2. CASE n < 0
    BY <1>6, <2>1, <2>2
  <2>3. CASE ~(n < 0) /\ n = 0
    <3>1. /\ CallOK(Miss(l)) /\ Miss(l).got = l.got /\ Miss(l).answer = l.answer
          /\ \/ Miss(l).pc = "load" /\ Miss(l).stage = l.stage
             \/ Miss(l).pc = IF l.stage = "Before" THEN "handle" ELSE "idle"
      BY <1>1, <2>1, MissOK
    <3>2. call' = [call EXCEPT ![c] = Miss(l)]
      BY <2>1, <2>3
    <3>3. call'[c] = Miss(l)
      BY <1>3, <3>2
    <3>4. TurnStep(c)
      BY <1>1, <2>1, <3>1, <3>3, TurnIs, Moves DEF l, CallOK
    <3> QED
      BY <1>2, <3>1, <3>2, <3>4
  <2>4. CASE ~(n < 0) /\ n # 0
    <3> DEFINE m == [l EXCEPT !.pc = "cas", !.n = n]
    <3>1. CallOK(m) /\ m.pc = "cas" /\ m.stage = l.stage
      BY <1>1, <2>1, <2>4 DEF CallOK, Fields, Pcs
    <3>2. call' = [call EXCEPT ![c] = m]
      BY <2>1, <2>4
    <3> HIDE DEF m
    <3>3. call'[c] = m
      BY <1>3, <3>2
    <3>4. TurnStep(c)
      BY <2>1, <3>1, <3>3, TurnIs, Moves DEF l
    <3> QED
      BY <1>2, <3>1, <3>2, <3>4
  <2> QED
    BY <2>2, <2>3, <2>4
<1>8. CASE Cas(c)
  <2>1. CASE call' = [call EXCEPT ![c] = Hit(l)]
    BY <1>6, <1>8, <2>1 DEF Cas, l
  <2>2. CASE call' = [call EXCEPT ![c].pc = "load"]
    <3> DEFINE m == [l EXCEPT !.pc = "load"]
    <3>1. l.pc = "cas" /\ call' = [call EXCEPT ![c] = m]
      BY <1>8, <2>2 DEF Cas, l
    <3>2. CallOK(m) /\ m.pc = "load" /\ m.stage = l.stage
      BY <1>1, <3>1 DEF CallOK, Fields, Pcs
    <3> HIDE DEF m
    <3>3. call'[c] = m
      BY <1>3, <3>1
    <3>4. TurnStep(c)
      BY <3>1, <3>2, <3>3, TurnIs, Moves DEF l
    <3> QED
      BY <1>2, <3>1, <3>2, <3>4
  <2> QED
    BY <1>8, <2>1, <2>2 DEF Cas, l
<1>9. CASE Elapse(c)
  <2> DEFINE m == [l EXCEPT !.pc = "handle"]
  <2>1. l.pc = "wait" /\ call' = [call EXCEPT ![c] = m]
    BY <1>9 DEF Elapse, l
  <2>2. CallOK(m) /\ m.pc = "handle" /\ l.stage = "Before"
    BY <1>1, <2>1 DEF CallOK, Fields, Pcs
  <2> HIDE DEF m
  <2>3. call'[c] = m
    BY <1>3, <2>1
  <2>4. TurnStep(c)
    BY <2>1, <2>2, <2>3, TurnIs, Moves DEF l
  <2> QED
    BY <1>2, <2>1, <2>2, <2>4
<1>10. CASE Interrupt(c)
  BY <1>9, <1>10 DEF Interrupt, Elapse
<1>11. CASE Cancel(c)
  <2> DEFINE m == [l EXCEPT !.cancelled = TRUE]
  <2>1. call' = [call EXCEPT ![c] = m]
    BY <1>11 DEF Cancel, l
  <2>2. CallOK(m) /\ m.pc = l.pc /\ m.stage = l.stage /\ m.got = l.got /\ m.answer = l.answer
    BY <1>1 DEF CallOK, Fields
  <2> HIDE DEF m
  <2>3. call'[c] = m
    BY <1>3, <2>1
  <2>4. Turn(m) = Turn(l)
    BY <2>2, TurnIs
  <2>5. TurnStep(c)
    BY <2>3, <2>4, Moves DEF l
  <2> QED
    BY <1>2, <2>1, <2>2, <2>5
<1>12. ASSUME NEW result \in Answers, Handle(c, result)
       PROVE  CallsOK' /\ \A d \in Callers : TurnStep(d)
  <2> DEFINE after == [l EXCEPT !.stage = "After", !.got = result, !.answer = result]
  <2>1. /\ l.pc = "handle"
        /\ call' = [call EXCEPT ![c] = IF result = "value" THEN [after EXCEPT !.pc = "match"]
                                                           ELSE Ended(after)]
    BY <1>12 DEF Handle, l
  <2>2. CASE result = "value"
    <3> DEFINE m == [after EXCEPT !.pc = "match"]
    <3>1. CallOK(m) /\ m.pc = "match" /\ m.stage = "After"
      BY <1>1, <2>2 DEF CallOK, Fields, Pcs, Answers
    <3>2. call' = [call EXCEPT ![c] = m]
      BY <2>1, <2>2
    <3> HIDE DEF m
    <3>3. call'[c] = m
      BY <1>3, <3>2
    <3>4. TurnStep(c)
      BY <2>1, <3>1, <3>3, TurnIs, Moves DEF l
    <3> QED
      BY <1>2, <3>1, <3>2, <3>4
  <2>3. CASE result # "value"
    <3>1. CallOK([after EXCEPT !.pc = "idle"]) /\ DOMAIN after = Fields
      BY <1>1 DEF CallOK, Fields, Pcs
    <3>2. after.got = result /\ after.answer = result
      BY <1>1 DEF CallOK, Fields
    <3>3. call' = [call EXCEPT ![c] = Ended(after)]
      BY <2>1, <2>3
    <3> HIDE DEF after
    <3>4. /\ CallOK(Ended(after)) /\ Ended(after).pc = "idle"
          /\ Ended(after).got = result /\ Ended(after).answer = result
      BY <3>1, <3>2, EndedOK
    <3>5. call'[c] = Ended(after)
      BY <1>3, <3>3
    <3>6. TurnStep(c)
      BY <2>1, <3>4, <3>5, TurnIs, Moves DEF l
    <3> QED
      BY <1>2, <3>3, <3>4, <3>6
  <2> QED
    BY <2>2, <2>3
<1> QED
  BY <1>4, <1>5, <1>7, <1>8, <1>9, <1>10, <1>11, <1>12 DEF Run

(***************************************************************************)
(* The registry                                                            *)
(***************************************************************************)

Locked == enabling.new # 0

\* The lists hold faults that were enabled, each fault has its counters, and
\* Enable holds nothing when it is not at work.
RegistryOK ==
    /\ fault \in Seq(Catalogue)
    /\ remaining \in Seq(Int) /\ Len(remaining) = Len(fault)
    /\ fired \in Seq(Nat) /\ Len(fired) = Len(fault)
    /\ list \in Seq(FaultIds) /\ cleared \subseteq FaultIds
    /\ enabling \in [new : {0} \cup FaultIds, rest : Seq(FaultIds), live : Seq(FaultIds)]
    /\ ~Locked => enabling = LockFree

\* The budget is exact, and a fault without one never gets one.
CountsOK ==
    \A id \in FaultIds :
        IF fault[id].count > 0
        THEN remaining[id] \in 0 .. fault[id].count
               /\ fired[id] + remaining[id] = fault[id].count
        ELSE remaining[id] = -1

\* The faults the list holds, or will hold when Enable is done.
Stored ==
    IF Locked THEN ToSet(enabling.rest) \cup ToSet(enabling.live) \cup {enabling.new}
    ELSE ToSet(list)

\* No live fault is lost; no cleared one is in the list, or about to be.
ListsOK ==
    /\ \A id \in FaultIds \ cleared : ~Spent(id) => id \in Stored
    /\ cleared \cap Stored = {} /\ cleared \cap ToSet(list) = {}

FaultsInv == CallsOK /\ RegistryOK /\ CountsOK /\ ListsOK

\* The elements of a sequence.
LEMMA ToSetFacts ==
    ASSUME NEW S, NEW s \in Seq(S)
    PROVE  /\ ToSet(s) \subseteq S
           /\ \A e \in S : Append(s, e) \in Seq(S) /\ ToSet(Append(s, e)) = ToSet(s) \cup {e}
           /\ s # <<>> => /\ Head(s) \in S /\ Tail(s) \in Seq(S)
                          /\ ToSet(s) = {Head(s)} \cup ToSet(Tail(s))
<1>1. \A x : x \in ToSet(s) <=> \E i \in 1 .. Len(s) : x = s[i]
  BY DEF ToSet
<1>2. ToSet(s) \subseteq S
  BY <1>1
<1>3. ASSUME NEW e \in S
      PROVE  Append(s, e) \in Seq(S) /\ ToSet(Append(s, e)) = ToSet(s) \cup {e}
  <2> DEFINE t == Append(s, e)
  <2>1. /\ t \in Seq(S) /\ Len(t) = Len(s) + 1 /\ t[Len(s) + 1] = e
        /\ \A i \in 1 .. Len(s) : t[i] = s[i]
    BY AppendProperties
  <2> HIDE DEF t
  <2>2. \A x : x \in ToSet(t) <=> \E i \in 1 .. Len(t) : x = t[i]
    BY <2>1 DEF ToSet
  <2>3. \A i \in 1 .. Len(t) : i = Len(s) + 1 \/ i \in 1 .. Len(s)
    BY <2>1
  <2>4. Len(s) + 1 \in 1 .. Len(t) /\ \A i \in 1 .. Len(s) : i \in 1 .. Len(t)
    BY <2>1
  <2>5. \A x : x \in ToSet(t) <=> x \in ToSet(s) \/ x = e
    BY <1>1, <2>1, <2>2, <2>3, <2>4
  <2> QED
    BY <2>1, <2>5 DEF t
<1>4. ASSUME s # <<>>
      PROVE  /\ Head(s) \in S /\ Tail(s) \in Seq(S)
             /\ ToSet(s) = {Head(s)} \cup ToSet(Tail(s))
  <2> DEFINE t == Tail(s)
  <2>1. /\ Head(s) \in S /\ t \in Seq(S) /\ Len(t) = Len(s) - 1 /\ Head(s) = s[1]
        /\ \A i \in 1 .. Len(t) : t[i] = s[i + 1]
    BY <1>4, HeadTailProperties
  <2> HIDE DEF t
  <2>2. \A x : x \in ToSet(t) <=> \E i \in 1 .. Len(t) : x = t[i]
    BY <2>1 DEF ToSet
  <2>3. \A i \in 1 .. Len(s) : i = 1 \/ (i - 1 \in 1 .. Len(t) /\ s[i] = t[i - 1])
    <3> TAKE i \in 1 .. Len(s)
    <3>1. i = 1 \/ i - 1 \in 1 .. Len(t)
      BY <2>1
    <3>2. (i - 1) + 1 = i
      OBVIOUS
    <3> QED
      BY <2>1, <3>1, <3>2
  <2>4. Len(s) \in Nat \ {0}
    BY <1>4
  <2>5. 1 \in 1 .. Len(s) /\ \A i \in 1 .. Len(t) : i + 1 \in 1 .. Len(s)
    BY <2>1, <2>4
  <2>6. \A x : x \in ToSet(s) <=> x = Head(s) \/ x \in ToSet(t)
    BY <1>1, <2>1, <2>2, <2>3, <2>5
  <2> QED
    BY <2>1, <2>6 DEF t
<1> QED
  BY <1>2, <1>3, <1>4

LEMMA EmptyToSet == ToSet(<<>>) = {}
BY DEF ToSet

LEMMA CountIsInt == RegistryOK => \A id \in FaultIds : fault[id].count \in Int
BY FaultsAssumption DEF RegistryOK, FaultIds

(***************************************************************************)
(* What matching gives                                                     *)
(***************************************************************************)

Less == OpToRel(<, Nat)

LEMMA LessIs == \A m, n \in Nat : m < n => <<m, n>> \in Less
<1>1. Less = {p \in Nat \X Nat : p[1] < p[2]}
  BY DEF Less, OpToRel
<1> QED
  BY <1>1

LEMMA LessIsWellFounded == IsWellFoundedOn(Less, Nat)
BY NatLessThanWellFounded DEF Less

LEMMA MinFacts ==
    ASSUME NEW S \in SUBSET Nat, S # {}
    PROVE  Min(S) \in S /\ \A n \in S : Min(S) <= n
<1>1. PICK m \in S : \A n \in S : <<n, m>> \notin Less
  BY LessIsWellFounded, WFMin
<1>2. \A n \in S : m <= n
  <2> TAKE n \in S
  <2>1. m \in Nat /\ n \in Nat /\ ~(n < m)
    BY <1>1, LessIs
  <2> QED
    BY <2>1
<1> QED
  BY <1>2 DEF Min

\* The faults that Before or After may try for a call.
Candidates(method, type) == {id \in FaultIds : Matches(id, method, type)}

\* walk is what matching has collected after each of the first n faults.
Collects(walk, method, type, n) ==
    walk = [k \in 0 .. n |->
              IF k = 0 THEN <<>>
              ELSE IF Matches(list[k], method, type) THEN Append(walk[k - 1], list[k])
              ELSE walk[k - 1]]

LEMMA WalkExists ==
    ASSUME NEW method, NEW type, NEW n \in Nat
    PROVE  \E walk : Collects(walk, method, type, n)
<1> DEFINE Bad == {k \in Nat : ~ \E walk : Collects(walk, method, type, k)}
<1>1. SUFFICES ASSUME Bad # {} PROVE FALSE
  OBVIOUS
<1> DEFINE m == Min(Bad)
<1>2. m \in Bad /\ \A k \in Bad : m <= k
  BY <1>1, MinFacts
<1> HIDE DEF m
<1>3. m # 0
  <2>1. Collects([k \in 0 .. 0 |-> <<>>], method, type, 0)
    BY DEF Collects
  <2> QED
    BY <1>2, <2>1
<1>4. m \in Nat /\ m - 1 \in Nat /\ ~(m <= m - 1)
  BY <1>2, <1>3
<1>5. PICK v : Collects(v, method, type, m - 1)
  BY <1>2, <1>4
<1> DEFINE next == IF Matches(list[m], method, type) THEN Append(v[m - 1], list[m])
                   ELSE v[m - 1]
           w == [k \in 0 .. m |-> IF k = m THEN next ELSE v[k]]
           Next1(x, k) == IF k = 0 THEN <<>>
                          ELSE IF Matches(list[k], method, type)
                               THEN Append(x[k - 1], list[k])
                          ELSE x[k - 1]
<1>6. ASSUME NEW k \in 0 .. m
      PROVE  w[k] = Next1(w, k)
  <2>1. CASE k = m
    <3>1. w[m] = next /\ w[m - 1] = v[m - 1]
      BY <1>4
    <3> HIDE DEF w
    <3> QED
      BY <1>3, <2>1, <3>1
  <2>2. CASE k # m
    <3>1. k \in 0 .. m - 1 /\ w[k] = v[k]
      BY <1>4, <2>2
    <3>2. v[k] = Next1(v, k)
      BY <1>5, <3>1 DEF Collects
    <3>3. k # 0 => w[k - 1] = v[k - 1]
      BY <1>4, <3>1
    <3> HIDE DEF w
    <3> QED
      BY <3>1, <3>2, <3>3
  <2> QED
    BY <2>1, <2>2
<1>7. Collects(w, method, type, m)
  <2> DEFINE u == [k \in 0 .. m |-> Next1(w, k)]
  <2>1. \A k \in 0 .. m : w[k] = u[k]
    BY <1>6
  <2>2. w = u
    BY <2>1
  <2> QED
    BY <2>2 DEF Collects
<1> QED
  BY <1>2, <1>7

\* matching gives faults of the list that name the method and have the type.
LEMMA MatchingFinds ==
    ASSUME RegistryOK, NEW method, NEW type
    PROVE  Matching(method, type) \in Seq(Candidates(method, type))
<1> DEFINE n == Len(list)
           Walk(walk) == [k \in 0 .. n |->
                     IF k = 0 THEN <<>>
                     ELSE IF Matches(list[k], method, type) THEN Append(walk[k - 1], list[k])
                     ELSE walk[k - 1]]
           walk == CHOOSE walk : walk = Walk(walk)
           C == Candidates(method, type)
<1>1. n \in Nat /\ \A k \in 1 .. n : list[k] \in FaultIds
  BY DEF RegistryOK
<1>2. Collects(walk, method, type, n)
  <2>1. \A w : Collects(w, method, type, n) <=> w = Walk(w)
    BY DEF Collects
  <2>2. \E w : Collects(w, method, type, n)
    BY <1>1, WalkExists
  <2> HIDE DEF Walk, n
  <2> QED
    BY <2>1, <2>2
<1>3. Matching(method, type) = walk[n]
  BY DEF Matching
<1> HIDE DEF n, walk
<1>4. \A k \in 1 .. n : Matches(list[k], method, type) => list[k] \in C
  BY <1>1 DEF Candidates
<1>5. \A k \in 0 .. n :
        walk[k] = IF k = 0 THEN <<>>
                  ELSE IF Matches(list[k], method, type) THEN Append(walk[k - 1], list[k])
                  ELSE walk[k - 1]
  BY <1>2 DEF Collects
<1> HIDE DEF C
<1> DEFINE Bad == {k \in 0 .. n : walk[k] \notin Seq(C)}
<1>6. SUFFICES ASSUME Bad # {} PROVE FALSE
  BY <1>1, <1>3 DEF C
<1> DEFINE j == Min(Bad)
<1>7. j \in Bad /\ \A k \in Bad : j <= k
  <2>1. Bad \subseteq Nat
    BY <1>1
  <2> HIDE DEF Bad
  <2> QED
    BY <1>6, <2>1, MinFacts
<1> HIDE DEF j
<1>8. j # 0
  <2>1. <<>> \in Seq(C)
    OBVIOUS
  <2> QED
    BY <1>1, <1>5, <1>7, <2>1
<1>9. j \in 1 .. n /\ j - 1 \in 0 .. n /\ ~(j <= j - 1)
  BY <1>1, <1>7, <1>8
<1>10. walk[j - 1] \in Seq(C)
  BY <1>7, <1>9
<1>11. walk[j] \in Seq(C)
  <2>1. CASE Matches(list[j], method, type)
    <3>1. walk[j] = Append(walk[j - 1], list[j]) /\ list[j] \in C
      BY <1>4, <1>5, <1>8, <1>7, <1>9, <2>1
    <3> QED
      BY <1>10, <3>1, AppendProperties
  <2>2. CASE ~Matches(list[j], method, type)
    BY <1>5, <1>7, <1>8, <1>10, <2>2
  <2> QED
    BY <2>1, <2>2
<1> QED
  BY <1>7, <1>11

\* A delay that is longest is one of the delays found.
LEMMA LongestFinds ==
    ASSUME RegistryOK, NEW S \in SUBSET FaultIds, NEW ids \in Seq(S)
    PROVE  Longest(ids) \in Seq(S)
<1> DEFINE d(i) == fault[ids[i]].delay
           n == Len(ids)
           longest == {i \in DOMAIN ids : \A j \in DOMAIN ids : d(j) <= d(i)}
<1>1. n \in Nat /\ DOMAIN ids = 1 .. n /\ \A i \in 1 .. n : ids[i] \in S
  OBVIOUS
<1>2. \A i \in 1 .. n : d(i) \in Nat
  <2> TAKE i \in 1 .. n
  <2>1. ids[i] \in 1 .. Len(fault) /\ fault \in Seq(Catalogue)
    BY <1>1 DEF RegistryOK, FaultIds
  <2>2. fault[ids[i]] \in Catalogue
    BY <2>1
  <2> QED
    BY <2>2, FaultsAssumption
<1>3. CASE ids = <<>>
  BY <1>3 DEF Longest
<1>4. CASE ids # <<>>
  <2>1. n # 0
    BY <1>1, <1>4
  <2> HIDE DEF n, d
  <2> DEFINE Bad == {k \in 1 .. n : ~ \E i \in 1 .. k : \A j \in 1 .. k : d(j) <= d(i)}
  <2>2. Bad = {}
    <3>1. SUFFICES ASSUME Bad # {} PROVE FALSE
      OBVIOUS
    <3> DEFINE m == Min(Bad)
    <3>2. m \in Bad /\ \A k \in Bad : m <= k
      <4>1. Bad \subseteq Nat
        BY <1>1
      <4> HIDE DEF Bad
      <4> QED
        BY <3>1, <4>1, MinFacts
    <3> HIDE DEF m
    <3>3. m # 1
      <4>1. CASE m = 1
        <5>1. \A j \in 1 .. 1 : d(j) <= d(1)
          BY <1>1, <1>2, <2>1
        <5> QED
          BY <3>2, <4>1, <5>1
      <4> QED
        BY <4>1
    <3>4. m \in 1 .. n /\ m - 1 \in 1 .. n /\ ~(m <= m - 1)
      BY <1>1, <3>2, <3>3
    <3>5. PICK i \in 1 .. m - 1 : \A j \in 1 .. m - 1 : d(j) <= d(i)
      BY <3>2, <3>4
    <3>6. i \in 1 .. n /\ d(i) \in Nat /\ d(m) \in Nat
      BY <1>1, <1>2, <3>4
    <3>7. \A j \in 1 .. m : j = m \/ (j \in 1 .. m - 1 /\ d(j) \in Nat)
      BY <1>1, <1>2, <3>4
    <3>8. CASE d(m) <= d(i)
      <4>1. \A j \in 1 .. m : d(j) <= d(i)
        BY <3>5, <3>7, <3>8
      <4> QED
        BY <1>1, <3>2, <3>4, <4>1
    <3>9. CASE ~(d(m) <= d(i))
      <4>1. \A j \in 1 .. m : d(j) <= d(m)
        BY <3>5, <3>6, <3>7, <3>9
      <4> QED
        BY <1>1, <3>2, <3>4, <4>1
    <3> QED
      BY <3>8, <3>9
  <2>3. n \in 1 .. n
    BY <1>1, <2>1
  <2>4. \E i \in 1 .. n : \A j \in 1 .. n : d(j) <= d(i)
    BY <2>2, <2>3
  <2>5. longest # {} /\ longest \subseteq 1 .. n
    BY <1>1, <2>4
  <2>6. Longest(ids) = <<ids[Min(longest)]>>
    BY <1>4 DEF Longest, d
  <2> HIDE DEF longest
  <2>7. Min(longest) \in 1 .. n
    <3>1. longest \subseteq Nat
      BY <1>1, <2>5
    <3> QED
      BY <2>5, <3>1, MinFacts
  <2>8. ids[Min(longest)] \in S
    BY <1>1, <2>7
  <2> QED
    BY <2>6, <2>8
<1> QED
  BY <1>3, <1>4

LEMMA InitFaultsInv == Init => FaultsInv
<1> SUFFICES ASSUME Init PROVE FaultsInv
  OBVIOUS
<1>1. CallsOK
  <2> DEFINE m == NewCall(AllMethods, FALSE)
  <2>1. CallOK(m) /\ m.stage = "Before" /\ m.got = "null" /\ m.answer = "null"
    BY NewCallOK DEF NewCall
  <2>2. call = [c \in Callers |-> Ended(m)]
    BY DEF Init
  <2> HIDE DEF m
  <2>3. CallOK([m EXCEPT !.pc = "idle"]) /\ DOMAIN m = Fields
    BY <2>1 DEF CallOK, Fields, Pcs
  <2> QED
    BY <2>2, <2>3, EndedOK DEF CallsOK
<1>2. RegistryOK /\ FaultIds = {}
  BY DEF Init, RegistryOK, FaultIds, Locked, LockFree
<1>3. CountsOK /\ ListsOK
  BY <1>2, EmptyToSet DEF Init, CountsOK, ListsOK, Stored, Locked, LockFree
<1> QED
  BY <1>1, <1>2, <1>3 DEF FaultsInv

\* A step of a call leaves the lists alone, and takes at most one unit of one
\* fault, which it found there.
LEMMA CallStepKeeps ==
    ASSUME FaultsInv, NEW c \in Callers,
           \/ \E method \in Methods, cancelled \in BOOLEAN : Request(c, method, cancelled)
           \/ Run(c) \/ Elapse(c) \/ Cancel(c)
    PROVE  (RegistryOK /\ CountsOK /\ ListsOK)'
<1>1. list' = list /\ fault' = fault /\ enabling' = enabling /\ cleared' = cleared
  BY DEF Run, Request, Match, Load, Cas, Interrupt, Handle, Elapse, Cancel
<1>2. CASE remaining' = remaining /\ fired' = fired
  BY <1>1, <1>2 DEF FaultsInv, RegistryOK, CountsOK, ListsOK, Stored, Locked, Spent, FaultIds
<1>3. CASE Cas(c) /\ remaining[Head(call[c].todo)] = call[c].n
  <2> DEFINE id == Head(call[c].todo)
  <2>1. /\ remaining' = [remaining EXCEPT ![id] = @ - 1]
        /\ fired' = [fired EXCEPT ![id] = @ + 1]
        /\ ~(remaining[id] < 0) /\ remaining[id] # 0
    BY <1>3 DEF Cas, FaultsInv, CallsOK, CallOK
  <2> HIDE DEF id
  <2>2. CASE id \in FaultIds
    <3>1. /\ remaining[id] \in Nat \ {0} /\ fired[id] \in Nat
          /\ fault[id].count \in Nat \ {0} /\ remaining[id] \in 0 .. fault[id].count
      <4>1. remaining[id] \in Int /\ fired[id] \in Nat /\ fault[id].count \in Int
        BY <2>2, CountIsInt DEF FaultsInv, RegistryOK, FaultIds
      <4>2. fault[id].count > 0 /\ remaining[id] \in 0 .. fault[id].count
        BY <2>1, <2>2, <4>1 DEF FaultsInv, CountsOK
      <4> QED
        BY <2>1, <4>1, <4>2
    <3>2. /\ remaining' \in Seq(Int) /\ Len(remaining') = Len(fault)
          /\ fired' \in Seq(Nat) /\ Len(fired') = Len(fault)
      <4>1. /\ remaining \in Seq(Int) /\ Len(remaining) = Len(fault) /\ id \in 1 .. Len(remaining)
            /\ fired \in Seq(Nat) /\ Len(fired) = Len(fault) /\ id \in 1 .. Len(fired)
        BY <2>2 DEF FaultsInv, RegistryOK, FaultIds
      <4>2. remaining[id] - 1 \in Int /\ fired[id] + 1 \in Nat
        BY <3>1
      <4>3. /\ [remaining EXCEPT ![id] = remaining[id] - 1] \in Seq(Int)
            /\ Len([remaining EXCEPT ![id] = remaining[id] - 1]) = Len(remaining)
        BY <4>1, <4>2, ExceptSeq
      <4>4. /\ [fired EXCEPT ![id] = fired[id] + 1] \in Seq(Nat)
            /\ Len([fired EXCEPT ![id] = fired[id] + 1]) = Len(fired)
        BY <4>1, <4>2, ExceptSeq
      <4> QED
        BY <2>1, <4>1, <4>3, <4>4
    <3>3. \A j \in FaultIds :
            /\ remaining'[j] = IF j = id THEN remaining[id] - 1 ELSE remaining[j]
            /\ fired'[j] = IF j = id THEN fired[id] + 1 ELSE fired[j]
      BY <2>1 DEF FaultsInv, RegistryOK, FaultIds
    <3>4. RegistryOK'
      BY <1>1, <3>2 DEF FaultsInv, RegistryOK, FaultIds, Locked
    <3>5. CountsOK'
      <4>1. remaining[id] - 1 \in 0 .. fault[id].count
        BY <3>1
      <4>2. (fired[id] + 1) + (remaining[id] - 1) = fired[id] + remaining[id]
        BY <3>1
      <4>3. ASSUME NEW j \in FaultIds
            PROVE  IF fault[j].count > 0
                   THEN remaining'[j] \in 0 .. fault[j].count
                          /\ fired'[j] + remaining'[j] = fault[j].count
                   ELSE remaining'[j] = -1
        <5>1. CASE j = id
          BY <2>2, <3>1, <3>3, <4>1, <4>2, <5>1 DEF FaultsInv, CountsOK
        <5>2. CASE j # id
          BY <3>3, <5>2 DEF FaultsInv, CountsOK
        <5> QED
          BY <5>1, <5>2
      <4> QED
        BY <1>1, <4>3 DEF CountsOK, FaultIds
    <3>6. ListsOK'
      BY <1>1, <3>1, <3>3 DEF FaultsInv, ListsOK, Stored, Locked, Spent, FaultIds
    <3> QED
      BY <3>4, <3>5, <3>6
  <2>3. CASE id \notin FaultIds
    <3>1. remaining' = remaining /\ fired' = fired
      BY <2>1, <2>3 DEF FaultsInv, RegistryOK, FaultIds
    <3> QED
      BY <1>2, <3>1
  <2> QED
    BY <2>2, <2>3
<1> QED
  BY <1>2, <1>3 DEF Run, Request, Match, Load, Cas, Interrupt, Handle, Elapse, Cancel

\* Enable: a fresh id, with its full count, and the list taken for reaping.
LEMMA EnableKeeps ==
    ASSUME FaultsInv, NEW f \in Catalogue, Enable(f)
    PROVE  (RegistryOK /\ CountsOK /\ ListsOK)'
<1> DEFINE k == Len(fault) + 1
<1>1. /\ fault \in Seq(Catalogue) /\ remaining \in Seq(Int) /\ fired \in Seq(Nat)
      /\ Len(remaining) = Len(fault) /\ Len(fired) = Len(fault) /\ Len(fault) \in Nat
      /\ list \in Seq(FaultIds) /\ cleared \subseteq FaultIds
  BY DEF FaultsInv, RegistryOK
<1>2. f.count \in Int /\ InitialCount(f) \in Int
  BY FaultsAssumption DEF InitialCount
<1>3. /\ fault' \in Seq(Catalogue) /\ Len(fault') = k /\ fault'[k] = f
      /\ \A id \in FaultIds : fault'[id] = fault[id]
  BY <1>1, AppendProperties DEF Enable, FaultIds
<1>4. /\ remaining' \in Seq(Int) /\ Len(remaining') = k /\ remaining'[k] = InitialCount(f)
      /\ \A id \in FaultIds : remaining'[id] = remaining[id]
  BY <1>1, <1>2, AppendProperties DEF Enable, FaultIds
<1>5. /\ fired' \in Seq(Nat) /\ Len(fired') = k /\ fired'[k] = 0
      /\ \A id \in FaultIds : fired'[id] = fired[id]
  BY <1>1, AppendProperties DEF Enable, FaultIds
<1>6. FaultIds' = FaultIds \cup {k} /\ k \notin FaultIds /\ k # 0
  BY <1>1, <1>3 DEF FaultIds
<1>7. /\ list' = list /\ cleared' = cleared
      /\ enabling' = [new |-> k, rest |-> list, live |-> <<>>]
  BY <1>3 DEF Enable
<1>8. list \in Seq(FaultIds') /\ <<>> \in Seq(FaultIds')
  <2>1. FaultIds \subseteq FaultIds'
    BY <1>6
  <2> QED
    BY <1>1, <2>1, SeqMonotonic
<1> HIDE DEF k
<1>9. RegistryOK'
  <2>1. enabling' \in [new : {0} \cup FaultIds', rest : Seq(FaultIds'), live : Seq(FaultIds')]
    BY <1>6, <1>7, <1>8
  <2>2. Locked'
    BY <1>6, <1>7 DEF Locked
  <2> QED
    BY <1>1, <1>3, <1>4, <1>5, <1>6, <1>7, <1>8, <2>1, <2>2 DEF RegistryOK
<1>10. CountsOK'
  <2>1. ASSUME NEW id \in FaultIds
        PROVE  IF fault'[id].count > 0
               THEN remaining'[id] \in 0 .. fault'[id].count
                      /\ fired'[id] + remaining'[id] = fault'[id].count
               ELSE remaining'[id] = -1
    BY <1>3, <1>4, <1>5 DEF FaultsInv, CountsOK
  <2>2. IF fault'[k].count > 0
        THEN remaining'[k] \in 0 .. fault'[k].count
               /\ fired'[k] + remaining'[k] = fault'[k].count
        ELSE remaining'[k] = -1
    BY <1>2, <1>3, <1>4, <1>5 DEF InitialCount
  <2> QED
    BY <1>6, <2>1, <2>2 DEF CountsOK
<1>11. ListsOK'
  <2>1. Stored = ToSet(list) /\ ToSet(list) \subseteq FaultIds
    BY <1>1, ToSetFacts DEF Stored, Locked, Enable, Unlocked, LockFree
  <2>2. Stored' = ToSet(list) \cup {k}
    BY <1>6, <1>7, EmptyToSet DEF Stored, Locked
  <2>3. \A id \in FaultIds : Spent(id)' = Spent(id)
    BY <1>4 DEF Spent
  <2> QED
    BY <1>1, <1>6, <1>7, <2>1, <2>2, <2>3 DEF FaultsInv, ListsOK, Spent
<1> QED
  BY <1>9, <1>10, <1>11

\* Reap moves one fault from one of Enable's lists to the other, or leaves it out
\* because it is spent.
LEMMA ReapKeeps ==
    ASSUME FaultsInv, Reap
    PROVE  (RegistryOK /\ CountsOK /\ ListsOK)'
<1> DEFINE id == Head(enabling.rest)
<1>1. /\ list' = list /\ fault' = fault /\ remaining' = remaining
      /\ fired' = fired /\ cleared' = cleared /\ FaultIds' = FaultIds
  BY DEF Reap, FaultIds
<1>2. /\ enabling \in [new : {0} \cup FaultIds, rest : Seq(FaultIds), live : Seq(FaultIds)]
      /\ enabling.rest # <<>> /\ Locked
  BY DEF FaultsInv, RegistryOK, Reap, LockFree
<1>3. /\ id \in FaultIds /\ Tail(enabling.rest) \in Seq(FaultIds)
      /\ ToSet(enabling.rest) = {id} \cup ToSet(Tail(enabling.rest))
  BY <1>2, ToSetFacts
<1>4. /\ Append(enabling.live, id) \in Seq(FaultIds)
      /\ ToSet(Append(enabling.live, id)) = ToSet(enabling.live) \cup {id}
  BY <1>2, <1>3, ToSetFacts
<1>5. /\ enabling'.new = enabling.new /\ enabling'.rest = Tail(enabling.rest)
      /\ enabling'.live = IF Spent(id) THEN enabling.live ELSE Append(enabling.live, id)
      /\ enabling' \in [new : {0} \cup FaultIds, rest : Seq(FaultIds), live : Seq(FaultIds)]
  BY <1>2, <1>3, <1>4 DEF Reap
<1> HIDE DEF id
<1>6. RegistryOK' /\ CountsOK'
  BY <1>1, <1>2, <1>5 DEF FaultsInv, RegistryOK, CountsOK, Locked
<1>7. ListsOK'
  <2>1. Stored' = IF Spent(id) THEN (ToSet(Tail(enabling.rest)) \cup ToSet(enabling.live))
                                      \cup {enabling.new}
                  ELSE Stored
    BY <1>2, <1>3, <1>4, <1>5 DEF Stored, Locked
  <2>2. Stored' \subseteq Stored /\ \A j \in Stored : j = id \/ j \in Stored'
    BY <1>2, <1>3, <2>1 DEF Stored
  <2>3. ~Spent(id) => Stored' = Stored
    BY <2>1
  <2> QED
    BY <1>1, <2>2, <2>3 DEF FaultsInv, ListsOK, Spent
<1> QED
  BY <1>6, <1>7

\* The end of Enable stores what the list held of live faults, and the new one.
LEMMA EnabledKeeps ==
    ASSUME FaultsInv, Enabled
    PROVE  (RegistryOK /\ CountsOK /\ ListsOK)'
<1>1. /\ fault' = fault /\ remaining' = remaining /\ fired' = fired
      /\ cleared' = cleared /\ FaultIds' = FaultIds /\ enabling' = LockFree
      /\ Locked /\ ~Locked' /\ enabling.rest = <<>>
  BY DEF Enabled, FaultIds, Locked, LockFree
<1>2. enabling.new \in FaultIds /\ enabling.live \in Seq(FaultIds)
  BY <1>1 DEF FaultsInv, RegistryOK, Locked
<1>3. /\ list' \in Seq(FaultIds)
      /\ ToSet(list') = ToSet(enabling.live) \cup {enabling.new}
  BY <1>2, ToSetFacts DEF Enabled
<1>4. RegistryOK' /\ CountsOK'
  <2>1. LockFree \in [new : {0} \cup FaultIds, rest : Seq(FaultIds), live : Seq(FaultIds)]
    BY DEF LockFree
  <2> QED
    BY <1>1, <1>3, <2>1 DEF FaultsInv, RegistryOK, CountsOK
<1>5. Stored' = ToSet(list') /\ Stored = ToSet(list')
  BY <1>1, <1>3, EmptyToSet DEF Stored
<1>6. ListsOK'
  BY <1>1, <1>5 DEF FaultsInv, ListsOK, Spent
<1> QED
  BY <1>4, <1>6

LEMMA ClearKeeps ==
    ASSUME FaultsInv, Clear
    PROVE  (RegistryOK /\ CountsOK /\ ListsOK)'
<1>1. /\ fault' = fault /\ remaining' = remaining /\ fired' = fired /\ enabling' = enabling
      /\ FaultIds' = FaultIds /\ list' = <<>> /\ cleared' = cleared \cup ToSet(list)
      /\ ~Locked /\ ~Locked'
  BY DEF Clear, FaultIds, Locked, Unlocked, LockFree
<1>2. ToSet(list) \subseteq FaultIds /\ list' \in Seq(FaultIds)
  BY <1>1, ToSetFacts DEF FaultsInv, RegistryOK
<1>3. RegistryOK' /\ CountsOK'
  BY <1>1, <1>2 DEF FaultsInv, RegistryOK, CountsOK
<1>4. Stored = ToSet(list) /\ Stored' = {} /\ ToSet(list') = {}
  BY <1>1, EmptyToSet DEF Stored
<1>5. ListsOK'
  BY <1>1, <1>4 DEF FaultsInv, ListsOK, Spent
<1> QED
  BY <1>3, <1>5

LEMMA FaultsNextInv ==
    ASSUME FaultsInv, [Next]_vars
    PROVE  FaultsInv' /\ \A c \in Callers : TurnStep(c)
<1>1. CASE \E c \in Callers :
             \/ \E method \in Methods, cancelled \in BOOLEAN : Request(c, method, cancelled)
             \/ Run(c) \/ Elapse(c) \/ Cancel(c)
  BY <1>1, CallSteps, CallStepKeeps DEF FaultsInv
<1>2. ASSUME call' = call
      PROVE  CallsOK' /\ \A c \in Callers : TurnStep(c)
  BY <1>2 DEF FaultsInv, CallsOK, CallOK, TurnStep, Turn
<1>3. ASSUME NEW f \in Catalogue, Enable(f)
      PROVE  FaultsInv' /\ \A c \in Callers : TurnStep(c)
  <2>1. call' = call
    BY <1>3 DEF Enable
  <2> QED
    BY <1>2, <1>3, <2>1, EnableKeeps DEF FaultsInv
<1>4. CASE Reap \/ Enabled \/ Clear
  <2>1. call' = call
    BY <1>4 DEF Reap, Enabled, Clear
  <2> QED
    BY <1>2, <1>4, <2>1, ReapKeeps, EnabledKeeps, ClearKeeps DEF FaultsInv
<1>5. CASE UNCHANGED vars
  <2>1. (RegistryOK /\ CountsOK /\ ListsOK)'
    BY <1>5 DEF vars, FaultsInv, RegistryOK, CountsOK, ListsOK, Stored, Locked, Spent, FaultIds
  <2> QED
    BY <1>2, <1>5, <2>1 DEF vars, FaultsInv
<1> QED
  BY <1>1, <1>3, <1>4, <1>5 DEF Next

LEMMA FaultsInvariant == Spec => []FaultsInv
<1>1. FaultsInv /\ [Next]_vars => FaultsInv'
  BY FaultsNextInv
<1> QED
  BY <1>1, InitFaultsInv, PTL DEF Spec

(***************************************************************************)
(* What a call is charged for.  The fields of the faults are a parameter,  *)
(* so that the lemmas about a call can be used before and after a step.    *)
(***************************************************************************)

CallSet(fs) ==
    [pc : Pcs, stage : {"Before", "After"}, method : Methods \cup {AllMethods},
     todo : Seq(1 .. Len(fs)), n : Nat, cancelled : BOOLEAN,
     got : Answers, answer : Answers, paid : Seq(1 .. Len(fs))]

Names(fs, id, method) == fs[id].method \in {AllMethods, method}

Charges(fs, l, type) == {i \in DOMAIN l.paid : fs[l.paid[i]].type = type}

\* The type of fault that a call looks for.
Wanted(l) == IF l.stage = "Before" THEN "Delay" ELSE "FalseNull"

\* What a call tries is what its stage looks for; until the stage after the method
\* nothing but one delay is paid; a lie is paid at the end of a call that was sent
\* one, and by no other.
Charged(fs, l) ==
    /\ l \in CallSet(fs)
    /\ l.pc \in {"load", "cas"} =>
         /\ l.todo # <<>>
         /\ \A i \in DOMAIN l.todo : /\ fs[l.todo[i]].type = Wanted(l)
                                     /\ Names(fs, l.todo[i], l.method)
    /\ \A i \in DOMAIN l.paid : Names(fs, l.paid[i], l.method)
    /\ l.stage = "Before" /\ l.pc \in {"match", "load", "cas"} => l.paid = <<>>
    /\ \A i, j \in Charges(fs, l, "Delay") : i = j
    /\ IF l.pc = "idle" /\ l.answer # l.got
       THEN \E i \in DOMAIN l.paid : Charges(fs, l, "FalseNull") = {i}
       ELSE Charges(fs, l, "FalseNull") = {}

AllCharged ==
    /\ call = [c \in Callers |-> call[c]]
    /\ \A c \in Callers : Charged(fault, call[c])

\* A step that charges nothing, and ends the call only with the answer it got.
LEMMA UnchargedStep ==
    ASSUME NEW fs, NEW l, Charged(fs, l), l.pc # "idle",
           NEW m \in CallSet(fs), m.paid = l.paid, m.method = l.method,
           m.pc \in {"load", "cas"} =>
             /\ m.todo # <<>>
             /\ \A i \in DOMAIN m.todo : /\ fs[m.todo[i]].type = Wanted(m)
                                         /\ Names(fs, m.todo[i], m.method),
           m.stage = "Before" /\ m.pc \in {"match", "load", "cas"} => m.paid = <<>>,
           m.pc = "idle" => m.answer = m.got
    PROVE  Charged(fs, m)
<1>1. Charges(fs, m, "Delay") = Charges(fs, l, "Delay")
      /\ Charges(fs, m, "FalseNull") = Charges(fs, l, "FalseNull")
  BY DEF Charges
<1> QED
  BY <1>1 DEF Charged

LEMMA NewCharged ==
    ASSUME NEW fs, Len(fs) \in Nat, NEW method \in Methods \cup {AllMethods},
           NEW cancelled \in BOOLEAN
    PROVE  /\ Charged(fs, NewCall(method, cancelled))
           /\ Charged(fs, Ended(NewCall(method, cancelled)))
<1> DEFINE m == NewCall(method, cancelled)
<1>1. <<>> \in Seq(1 .. Len(fs))
  OBVIOUS
<1>2. /\ m \in CallSet(fs) /\ m.pc = "match" /\ m.paid = <<>>
      /\ m.answer = "null" /\ m.got = "null"
  BY <1>1 DEF NewCall, CallSet, Pcs, Answers
<1>3. ASSUME NEW l \in CallSet(fs), l.paid = <<>>, l.pc \in {"match", "idle"}, l.answer = l.got
      PROVE  Charged(fs, l)
  <2>1. DOMAIN l.paid = {}
    BY <1>3
  <2>2. \A type : Charges(fs, l, type) = {}
    BY <2>1 DEF Charges
  <2> QED
    BY <1>3, <2>1, <2>2 DEF Charged
<1> HIDE DEF m
<1>4. /\ Ended(m) \in CallSet(fs) /\ Ended(m).pc = "idle" /\ Ended(m).paid = <<>>
      /\ Ended(m).answer = Ended(m).got
  BY <1>1, <1>2 DEF Ended, CallSet, Pcs
<1>5. Charged(fs, m)
  BY <1>2, <1>3
<1>6. Charged(fs, Ended(m))
  BY <1>3, <1>4
<1> QED
  BY <1>5, <1>6 DEF m

LEMMA EndedCharged ==
    ASSUME NEW fs, NEW l, Charged(fs, l), l.pc # "idle", l.answer = l.got
    PROVE  Charged(fs, Ended(l))
<1> DEFINE m == Ended(l)
<1>1. <<>> \in Seq(1 .. Len(fs)) /\ l \in CallSet(fs)
  BY DEF Charged
<1>2. /\ m \in CallSet(fs) /\ m.pc = "idle" /\ m.answer = m.got
      /\ m.paid = l.paid /\ m.method = l.method
  BY <1>1 DEF Ended, CallSet, Pcs
<1> HIDE DEF m
<1> QED
  BY <1>2, UnchargedStep DEF m

LEMMA PassCharged ==
    ASSUME NEW fs, NEW l, Charged(fs, l), CallOK(l), l.pc \in {"match", "load"}
    PROVE  Charged(fs, Pass(l))
<1>1. CASE l.stage = "Before"
  <2> DEFINE m == Pass(l)
  <2>1. <<>> \in Seq(1 .. Len(fs)) /\ l \in CallSet(fs)
    BY DEF Charged
  <2>2. /\ m \in CallSet(fs) /\ m.pc = "handle"
        /\ m.paid = l.paid /\ m.method = l.method
    BY <1>1, <2>1 DEF Pass, CallSet, Pcs
  <2> HIDE DEF m
  <2> QED
    BY <2>2, UnchargedStep DEF m
<1>2. CASE l.stage # "Before"
  <2>1. l.answer = l.got /\ Pass(l) = Ended(l)
    BY <1>2 DEF CallOK, Pass
  <2> QED
    BY <2>1, EndedCharged
<1> QED
  BY <1>1, <1>2

LEMMA TailFacts ==
    ASSUME NEW S, NEW s \in Seq(S), s # <<>>, Len(s) # 1
    PROVE  /\ Tail(s) \in Seq(S) /\ Tail(s) # <<>>
           /\ \A i \in DOMAIN Tail(s) : i + 1 \in DOMAIN s /\ Tail(s)[i] = s[i + 1]
<1> DEFINE t == Tail(s)
<1>1. /\ t \in Seq(S) /\ Len(t) = Len(s) - 1 /\ Len(s) \in Nat \ {0}
      /\ \A i \in 1 .. Len(t) : t[i] = s[i + 1]
  BY HeadTailProperties
<1> HIDE DEF t
<1>2. DOMAIN s = 1 .. Len(s) /\ DOMAIN t = 1 .. Len(t)
  BY <1>1
<1>3. Len(s) # 1
  OBVIOUS
<1>4. t # <<>> /\ \A i \in 1 .. Len(t) : i + 1 \in 1 .. Len(s)
  BY <1>1, <1>3
<1>5. /\ t \in Seq(S) /\ t # <<>>
      /\ \A i \in DOMAIN t : i + 1 \in DOMAIN s /\ t[i] = s[i + 1]
  BY <1>1, <1>2, <1>4
<1> QED
  BY <1>5 DEF t

LEMMA MissCharged ==
    ASSUME NEW fs, NEW l, Charged(fs, l), CallOK(l), l.pc = "load"
    PROVE  Charged(fs, Miss(l))
<1>1. CASE Len(l.todo) = 1
  BY <1>1, PassCharged DEF Miss
<1>2. CASE Len(l.todo) # 1
  <2> DEFINE t == Tail(l.todo)
             m == [l EXCEPT !.todo = t]
  <2>1. l.todo \in Seq(1 .. Len(fs)) /\ l.todo # <<>> /\ l \in CallSet(fs)
    BY DEF Charged, CallSet
  <2>2. /\ t \in Seq(1 .. Len(fs)) /\ t # <<>>
        /\ \A i \in DOMAIN t : i + 1 \in DOMAIN l.todo /\ t[i] = l.todo[i + 1]
    BY <1>2, <2>1, TailFacts
  <2> HIDE DEF t
  <2>3. /\ m \in CallSet(fs) /\ m.pc = "load" /\ m.todo = t /\ m.stage = l.stage
        /\ m.paid = l.paid /\ m.method = l.method
    BY <2>1, <2>2 DEF CallSet, Pcs
  <2>4. Miss(l) = m
    BY <1>2, <2>1 DEF Miss, t, CallSet
  <2> HIDE DEF m
  <2>5. \A i \in DOMAIN t : /\ fs[t[i]].type = Wanted(m)
                            /\ Names(fs, t[i], m.method)
    BY <2>2, <2>3 DEF Charged, Wanted
  <2>6. m.stage = "Before" => m.paid = <<>>
    BY <2>3 DEF Charged
  <2> QED
    BY <2>2, <2>3, <2>4, <2>5, <2>6, UnchargedStep
<1> QED
  BY <1>1, <1>2

\* A fault fires: the one delay of the call, or its one lie.
LEMMA HitCharged ==
    ASSUME NEW fs, NEW l, Charged(fs, l), CallOK(l), l.pc \in {"load", "cas"}
    PROVE  Charged(fs, Hit(l))
<1> DEFINE id == Head(l.todo)
           paid == Append(l.paid, id)
           k == Len(l.paid) + 1
           m == Hit(l)
<1>1. /\ l \in CallSet(fs) /\ l.todo \in Seq(1 .. Len(fs)) /\ l.paid \in Seq(1 .. Len(fs))
      /\ l.todo # <<>> /\ <<>> \in Seq(1 .. Len(fs))
  BY DEF Charged, CallSet
<1>2. id \in 1 .. Len(fs) /\ fs[id].type = Wanted(l) /\ Names(fs, id, l.method)
  <2>1. id = l.todo[1] /\ 1 \in DOMAIN l.todo
    BY <1>1
  <2> QED
    BY <1>1, <2>1 DEF Charged
<1> HIDE DEF id
<1>3. /\ paid \in Seq(1 .. Len(fs)) /\ DOMAIN paid = DOMAIN l.paid \cup {k} /\ paid[k] = id
      /\ k \notin DOMAIN l.paid /\ \A i \in DOMAIN l.paid : paid[i] = l.paid[i]
  BY <1>1, <1>2, AppendProperties
<1> HIDE DEF paid, k
<1>4. l.pc # "idle" /\ l.stage \in {"Before", "After"}
  BY DEF CallOK
<1>5. /\ m \in CallSet(fs) /\ m.paid = paid /\ m.method = l.method /\ m.got = l.got
      /\ l.stage = "Before" => m.pc = "wait"
      /\ l.stage = "After" => m.pc = "idle" /\ m.answer = "null"
  <2>1. CASE l.stage = "Before"
    <3>1. m = [l EXCEPT !.paid = paid, !.pc = "wait", !.todo = <<>>, !.n = 0]
      BY <1>1, <2>1 DEF Hit, paid, id, CallSet
    <3>2. "wait" \in Pcs /\ 0 \in Nat /\ paid \in Seq(1 .. Len(fs))
      BY <1>3 DEF Pcs
    <3> HIDE DEF m
    <3> QED
      BY <1>1, <2>1, <3>1, <3>2 DEF CallSet
  <2>2. CASE l.stage = "After"
    <3>1. m = [l EXCEPT !.paid = paid, !.answer = "null", !.pc = "idle", !.todo = <<>>,
                        !.n = 0, !.cancelled = FALSE]
      BY <1>1, <2>2 DEF Hit, Ended, paid, id, CallSet
    <3>2. "idle" \in Pcs /\ "null" \in Answers /\ 0 \in Nat /\ paid \in Seq(1 .. Len(fs))
      BY <1>3 DEF Pcs, Answers
    <3> HIDE DEF m
    <3> QED
      BY <1>1, <2>2, <3>1, <3>2 DEF CallSet
  <2> QED
    BY <1>4, <2>1, <2>2
<1> HIDE DEF m
<1>6. \A i \in DOMAIN m.paid : Names(fs, m.paid[i], m.method)
  BY <1>2, <1>3, <1>5 DEF Charged
<1>7. \A type : Charges(fs, m, type)
                  = Charges(fs, l, type) \cup IF Wanted(l) = type THEN {k} ELSE {}
  BY <1>2, <1>3, <1>5 DEF Charges
<1>8. Charges(fs, l, "FalseNull") = {}
  BY <1>4 DEF Charged
<1>9. CASE l.stage = "Before"
  <2>1. \A type : Charges(fs, l, type) = {}
    BY <1>9, <1>1 DEF Charged, Charges
  <2>2. Charges(fs, m, "Delay") = {k} /\ Charges(fs, m, "FalseNull") = {}
    BY <1>7, <1>9, <2>1 DEF Wanted
  <2> QED
    BY <1>5, <1>6, <1>9, <2>2 DEF Charged, m
<1>10. CASE l.stage = "After"
  <2>1. Charges(fs, m, "Delay") = Charges(fs, l, "Delay") /\ Charges(fs, m, "FalseNull") = {k}
    BY <1>7, <1>8, <1>10 DEF Wanted
  <2>2. m.answer # m.got /\ k \in DOMAIN m.paid
    BY <1>3, <1>4, <1>5, <1>10 DEF CallOK
  <2>3. \A i, j \in Charges(fs, m, "Delay") : i = j
    BY <2>1 DEF Charged
  <2> QED
    BY <1>5, <1>6, <1>10, <2>1, <2>2, <2>3 DEF Charged, m
<1> QED
  BY <1>4, <1>9, <1>10

LEMMA MatchCharged ==
    ASSUME NEW fs, NEW l, Charged(fs, l), l.pc = "match",
           NEW todo \in Seq({id \in 1 .. Len(fs) : /\ fs[id].type = Wanted(l)
                                                   /\ Names(fs, id, l.method)}),
           todo # <<>>
    PROVE  Charged(fs, [l EXCEPT !.pc = "load", !.todo = todo])
<1> DEFINE m == [l EXCEPT !.pc = "load", !.todo = todo]
           C == {id \in 1 .. Len(fs) : fs[id].type = Wanted(l) /\ Names(fs, id, l.method)}
<1>1. l \in CallSet(fs) /\ l.pc # "idle"
  BY DEF Charged
<1>2. todo \in Seq(1 .. Len(fs))
  <2>1. C \subseteq 1 .. Len(fs)
    OBVIOUS
  <2> QED
    BY <2>1, SeqMonotonic
<1>3. \A i \in DOMAIN todo : todo[i] \in C
  OBVIOUS
<1>4. \A i \in DOMAIN todo : /\ fs[todo[i]].type = Wanted(l)
                             /\ Names(fs, todo[i], l.method)
  BY <1>3
<1> HIDE DEF C
<1>5. /\ m \in CallSet(fs) /\ m.pc = "load" /\ m.todo = todo /\ m.stage = l.stage
      /\ m.paid = l.paid /\ m.method = l.method
  BY <1>1, <1>2 DEF CallSet, Pcs
<1> HIDE DEF m
<1>6. m.stage = "Before" => m.paid = <<>>
  BY <1>5 DEF Charged
<1>7. Wanted(m) = Wanted(l)
  BY <1>5 DEF Wanted
<1>8. Charged(fs, m)
  BY <1>1, <1>4, <1>5, <1>6, <1>7, UnchargedStep
<1> QED
  BY <1>8 DEF m

\* A step that only moves a call on, without a fault to try.
LEMMA MovedOn ==
    ASSUME NEW fs, NEW l, Charged(fs, l), l.pc # "idle", NEW m,
           \/ /\ l.stage = "Before" /\ m = [l EXCEPT !.pc = "handle"]
           \/ m = [l EXCEPT !.cancelled = TRUE]
           \/ /\ l.pc = "cas" /\ m = [l EXCEPT !.pc = "load"]
           \/ \E n \in Nat : l.pc = "load" /\ m = [l EXCEPT !.pc = "cas", !.n = n]
           \/ \E result \in Answers :
                m = [l EXCEPT !.stage = "After", !.got = result, !.answer = result,
                              !.pc = "match"]
    PROVE  Charged(fs, m)
<1>1. l \in CallSet(fs)
  BY DEF Charged
<1> DEFINE Moved ==
             /\ m \in CallSet(fs) /\ m.paid = l.paid /\ m.method = l.method /\ m.todo = l.todo
             /\ m.pc # "idle"
             /\ m.pc \in {"load", "cas"} => l.pc \in {"load", "cas"} /\ m.stage = l.stage
             /\ m.stage = "Before" /\ m.pc \in {"match", "load", "cas"} =>
                  l.stage = "Before" /\ l.pc \in {"match", "load", "cas"}
<1>2. Moved
  <2>1. CASE l.stage = "Before" /\ m = [l EXCEPT !.pc = "handle"]
    BY <1>1, <2>1 DEF CallSet, Pcs
  <2>2. CASE m = [l EXCEPT !.cancelled = TRUE]
    BY <1>1, <2>2 DEF CallSet
  <2>3. CASE l.pc = "cas" /\ m = [l EXCEPT !.pc = "load"]
    BY <1>1, <2>3 DEF CallSet, Pcs
  <2>4. ASSUME NEW n \in Nat, l.pc = "load", m = [l EXCEPT !.pc = "cas", !.n = n]
        PROVE  Moved
    BY <1>1, <2>4 DEF CallSet, Pcs
  <2>5. ASSUME NEW result \in Answers,
               m = [l EXCEPT !.stage = "After", !.got = result, !.answer = result,
                             !.pc = "match"]
        PROVE  Moved
    BY <1>1, <2>5 DEF CallSet, Pcs
  <2> HIDE DEF Moved
  <2> QED
    BY <2>1, <2>2, <2>3, <2>4, <2>5
<1>3. ASSUME m.pc \in {"load", "cas"}
      PROVE  /\ m.todo # <<>>
             /\ \A i \in DOMAIN m.todo : /\ fs[m.todo[i]].type = Wanted(m)
                                         /\ Names(fs, m.todo[i], m.method)
  <2>1. l.pc \in {"load", "cas"} /\ Wanted(m) = Wanted(l)
    BY <1>2, <1>3 DEF Wanted
  <2> QED
    BY <1>2, <2>1 DEF Charged
<1>4. m.stage = "Before" /\ m.pc \in {"match", "load", "cas"} => m.paid = <<>>
  BY <1>2 DEF Charged
<1> QED
  BY <1>2, <1>3, <1>4, UnchargedStep

\* What a step of a call does to its charges.
LEMMA CallStepCharges ==
    ASSUME FaultsInv, AllCharged, NEW c \in Callers,
           \/ \E method \in Methods, cancelled \in BOOLEAN : Request(c, method, cancelled)
           \/ Run(c) \/ Elapse(c) \/ Cancel(c)
    PROVE  AllCharged'
<1> DEFINE l == call[c]
<1>1. CallOK(l) /\ Charged(fault, l) /\ DOMAIN call = Callers /\ Len(fault) \in Nat
  BY DEF FaultsInv, CallsOK, RegistryOK, AllCharged
<1>2. fault' = fault
  BY DEF Run, Request, Match, Load, Cas, Interrupt, Handle, Elapse, Cancel
<1>3. ASSUME NEW m, Charged(fault, m), call' = [call EXCEPT ![c] = m]
      PROVE  AllCharged'
  <2>1. \A d \in Callers : call'[d] = IF d = c THEN m ELSE call[d]
    BY <1>1, <1>3
  <2>2. call' = [d \in Callers |-> call'[d]]
    <3>1. call' = [d \in Callers |-> IF d = c THEN m ELSE call[d]]
      BY <1>1, <1>3
    <3> QED
      BY <3>1
  <2>3. \A d \in Callers : Charged(fault', call'[d])
    BY <1>3, <1>2, <2>1 DEF AllCharged
  <2> QED
    BY <2>2, <2>3 DEF AllCharged
<1> HIDE DEF l
<1>4. ASSUME NEW method \in Methods, NEW cancelled \in BOOLEAN, Request(c, method, cancelled)
      PROVE  AllCharged'
  <2>1. Charged(fault, NewCall(method, cancelled))
    BY <1>1, NewCharged
  <2> QED
    BY <1>3, <1>4, <2>1 DEF Request
<1>5. CASE Match(c)
  <2> DEFINE todo == IF l.stage = "Before" THEN Longest(Matching(l.method, "Delay"))
                                           ELSE Matching(l.method, "FalseNull")
             C == {id \in 1 .. Len(fault) : /\ fault[id].type = Wanted(l)
                                            /\ Names(fault, id, l.method)}
  <2>1. /\ l.pc = "match"
        /\ call' = [call EXCEPT ![c] = IF todo = <<>> THEN Pass(l)
                      ELSE [l EXCEPT !.pc = "load", !.todo = todo]]
    BY <1>5 DEF Match, l
  <2>2. todo \in Seq(C)
    <3>1. RegistryOK
      BY DEF FaultsInv
    <3>2. C = Candidates(l.method, Wanted(l))
      BY DEF Candidates, Matches, Names, FaultIds
    <3>3. Matching(l.method, Wanted(l)) \in Seq(C)
      BY <3>1, <3>2, MatchingFinds
    <3>4. Longest(Matching(l.method, Wanted(l))) \in Seq(C)
      <4>1. C \in SUBSET FaultIds
        BY DEF FaultIds
      <4> QED
        BY <3>1, <3>3, <4>1, LongestFinds
    <3>5. todo = IF l.stage = "Before" THEN Longest(Matching(l.method, Wanted(l)))
                                       ELSE Matching(l.method, Wanted(l))
      BY DEF Wanted
    <3> HIDE DEF todo, C
    <3> QED
      BY <3>3, <3>4, <3>5
  <2> HIDE DEF todo
  <2>3. CASE todo = <<>>
    BY <1>1, <1>3, <2>1, <2>3, PassCharged
  <2>4. CASE todo # <<>>
    <3>1. Charged(fault, [l EXCEPT !.pc = "load", !.todo = todo])
      BY <1>1, <2>1, <2>2, <2>4, MatchCharged
    <3> QED
      BY <1>3, <2>1, <2>4, <3>1
  <2> QED
    BY <2>3, <2>4
<1>6. CASE Load(c)
  <2> DEFINE n == remaining[Head(l.todo)]
  <2>1. /\ l.pc = "load"
        /\ call' = [call EXCEPT ![c] =
                      IF n < 0 THEN Hit(l)
                      ELSE IF n = 0 THEN Miss(l)
                      ELSE [l EXCEPT !.pc = "cas", !.n = n]]
    BY <1>6 DEF Load, l
  <2>2. n \in Int
    <3>1. l.todo \in Seq(1 .. Len(fault)) /\ l.todo # <<>>
      BY <1>1, <2>1 DEF Charged, CallSet
    <3>2. Head(l.todo) \in 1 .. Len(fault)
      BY <3>1, HeadTailProperties
    <3> QED
      BY <3>2 DEF FaultsInv, RegistryOK
  <2> HIDE DEF n
  <2>3. CASE n < 0
    BY <1>1, <1>3, <2>1, <2>3, HitCharged
  <2>4. CASE ~(n < 0) /\ n = 0
    BY <1>1, <1>3, <2>1, <2>4, MissCharged
  <2>5. CASE ~(n < 0) /\ n # 0
    <3>1. n \in Nat /\ call' = [call EXCEPT ![c] = [l EXCEPT !.pc = "cas", !.n = n]]
      BY <2>1, <2>2, <2>5
    <3>2. Charged(fault, [l EXCEPT !.pc = "cas", !.n = n])
      BY <1>1, <2>1, <3>1, MovedOn
    <3> QED
      BY <1>3, <3>1, <3>2
  <2> QED
    BY <2>3, <2>4, <2>5
<1>7. CASE Cas(c)
  <2>1. l.pc = "cas" /\ (call' = [call EXCEPT ![c] = Hit(l)]
                          \/ call' = [call EXCEPT ![c] = [l EXCEPT !.pc = "load"]])
    BY <1>7 DEF Cas, l
  <2>2. Charged(fault, Hit(l)) /\ Charged(fault, [l EXCEPT !.pc = "load"])
    BY <1>1, <2>1, HitCharged, MovedOn
  <2> QED
    BY <1>3, <2>1, <2>2
<1>8. CASE Elapse(c) \/ Interrupt(c)
  <2>1. l.pc = "wait" /\ call' = [call EXCEPT ![c] = [l EXCEPT !.pc = "handle"]]
    BY <1>8 DEF Elapse, Interrupt, l
  <2>2. l.stage = "Before"
    BY <1>1, <2>1 DEF CallOK
  <2>3. Charged(fault, [l EXCEPT !.pc = "handle"])
    BY <1>1, <2>1, <2>2, MovedOn
  <2> QED
    BY <1>3, <2>1, <2>3
<1>9. CASE Cancel(c)
  <2>1. l.pc # "idle" /\ call' = [call EXCEPT ![c] = [l EXCEPT !.cancelled = TRUE]]
    BY <1>9 DEF Cancel, l
  <2>2. Charged(fault, [l EXCEPT !.cancelled = TRUE])
    BY <1>1, <2>1, MovedOn
  <2> QED
    BY <1>3, <2>1, <2>2
<1>10. ASSUME NEW result \in Answers, Handle(c, result)
      PROVE  AllCharged'
  <2> DEFINE after == [l EXCEPT !.stage = "After", !.got = result, !.answer = result]
             m == [l EXCEPT !.stage = "After", !.got = result, !.answer = result,
                            !.pc = "match"]
  <2>1. /\ l.pc = "handle"
        /\ call' = [call EXCEPT ![c] = IF result = "value" THEN [after EXCEPT !.pc = "match"]
                                                           ELSE Ended(after)]
    BY <1>10 DEF Handle, l
  <2>2. l \in CallSet(fault)
    BY <1>1 DEF Charged
  <2>3. Charged(fault, m)
    BY <1>1, <2>1, MovedOn
  <2>4. m = [after EXCEPT !.pc = "match"] /\ Ended(after) = Ended(m)
    BY <2>2 DEF CallSet, Ended
  <2>5. m.pc # "idle" /\ m.answer = m.got
    BY <2>2 DEF CallSet
  <2> HIDE DEF m, after
  <2>6. Charged(fault, Ended(m))
    BY <2>3, <2>5, EndedCharged
  <2> QED
    BY <1>3, <2>1, <2>3, <2>4, <2>6
<1> QED
  BY <1>4, <1>5, <1>6, <1>7, <1>8, <1>9, <1>10 DEF Run

\* More faults change nothing for the calls at work.
LEMMA ChargesStand ==
    ASSUME NEW fs, NEW gs, Len(fs) \in Nat, Len(gs) \in Nat, Len(fs) <= Len(gs),
           \A i \in 1 .. Len(fs) : gs[i] = fs[i],
           NEW l, Charged(fs, l)
    PROVE  Charged(gs, l)
<1>1. l \in CallSet(fs) /\ l.todo \in Seq(1 .. Len(fs)) /\ l.paid \in Seq(1 .. Len(fs))
  BY DEF Charged, CallSet
<1>2. /\ \A i \in DOMAIN l.todo : gs[l.todo[i]] = fs[l.todo[i]]
      /\ \A i \in DOMAIN l.paid : gs[l.paid[i]] = fs[l.paid[i]]
  <2> DEFINE S == 1 .. Len(fs)
  <2>1. \A s \in Seq(S) : \A i \in DOMAIN s : s[i] \in S
    OBVIOUS
  <2> QED
    BY <1>1, <2>1
<1>3. l \in CallSet(gs)
  <2>1. 1 .. Len(fs) \subseteq 1 .. Len(gs)
    OBVIOUS
  <2>2. l.todo \in Seq(1 .. Len(gs)) /\ l.paid \in Seq(1 .. Len(gs))
    BY <1>1, <2>1, SeqMonotonic
  <2> QED
    BY <1>1, <2>2 DEF CallSet
<1>4. \A type : Charges(gs, l, type) = Charges(fs, l, type)
  BY <1>2 DEF Charges
<1> QED
  BY <1>2, <1>3, <1>4 DEF Charged, Names

LEMMA NextCharges ==
    ASSUME FaultsInv, AllCharged, [Next]_vars
    PROVE  AllCharged'
<1>1. ASSUME fault' = fault, call' = call PROVE AllCharged'
  BY <1>1 DEF AllCharged
<1>2. ASSUME NEW f \in Catalogue, Enable(f) PROVE AllCharged'
  <2>1. fault \in Seq(Catalogue) /\ fault' = Append(fault, f) /\ call' = call
    BY <1>2 DEF FaultsInv, RegistryOK, Enable
  <2>2. /\ Len(fault) \in Nat /\ Len(fault') = Len(fault) + 1
        /\ \A i \in 1 .. Len(fault) : fault'[i] = fault[i]
    BY <2>1, AppendProperties
  <2>3. \A c \in Callers : Charged(fault', call[c])
    BY <2>2, ChargesStand DEF AllCharged
  <2> QED
    BY <2>1, <2>3 DEF AllCharged
<1>3. Reap \/ Enabled \/ Clear \/ UNCHANGED vars => fault' = fault /\ call' = call
  BY DEF Reap, Enabled, Clear, vars
<1> QED
  BY <1>1, <1>2, <1>3, CallStepCharges DEF Next

LEMMA InitCharged == Init => AllCharged
<1> SUFFICES ASSUME Init PROVE AllCharged
  OBVIOUS
<1>1. Len(fault) \in Nat /\ FALSE \in BOOLEAN
  BY DEF Init
<1>2. Charged(fault, Ended(NewCall(AllMethods, FALSE)))
  BY <1>1, NewCharged
<1> QED
  BY <1>2 DEF Init, AllCharged

LEMMA ChargesInvariant == Spec => [](FaultsInv /\ AllCharged)
<1>1. Init => FaultsInv /\ AllCharged
  BY InitFaultsInv, InitCharged
<1>2. FaultsInv /\ AllCharged /\ [Next]_vars => (FaultsInv /\ AllCharged)'
  BY FaultsNextInv, NextCharges
<1> QED
  BY <1>1, <1>2, PTL DEF Spec

(***************************************************************************)
(* The theorems                                                            *)
(***************************************************************************)

\* However many requests compete for the last unit of a fault, it fires exactly
\* as often as its count went down (faults.go:72-85).
THEOREM ExactBudget == Spec => []BudgetIsExact
<1>1. FaultsInv => BudgetIsExact
  BY DEF FaultsInv, CountsOK, BudgetIsExact
<1> QED
  BY <1>1, FaultsInvariant, PTL

\* Enable reaps no fault that could still fire (faults.go:118-125).
THEOREM LiveStay == Spec => []LiveFaultsStay
<1>1. FaultsInv => LiveFaultsStay
  BY DEF FaultsInv, RegistryOK, ListsOK, Stored, Locked, LiveFaultsStay, Unlocked, LockFree
<1> QED
  BY <1>1, FaultsInvariant, PTL

\* What Clear removed never comes back, not even by an Enable that was at work
\* (faults.go:118-136).
THEOREM ClearedForGood == Spec => []ClearIsFinal
<1>1. FaultsInv => ClearIsFinal
  BY DEF FaultsInv, ListsOK, ClearIsFinal
<1> QED
  BY <1>1, FaultsInvariant, PTL

\* A finished request has spent budget for what it was sent, and for nothing else
\* (faults.go:138-178).
THEOREM ChargedExactly == Spec => []ChargedForWhatItGot
<1>1. AllCharged => ChargedForWhatItGot
  <2>1. \A l, type : PaidFor(l, type) = Charges(fault, l, type)
    BY DEF PaidFor, Charges
  <2> QED
    BY <2>1 DEF AllCharged, Charged, Names, ChargedForWhatItGot
<1> QED
  BY <1>1, ChargesInvariant, PTL

\* Every variable keeps its type, and every count its range: no fault that was to
\* fire so many times ever becomes one that fires for good (faults.go:72-85).
THEOREM FaultTypes == Spec => []TypeOK
<1>1. FaultsInv /\ AllCharged => TypeOK
  <2> SUFFICES ASSUME FaultsInv, AllCharged PROVE TypeOK
    OBVIOUS
  <2>1. call \in [Callers -> CallSet(fault)]
    <3> DEFINE S == CallSet(fault)
    <3>1. \A c \in Callers : call[c] \in S
      BY DEF AllCharged, Charged
    <3> HIDE DEF S
    <3>2. call = [c \in Callers |-> call[c]]
      BY DEF AllCharged
    <3>3. [c \in Callers |-> call[c]] \in [Callers -> S]
      BY <3>1
    <3> QED
      BY <3>2, <3>3 DEF S
  <2>2. /\ DOMAIN remaining = FaultIds /\ DOMAIN fired = FaultIds
        /\ \A id \in FaultIds : fired[id] \in Nat
    BY DEF FaultsInv, RegistryOK, FaultIds
  <2>3. \A id \in FaultIds :
          remaining[id] \in (IF fault[id].count > 0 THEN 0 .. fault[id].count ELSE {-1})
    BY DEF FaultsInv, CountsOK
  <2>4. enabling \in [new : 0 .. Len(fault), rest : Seq(FaultIds), live : Seq(FaultIds)]
    <3>1. {0} \cup FaultIds = 0 .. Len(fault)
      BY DEF FaultsInv, RegistryOK, FaultIds
    <3> QED
      BY <3>1 DEF FaultsInv, RegistryOK
  <2> QED
    BY <2>1, <2>2, <2>3, <2>4 DEF TypeOK, FaultsInv, RegistryOK, CallSet, Pcs, FaultIds
<1> QED
  BY <1>1, ChargesInvariant, PTL

\* Every one of the calls that share the registry is a FaultSource: after Before
\* the method runs once, and the client gets its result, or null for a value
\* (rpc/faults.go:8-22).
THEOREM SourceImplemented == Spec => ImplementsFaultSource
<1>1. Init => \A c \in Callers : Source(c)!FaultInit
  <2> SUFFICES ASSUME Init, NEW c \in Callers PROVE Source(c)!FaultInit
    OBVIOUS
  <2> DEFINE m == NewCall(AllMethods, FALSE)
  <2>1. CallOK(m) /\ m.got = "null" /\ m.answer = "null"
    BY NewCallOK DEF NewCall
  <2>2. call[c] = Ended(m)
    BY DEF Init
  <2> HIDE DEF m
  <2>3. CallOK([m EXCEPT !.pc = "idle"]) /\ DOMAIN m = Fields
    BY <2>1 DEF CallOK, Fields, Pcs
  <2>4. call[c].pc = "idle" /\ call[c].got = "null" /\ call[c].answer = "null"
    BY <2>1, <2>2, <2>3, EndedOK
  <2> QED
    BY <2>4, TurnIs DEF Source!FaultInit, Source!Phase
<1>2. FaultsInv /\ [Next]_vars => [\A c \in Callers : [Source(c)!FaultNext]_(Turn(call[c]))]_vars
  BY FaultsNextInv DEF TurnStep
<1> QED
  BY <1>1, <1>2, FaultsInvariant, PTL DEF Spec, ImplementsFaultSource

=============================================================================

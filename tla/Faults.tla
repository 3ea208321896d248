------------------------------- MODULE Faults -------------------------------
(***************************************************************************)
(* faults.Registry (internal/faults/faults.go) under concurrent requests,  *)
(* each of which runs rpc.withFaults: Before, the method, After.           *)
(*                                                                         *)
(* The list of faults is guarded by a lock, a fault's remaining count by   *)
(* nothing but its own compare-and-swap: while Enable walks the list with  *)
(* the lock held, and while a request works on the copy matching gave it,  *)
(* counts change.  A fault is an id in the order of Enable; which values   *)
(* its fields have is in fault, the counter is in remaining.               *)
(* Enable(nil), Enable of an unknown type and a nil registry change        *)
(* nothing and are left out.                                               *)
(***************************************************************************)
EXTENDS Integers, SequencesExt

CONSTANTS
    Methods,    \* the names rpc.Handler serves
    AllMethods, \* the wildcard "*"
    Catalogue,  \* the arguments of NewFault: [method, type, count, delay]
    Callers,    \* goroutines that serve requests
    MaxFaults   \* bound: the calls of Enable

Types == {"FalseNull", "Delay"}

ASSUME FaultsAssumption ==
    /\ Catalogue \subseteq [method : Methods \cup {AllMethods}, type : Types,
                            count : Int, delay : Nat]
    /\ MaxFaults \in Nat

VARIABLES
    list,       \* Registry.faults
    fault,      \* the fields of every fault enabled so far, by id
    remaining,  \* Fault.remaining, by id
    enabling,   \* Enable at work: [new, rest, live]; new = 0 when the lock is free
    call,       \* each caller's program counter and locals
    fired,      \* history: how often each fault that has a count fired
    cleared     \* history: the faults that Clear removed

vars == <<list, fault, remaining, enabling, call, fired, cleared>>

FaultIds == 1 .. Len(fault)

LockFree == [new |-> 0, rest |-> <<>>, live |-> <<>>]

Unlocked == enabling = LockFree

\* NewFault: a count that is not positive means the fault never wears out.
InitialCount(f) == IF f.count <= 0 THEN -1 ELSE f.count

Spent(id) == remaining[id] = 0

(***************************************************************************)
(* A request.  pc walks match (Before), load and cas (consume), wait,      *)
(* handle (the method), match (After), load and cas, and back to idle.     *)
(* todo holds the faults still to try, paid those that fired for it; got   *)
(* is what the method returned and answer what the client is sent.         *)
(***************************************************************************)

Answers == {"value", "null", "error"}

NewCall(method, cancelled) ==
    [pc |-> "match", stage |-> "Before", method |-> method, todo |-> <<>>, n |-> 0,
     cancelled |-> cancelled, got |-> "null", answer |-> "null", paid |-> <<>>]

Ended(l) == [l EXCEPT !.pc = "idle", !.todo = <<>>, !.n = 0, !.cancelled = FALSE]

\* No fault, or no other fault, fires in this stage.
Pass(l) == IF l.stage = "Before" THEN [l EXCEPT !.pc = "handle", !.todo = <<>>, !.n = 0]
                                 ELSE Ended(l)

\* The fault tried is spent: the next one, if any.
Miss(l) == IF Len(l.todo) = 1 THEN Pass(l)
           ELSE [l EXCEPT !.pc = "load", !.todo = Tail(@)]

\* The fault tried fires: a delay to wait for, or the answer becomes null.
Hit(l) ==
    LET charged == [l EXCEPT !.paid = Append(@, Head(l.todo))]
    IN  IF l.stage = "Before" THEN [charged EXCEPT !.pc = "wait", !.todo = <<>>, !.n = 0]
                              ELSE Ended([charged EXCEPT !.answer = "null"])

Matches(id, method, type) ==
    /\ fault[id].type = type
    /\ fault[id].method \in {AllMethods, method}

Matching(method, type) ==
    LET matched[n \in 0 .. Len(list)] ==
            IF n = 0 THEN <<>>
            ELSE IF Matches(list[n], method, type) THEN Append(matched[n - 1], list[n])
            ELSE matched[n - 1]
    IN  matched[Len(list)]

\* The first of the longest delays.
Longest(ids) ==
    LET longest == {i \in DOMAIN ids : \A j \in DOMAIN ids :
                      fault[ids[j]].delay <= fault[ids[i]].delay}
    IN  IF ids = <<>> THEN <<>> ELSE <<ids[Min(longest)]>>

\* Before is called.  The items of a batch share a context: it may be done already.
Request(c, method, cancelled) ==
    /\ call[c].pc = "idle"
    /\ call' = [call EXCEPT ![c] = NewCall(method, cancelled)]
    /\ UNCHANGED <<list, fault, remaining, enabling, fired, cleared>>

\* matching copies the list with the read lock held.
Match(c) ==
    LET l == call[c]
        todo == IF l.stage = "Before" THEN Longest(Matching(l.method, "Delay"))
                                      ELSE Matching(l.method, "FalseNull")
    IN  /\ l.pc = "match"
        /\ Unlocked
        /\ call' = [call EXCEPT ![c] =
                      IF todo = <<>> THEN Pass(l)
                      ELSE [l EXCEPT !.pc = "load", !.todo = todo]]
        /\ UNCHANGED <<list, fault, remaining, enabling, fired, cleared>>

Load_ZeroFires(c) ==
    LET l  == call[c]
        id == Head(l.todo)
        n  == remaining[id]
    IN  /\ l.pc = "load"
        /\ call' = [call EXCEPT ![c] = IF n < 0 THEN Hit(l)
                                       ELSE [l EXCEPT !.pc = "cas", !.n = n]]
        /\ fired' = IF n < 0 /\ fault[id].count > 0 THEN [fired EXCEPT ![id] = @ + 1] ELSE fired
        /\ UNCHANGED <<list, fault, remaining, enabling, cleared>>

\* consume, from the load to the return or the compare-and-swap.
Load(c) ==
    LET l == call[c]
        n == remaining[Head(l.todo)]
    IN  /\ l.pc = "load"
        /\ call' = [call EXCEPT ![c] =
                      IF n < 0 THEN Hit(l)
                      ELSE IF n = 0 THEN Miss(l)
                      ELSE [l EXCEPT !.pc = "cas", !.n = n]]
        /\ UNCHANGED <<list, fault, remaining, enabling, fired, cleared>>

Cas_Overwrites(c) ==
    LET l  == call[c]
        id == Head(l.todo)
    IN  /\ l.pc = "cas"
        /\ remaining' = [remaining EXCEPT ![id] = l.n - 1]
        /\ fired' = [fired EXCEPT ![id] = @ + 1]
        /\ call' = [call EXCEPT ![c] = Hit(l)]
        /\ UNCHANGED <<list, fault, enabling, cleared>>

\* remaining.CompareAndSwap(n, n-1); when it fails, consume starts over.
Cas(c) ==
    LET l  == call[c]
        id == Head(l.todo)
    IN  /\ l.pc = "cas"
        /\ IF remaining[id] = l.n
           THEN /\ remaining' = [remaining EXCEPT ![id] = @ - 1]
                /\ fired' = [fired EXCEPT ![id] = @ + 1]
                /\ call' = [call EXCEPT ![c] = Hit(l)]
           ELSE /\ call' = [call EXCEPT ![c].pc = "load"]
                /\ UNCHANGED <<remaining, fired>>
        /\ UNCHANGED <<list, fault, enabling, cleared>>

\* The wait of a delay: <-timer.C, or <-ctx.Done().
Elapse(c) ==
    /\ call[c].pc = "wait"
    /\ call' = [call EXCEPT ![c].pc = "handle"]
    /\ UNCHANGED <<list, fault, remaining, enabling, fired, cleared>>

Interrupt_Never(c) == FALSE /\ UNCHANGED vars

Interrupt(c) ==
    /\ call[c].pc = "wait"
    /\ call[c].cancelled
    /\ call' = [call EXCEPT ![c].pc = "handle"]
    /\ UNCHANGED <<list, fault, remaining, enabling, fired, cleared>>

\* The request's context is cancelled.
Cancel(c) ==
    /\ call[c].pc # "idle"
    /\ ~call[c].cancelled
    /\ call' = [call EXCEPT ![c].cancelled = TRUE]
    /\ UNCHANGED <<list, fault, remaining, enabling, fired, cleared>>

Handle_TaxesHonestNulls(c, result) ==
    LET l == [call[c] EXCEPT !.stage = "After", !.got = result, !.answer = result]
    IN  /\ call[c].pc = "handle"
        /\ call' = [call EXCEPT ![c] = IF result = "error" THEN Ended(l)
                                       ELSE [l EXCEPT !.pc = "match"]]
        /\ UNCHANGED <<list, fault, remaining, enabling, fired, cleared>>

Handle_LiesAboutErrors(c, result) ==
    LET l == [call[c] EXCEPT !.stage = "After", !.got = result, !.answer = result]
    IN  /\ call[c].pc = "handle"
        /\ call' = [call EXCEPT ![c] = IF result # "null" THEN [l EXCEPT !.pc = "match"]
                                                          ELSE Ended(l)]
        /\ UNCHANGED <<list, fault, remaining, enabling, fired, cleared>>

\* The method, and After's first test: an error or an honest null is returned
\* before any fault is looked at.
Handle(c, result) ==
    LET l == [call[c] EXCEPT !.stage = "After", !.got = result, !.answer = result]
    IN  /\ call[c].pc = "handle"
        /\ call' = [call EXCEPT ![c] = IF result = "value" THEN [l EXCEPT !.pc = "match"]
                                                           ELSE Ended(l)]
        /\ UNCHANGED <<list, fault, remaining, enabling, fired, cleared>>

(***************************************************************************)
(* Enable and Clear                                                        *)
(***************************************************************************)

\* NewFault, then Enable up to r.mu.Lock().
Enable(f) ==
    /\ Len(fault) < MaxFaults
    /\ Unlocked
    /\ fault' = Append(fault, f)
    /\ remaining' = Append(remaining, InitialCount(f))
    /\ fired' = Append(fired, 0)
    /\ enabling' = [new |-> Len(fault'), rest |-> list, live |-> <<>>]
    /\ UNCHANGED <<list, call, cleared>>

Reap_DropsUnlimited ==
    LET id == Head(enabling.rest)
    IN  /\ enabling.rest # <<>>
        /\ enabling' = [enabling EXCEPT !.rest = Tail(@),
                          !.live = IF remaining[id] <= 0 THEN @ ELSE Append(@, id)]
        /\ UNCHANGED <<list, fault, remaining, call, fired, cleared>>

\* One turn of the loop that keeps the faults that are not spent.
Reap ==
    LET id == Head(enabling.rest)
    IN  /\ enabling.rest # <<>>
        /\ enabling' = [enabling EXCEPT !.rest = Tail(@),
                                        !.live = IF Spent(id) THEN @ ELSE Append(@, id)]
        /\ UNCHANGED <<list, fault, remaining, call, fired, cleared>>

\* r.faults = append(live, f), and the unlock.
Enabled ==
    /\ enabling.new # 0 /\ enabling.rest = <<>>
    /\ list' = Append(enabling.live, enabling.new)
    /\ enabling' = LockFree
    /\ UNCHANGED <<fault, remaining, call, fired, cleared>>

Clear_WithoutLock ==
    /\ list # <<>>
    /\ list' = <<>>
    /\ cleared' = cleared \cup ToSet(list)
    /\ UNCHANGED <<fault, remaining, enabling, call, fired>>

Clear ==
    /\ Unlocked
    /\ list # <<>>
    /\ list' = <<>>
    /\ cleared' = cleared \cup ToSet(list)
    /\ UNCHANGED <<fault, remaining, enabling, call, fired>>

(***************************************************************************)
(* The specification                                                       *)
(***************************************************************************)

Init ==
    /\ list = <<>> /\ fault = <<>> /\ remaining = <<>>
    /\ enabling = LockFree
    /\ call = [c \in Callers |-> Ended(NewCall(AllMethods, FALSE))]
    /\ fired = <<>> /\ cleared = {}

\* What the goroutine of a request does by itself; the timer is not part of it.
Run(c) ==
    \/ Match(c) \/ Load(c) \/ Cas(c) \/ Interrupt(c)
    \/ \E result \in Answers : Handle(c, result)

Next ==
    \/ \E c \in Callers :
         \/ \E method \in Methods, cancelled \in BOOLEAN : Request(c, method, cancelled)
         \/ Run(c) \/ Elapse(c) \/ Cancel(c)
    \/ \E f \in Catalogue : Enable(f)
    \/ Reap \/ Enabled \/ Clear

\* Goroutines keep running, and a call of Enable finishes.  Nothing is said of
\* the timers: a delay may be as long as the scenario asks.
Spec ==
    /\ Init /\ [][Next]_vars
    /\ \A c \in Callers : WF_vars(Run(c))
    /\ WF_vars(Reap \/ Enabled)

(***************************************************************************)
(* Type correctness                                                        *)
(***************************************************************************)

\* Every variable has its type; above all a count stays in its range: one that
\* passed below zero would make the fault unlimited (faults.go:72-85).
TypeOK ==
    /\ list \in Seq(FaultIds)
    /\ fault \in Seq(Catalogue)
    /\ DOMAIN remaining = FaultIds /\ DOMAIN fired = FaultIds
    /\ \A id \in FaultIds :
         /\ remaining[id] \in (IF fault[id].count > 0 THEN 0 .. fault[id].count ELSE {-1})
         /\ fired[id] \in Nat
    /\ enabling \in [new : 0 .. Len(fault), rest : Seq(FaultIds), live : Seq(FaultIds)]
    /\ cleared \subseteq FaultIds
    /\ call \in [Callers ->
         [pc : {"idle", "match", "load", "cas", "wait", "handle"},
          stage : {"Before", "After"}, method : Methods \cup {AllMethods},
          todo : Seq(FaultIds), n : Nat, cancelled : BOOLEAN,
          got : Answers, answer : Answers, paid : Seq(FaultIds)]]

(***************************************************************************)
(* Safety                                                                  *)
(***************************************************************************)

\* A fault with a count of n fires exactly as often as its count went down,
\* and so never more than n times, however many requests try to take the same
\* unit (faults_test.go:155, faults.go:72-85).
BudgetIsExact ==
    \A id \in FaultIds :
        fault[id].count > 0 => fired[id] + remaining[id] = fault[id].count

PaidFor(l, type) == {i \in DOMAIN l.paid : fault[l.paid[i]].type = type}

\* A finished request has spent budget for what it got and nothing else: one
\* lie if the client was sent null for an answer that was none, no lie for an honest
\* null or an error; at most one delay; and only faults that name its method
\* (faults.go:138-178).
ChargedForWhatItGot ==
    \A c \in Callers :
        LET l == call[c]
        IN  l.pc = "idle" =>
              /\ IF l.answer # l.got THEN \E i \in DOMAIN l.paid : PaidFor(l, "FalseNull") = {i}
                                     ELSE PaidFor(l, "FalseNull") = {}
              /\ \A i, j \in PaidFor(l, "Delay") : i = j
              /\ \A i \in DOMAIN l.paid : fault[l.paid[i]].method \in {AllMethods, l.method}

\* Reaping loses no fault that could still fire: one that was enabled, was not
\* cleared and has budget is in the list, or in what Enable is about to store
\* there, whatever requests spend meanwhile (faults.go:118-125).
LiveFaultsStay ==
    \A id \in FaultIds \ cleared :
        ~Spent(id) => id \in IF Unlocked THEN ToSet(list)
                             ELSE ToSet(enabling.rest) \cup ToSet(enabling.live)
                                    \cup {enabling.new}

\* A cleared fault does not come back, neither with a later Enable nor with one
\* already at work (faults.go:118-136).
ClearIsFinal == cleared \cap ToSet(list) = {}

\* A call as rpc.Handler sees it.
Turn(l) ==
    [phase |-> CASE l.pc = "idle" -> "idle"
                 [] l.pc # "idle" /\ (l.stage = "After" \/ l.pc = "handle") -> "handle"
                 [] OTHER -> "before",
     got   |-> IF l.pc = "idle" THEN l.got ELSE "null",
     sent  |-> IF l.pc = "idle" THEN l.answer ELSE "null"]

Source(c) == INSTANCE FaultSource WITH turn <- Turn(call[c])

\* The registry keeps the promise the handler is built on, for each of the calls
\* that share its faults: the method runs once and after every delay, and what
\* the client is sent is the method's result, or null for a value
\* (rpc/faults.go:8-22, faults.go:138-178).
ImplementsFaultSource ==
    /\ \A c \in Callers : Source(c)!FaultInit
    /\ [][\A c \in Callers : [Source(c)!FaultNext]_(Turn(call[c]))]_vars

\* What a test says of two delays, the longer spent (faults_test.go:323): "long
\* is spent; the short one should still fire".
SpentDelayMasksNone ==
    [][\A c \in Callers :
         call[c].pc = "match" /\ call[c].stage = "Before" /\ call'[c].pc = "load"
           => \/ ~Spent(call'[c].todo[1])
              \/ \A id \in ToSet(Matching(call[c].method, "Delay")) : Spent(id)]_vars

(***************************************************************************)
(* Liveness                                                                *)
(***************************************************************************)

\* A delay does not outlive its request: once the context is cancelled the call
\* ends, the timer notwithstanding (faults.go:138-161).
CancelledCallsEnd ==
    \A c \in Callers : call[c].cancelled ~> call[c].pc = "idle"

=============================================================================

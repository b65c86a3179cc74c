---------------------------- MODULE CircuitBreaker ---------------------------
(***************************************************************************)
(* internal/reputation/breaker.go and its use by client.go: one breaker    *)
(* per provider, asked before a call and told of its outcome afterwards.   *)
(* Calls of several analyses overlap, so an outcome may come from a call   *)
(* that was allowed before the circuit opened.  Time is counted in the     *)
(* units of the cooldown, as what remains of it.                           *)
(***************************************************************************)
EXTENDS Naturals, FiniteSets

CONSTANTS
    Providers,         \* the reputation providers that are enabled
    Threshold,         \* failures that open a circuit, 3 in client.go
    Cooldown           \* how long it stays open, 30 s in client.go

ASSUME BreakerAssumption == Threshold \in Nat \ {0} /\ Cooldown \in Nat \ {0}

VARIABLES
    breaker,           \* provider -> [failures, opened, wait]
    failedInARow,      \* failed answers since the last good one, up to Threshold
    reached            \* calls let through since the last good answer or cooldown

breakerVars == <<breaker, failedInARow, reached>>

\* "opened" is the time field being set, "wait" how much of it lies ahead.
Fresh == [failures |-> 0, opened |-> FALSE, wait |-> 0]

BreakerInit ==
    /\ breaker = [p \in Providers |-> Fresh]
    /\ failedInARow = [p \in Providers |-> 0]
    /\ reached = [p \in Providers |-> 0]

-----------------------------------------------------------------------------
\* A call to p would be refused.
Open(p) == breaker[p].opened /\ breaker[p].wait > 0

\* Fault: every call that is let through starts the count again.
ForgetsFailures(b) == Fresh

\* allow: the first call after the cooldown forgets the failures.
AfterAllow(b) == IF b.opened THEN Fresh ELSE b

\* observe(nil): a good answer closes the circuit, whenever it was asked for.
AfterGood(b) == Fresh

\* observe(err): from the threshold on every failure opens it anew.
AfterFailure(b) ==
    IF b.failures + 1 >= Threshold
      THEN [failures |-> b.failures + 1, opened |-> TRUE, wait |-> Cooldown]
      ELSE [b EXCEPT !.failures = @ + 1]

\* allowProvider, answered with yes.
LetThrough(p) ==
    /\ ~Open(p)
    /\ breaker' = [breaker EXCEPT ![p] = AfterAllow(@)]
    /\ reached' = [reached EXCEPT ![p] = IF breaker[p].opened THEN 1 ELSE @ + 1]
    /\ UNCHANGED failedInARow

\* observeProvider, after an answer.
ObserveGood(p) ==
    /\ breaker' = [breaker EXCEPT ![p] = AfterGood(@)]
    /\ failedInARow' = [failedInARow EXCEPT ![p] = 0]
    /\ reached' = [reached EXCEPT ![p] = 0]

ObserveFailure(p) ==
    /\ breaker' = [breaker EXCEPT ![p] = AfterFailure(@)]
    /\ failedInARow' = [failedInARow EXCEPT ![p] = IF @ < Threshold THEN @ + 1 ELSE @]
    /\ UNCHANGED reached

\* Fault: a refused call starts the cooldown again.
RefusalProlongs(p) ==
    /\ Open(p)
    /\ breaker' = [breaker EXCEPT ![p].wait = Cooldown]
    /\ UNCHANGED <<failedInARow, reached>>

\* allowProvider, answered with no: nothing is observed.
Refuse(p) == Open(p) /\ UNCHANGED breakerVars

\* The breakers live in memory.
BreakersRestart ==
    /\ breaker' = [p \in Providers |-> Fresh]
    /\ failedInARow' = [p \in Providers |-> 0]
    /\ reached' = [p \in Providers |-> 0]

\* One unit of the cooldown passes.
TickBreakers ==
    /\ breaker' = [p \in Providers |->
                     [breaker[p] EXCEPT !.wait = IF @ > 0 THEN @ - 1 ELSE 0]]
    /\ UNCHANGED <<failedInARow, reached>>

-----------------------------------------------------------------------------
BreakerTypeOK ==
    /\ breaker \in [Providers -> [failures : Nat, opened : BOOLEAN, wait : 0..Cooldown]]
    /\ failedInARow \in [Providers -> 0..Threshold]
    /\ reached \in [Providers -> Nat]

\* "three consecutive provider failures open the circuit": it is open only
\* while the last answers were failures, whatever order late ones come in.
OpensOnConsecutiveFailures ==
    \A p \in Providers : breaker[p].opened => failedInARow[p] = Threshold
==============================================================================

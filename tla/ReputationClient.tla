--------------------------- MODULE ReputationClient --------------------------
(***************************************************************************)
(* internal/reputation/client.go: lookups of one key by concurrent         *)
(* analyses, through a cache in memory, the reputation_cache table and     *)
(* the chain of enabled providers.  DomainListed and IPListed have this    *)
(* shape; the zones of the DNSBL are one provider, they share a breaker.   *)
(***************************************************************************)
EXTENDS CircuitBreaker, Sequences, SequencesExt

CONSTANTS
    Callers,           \* concurrent lookups
    Chain,             \* the providers in the order they are asked
    ListedTTL, NotListedTTL,   \* lifetimes of cached answers
    MayList,           \* bound: the providers that list the key at some time
    None               \* no cached answer

ASSUME ChainAssumption ==
    Chain \in Seq(Providers) /\ Range(Chain) = Providers /\ MayList \subseteq Providers
ASSUME CallersAssumption == IsFiniteSet(Callers)
ASSUME LifetimeAssumption == ListedTTL \in Nat \ {0} /\ NotListedTTL \in Nat \ {0}

VARIABLES
    lists,             \* the providers that list the key now
    everListed,        \* those that listed it at some time
    memory,            \* the answer in ttlCache
    stored,            \* the row of reputation_cache
    call               \* caller -> [at, next, failed, said, entry]

clientVars == <<lists, everListed, memory, stored, call>>
vars == <<breakerVars, clientVars>>

\* An answer with the time it still has and the time it has had.  "by" are
\* the providers it rests on: the one that lists the key, or all of them.
Lifetime(listed) == IF listed THEN ListedTTL ELSE NotListedTTL
Entry(listed, by) ==
    [listed |-> listed, by |-> by, left |-> Lifetime(listed), age |-> 0]

Live(entry) == entry # None /\ entry.left > 0

Resting == [at |-> "idle", next |-> 1, failed |-> FALSE, said |-> {}, entry |-> None]

Init ==
    /\ BreakerInit
    /\ lists = {} /\ everListed = {}
    /\ memory = None /\ stored = None
    /\ call = [c \in Callers |-> Resting]

Goes(c, at) == call' = [call EXCEPT ![c].at = at]
Caches(c, entry) == call' = [call EXCEPT ![c] = [Resting EXCEPT !.at = "caching", !.entry = entry]]

-----------------------------------------------------------------------------
\* The memory has no live answer (one that it has ends the lookup at once).
Begin(c) ==
    /\ call[c].at = "idle"
    /\ ~Live(memory)
    /\ memory' = None
    /\ Goes(c, "reading")
    /\ UNCHANGED <<breakerVars, lists, everListed, stored>>

\* GetReputationCache: the row, none (or an error), or one to be deleted.
ReadStore(c) ==
    /\ call[c].at = "reading"
    /\ \/ Live(stored) /\ call' = [call EXCEPT ![c].at = "filling", ![c].entry = stored]
       \/ Goes(c, "asking")
       \/ stored # None /\ ~Live(stored) /\ Goes(c, "deleting")
    /\ UNCHANGED <<breakerVars, lists, everListed, memory, stored>>

\* The row is deleted by its key, whatever it is by now.
DeleteExpired(c) ==
    /\ call[c].at = "deleting"
    /\ stored' = None
    /\ Goes(c, "asking")
    /\ UNCHANGED <<breakerVars, lists, everListed, memory>>

\* Fault: what was read gets the lifetime of a new answer.
Renewed(entry) == [entry EXCEPT !.left = Lifetime(entry.listed)]

\* time.Until(entry.ExpiresAt)
Remaining(entry) == entry

FillMemory(c) ==
    /\ call[c].at = "filling"
    /\ memory' = Remaining(call[c].entry)
    /\ call' = [call EXCEPT ![c] = Resting]
    /\ UNCHANGED <<breakerVars, lists, everListed, stored>>

-----------------------------------------------------------------------------
Asked(c) == Chain[call[c].next]

Ask(c) ==
    /\ call[c].at = "asking" /\ call[c].next <= Len(Chain)
    /\ LetThrough(Asked(c))
    /\ Goes(c, "waiting")
    /\ UNCHANGED <<lists, everListed, memory, stored>>

\* Fault: a provider that is not asked does not fail the lookup.
RefusalIsSkipped(c) == call' = [call EXCEPT ![c].next = @ + 1]

Failed(c) == call' = [call EXCEPT ![c].at = "asking", ![c].next = @ + 1, ![c].failed = TRUE]

AskRefused(c) ==
    /\ call[c].at = "asking" /\ call[c].next <= Len(Chain)
    /\ Refuse(Asked(c))
    /\ Failed(c)
    /\ UNCHANGED <<lists, everListed, memory, stored>>

\* The provider lists the key: the answer is cached without asking on.
AnsweredListed(c) ==
    /\ call[c].at = "waiting"
    /\ Asked(c) \in lists
    /\ ObserveGood(Asked(c))
    /\ Caches(c, Entry(TRUE, {Asked(c)}))
    /\ UNCHANGED <<lists, everListed, memory, stored>>

AnsweredNotListed(c) ==
    /\ call[c].at = "waiting"
    /\ Asked(c) \notin lists
    /\ ObserveGood(Asked(c))
    /\ call' = [call EXCEPT ![c].at = "asking", ![c].next = @ + 1,
                            ![c].said = @ \cup {Asked(c)}]
    /\ UNCHANGED <<lists, everListed, memory, stored>>

\* No answer, one that cannot be read, or the analysis' own deadline.
AnsweredFailed(c) ==
    /\ call[c].at = "waiting"
    /\ ObserveFailure(Asked(c))
    /\ Failed(c)
    /\ UNCHANGED <<lists, everListed, memory, stored>>

\* Nobody lists the key: only a lookup without failures caches that.
Conclude(c) ==
    /\ call[c].at = "asking" /\ call[c].next > Len(Chain)
    /\ IF call[c].failed
         THEN call' = [call EXCEPT ![c] = Resting]
         ELSE Caches(c, Entry(FALSE, call[c].said))
    /\ UNCHANGED <<breakerVars, lists, everListed, memory, stored>>

SetMemory(c) ==
    /\ call[c].at = "caching"
    /\ memory' = Entry(call[c].entry.listed, call[c].entry.by)
    /\ Goes(c, "storing")
    /\ UNCHANGED <<breakerVars, lists, everListed, stored>>

\* PutReputationCache; its failure is ignored.
PutStore(c) ==
    /\ call[c].at = "storing"
    /\ stored' \in {stored, Entry(call[c].entry.listed, call[c].entry.by)}
    /\ call' = [call EXCEPT ![c] = Resting]
    /\ UNCHANGED <<breakerVars, lists, everListed, memory>>

-----------------------------------------------------------------------------
\* A provider lists the key, or takes it off its list.
ChangeList(p) ==
    /\ lists' \in {lists \cup {p}, lists \ {p}}
    /\ everListed' = everListed \cup lists'
    /\ UNCHANGED <<breakerVars, memory, stored, call>>

\* A cache of more than 50000 keys is emptied.
Overflow ==
    /\ memory' = None
    /\ UNCHANGED <<breakerVars, lists, everListed, stored, call>>

Restart ==
    /\ BreakersRestart
    /\ memory' = None
    /\ call' = [c \in Callers |-> Resting]
    /\ UNCHANGED <<lists, everListed, stored>>

Older(entry) ==
    IF Live(entry) THEN [entry EXCEPT !.left = @ - 1, !.age = @ + 1] ELSE entry

\* Time passes for the breakers and for every answer, those being copied too.
Tick ==
    /\ TickBreakers
    /\ memory' = Older(memory)
    /\ stored' = Older(stored)
    /\ call' = [c \in Callers |->
                  IF call[c].at = "filling" THEN [call[c] EXCEPT !.entry = Older(@)] ELSE call[c]]
    /\ UNCHANGED <<lists, everListed>>

Lookup(c) ==
    \/ Begin(c) \/ ReadStore(c) \/ DeleteExpired(c) \/ FillMemory(c)
    \/ Ask(c) \/ AskRefused(c)
    \/ AnsweredListed(c) \/ AnsweredNotListed(c) \/ AnsweredFailed(c)
    \/ Conclude(c) \/ SetMemory(c) \/ PutStore(c)

Next ==
    \/ \E c \in Callers : Lookup(c)
    \/ \E p \in MayList : ChangeList(p)
    \/ Overflow \/ Restart \/ Tick

\* Time passes; nobody has to look anything up, and no provider to answer.
Spec == Init /\ [][Next]_vars /\ WF_vars(Tick)

-----------------------------------------------------------------------------
Entries == [listed : BOOLEAN, by : SUBSET Providers, left : 0..ListedTTL + NotListedTTL,
            age : 0..ListedTTL + NotListedTTL]
Steps == {"idle", "reading", "deleting", "filling", "asking", "waiting", "caching", "storing"}
Lookups == [at : Steps, next : 1..Len(Chain) + 1, failed : BOOLEAN, said : SUBSET Providers,
            entry : Entries \cup {None}]

TypeOK ==
    /\ BreakerTypeOK
    /\ lists \subseteq everListed /\ everListed \subseteq Providers
    /\ memory \in Entries \cup {None} /\ stored \in Entries \cup {None}
    /\ call \in [Callers -> Lookups]

\* Every answer that is kept somewhere.
Kept == ({memory, stored} \cup {call[c].entry : c \in Callers}) \ {None}

\* "not listed" is kept only when every enabled provider said so in the same
\* lookup: an outage or an open circuit never clears a host (client.go:314).
NotListedWasSaidByAll == \A e \in Kept : ~e.listed => e.by = Providers

\* "Provider failures degrade to unknown and never create a positive signal"
\* (client.go:1-4): what is kept as listed, one provider listed.
ListedWasSaid == \A e \in Kept : e.listed => \E p \in everListed : e.by = {p}

\* What is kept was said, by all for the absence of a listing and by one for
\* its presence (the two conditions above).
AnswersWereGiven == NotListedWasSaidByAll /\ ListedWasSaid

\* Passing an answer from the table to the memory does not prolong it: no
\* answer is used longer than its lifetime after a lookup stored it.
NoAnswerOutlivesItsTime == \A e \in Kept : e.left + e.age <= Lifetime(e.listed)

\* A provider that is down is reached by few calls: after the threshold only
\* those already under way can follow, until a good answer or the cooldown.
DownProviderIsSpared ==
    \A p \in Providers : reached[p] <= Threshold - 1 + Cardinality(Callers)

\* An open circuit closes: refused calls do not keep it open, and late
\* failures can prolong it only while calls are under way.
OpenCircuitCloses == \A p \in Providers : Open(p) ~> ~Open(p)
==============================================================================

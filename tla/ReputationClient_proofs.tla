----------------------- MODULE ReputationClient_proofs ------------------------
(***************************************************************************)
(* What the cache of reputation answers may hold, when a circuit is open   *)
(* and how many calls reach a provider that is down, for any providers,    *)
(* chain, threshold, lifetimes and callers.  That circuits close is left   *)
(* to TLC.                                                                 *)
(***************************************************************************)
EXTENDS ReputationClient, FiniteSetTheorems, TLAPS

\* A count short of the threshold is one of failures in a row.
CountedInARow ==
    \A p \in Providers :
        failedInARow[p] < Threshold => breaker[p].failures <= failedInARow[p]

BreakerInv == BreakerTypeOK /\ CountedInARow /\ OpensOnConsecutiveFailures

-----------------------------------------------------------------------------
Breakers == [failures : Nat, opened : BOOLEAN, wait : 0..Cooldown]

LEMMA FreshIsBreaker == Fresh \in Breakers /\ Fresh.failures = 0 /\ ~Fresh.opened
  BY BreakerAssumption DEF Fresh, Breakers

LEMMA BreakersStart == BreakerInit => BreakerInv
  BY BreakerAssumption, FreshIsBreaker
     DEF BreakerInit, BreakerInv, BreakerTypeOK, CountedInARow,
         OpensOnConsecutiveFailures, Breakers

LEMMA BreakersStartAgain == BreakersRestart => BreakerInv'
  BY BreakerAssumption, FreshIsBreaker
     DEF BreakersRestart, BreakerInv, BreakerTypeOK, CountedInARow,
         OpensOnConsecutiveFailures, Breakers

\* A call that is let through closes the circuit or leaves the breaker alone.
LEMMA LetThroughStep ==
    ASSUME BreakerInv, NEW p \in Providers, LetThrough(p) PROVE BreakerInv'
  <1> DEFINE b == AfterAllow(breaker[p])
  <1>1. breaker' = [breaker EXCEPT ![p] = b] /\ UNCHANGED failedInARow
    BY DEF LetThrough
  <1>2. b \in Breakers /\ (b = breaker[p] \/ (b.failures = 0 /\ ~b.opened))
    BY FreshIsBreaker DEF AfterAllow, BreakerInv, BreakerTypeOK, Breakers
  <1>3. reached' \in [Providers -> Nat]
    BY DEF LetThrough, BreakerInv, BreakerTypeOK
  <1> HIDE DEF b
  <1>4. /\ breaker' \in [Providers -> Breakers]
        /\ \A q \in Providers : \/ breaker'[q] = breaker[q]
                                \/ breaker'[q].failures = 0 /\ ~breaker'[q].opened
    BY <1>1, <1>2 DEF BreakerInv, BreakerTypeOK, Breakers
  <1> QED
    BY <1>1, <1>3, <1>4, BreakerAssumption
       DEF BreakerInv, BreakerTypeOK, CountedInARow, OpensOnConsecutiveFailures, Breakers

LEMMA GoodStep ==
    ASSUME BreakerInv, NEW p \in Providers, ObserveGood(p) PROVE BreakerInv'
  <1>1. /\ breaker' = [breaker EXCEPT ![p] = Fresh]
        /\ failedInARow' = [failedInARow EXCEPT ![p] = 0]
        /\ reached' = [reached EXCEPT ![p] = 0]
    BY DEF ObserveGood, AfterGood
  <1> QED
    BY <1>1, FreshIsBreaker, BreakerAssumption
       DEF BreakerInv, BreakerTypeOK, CountedInARow, OpensOnConsecutiveFailures, Breakers

\* The failure that opens a circuit is the last of a row.
LEMMA FailureStep ==
    ASSUME BreakerInv, NEW p \in Providers, ObserveFailure(p) PROVE BreakerInv'
  <1> DEFINE b == AfterFailure(breaker[p])
             row == IF failedInARow[p] < Threshold THEN failedInARow[p] + 1 ELSE failedInARow[p]
  <1>1. /\ breaker' = [breaker EXCEPT ![p] = b]
        /\ failedInARow' = [failedInARow EXCEPT ![p] = row]
        /\ UNCHANGED reached
    BY DEF ObserveFailure
  <1>2. /\ breaker[p] \in Breakers /\ failedInARow[p] \in 0..Threshold
        /\ failedInARow[p] < Threshold => breaker[p].failures <= failedInARow[p]
        /\ breaker[p].opened => failedInARow[p] = Threshold
    BY DEF BreakerInv, BreakerTypeOK, CountedInARow, OpensOnConsecutiveFailures, Breakers
  <1>3. row \in 0..Threshold
    BY <1>2, BreakerAssumption
  <1>4. b \in Breakers /\ b.failures = breaker[p].failures + 1
    BY <1>2, BreakerAssumption DEF AfterFailure, Breakers
  <1>5. b.opened => breaker[p].opened \/ breaker[p].failures + 1 >= Threshold
    BY <1>2 DEF AfterFailure, Breakers
  <1>6. /\ row < Threshold => b.failures <= row
        /\ b.opened => row = Threshold
    BY <1>2, <1>4, <1>5, BreakerAssumption DEF Breakers
  <1> HIDE DEF b, row
  <1> QED
    BY <1>1, <1>3, <1>4, <1>6
       DEF BreakerInv, BreakerTypeOK, CountedInARow, OpensOnConsecutiveFailures, Breakers

LEMMA TickStep ==
    ASSUME BreakerInv, TickBreakers PROVE BreakerInv'
  <1>1. \A p \in Providers : /\ breaker'[p] \in Breakers
                             /\ breaker'[p].failures = breaker[p].failures
                             /\ breaker'[p].opened = breaker[p].opened
    BY BreakerAssumption DEF TickBreakers, BreakerInv, BreakerTypeOK, Breakers
  <1>2. breaker' \in [Providers -> Breakers] /\ UNCHANGED <<failedInARow, reached>>
    BY <1>1 DEF TickBreakers
  <1> QED
    BY <1>1, <1>2
       DEF BreakerInv, BreakerTypeOK, CountedInARow, OpensOnConsecutiveFailures, Breakers

-----------------------------------------------------------------------------
\* An answer that may be kept once the providers in "ever" listed the key.
Proper(ever, e) ==
    /\ e \in Entries
    /\ ~e.listed => e.by = Providers
    /\ e.listed => \E p \in ever : e.by = {p}
    /\ e.left + e.age <= Lifetime(e.listed)

\* What a lookup has been told so far is what the chain says it was told.
Sound(ever, l) ==
    /\ l \in Lookups
    /\ l.entry = None \/ Proper(ever, l.entry)
    /\ l.at \in {"filling", "caching", "storing"} => Proper(ever, l.entry)
    /\ l.at = "waiting" => l.next <= Len(Chain)
    /\ ~l.failed => l.said = {Chain[i] : i \in 1..l.next - 1}

CacheInv ==
    /\ BreakerInv
    /\ lists \subseteq everListed /\ everListed \subseteq Providers
    /\ memory = None \/ Proper(everListed, memory)
    /\ stored = None \/ Proper(everListed, stored)
    /\ call = [c \in Callers |-> call[c]]
    /\ \A c \in Callers : Sound(everListed, call[c])

LEMMA ChainLength ==
    /\ Len(Chain) \in Nat
    /\ {Chain[i] : i \in 1..Len(Chain)} = Providers
    /\ \A i \in 1..Len(Chain) : Chain[i] \in Providers
  <1>1. Len(Chain) \in Nat /\ DOMAIN Chain = 1..Len(Chain)
    BY ChainAssumption
  <1>2. Range(Chain) = Providers
    BY ChainAssumption
  <1> QED BY <1>1, <1>2 DEF Range

\* A new answer is proper when the lookup that made it was.
LEMMA NewEntryIsProper ==
    ASSUME NEW ever \in SUBSET Providers
    PROVE  /\ \A p \in ever : Proper(ever, Entry(TRUE, {p}))
           /\ Proper(ever, Entry(FALSE, Providers))
  BY LifetimeAssumption DEF Proper, Entry, Lifetime, Entries

\* Storing an answer again gives it the lifetime it was made with.
LEMMA CopyIsProper ==
    ASSUME NEW ever, NEW e, Proper(ever, e)
    PROVE  Proper(ever, Entry(e.listed, e.by))
  BY LifetimeAssumption DEF Proper, Entry, Lifetime, Entries

LEMMA RestingIsSound ==
    ASSUME NEW ever PROVE Sound(ever, Resting)
  <1>1. Resting \in Lookups
    BY ChainLength DEF Resting, Lookups, Steps
  <1>2. \A i \in 1..Resting.next - 1 : FALSE
    BY DEF Resting
  <1> QED BY <1>1, <1>2 DEF Resting, Sound

\* An answer stays proper while the providers that ever listed grow.
LEMMA ProperStays ==
    ASSUME NEW A, NEW B, A \subseteq B, NEW e, Proper(A, e)
    PROVE  Proper(B, e)
  BY DEF Proper

LEMMA SoundStays ==
    ASSUME NEW A, NEW B, A \subseteq B, NEW l, Sound(A, l)
    PROVE  Sound(B, l)
  BY ProperStays DEF Sound

LEMMA OlderIsProper ==
    ASSUME NEW ever, NEW e, Proper(ever, e)
    PROVE  Proper(ever, Older(e))
  <1>1. CASE Live(e)
    <2> DEFINE o == [e EXCEPT !.left = @ - 1, !.age = @ + 1]
    <2>1. /\ e.left \in 1..ListedTTL + NotListedTTL /\ e.age \in 0..ListedTTL + NotListedTTL
          /\ e.left + e.age <= Lifetime(e.listed)
          /\ Lifetime(e.listed) <= ListedTTL + NotListedTTL /\ Lifetime(e.listed) \in Nat
      BY <1>1, LifetimeAssumption DEF Live, Proper, Entries, Lifetime
    <2>2. o.listed = e.listed /\ o.by = e.by /\ o.left = e.left - 1 /\ o.age = e.age + 1
      BY DEF Proper, Entries
    <2>3. o \in Entries
      <3>1. /\ e.left - 1 \in 0..ListedTTL + NotListedTTL
            /\ e.age + 1 \in 0..ListedTTL + NotListedTTL
        BY <2>1, LifetimeAssumption
      <3>2. e \in Entries
        BY DEF Proper
      <3> QED BY <3>1, <3>2 DEF Entries
    <2>4. o.left + o.age <= Lifetime(o.listed)
      BY <2>1, <2>2, LifetimeAssumption
    <2>5. Older(e) = o
      BY <1>1 DEF Older
    <2> HIDE DEF o
    <2> QED BY <2>2, <2>3, <2>4, <2>5 DEF Proper
  <1>2. CASE ~Live(e)
    BY <1>2 DEF Older
  <1> QED BY <1>1, <1>2

-----------------------------------------------------------------------------
LEMMA CacheInit == Init => CacheInv
  BY BreakersStart, RestingIsSound DEF Init, CacheInv

\* One lookup goes on and leaves the lists as they are.
LEMMA LookupStep ==
    ASSUME CacheInv, NEW c \in Callers, NEW l, call' = [call EXCEPT ![c] = l],
           Sound(everListed, l), UNCHANGED <<lists, everListed>>, BreakerInv',
           memory' = None \/ Proper(everListed, memory'),
           stored' = None \/ Proper(everListed, stored')
    PROVE  CacheInv'
  <1>1. \A d \in Callers : call'[d] = IF d = c THEN l ELSE call[d]
    BY DEF CacheInv
  <1>2. call' = [d \in Callers |-> call'[d]]
    BY <1>1 DEF CacheInv
  <1> QED BY <1>1, <1>2 DEF CacheInv

LEMMA BreakerFrame ==
    ASSUME BreakerInv, UNCHANGED breakerVars PROVE BreakerInv'
  BY DEF BreakerInv, breakerVars, BreakerTypeOK, CountedInARow, OpensOnConsecutiveFailures

LEMMA CacheStep == CacheInv /\ [Next]_vars => CacheInv'
  <1> SUFFICES ASSUME CacheInv, [Next]_vars PROVE CacheInv'
    OBVIOUS
  <1> USE DEF breakerVars, clientVars
  <1>0. /\ \A c \in Callers : call[c] \in Lookups /\ Sound(everListed, call[c])
        /\ BreakerInv
        /\ memory = None \/ Proper(everListed, memory)
        /\ stored = None \/ Proper(everListed, stored)
    BY DEF CacheInv, Sound
  <1>1. ASSUME NEW c \in Callers, Begin(c) PROVE CacheInv'
    <2> DEFINE l == [call[c] EXCEPT !.at = "reading"]
    <2>1. Sound(everListed, l)
      BY <1>0, <1>1 DEF Sound, Lookups, Steps, Begin
    <2>2. call' = [call EXCEPT ![c] = l]
      BY <1>1 DEF Begin, Goes
    <2> HIDE DEF l
    <2> QED BY <1>0, <1>1, <2>1, <2>2, LookupStep, BreakerFrame DEF Begin
  <1>2. ASSUME NEW c \in Callers, ReadStore(c) PROVE CacheInv'
    <2>1. UNCHANGED <<breakerVars, lists, everListed, memory, stored>>
      BY <1>2 DEF ReadStore
    <2>2. CASE Live(stored) /\ call' = [call EXCEPT ![c].at = "filling", ![c].entry = stored]
      <3> DEFINE l == [call[c] EXCEPT !.at = "filling", !.entry = stored]
      <3>1. Proper(everListed, stored)
        BY <1>0, <2>2 DEF Live
      <3>2. l \in Lookups
        BY <1>0, <3>1 DEF Lookups, Steps, Proper
      <3>3. /\ l.at = "filling" /\ l.entry = stored /\ l.failed = call[c].failed
            /\ l.said = call[c].said /\ l.next = call[c].next
        BY <1>0 DEF Lookups
      <3>4. call' = [call EXCEPT ![c] = l]
        BY <2>2
      <3> HIDE DEF l
      <3>5. Sound(everListed, l)
        BY <1>0, <3>1, <3>2, <3>3 DEF Sound
      <3> QED BY <1>0, <2>1, <3>4, <3>5, LookupStep, BreakerFrame
    <2>3. ASSUME NEW at \in {"asking", "deleting"}, Goes(c, at) PROVE CacheInv'
      <3> DEFINE l == [call[c] EXCEPT !.at = at]
      <3>1. Sound(everListed, l)
        BY <1>0, <2>3 DEF Sound, Lookups, Steps
      <3>2. call' = [call EXCEPT ![c] = l]
        BY <2>3 DEF Goes
      <3> HIDE DEF l
      <3> QED BY <1>0, <2>1, <3>1, <3>2, LookupStep, BreakerFrame
    <2> QED BY <1>2, <2>2, <2>3 DEF ReadStore
  <1>3. ASSUME NEW c \in Callers, DeleteExpired(c) PROVE CacheInv'
    <2> DEFINE l == [call[c] EXCEPT !.at = "asking"]
    <2>1. Sound(everListed, l)
      BY <1>0 DEF Sound, Lookups, Steps
    <2>2. call' = [call EXCEPT ![c] = l]
      BY <1>3 DEF DeleteExpired, Goes
    <2> HIDE DEF l
    <2> QED BY <1>0, <1>3, <2>1, <2>2, LookupStep, BreakerFrame DEF DeleteExpired
  <1>4. ASSUME NEW c \in Callers, FillMemory(c) PROVE CacheInv'
    <2>1. Proper(everListed, call[c].entry)
      BY <1>0, <1>4 DEF Sound, FillMemory
    <2> QED BY <1>0, <1>4, <2>1, RestingIsSound, LookupStep, BreakerFrame
            DEF FillMemory, Remaining
  <1>5. ASSUME NEW c \in Callers, Ask(c) PROVE CacheInv'
    <2> DEFINE l == [call[c] EXCEPT !.at = "waiting"]
    <2>1. Sound(everListed, l)
      BY <1>0, <1>5 DEF Sound, Lookups, Steps, Ask
    <2>2. call' = [call EXCEPT ![c] = l]
      BY <1>5 DEF Ask, Goes
    <2>3. Asked(c) \in Providers
      BY <1>0, <1>5, ChainLength DEF Ask, Asked, Lookups
    <2>4. BreakerInv'
      BY <1>0, <1>5, <2>3, LetThroughStep DEF Ask
    <2> HIDE DEF l
    <2> QED BY <1>0, <1>5, <2>1, <2>2, <2>4, LookupStep DEF Ask
  <1>6. ASSUME NEW c \in Callers,
               (call[c].at = "asking" /\ call[c].next <= Len(Chain)) \/ call[c].at = "waiting",
               Failed(c), BreakerInv', UNCHANGED <<lists, everListed, memory, stored>>
        PROVE  CacheInv'
    <2> DEFINE l == [call[c] EXCEPT !.at = "asking", !.next = @ + 1, !.failed = TRUE]
    <2>1. call[c].next <= Len(Chain)
      BY <1>0, <1>6 DEF Sound
    <2>2. call[c].next + 1 \in 1..Len(Chain) + 1
      BY <1>0, <2>1, ChainLength DEF Lookups
    <2>3. Sound(everListed, l)
      BY <1>0, <2>2 DEF Sound, Lookups, Steps
    <2>4. call' = [call EXCEPT ![c] = l]
      BY <1>6 DEF Failed
    <2> HIDE DEF l
    <2> QED BY <1>0, <1>6, <2>3, <2>4, LookupStep
  <1>7. ASSUME NEW c \in Callers, AskRefused(c) PROVE CacheInv'
    BY <1>0, <1>6, <1>7, BreakerFrame DEF AskRefused, Refuse
  <1>8. ASSUME NEW c \in Callers, call[c].at = "waiting"
        PROVE  call[c].next \in 1..Len(Chain) /\ Asked(c) \in Providers
    BY <1>0, <1>8, ChainLength DEF Asked, Lookups, Sound
  <1>9. ASSUME NEW c \in Callers, AnsweredFailed(c) PROVE CacheInv'
    BY <1>0, <1>6, <1>8, <1>9, FailureStep DEF AnsweredFailed
  <1>10. ASSUME NEW c \in Callers, NEW e, Proper(everListed, e)
         PROVE  Sound(everListed, [Resting EXCEPT !.at = "caching", !.entry = e])
    <2> DEFINE l == [Resting EXCEPT !.at = "caching", !.entry = e]
    <2>1. l \in Lookups
      BY <1>10, RestingIsSound DEF Sound, Lookups, Steps, Proper
    <2>2. /\ l.at = "caching" /\ l.entry = e /\ ~l.failed
          /\ l.said = Resting.said /\ l.next = Resting.next
      BY DEF Resting
    <2>3. l.said = {Chain[i] : i \in 1..l.next - 1}
      BY <2>2, RestingIsSound DEF Sound, Resting
    <2> HIDE DEF l
    <2>4. Sound(everListed, l)
      BY <1>10, <2>1, <2>2, <2>3 DEF Sound
    <2> QED BY <2>4 DEF l
  <1>11. ASSUME NEW c \in Callers, AnsweredListed(c) PROVE CacheInv'
    <2>1. Asked(c) \in everListed /\ Asked(c) \in Providers
      BY <1>11 DEF AnsweredListed, CacheInv
    <2>2. Proper(everListed, Entry(TRUE, {Asked(c)}))
      BY <2>1, NewEntryIsProper DEF CacheInv
    <2>3. BreakerInv'
      BY <1>0, <1>11, <2>1, GoodStep DEF AnsweredListed
    <2> QED BY <1>0, <1>10, <1>11, <2>2, <2>3, LookupStep DEF AnsweredListed, Caches
  <1>12. ASSUME NEW c \in Callers, AnsweredNotListed(c) PROVE CacheInv'
    <2> DEFINE l == [call[c] EXCEPT !.at = "asking", !.next = @ + 1,
                                    !.said = @ \cup {Asked(c)}]
    <2>1. /\ call[c].at = "waiting" /\ call' = [call EXCEPT ![c] = l]
          /\ ObserveGood(Asked(c)) /\ UNCHANGED <<lists, everListed, memory, stored>>
      BY <1>12 DEF AnsweredNotListed
    <2>2. call[c].next \in 1..Len(Chain) /\ Asked(c) \in Providers
      BY <1>8, <2>1
    <2>3. l \in Lookups
      <3>1. call[c].next + 1 \in 1..Len(Chain) + 1
        BY <2>2, ChainLength
      <3>2. call[c].said \cup {Asked(c)} \in SUBSET Providers
        BY <1>0, <2>2 DEF Lookups
      <3> QED BY <1>0, <3>1, <3>2 DEF Lookups, Steps
    <2>4. ~l.failed => l.said = {Chain[i] : i \in 1..l.next - 1}
      <3>1. l.failed = call[c].failed /\ l.next = call[c].next + 1
            /\ l.said = call[c].said \cup {Asked(c)}
        BY <1>0 DEF Lookups
      <3>2. 1..l.next - 1 = (1..call[c].next - 1) \cup {call[c].next}
        BY <2>2, <3>1, ChainLength
      <3>3. ~call[c].failed => call[c].said = {Chain[i] : i \in 1..call[c].next - 1}
        BY <1>0 DEF Sound
      <3> HIDE DEF l
      <3> QED BY <3>1, <3>2, <3>3 DEF Asked
    <2>5. l.at = "asking" /\ l.entry = call[c].entry
      BY <1>0 DEF Lookups
    <2>6. BreakerInv'
      BY <1>0, <2>1, <2>2, GoodStep
    <2> HIDE DEF l
    <2>7. Sound(everListed, l)
      BY <1>0, <2>3, <2>4, <2>5 DEF Sound
    <2> QED BY <1>0, <2>1, <2>6, <2>7, LookupStep
  <1>13. ASSUME NEW c \in Callers, Conclude(c) PROVE CacheInv'
    <2>1. CASE call[c].failed
      BY <1>0, <1>13, <2>1, RestingIsSound, LookupStep, BreakerFrame DEF Conclude
    <2>2. CASE ~call[c].failed
      <3>1. call[c].next - 1 = Len(Chain)
        BY <1>0, <1>13, ChainLength DEF Conclude, Lookups
      <3>2. call[c].said = Providers
        BY <1>0, <2>2, <3>1, ChainLength DEF Sound
      <3>3. Proper(everListed, Entry(FALSE, call[c].said))
        BY <3>2, NewEntryIsProper DEF CacheInv
      <3> QED BY <1>0, <1>10, <1>13, <2>2, <3>3, LookupStep, BreakerFrame
              DEF Conclude, Caches
    <2> QED BY <2>1, <2>2
  <1>14. ASSUME NEW c \in Callers, SetMemory(c) PROVE CacheInv'
    <2> DEFINE l == [call[c] EXCEPT !.at = "storing"]
    <2>1. Sound(everListed, l)
      BY <1>0, <1>14 DEF Sound, Lookups, Steps, SetMemory
    <2>2. call' = [call EXCEPT ![c] = l]
      BY <1>14 DEF SetMemory, Goes
    <2>3. Proper(everListed, memory')
      BY <1>0, <1>14, CopyIsProper DEF Sound, SetMemory
    <2> HIDE DEF l
    <2> QED BY <1>0, <1>14, <2>1, <2>2, <2>3, LookupStep, BreakerFrame DEF SetMemory
  <1>15. ASSUME NEW c \in Callers, PutStore(c) PROVE CacheInv'
    <2>1. Proper(everListed, Entry(call[c].entry.listed, call[c].entry.by))
      BY <1>0, <1>15, CopyIsProper DEF Sound, PutStore
    <2> QED BY <1>0, <1>15, <2>1, RestingIsSound, LookupStep, BreakerFrame DEF PutStore
  <1>16. ASSUME NEW p \in MayList, ChangeList(p) PROVE CacheInv'
    <2>1. /\ everListed \subseteq everListed' /\ lists' \subseteq everListed'
          /\ everListed' \subseteq Providers
      BY <1>16, ChainAssumption DEF ChangeList, CacheInv
    <2>2. BreakerInv' /\ UNCHANGED <<memory, stored, call>>
      BY <1>0, <1>16, BreakerFrame DEF ChangeList
    <2> QED BY <1>0, <2>1, <2>2, ProperStays, SoundStays DEF CacheInv
  <1>17. CASE Overflow
    BY <1>0, <1>17, BreakerFrame DEF Overflow, CacheInv
  <1>18. CASE Restart
    BY <1>18, BreakersStartAgain, RestingIsSound DEF Restart, CacheInv
  <1>19. CASE Tick
    <2>1. \A e : e = None \/ Proper(everListed, e)
                   => Older(e) = None \/ Proper(everListed, Older(e))
      BY OlderIsProper DEF Older, Live
    <2>2. \A c \in Callers : Sound(everListed, call'[c])
      <3> SUFFICES ASSUME NEW c \in Callers PROVE Sound(everListed, call'[c])
        OBVIOUS
      <3>1. CASE call[c].at = "filling"
        <4> DEFINE l == [call[c] EXCEPT !.entry = Older(@)]
        <4>1. Proper(everListed, call[c].entry)
          BY <1>0, <3>1 DEF Sound
        <4>2. Proper(everListed, Older(call[c].entry))
          BY <4>1, OlderIsProper
        <4>3. Sound(everListed, l)
          BY <1>0, <3>1, <4>2 DEF Sound, Lookups, Proper
        <4> QED BY <1>19, <3>1, <4>3 DEF Tick
      <3>2. CASE call[c].at # "filling"
        BY <1>0, <1>19, <3>2 DEF Tick
      <3> QED BY <3>1, <3>2
    <2>3. BreakerInv'
      BY <1>0, <1>19, TickStep DEF Tick
    <2>4. /\ UNCHANGED <<lists, everListed>>
          /\ memory' = Older(memory) /\ stored' = Older(stored)
          /\ call' = [c \in Callers |-> call'[c]]
      BY <1>19 DEF Tick
    <2> QED BY <1>0, <2>1, <2>2, <2>3, <2>4 DEF CacheInv
  <1>20. CASE UNCHANGED vars
    BY <1>0, <1>20, BreakerFrame DEF vars, CacheInv
  <1> QED
    BY <1>1, <1>2, <1>3, <1>4, <1>5, <1>7, <1>9, <1>11, <1>12, <1>13, <1>14, <1>15,
       <1>16, <1>17, <1>18, <1>19, <1>20
       DEF Next, Lookup

LEMMA CacheIsInvariant == Spec => []CacheInv
  BY CacheInit, CacheStep, PTL DEF Spec

-----------------------------------------------------------------------------
\* The breakers, the caches and the lookups keep their types.
THEOREM TypeCorrect == Spec => []TypeOK
  <1>1. CacheInv => TypeOK
    BY DEF CacheInv, BreakerInv, TypeOK, Sound, Proper
  <1> QED BY <1>1, CacheIsInvariant, PTL

\* What is kept, in memory, in the table or by a lookup, is proper.
LEMMA KeptIsProper == CacheInv => \A e \in Kept : Proper(everListed, e)
  BY DEF CacheInv, Kept, Sound

\* An outage, an open circuit or a lookup that was cut short never leaves
\* "not listed" behind.
THEOREM OutageNeverClears == Spec => []NotListedWasSaidByAll
  <1>1. CacheInv => NotListedWasSaidByAll
    BY KeptIsProper DEF NotListedWasSaidByAll, Proper
  <1> QED BY <1>1, CacheIsInvariant, PTL

\* A listing that is kept is one a provider made.
THEOREM ListingsAreReal == Spec => []ListedWasSaid
  <1>1. CacheInv => ListedWasSaid
    BY KeptIsProper DEF ListedWasSaid, Proper
  <1> QED BY <1>1, CacheIsInvariant, PTL

\* Kept answers were given, for every chain, threshold and lifetime.
THEOREM AnswersAreReal == Spec => []AnswersWereGiven
  BY OutageNeverClears, ListingsAreReal, PTL DEF AnswersWereGiven

\* Copies between the table and the memory never prolong an answer.
THEOREM AnswersExpire == Spec => []NoAnswerOutlivesItsTime
  <1>1. CacheInv => NoAnswerOutlivesItsTime
    BY KeptIsProper DEF NoAnswerOutlivesItsTime, Proper
  <1> QED BY <1>1, CacheIsInvariant, PTL

\* A circuit is open only while the last answers of its provider failed.
THEOREM OpensOnlyOnARow == Spec => []OpensOnConsecutiveFailures
  <1>1. CacheInv => OpensOnConsecutiveFailures
    BY DEF CacheInv, BreakerInv
  <1> QED BY <1>1, CacheIsInvariant, PTL

-----------------------------------------------------------------------------
\* The calls under way to a provider, and what they leave it to be spared:
\* while its circuit is closed every call that reached it has failed and was
\* counted, or is still under way.
UnderWay(calls, p) ==
    {c \in Callers : calls[c].at = "waiting" /\ Chain[calls[c].next] = p}

CallsAreAccounted ==
    \A p \in Providers :
        ~breaker[p].opened =>
            /\ breaker[p].failures < Threshold
            /\ reached[p] <= breaker[p].failures + Cardinality(UnderWay(call, p))

SparedInv == CallsAreAccounted /\ DownProviderIsSpared

LEMMA UnderWayIsFinite ==
    ASSUME NEW calls, NEW p
    PROVE  /\ IsFiniteSet(UnderWay(calls, p))
           /\ Cardinality(UnderWay(calls, p)) \in Nat
           /\ Cardinality(Callers) \in Nat
           /\ Cardinality(UnderWay(calls, p)) <= Cardinality(Callers)
  <1>1. UnderWay(calls, p) \subseteq Callers
    BY DEF UnderWay
  <1> QED BY <1>1, CallersAssumption, FS_Subset, FS_CardinalityType

\* Lookups that neither begin nor end a call leave the accounts alone.
LEMMA AccountsFrame ==
    ASSUME CacheInv, SparedInv, UNCHANGED reached,
           \A p \in Providers : /\ breaker'[p].opened = breaker[p].opened
                                /\ breaker'[p].failures = breaker[p].failures,
           \A c \in Callers : /\ call'[c].at = "waiting" <=> call[c].at = "waiting"
                              /\ call[c].at = "waiting" => call'[c].next = call[c].next
    PROVE  SparedInv'
  <1>1. \A p \in Providers : UnderWay(call', p) = UnderWay(call, p)
    BY DEF UnderWay
  <1> QED BY <1>1 DEF SparedInv, CallsAreAccounted, DownProviderIsSpared

\* A call more is let through: it is under way, to one provider.
LEMMA AskIsAccounted ==
    ASSUME CacheInv, SparedInv, NEW c \in Callers, Ask(c) PROVE SparedInv'
  <1> DEFINE q == Asked(c)
  <1>1. /\ call[c].at = "asking" /\ LetThrough(q)
        /\ call' = [call EXCEPT ![c].at = "waiting"]
    BY DEF Ask, Goes
  <1>2. q \in Providers
    BY ChainLength DEF Ask, Asked, CacheInv, Sound, Lookups
  <1>3. call[c] \in Lookups
    BY DEF CacheInv, Sound
  <1>4. /\ call'[c].at = "waiting" /\ call'[c].next = call[c].next
        /\ \A d \in Callers \ {c} : call'[d] = call[d]
    BY <1>1, <1>3 DEF CacheInv, Lookups
  <1>5. \A p \in Providers \ {q} : UnderWay(call', p) = UnderWay(call, p)
    BY <1>1, <1>4 DEF UnderWay, Asked
  <1>6. UnderWay(call', q) = UnderWay(call, q) \cup {c} /\ c \notin UnderWay(call, q)
    BY <1>1, <1>4 DEF UnderWay, Asked
  <1>7. Cardinality(UnderWay(call', q)) = Cardinality(UnderWay(call, q)) + 1
    BY <1>6, UnderWayIsFinite, FS_AddElement
  <1> DEFINE before == Cardinality(UnderWay(call, q))
             after == Cardinality(UnderWay(call', q))
             all == Cardinality(Callers)
  <1>8. before \in Nat /\ after \in Nat /\ all \in Nat /\ after <= all /\ after = before + 1
    BY <1>7, UnderWayIsFinite
  <1>9. /\ breaker' = [breaker EXCEPT ![q] = AfterAllow(@)]
        /\ reached' = [reached EXCEPT ![q] = IF breaker[q].opened THEN 1 ELSE @ + 1]
    BY <1>1 DEF LetThrough
  <1>10. breaker \in [Providers -> Breakers] /\ reached \in [Providers -> Nat]
    BY DEF CacheInv, BreakerInv, BreakerTypeOK, Breakers
  <1>11. /\ ~breaker[q].opened => /\ breaker[q].failures < Threshold
                                  /\ reached[q] <= breaker[q].failures + before
    BY <1>2 DEF SparedInv, CallsAreAccounted
  <1>12. /\ \A p \in Providers \ {q} : breaker'[p] = breaker[p] /\ reached'[p] = reached[p]
         /\ breaker'[q] = AfterAllow(breaker[q])
         /\ reached'[q] = IF breaker[q].opened THEN 1 ELSE reached[q] + 1
    BY <1>2, <1>9, <1>10
  <1> HIDE DEF before, after, all, q
  <1>13. /\ breaker'[q].failures < Threshold
         /\ reached'[q] <= breaker'[q].failures + after
         /\ reached'[q] <= Threshold - 1 + all
    <2>0. breaker[q].failures \in Nat /\ reached[q] \in Nat
      BY <1>2, <1>10 DEF Breakers
    <2>1. CASE breaker[q].opened
      BY <1>8, <1>12, <2>1, FreshIsBreaker, BreakerAssumption DEF AfterAllow
    <2>2. CASE ~breaker[q].opened
      BY <1>8, <1>11, <1>12, <2>0, <2>2, BreakerAssumption DEF AfterAllow
    <2> QED BY <2>1, <2>2
  <1>14. ASSUME NEW p \in Providers, ~breaker'[p].opened
         PROVE  /\ breaker'[p].failures < Threshold
                /\ reached'[p] <= breaker'[p].failures + Cardinality(UnderWay(call', p))
    <2>1. CASE p = q
      BY <1>13, <2>1 DEF after
    <2>2. CASE p # q
      BY <1>5, <1>12, <1>14, <2>2 DEF SparedInv, CallsAreAccounted
    <2> QED BY <2>1, <2>2
  <1>15. ASSUME NEW p \in Providers PROVE reached'[p] <= Threshold - 1 + all
    BY <1>12, <1>13 DEF SparedInv, DownProviderIsSpared, all
  <1> QED BY <1>14, <1>15 DEF SparedInv, CallsAreAccounted, DownProviderIsSpared, all

\* A call ends: a failure is counted in its stead, or the count starts anew.
LEMMA AnswerIsAccounted ==
    ASSUME CacheInv, SparedInv, NEW c \in Callers, call[c].at = "waiting",
           ObserveGood(Asked(c)) \/ ObserveFailure(Asked(c)),
           \A d \in Callers \ {c} : call'[d] = call[d], call'[c].at # "waiting"
    PROVE  SparedInv'
  <1> DEFINE q == Asked(c)
  <1>1. q \in Providers
    BY ChainLength DEF Asked, CacheInv, Sound, Lookups
  <1>2. \A p \in Providers \ {q} : UnderWay(call', p) = UnderWay(call, p)
    BY DEF UnderWay, Asked
  <1>3. UnderWay(call', q) = UnderWay(call, q) \ {c} /\ c \in UnderWay(call, q)
    BY DEF UnderWay, Asked
  <1>4. Cardinality(UnderWay(call', q)) = Cardinality(UnderWay(call, q)) - 1
    BY <1>3, UnderWayIsFinite, FS_RemoveElement
  <1> DEFINE before == Cardinality(UnderWay(call, q))
             after == Cardinality(UnderWay(call', q))
             all == Cardinality(Callers)
  <1>5. before \in Nat /\ after \in Nat /\ all \in Nat /\ after = before - 1
    BY <1>4, UnderWayIsFinite
  <1>6. breaker \in [Providers -> Breakers] /\ reached \in [Providers -> Nat]
    BY DEF CacheInv, BreakerInv, BreakerTypeOK, Breakers
  <1>7. /\ ~breaker[q].opened => /\ breaker[q].failures < Threshold
                                 /\ reached[q] <= breaker[q].failures + before
        /\ reached[q] <= Threshold - 1 + all
    BY <1>1 DEF SparedInv, CallsAreAccounted, DownProviderIsSpared
  <1>8. \A p \in Providers \ {q} : breaker'[p] = breaker[p] /\ reached'[p] = reached[p]
    BY <1>6 DEF ObserveGood, ObserveFailure
  <1>9. \/ breaker'[q] = Fresh /\ reached'[q] = 0
        \/ breaker'[q] = AfterFailure(breaker[q]) /\ reached'[q] = reached[q]
    BY <1>1, <1>6 DEF ObserveGood, ObserveFailure, AfterGood
  <1> HIDE DEF before, after, all, q
  <1>10. /\ ~breaker'[q].opened => /\ breaker'[q].failures < Threshold
                                   /\ reached'[q] <= breaker'[q].failures + after
         /\ reached'[q] <= Threshold - 1 + all
    <2>0. breaker[q] \in Breakers /\ reached[q] \in Nat
      BY <1>1, <1>6
    <2>1. CASE breaker'[q] = Fresh /\ reached'[q] = 0
      BY <1>5, <2>1, FreshIsBreaker, BreakerAssumption
    <2>2. CASE breaker'[q] = AfterFailure(breaker[q]) /\ reached'[q] = reached[q]
      <3>1. CASE breaker[q].failures + 1 >= Threshold
        BY <1>7, <2>2, <3>1 DEF AfterFailure
      <3>2. CASE ~(breaker[q].failures + 1 >= Threshold)
        <4>1. breaker'[q].opened = breaker[q].opened
              /\ breaker'[q].failures = breaker[q].failures + 1
          BY <2>0, <2>2, <3>2 DEF AfterFailure, Breakers
        <4>2. breaker[q].failures \in Nat
          BY <2>0 DEF Breakers
        <4> QED BY <1>5, <1>7, <2>0, <2>2, <3>2, <4>1, <4>2, BreakerAssumption
      <3> QED BY <3>1, <3>2
    <2> QED BY <1>9, <2>1, <2>2
  <1>11. ASSUME NEW p \in Providers, ~breaker'[p].opened
         PROVE  /\ breaker'[p].failures < Threshold
                /\ reached'[p] <= breaker'[p].failures + Cardinality(UnderWay(call', p))
    <2>1. CASE p = q
      BY <1>10, <1>11, <2>1 DEF after
    <2>2. CASE p # q
      BY <1>2, <1>8, <1>11, <2>2 DEF SparedInv, CallsAreAccounted
    <2> QED BY <2>1, <2>2
  <1>12. ASSUME NEW p \in Providers PROVE reached'[p] <= Threshold - 1 + all
    BY <1>8, <1>10 DEF SparedInv, DownProviderIsSpared, all
  <1> QED BY <1>11, <1>12 DEF SparedInv, CallsAreAccounted, DownProviderIsSpared, all

\* No call is under way and none has reached a provider.
LEMMA FreshIsSpared ==
    ASSUME breaker = [p \in Providers |-> Fresh], reached = [p \in Providers |-> 0]
    PROVE  SparedInv
  BY FreshIsBreaker, UnderWayIsFinite, BreakerAssumption
     DEF SparedInv, CallsAreAccounted, DownProviderIsSpared

LEMMA SparedStep == CacheInv /\ SparedInv /\ [Next]_vars => SparedInv'
  <1> SUFFICES ASSUME CacheInv, SparedInv, [Next]_vars PROVE SparedInv'
    OBVIOUS
  <1> USE DEF breakerVars, clientVars
  <1>0. /\ call = [c \in Callers |-> call[c]]
        /\ \A c \in Callers : call[c] \in Lookups
        /\ breaker \in [Providers -> Breakers]
    BY DEF CacheInv, Sound, BreakerInv, BreakerTypeOK, Breakers
  <1>1. ASSUME NEW c \in Callers, UNCHANGED breakerVars,
               call' = [call EXCEPT ![c] = call'[c]],
               call[c].at # "waiting", call'[c].at # "waiting"
        PROVE  SparedInv'
    <2>1. \A d \in Callers \ {c} : call'[d] = call[d]
      BY <1>0, <1>1
    <2> QED BY <1>1, <2>1, AccountsFrame
  <1>2. ASSUME NEW c \in Callers,
               Begin(c) \/ ReadStore(c) \/ DeleteExpired(c) \/ FillMemory(c)
               \/ AskRefused(c) \/ Conclude(c) \/ SetMemory(c) \/ PutStore(c)
        PROVE  SparedInv'
    <2>1. UNCHANGED breakerVars /\ call[c].at # "waiting"
      BY <1>2 DEF Begin, ReadStore, DeleteExpired, FillMemory, AskRefused, Refuse,
                  Conclude, SetMemory, PutStore
    <2>2. call' = [call EXCEPT ![c] = call'[c]]
      BY <1>0, <1>2 DEF Begin, ReadStore, DeleteExpired, FillMemory, AskRefused, Failed,
                  Conclude, Caches, SetMemory, PutStore, Goes
    <2>3. call'[c].at # "waiting"
      <3>1. \A at \in Steps \ {"waiting"} : Goes(c, at) => call'[c].at # "waiting"
        BY <1>0 DEF Goes, Lookups
      <3>2. CASE ReadStore(c)
        BY <1>0, <3>1, <3>2 DEF ReadStore, Lookups, Steps
      <3>3. CASE AskRefused(c)
        BY <1>0, <3>3 DEF AskRefused, Failed, Lookups
      <3>4. CASE Begin(c) \/ DeleteExpired(c) \/ SetMemory(c)
        BY <3>1, <3>4 DEF Begin, DeleteExpired, SetMemory, Steps
      <3>5. CASE FillMemory(c) \/ Conclude(c) \/ PutStore(c)
        <4>1. \A e : Caches(c, e) => call'[c].at # "waiting"
          BY <1>0 DEF Caches, Resting
        <4>2. call' = [call EXCEPT ![c] = Resting] => call'[c].at # "waiting"
          BY <1>0 DEF Resting
        <4> QED BY <3>5, <4>1, <4>2 DEF FillMemory, Conclude, PutStore
      <3> QED BY <1>2, <3>2, <3>3, <3>4, <3>5
    <2> QED BY <1>1, <2>1, <2>2, <2>3
  <1>3. ASSUME NEW c \in Callers, AnsweredListed(c) \/ AnsweredNotListed(c) \/ AnsweredFailed(c)
        PROVE  SparedInv'
    <2>1. /\ call[c].at = "waiting"
          /\ ObserveGood(Asked(c)) \/ ObserveFailure(Asked(c))
      BY <1>3 DEF AnsweredListed, AnsweredNotListed, AnsweredFailed
    <2>2. /\ \A d \in Callers \ {c} : call'[d] = call[d]
          /\ call'[c].at # "waiting"
      <3>1. CASE AnsweredListed(c)
        BY <1>0, <3>1 DEF AnsweredListed, Caches, Resting
      <3>2. CASE AnsweredNotListed(c)
        BY <1>0, <3>2 DEF AnsweredNotListed, Lookups
      <3>3. CASE AnsweredFailed(c)
        BY <1>0, <3>3 DEF AnsweredFailed, Failed, Lookups
      <3> QED BY <1>3, <3>1, <3>2, <3>3
    <2> QED BY <2>1, <2>2, AnswerIsAccounted
  <1>4. CASE Tick
    <2>1. \A p \in Providers : /\ breaker'[p].opened = breaker[p].opened
                               /\ breaker'[p].failures = breaker[p].failures
      BY <1>0, <1>4 DEF Tick, TickBreakers, Breakers
    <2>2. \A c \in Callers : call'[c].at = call[c].at /\ call'[c].next = call[c].next
      BY <1>0, <1>4 DEF Tick, Lookups
    <2>3. UNCHANGED reached
      BY <1>4 DEF Tick, TickBreakers
    <2> QED BY <2>1, <2>2, <2>3, AccountsFrame
  <1>5. CASE Restart
    <2>1. /\ breaker' = [p \in Providers |-> Fresh]
          /\ reached' = [p \in Providers |-> 0]
      BY <1>5 DEF Restart, BreakersRestart
    <2> QED
      BY <2>1, FreshIsBreaker, UnderWayIsFinite, BreakerAssumption
         DEF SparedInv, CallsAreAccounted, DownProviderIsSpared
  <1>6. CASE UNCHANGED <<breaker, reached, call>>
    BY <1>6, AccountsFrame
  <1>7. ASSUME NEW p \in MayList, ChangeList(p) PROVE SparedInv'
    BY <1>6, <1>7 DEF ChangeList
  <1>8. CASE Overflow
    BY <1>6, <1>8 DEF Overflow
  <1>9. CASE UNCHANGED vars
    BY <1>6, <1>9 DEF vars
  <1> QED
    BY <1>2, <1>3, <1>4, <1>5, <1>7, <1>8, <1>9, AskIsAccounted DEF Next, Lookup

\* A provider that is down is reached by fewer calls than the threshold and
\* those under way with it, however late outcomes come and whoever asks.
THEOREM DownProvidersAreSpared == Spec => []DownProviderIsSpared
  <1>1. Init => SparedInv
    BY FreshIsSpared DEF Init, BreakerInit
  <1>2. Spec => []SparedInv
    BY <1>1, CacheIsInvariant, SparedStep, PTL DEF Spec
  <1> QED BY <1>2, PTL DEF SparedInv
=============================================================================

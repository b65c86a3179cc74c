----------------------------- MODULE LLMService ------------------------------
(***************************************************************************)
(* internal/llm/service.go: concurrent calls of Explain for one message    *)
(* text go down the chain of providers, each call within an hourly cap on  *)
(* calls and a daily cap on money, reserved before and settled or given    *)
(* back after.  Vision uses the same chain and budget without the cache.   *)
(* Hour and day are looked at only when a call is reserved.                *)
(***************************************************************************)
EXTENDS Integers, Sequences, FiniteSets, FiniteSetsExt

CONSTANTS
    Callers,           \* concurrent analyses
    Chain,             \* the configured providers, in order
    Estimates,         \* provider -> what a call may be estimated at
    Costs,             \* provider -> what an answer may turn out to cost
    PerHour, PerDay    \* config.llm.budget, 0 for no cap

Providers == {Chain[i] : i \in DOMAIN Chain}

ASSUME CallersAssumption == IsFiniteSet(Callers)
ASSUME ChainAssumption == Chain \in Seq(Providers)
ASSUME CapAssumption == PerHour \in Nat /\ PerDay \in Nat
ASSUME PriceAssumption ==
    \A p \in Providers : Estimates[p] \subseteq Nat /\ Costs[p] \subseteq Nat

VARIABLES
    calls, spent,      \* the counters of this hour and this day
    hourOver, dayOver, \* the hour or day they count is over
    cached,            \* an answer for the text is cached
    call,              \* caller -> [at, next, estimate, ofToday]
    ended,             \* callers whose context has ended
    reached,           \* calls that reached a provider in this hour
    settled,           \* what the answers to this day's calls cost
    overrun,           \* by how much they cost more than estimated
    strayed            \* a call of an earlier day was settled in this one

counters == <<calls, spent, hourOver, dayOver>>
ghosts == <<reached, settled, overrun, strayed>>
vars == <<counters, cached, call, ended, ghosts>>

Resting == [at |-> "idle", next |-> 1, estimate |-> 0, ofToday |-> TRUE]

Init ==
    /\ calls = 0 /\ spent = 0
    /\ hourOver = FALSE /\ dayOver = FALSE
    /\ cached = FALSE
    /\ call = [c \in Callers |-> Resting]
    /\ ended = {}
    /\ reached = 0 /\ settled = 0 /\ overrun = 0 /\ strayed = FALSE

-----------------------------------------------------------------------------
CallsNow == IF hourOver THEN 0 ELSE calls
SpentNow == IF dayOver THEN 0 ELSE spent

\* Fault: the call itself is not counted against the day.
WithinCapsBefore(estimate) ==
    /\ PerHour > 0 => CallsNow < PerHour
    /\ PerDay > 0 => SpentNow <= PerDay

WithinCaps(estimate) ==
    /\ PerHour > 0 => CallsNow < PerHour
    /\ PerDay > 0 => SpentNow + estimate <= PerDay

\* A new hour or day begins with the first reservation that notices it.
Rollover ==
    /\ hourOver' = FALSE /\ dayOver' = FALSE
    /\ settled' = IF dayOver THEN 0 ELSE settled
    /\ overrun' = IF dayOver THEN 0 ELSE overrun
    /\ strayed' = (strayed /\ ~dayOver)

\* Calls under way that an earlier day's counter had reserved.
Dated(calling) ==
    [c \in Callers |-> [calling[c] EXCEPT !.ofToday = @ /\ ~dayOver]]

AtLeastZero(amount) == IF amount > 0 THEN amount ELSE 0

\* The counter after a reservation was replaced by what it cost.
SpentAfter(c, cost) == AtLeastZero(spent + cost - call[c].estimate)

\* Fault: what failed without an answer is not given back.
NothingGivenBack(c) == UNCHANGED <<calls, spent>>

\* cancel: the money is given back, the call stays counted.
GivesBack(c) ==
    /\ spent' = SpentAfter(c, 0)
    /\ UNCHANGED calls

Strays(c) == strayed' = (strayed \/ ~call[c].ofToday)

-----------------------------------------------------------------------------
\* No cached answer (one that is cached ends the call at once).
Begin(c) ==
    /\ call[c].at = "idle" /\ ~cached
    /\ call' = [call EXCEPT ![c].at = "asking"]
    /\ UNCHANGED <<counters, cached, ended, ghosts>>

\* The call of the next provider is reserved and sent.
Ask(c) ==
    /\ call[c].at = "asking" /\ call[c].next <= Len(Chain)
    /\ \E estimate \in Estimates[Chain[call[c].next]] :
         /\ WithinCaps(estimate)
         /\ calls' = CallsNow + 1
         /\ spent' = SpentNow + estimate
         /\ call' = [Dated(call) EXCEPT ![c].at = "waiting", ![c].estimate = estimate,
                                        ![c].ofToday = TRUE]
    /\ reached' = IF hourOver THEN 1 ELSE reached + 1
    /\ Rollover
    /\ UNCHANGED <<cached, ended>>

Returns(c, calling) == call' = [calling EXCEPT ![c] = Resting] /\ ended' = ended \ {c}

\* A cap is reached: the chain ends, also before a provider that costs nothing.
AskRefused(c) ==
    /\ call[c].at = "asking" /\ call[c].next <= Len(Chain)
    /\ \E estimate \in Estimates[Chain[call[c].next]] : ~WithinCaps(estimate)
    /\ calls' = CallsNow /\ spent' = SpentNow
    /\ reached' = IF hourOver THEN 0 ELSE reached
    /\ Rollover
    /\ Returns(c, Dated(call))
    /\ UNCHANGED cached

\* A valid answer is settled at what it cost and cached.
Answered(c) ==
    /\ call[c].at = "waiting"
    /\ \E cost \in Costs[Chain[call[c].next]] :
         /\ spent' = SpentAfter(c, cost)
         /\ settled' = IF call[c].ofToday THEN settled + cost ELSE settled
         /\ overrun' = IF call[c].ofToday
                         THEN overrun + AtLeastZero(cost - call[c].estimate) ELSE overrun
    /\ cached' = TRUE
    /\ Strays(c)
    /\ Returns(c, call)
    /\ UNCHANGED <<calls, hourOver, dayOver, reached>>

\* Fault: the provider that failed is asked again.
SameProvider(c) ==
    call' = [call EXCEPT ![c] = [Resting EXCEPT !.at = "asking", !.next = call[c].next]]

NextProvider(c) ==
    call' = [call EXCEPT ![c] = [Resting EXCEPT !.at = "asking", !.next = call[c].next + 1]]

\* The provider fails: the next one is asked unless the context has ended.
ProviderFails(c) ==
    /\ call[c].at = "waiting"
    /\ GivesBack(c)
    /\ Strays(c)
    /\ IF c \in ended
         THEN Returns(c, call)
         ELSE NextProvider(c) /\ UNCHANGED ended
    /\ UNCHANGED <<hourOver, dayOver, cached, reached, settled, overrun>>

\* The answer is not what was asked for: given back, although it was paid.
InvalidOutput(c) ==
    /\ call[c].at = "waiting"
    /\ GivesBack(c)
    /\ Strays(c)
    /\ NextProvider(c)
    /\ UNCHANGED <<hourOver, dayOver, cached, ended, reached, settled, overrun>>

ChainEnds(c) ==
    /\ call[c].at = "asking" /\ call[c].next > Len(Chain)
    /\ Returns(c, call)
    /\ UNCHANGED <<counters, cached, ghosts>>

-----------------------------------------------------------------------------
ContextEnds(c) ==
    /\ call[c].at # "idle"
    /\ ended' = ended \cup {c}
    /\ UNCHANGED <<counters, cached, call, ghosts>>

HourPasses == hourOver' = TRUE /\ UNCHANGED <<calls, spent, dayOver, cached, call, ended, ghosts>>

DayPasses ==
    /\ hourOver' = TRUE /\ dayOver' = TRUE
    /\ UNCHANGED <<calls, spent, cached, call, ended, ghosts>>

\* The cached answer is too old or makes room for another.
Forgotten == cached' = FALSE /\ UNCHANGED <<counters, call, ended, ghosts>>

Explains(c) ==
    \/ Ask(c) \/ AskRefused(c) \/ Answered(c) \/ ProviderFails(c)
    \/ InvalidOutput(c) \/ ChainEnds(c)

Next ==
    \/ \E c \in Callers : Begin(c) \/ Explains(c) \/ ContextEnds(c)
    \/ HourPasses \/ DayPasses \/ Forgotten

\* Every client has a timeout, so a call under way goes on.
Spec == Init /\ [][Next]_vars /\ \A c \in Callers : WF_vars(Explains(c))

-----------------------------------------------------------------------------
Explanations ==
    [at : {"idle", "asking", "waiting"}, next : 1..Len(Chain) + 1, estimate : Nat,
     ofToday : BOOLEAN]

TypeOK ==
    /\ calls \in Nat /\ spent \in Nat
    /\ hourOver \in BOOLEAN /\ dayOver \in BOOLEAN /\ cached \in BOOLEAN
    /\ call \in [Callers -> Explanations]
    /\ ended \subseteq Callers
    /\ reached \in Nat /\ settled \in Nat /\ overrun \in Nat /\ strayed \in BOOLEAN

\* Money reserved for the calls of today that are under way.
UnderWay == {c \in Callers : call[c].at = "waiting" /\ call[c].ofToday}
Reserved == MapThenSumSet(LAMBDA c : call[c].estimate, UnderWay)

\* Whatever path a call takes, its reservation is replaced exactly once: the
\* day's counter is what its answers cost and what is still reserved.  The
\* exception is a call that was reserved on one day and settled on the next.
LedgerBalances == strayed \/ spent = settled + Reserved

\* The day's cap is exceeded only by answers that cost more than estimated.
DailyCapHolds == PerDay > 0 /\ ~strayed => spent <= PerDay + overrun

\* No more calls than the cap reach providers within an hour's window, the
\* failed ones included.
HourlyCapHolds == PerHour > 0 => reached <= PerHour

\* Neither cap is exceeded (the two conditions above).
CapsHold == DailyCapHolds /\ HourlyCapHolds

\* Every call of Explain ends: no chain of failing providers, refused
\* reservations and invalid answers goes on for ever.
EveryExplainEnds == \A c \in Callers : call[c].at # "idle" ~> call[c].at = "idle"
==============================================================================

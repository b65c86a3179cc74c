-------------------------- MODULE LLMService_proofs ---------------------------
(***************************************************************************)
(* The caps of the model's budget, for any number of callers, any chain of *)
(* providers, any estimates and costs, and any caps.                       *)
(***************************************************************************)
EXTENDS LLMService, FiniteSetTheorems, TLAPS

\* In an hour that is not over, what reached providers is what was counted.
CallsAreCounted == reached = calls /\ (PerHour > 0 => calls <= PerHour)

\* A call under way is one to a provider of the chain.
Placed == \A c \in Callers : call[c].at = "waiting" => call[c].next <= Len(Chain)

BudgetInv == TypeOK /\ Placed /\ CallsAreCounted /\ DailyCapHolds

-----------------------------------------------------------------------------
LEMMA ProvidersOfChain ==
    /\ Len(Chain) \in Nat
    /\ \A i \in 1..Len(Chain) : Chain[i] \in Providers
  <1>1. Len(Chain) \in Nat /\ DOMAIN Chain = 1..Len(Chain)
    BY ChainAssumption
  <1> QED BY <1>1 DEF Providers

\* Whatever is settled against it, the day's counter stays a count.
LEMMA SettledIsNat ==
    ASSUME TypeOK, NEW c \in Callers, NEW cost \in Nat
    PROVE  /\ SpentAfter(c, cost) \in Nat
           /\ SpentAfter(c, cost) <= spent + AtLeastZero(cost - call[c].estimate)
           /\ AtLeastZero(cost - call[c].estimate) \in Nat
  <1>1. spent \in Nat /\ call[c].estimate \in Nat
    BY DEF TypeOK, Explanations
  <1> QED BY <1>1 DEF SpentAfter, AtLeastZero

\* What is estimated and charged for the provider that is next is an amount.
LEMMA PricesAreNat ==
    ASSUME TypeOK, NEW c \in Callers, call[c].next <= Len(Chain)
    PROVE  /\ Estimates[Chain[call[c].next]] \subseteq Nat
           /\ Costs[Chain[call[c].next]] \subseteq Nat
  <1>1. call[c].next \in 1..Len(Chain)
    BY ProvidersOfChain DEF TypeOK, Explanations
  <1> QED BY <1>1, ProvidersOfChain, PriceAssumption

LEMMA CapIsWidened ==
    ASSUME NEW amount \in Nat, NEW cap \in Nat, NEW excess \in Nat, amount <= cap
    PROVE  amount <= cap + excess
  OBVIOUS

LEMMA RestingIsExplanation == Resting \in Explanations
  BY ProvidersOfChain DEF Resting, Explanations

LEMMA BudgetInit == Init => BudgetInv
  <1> SUFFICES ASSUME Init PROVE BudgetInv
    OBVIOUS
  <1> USE DEF Init
  <1>1. call \in [Callers -> Explanations]
    BY RestingIsExplanation
  <1>2. TypeOK
    BY <1>1 DEF TypeOK
  <1>3. Placed
    BY DEF Placed, Resting
  <1>4. CallsAreCounted /\ DailyCapHolds
    BY CapAssumption DEF CallsAreCounted, DailyCapHolds
  <1> QED BY <1>2, <1>3, <1>4 DEF BudgetInv

\* Dating the calls under way changes nothing but their day.
LEMMA DatedStays ==
    ASSUME TypeOK
    PROVE  /\ Dated(call) \in [Callers -> Explanations]
           /\ \A c \in Callers : /\ Dated(call)[c].at = call[c].at
                                 /\ Dated(call)[c].next = call[c].next
  <1> SUFFICES ASSUME NEW c \in Callers
               PROVE  /\ Dated(call)[c] \in Explanations
                      /\ Dated(call)[c].at = call[c].at
                      /\ Dated(call)[c].next = call[c].next
    BY DEF Dated
  <1> DEFINE today == call[c].ofToday /\ ~dayOver
  <1>1. Dated(call)[c] = [call[c] EXCEPT !.ofToday = today]
    BY DEF Dated
  <1>2. call[c] \in Explanations /\ today \in BOOLEAN
    BY DEF TypeOK
  <1> HIDE DEF today
  <1> QED BY <1>1, <1>2 DEF Explanations

\* Between a reservation and its end: what the caps say of the counters.
LEMMA AskStep ==
    ASSUME BudgetInv, NEW c \in Callers, Ask(c) PROVE BudgetInv'
  <1> USE DEF BudgetInv
  <1>1. call[c].next <= Len(Chain) /\ Rollover /\ UNCHANGED <<cached, ended>>
    BY DEF Ask
  <1>2. PICK estimate \in Estimates[Chain[call[c].next]] :
          /\ WithinCaps(estimate)
          /\ calls' = CallsNow + 1
          /\ spent' = SpentNow + estimate
          /\ call' = [Dated(call) EXCEPT ![c].at = "waiting", ![c].estimate = estimate,
                                         ![c].ofToday = TRUE]
    BY DEF Ask
  <1>3. estimate \in Nat
    BY <1>1, PricesAreNat
  <1>4. call' \in [Callers -> Explanations]
    <2> DEFINE dated == Dated(call)
    <2>1. dated \in [Callers -> Explanations]
      BY DatedStays
    <2>2. call' = [dated EXCEPT ![c].at = "waiting", ![c].estimate = estimate,
                                ![c].ofToday = TRUE]
      BY <1>2
    <2> HIDE DEF dated
    <2> DEFINE asked == [dated[c] EXCEPT !.at = "waiting", !.estimate = estimate, !.ofToday = TRUE]
    <2>3. asked \in Explanations
      BY <2>1, <1>3 DEF Explanations
    <2>4. call' = [dated EXCEPT ![c] = asked]
      BY <2>1, <2>2
    <2> HIDE DEF asked
    <2> QED BY <2>1, <2>3, <2>4
  <1>5. TypeOK'
    <2>1. calls' \in Nat /\ spent' \in Nat
      BY <1>2, <1>3 DEF TypeOK, CallsNow, SpentNow
    <2>2. reached' \in Nat
      BY DEF TypeOK, Ask
    <2> QED BY <1>1, <1>4, <2>1, <2>2 DEF TypeOK, Rollover
  <1>6. Placed'
    BY <1>1, <1>2, DatedStays DEF Placed, Explanations
  <1>7. CallsAreCounted'
    BY <1>2, CapAssumption DEF CallsAreCounted, TypeOK, Ask, CallsNow, WithinCaps
  <1>8. DailyCapHolds'
    <2> SUFFICES ASSUME PerDay > 0 PROVE spent' <= PerDay + overrun'
      BY DEF DailyCapHolds
    <2>1. spent' <= PerDay
      BY <1>2 DEF WithinCaps
    <2>2. spent' \in Nat /\ overrun' \in Nat
      BY <1>5 DEF TypeOK
    <2>3. PerDay \in Nat
      BY CapAssumption
    <2> QED BY <2>1, <2>2, <2>3, CapIsWidened
  <1> QED BY <1>5, <1>6, <1>7, <1>8

LEMMA RefusedStep ==
    ASSUME BudgetInv, NEW c \in Callers, AskRefused(c) PROVE BudgetInv'
  <1> USE DEF BudgetInv
  <1>1. /\ Rollover /\ UNCHANGED cached
        /\ calls' = CallsNow /\ spent' = SpentNow
        /\ reached' = IF hourOver THEN 0 ELSE reached
        /\ call' = [Dated(call) EXCEPT ![c] = Resting] /\ ended' = ended \ {c}
    BY DEF AskRefused, Returns
  <1>2. TypeOK'
    BY <1>1, DatedStays, RestingIsExplanation DEF TypeOK, Rollover, CallsNow, SpentNow
  <1>3. Placed'
    BY <1>1, DatedStays DEF Placed, Resting
  <1>4. CallsAreCounted'
    BY <1>1, CapAssumption DEF CallsAreCounted, TypeOK, CallsNow
  <1>5. DailyCapHolds'
    BY <1>1, CapAssumption DEF DailyCapHolds, TypeOK, SpentNow, Rollover
  <1> QED BY <1>2, <1>3, <1>4, <1>5

LEMMA AnsweredStep ==
    ASSUME BudgetInv, NEW c \in Callers, Answered(c) PROVE BudgetInv'
  <1> USE DEF BudgetInv
  <1>1. PICK cost \in Costs[Chain[call[c].next]] :
          /\ spent' = SpentAfter(c, cost)
          /\ settled' = IF call[c].ofToday THEN settled + cost ELSE settled
          /\ overrun' = IF call[c].ofToday
                          THEN overrun + AtLeastZero(cost - call[c].estimate) ELSE overrun
    BY DEF Answered
  <1>2. /\ call' = [call EXCEPT ![c] = Resting] /\ ended' = ended \ {c} /\ cached' = TRUE
        /\ strayed' = (strayed \/ ~call[c].ofToday)
        /\ UNCHANGED <<calls, hourOver, dayOver, reached>>
    BY DEF Answered, Returns, Strays
  <1>3. cost \in Nat
    BY PricesAreNat DEF Answered, Placed
  <1>4. call[c].ofToday \in BOOLEAN
    BY DEF TypeOK, Explanations
  <1>5. TypeOK'
    BY <1>1, <1>2, <1>3, <1>4, SettledIsNat, RestingIsExplanation DEF TypeOK
  <1>6. Placed' /\ CallsAreCounted'
    BY <1>2 DEF Placed, CallsAreCounted, Resting, TypeOK
  <1>7. DailyCapHolds'
    <2> SUFFICES ASSUME PerDay > 0, ~strayed, call[c].ofToday
                 PROVE  spent' <= PerDay + overrun'
      BY <1>2 DEF DailyCapHolds
    <2>1. spent <= PerDay + overrun
      BY DEF DailyCapHolds
    <2>2. spent' <= spent + AtLeastZero(cost - call[c].estimate) /\ spent' \in Nat
      BY <1>1, <1>3, SettledIsNat
    <2>3. AtLeastZero(cost - call[c].estimate) \in Nat
      BY <1>3, SettledIsNat
    <2>4. overrun' = overrun + AtLeastZero(cost - call[c].estimate)
      BY <1>1
    <2> QED BY <2>1, <2>2, <2>3, <2>4, CapAssumption DEF TypeOK
  <1> QED BY <1>5, <1>6, <1>7

\* A reservation that is given back only lowers the day's counter.
LEMMA GivenBackStep ==
    ASSUME BudgetInv, NEW c \in Callers, ProviderFails(c) \/ InvalidOutput(c)
    PROVE  BudgetInv'
  <1> USE DEF BudgetInv
  <1>1. /\ call[c].at = "waiting"
        /\ spent' = SpentAfter(c, 0) /\ strayed' = (strayed \/ ~call[c].ofToday)
        /\ UNCHANGED <<calls, hourOver, dayOver, cached, reached, settled, overrun>>
    BY DEF ProviderFails, InvalidOutput, GivesBack, Strays
  <1> DEFINE onward == [Resting EXCEPT !.at = "asking", !.next = call[c].next + 1]
  <1>2. /\ ended' \subseteq ended
        /\ call' = [call EXCEPT ![c] = Resting] \/ call' = [call EXCEPT ![c] = onward]
    BY DEF ProviderFails, InvalidOutput, Returns, NextProvider
  <1>3. call[c].next \in Nat /\ call[c].next + 1 \in 1..Len(Chain) + 1
    BY <1>1, ProvidersOfChain DEF Placed, TypeOK, Explanations
  <1>4. call[c].ofToday \in BOOLEAN /\ call[c].estimate \in Nat
    BY DEF TypeOK, Explanations
  <1>5. onward \in Explanations /\ onward.at # "waiting" /\ Resting.at # "waiting"
    BY <1>3, RestingIsExplanation DEF Explanations, Resting
  <1> HIDE DEF onward
  <1>6. call' \in [Callers -> Explanations]
    BY <1>2, <1>5, RestingIsExplanation DEF TypeOK
  <1>7. spent' \in Nat /\ spent' <= spent
    <2>1. spent \in Nat
      BY DEF TypeOK
    <2> QED BY <1>1, <1>4, <2>1 DEF SpentAfter, AtLeastZero
  <1>8. TypeOK'
    BY <1>1, <1>2, <1>4, <1>6, <1>7 DEF TypeOK
  <1>9. Placed' /\ CallsAreCounted'
    <2>1. \A d \in Callers : call'[d] = call[d] \/ call'[d].at # "waiting"
      BY <1>2, <1>5 DEF TypeOK
    <2>2. Placed'
      BY <2>1 DEF Placed
    <2> QED BY <1>1, <2>2 DEF CallsAreCounted
  <1>10. DailyCapHolds'
    BY <1>1, <1>7, CapAssumption DEF DailyCapHolds, TypeOK
  <1> QED BY <1>8, <1>9, <1>10

LEMMA BudgetStep == BudgetInv /\ [Next]_vars => BudgetInv'
  <1> SUFFICES ASSUME BudgetInv, [Next]_vars PROVE BudgetInv'
    OBVIOUS
  <1> USE DEF counters, ghosts
  <1>1. ASSUME NEW c \in Callers, Begin(c) PROVE BudgetInv'
    <2>1. call' = [call EXCEPT ![c].at = "asking"] /\ UNCHANGED <<counters, cached, ended, ghosts>>
      BY <1>1 DEF Begin
    <2>2. call' \in [Callers -> Explanations]
      BY <2>1 DEF BudgetInv, TypeOK, Explanations
    <2>3. TypeOK'
      BY <2>1, <2>2 DEF BudgetInv, TypeOK
    <2>4. Placed'
      BY <2>1 DEF BudgetInv, TypeOK, Explanations, Placed
    <2> QED BY <2>1, <2>3, <2>4 DEF BudgetInv, CallsAreCounted, DailyCapHolds
  <1>2. ASSUME NEW c \in Callers, Ask(c) PROVE BudgetInv'
    BY <1>2, AskStep
  <1>3. ASSUME NEW c \in Callers, AskRefused(c) PROVE BudgetInv'
    BY <1>3, RefusedStep
  <1>4. ASSUME NEW c \in Callers, Answered(c) PROVE BudgetInv'
    BY <1>4, AnsweredStep
  <1>5. ASSUME NEW c \in Callers, ProviderFails(c) \/ InvalidOutput(c) PROVE BudgetInv'
    BY <1>5, GivenBackStep
  <1>6. ASSUME NEW c \in Callers, ChainEnds(c) PROVE BudgetInv'
    BY <1>6, RestingIsExplanation
       DEF ChainEnds, Returns, Resting, BudgetInv, TypeOK, Placed, CallsAreCounted,
           DailyCapHolds
  <1>7. ASSUME NEW c \in Callers, ContextEnds(c) PROVE BudgetInv'
    BY <1>7 DEF ContextEnds, BudgetInv, TypeOK, Placed, CallsAreCounted, DailyCapHolds
  <1>8. CASE HourPasses \/ DayPasses \/ Forgotten \/ UNCHANGED vars
    BY <1>8 DEF HourPasses, DayPasses, Forgotten, vars, BudgetInv, TypeOK, Placed,
                CallsAreCounted, DailyCapHolds
  <1> QED
    BY <1>1, <1>2, <1>3, <1>4, <1>5, <1>6, <1>7, <1>8 DEF Next, Explains

LEMMA BudgetIsInvariant == Spec => []BudgetInv
  BY BudgetInit, BudgetStep, PTL DEF Spec

-----------------------------------------------------------------------------
(* The day's ledger.  A sum over a set is a recursive function, and what    *)
(* it comes to is shown by looking at a smallest set it would fail for.     *)

\* Among finite sets there is always one that is smallest.
LEMMA SmallestSet ==
    ASSUME NEW D, IsFiniteSet(D), NEW T, T \subseteq SUBSET D, T # {}
    PROVE  \E s \in T : \A x \in s : s \ {x} \notin T
  <1>1. IsWellFoundedOn(StrictSubsetOrdering(D), SUBSET D)
    BY FS_StrictSubsetOrderingWellFounded, FS_FiniteSubsetsOfFinite
  <1>2. PICK s \in T : \A y \in T : <<y, s>> \notin StrictSubsetOrdering(D)
    BY <1>1, WFMin, Zenon
  <1>3. \A x \in s : s \ {x} \in SUBSET D => <<s \ {x}, s>> \in StrictSubsetOrdering(D)
    BY DEF StrictSubsetOrdering
  <1> QED BY <1>2, <1>3

\* F adds up the amounts of the subsets of D.
AddsUp(F, D, amount) ==
    /\ F \in [SUBSET D -> Nat]
    /\ F[{}] = 0
    /\ \A s \in SUBSET D : \A x \in s : F[s] = amount[x] + F[s \ {x}]

\* So does G, but for one element only of each subset.
SumsIn(G, D, amount) ==
    /\ G[{}] = 0
    /\ \A s \in SUBSET D : s # {} => \E x \in s : G[s] = amount[x] + G[s \ {x}]

\* There is such an F, for every finite D.
LEMMA SumsExist ==
    ASSUME NEW D, IsFiniteSet(D), NEW amount \in [D -> Nat]
    PROVE  \E F : AddsUp(F, D, amount)
  <1> DEFINE T == {d \in SUBSET D : ~\E F : AddsUp(F, d, amount)}
  <1> SUFFICES ASSUME T # {} PROVE FALSE
    OBVIOUS
  <1>1. T \subseteq SUBSET D
    OBVIOUS
  <1>2. PICK d \in T : \A x \in d : d \ {x} \notin T
    BY <1>1, SmallestSet
  <1>3. CASE d = {}
    <2>1. AddsUp([s \in SUBSET d |-> 0], d, amount)
      BY <1>3 DEF AddsUp
    <2> QED BY <2>1, <1>2
  <1>4. CASE d # {}
    <2>1. PICK x \in d : TRUE
      BY <1>4
    <2>2. PICK F : AddsUp(F, d \ {x}, amount)
      BY <1>2, <2>1
    <2>3. d \subseteq D /\ amount[x] \in Nat
      BY <2>1, <1>2
    <2> DEFINE G == [s \in SUBSET d |-> (IF x \in s THEN amount[x] ELSE 0) + F[s \ {x}]]
    <2>4. \A s \in SUBSET d : s \ {x} \in SUBSET (d \ {x}) /\ F[s \ {x}] \in Nat
      BY <2>2 DEF AddsUp
    <2>5. G \in [SUBSET d -> Nat]
      <3>1. \A s \in SUBSET d : (IF x \in s THEN amount[x] ELSE 0) + F[s \ {x}] \in Nat
        BY <2>3, <2>4
      <3> QED BY <3>1
    <2>6. G[{}] = 0
      BY <2>2 DEF AddsUp
    <2>7. ASSUME NEW s \in SUBSET d, NEW y \in s PROVE G[s] = amount[y] + G[s \ {y}]
      <3>1. CASE y = x
        <4>1. G[s] = amount[x] + F[s \ {x}]
          BY <3>1
        <4>2. (s \ {x}) \ {x} = s \ {x} /\ F[s \ {x}] \in Nat
          BY <2>4
        <4>3. G[s \ {x}] = F[s \ {x}]
          <5> DEFINE r == s \ {x}
          <5>1. r \in SUBSET d /\ x \notin r /\ r \ {x} = r /\ F[r] \in Nat
            BY <4>2
          <5> HIDE DEF r
          <5>2. G[r] = 0 + F[r \ {x}]
            BY <5>1
          <5>3. G[r] = F[r]
            BY <5>1, <5>2
          <5> QED BY <5>3 DEF r
        <4> HIDE DEF G
        <4> QED BY <4>1, <4>3, <3>1, Zenon
      <3>2. CASE y # x
        <4>1. (s \ {x}) \ {y} = (s \ {y}) \ {x}
          OBVIOUS
        <4>2. F[s \ {x}] = amount[y] + F[(s \ {y}) \ {x}]
          BY <4>1, <2>2, <2>4, <3>2 DEF AddsUp
        <4>3. amount[y] \in Nat /\ F[(s \ {y}) \ {x}] \in Nat /\ s \ {y} \in SUBSET d
          BY <2>3, <2>4
        <4>4. G[s] = (IF x \in s THEN amount[x] ELSE 0) + F[s \ {x}]
          OBVIOUS
        <4>5. G[s \ {y}] = (IF x \in s THEN amount[x] ELSE 0) + F[(s \ {y}) \ {x}]
          BY <4>3, <3>2
        <4> DEFINE held == IF x \in s THEN amount[x] ELSE 0
        <4>6. held \in Nat /\ G[s] = held + F[s \ {x}] /\ G[s \ {y}] = held + F[(s \ {y}) \ {x}]
          BY <4>4, <4>5, <2>3
        <4>7. held + (amount[y] + F[(s \ {y}) \ {x}]) = amount[y] + (held + F[(s \ {y}) \ {x}])
          <5> HIDE DEF held
          <5> QED BY <4>3, <4>6
        <4> HIDE DEF G, held
        <4> QED BY <4>2, <4>6, <4>7, Zenon
      <3> QED BY <3>1, <3>2
    <2>8. AddsUp(G, d, amount)
      <3> HIDE DEF G
      <3> QED BY <2>5, <2>6, <2>7 DEF AddsUp
    <2> QED BY <2>8, <1>2
  <1> QED BY <1>3, <1>4

\* Whatever adds up the same amounts element by element gives the same sums.
LEMMA SumsAgree ==
    ASSUME NEW E, NEW amount, NEW F, AddsUp(F, E, amount),
           NEW D, D \subseteq E, IsFiniteSet(D), NEW G, SumsIn(G, D, amount)
    PROVE  \A s \in SUBSET D : G[s] = F[s]
  <1> DEFINE T == {s \in SUBSET D : G[s] # F[s]}
  <1> SUFFICES ASSUME T # {} PROVE FALSE
    OBVIOUS
  <1>1. PICK s \in T : \A x \in s : s \ {x} \notin T
    BY SmallestSet
  <1>2. s # {}
    BY DEF AddsUp, SumsIn
  <1>3. PICK x \in s : G[s] = amount[x] + G[s \ {x}]
    BY <1>2 DEF SumsIn
  <1>4. G[s \ {x}] = F[s \ {x}]
    BY <1>1
  <1> QED BY <1>3, <1>4 DEF AddsUp

\* The calls that hold money of today, what they hold, and all of it.
Expected(calling) == {c \in Callers : calling[c].at = "waiting" /\ calling[c].ofToday}

ReservedBy(calling) == MapThenSumSet(LAMBDA c : calling[c].estimate, Expected(calling))

Amounts(calling) == [c \in Callers |-> calling[c].estimate]

\* The recursion of MapThenSumSet comes to what every such F gives.
LEMMA ReservedAddsUp ==
    ASSUME NEW calling \in [Callers -> Explanations],
           NEW F, AddsUp(F, Callers, Amounts(calling))
    PROVE  ReservedBy(calling) = F[Expected(calling)]
  <1> DEFINE S == Expected(calling)
             Pick(s) == CHOOSE x \in s : TRUE
             Sums(g) == [s \in SUBSET S |-> IF s = {} THEN 0
                           ELSE calling[Pick(s)].estimate + g[s \ {Pick(s)}]]
             G == CHOOSE g : g = Sums(g)
  <1>1. ReservedBy(calling) = G[S]
    BY DEF ReservedBy, MapThenSumSet, MapThenFoldSet, Expected
  <1> DEFINE H == [s \in SUBSET S |-> F[s]]
  <1>2. S \subseteq Callers
    BY DEF Expected
  <1>3. \A s \in SUBSET S : s # {} => Pick(s) \in s
    OBVIOUS
  <1> HIDE DEF S, Pick
  <1>4. H = Sums(H)
    <2> SUFFICES ASSUME NEW s \in SUBSET S
                 PROVE H[s] = IF s = {} THEN 0
                           ELSE calling[Pick(s)].estimate + H[s \ {Pick(s)}]
      OBVIOUS
    <2> QED BY <1>2, <1>3 DEF AddsUp, Amounts
  <1>5. G = Sums(G)
    <2> HIDE DEF H, Sums
    <2> QED BY <1>4
  <1>6. G[{}] = 0 /\ \A s \in SUBSET S : s # {} => \E x \in s : G[s] = Amounts(calling)[x] + G[s \ {x}]
    <2> HIDE DEF G
    <2>1. \A s \in SUBSET S : G[s] = IF s = {} THEN 0
                           ELSE calling[Pick(s)].estimate + G[s \ {Pick(s)}]
      BY <1>5
    <2> QED BY <2>1, <1>3, <1>2 DEF Amounts
  <1>7. IsFiniteSet(S)
    BY <1>2, CallersAssumption, FS_Subset
  <1>8. \A s \in SUBSET S : G[s] = F[s]
    <2> DEFINE amount == Amounts(calling)
    <2> HIDE DEF G, amount
    <2>1. AddsUp(F, Callers, amount)
      BY DEF amount
    <2>2. SumsIn(G, S, amount)
      BY <1>6 DEF amount, SumsIn
    <2> QED BY <1>2, <1>7, <2>1, <2>2, SumsAgree
  <1> HIDE DEF G
  <1> QED BY <1>1, <1>8 DEF S

\* What one explanation holds of the day's money.
HeldBy(calling, c) ==
    IF calling[c].at = "waiting" /\ calling[c].ofToday THEN calling[c].estimate ELSE 0

\* When one explanation moves on, what is reserved moves by what it holds.
LEMMA ReservedMoves ==
    ASSUME NEW calling \in [Callers -> Explanations], NEW onward \in [Callers -> Explanations],
           NEW c \in Callers, \A d \in Callers \ {c} : onward[d] = calling[d]
    PROVE  /\ ReservedBy(calling) \in Nat /\ HeldBy(calling, c) \in Nat
           /\ HeldBy(onward, c) \in Nat
           /\ HeldBy(calling, c) <= ReservedBy(calling)
           /\ ReservedBy(onward) = ReservedBy(calling) - HeldBy(calling, c) + HeldBy(onward, c)
  <1> DEFINE others == Expected(calling) \ {c}
  <1>1. ASSUME NEW now \in [Callers -> Explanations], NEW F, AddsUp(F, Callers, Amounts(now)),
               Expected(now) \ {c} = others
        PROVE  ReservedBy(now) = HeldBy(now, c) + F[others] /\ HeldBy(now, c) \in Nat
    <2>1. ReservedBy(now) = F[Expected(now)]
      BY <1>1, ReservedAddsUp
    <2>2. Expected(now) \subseteq Callers /\ now[c].estimate \in Nat /\ F[others] \in Nat
      BY <1>1 DEF Expected, Explanations, AddsUp
    <2>3. CASE c \in Expected(now)
      <3>1. F[Expected(now)] = Amounts(now)[c] + F[Expected(now) \ {c}]
        BY <1>1, <2>2, <2>3 DEF AddsUp
      <3>2. Amounts(now)[c] = HeldBy(now, c)
        BY <2>3 DEF Amounts, HeldBy, Expected
      <3> QED BY <3>1, <3>2, <2>1, <2>2, <1>1 DEF HeldBy
    <2>4. CASE c \notin Expected(now)
      <3>1. HeldBy(now, c) = 0 /\ Expected(now) = others
        BY <1>1, <2>4 DEF HeldBy, Expected
      <3> QED BY <3>1, <2>1, <2>2
    <2> QED BY <2>3, <2>4
  <1>2. Amounts(calling) \in [Callers -> Nat] /\ Amounts(onward) \in [Callers -> Nat]
    BY DEF Amounts, Explanations
  <1>3. PICK F : AddsUp(F, Callers, Amounts(calling))
    BY <1>2, SumsExist, CallersAssumption
  <1>4. PICK G : AddsUp(G, Callers, Amounts(onward))
    BY <1>2, SumsExist, CallersAssumption
  <1>5. Expected(onward) \ {c} = others /\ others \subseteq Callers \ {c}
    BY DEF Expected
  <1>6. F[others] = G[others]
    <2>1. IsFiniteSet(others)
      BY <1>5, CallersAssumption, FS_Subset
    <2>2. \A x \in others : Amounts(onward)[x] = Amounts(calling)[x]
      BY <1>5 DEF Amounts
    <2> HIDE DEF others
    <2>3. ASSUME NEW s \in SUBSET others, NEW x \in s
          PROVE  G[s] = Amounts(calling)[x] + G[s \ {x}]
      <3>1. s \in SUBSET Callers /\ x \in others
        BY <1>5
      <3>2. G[s] = Amounts(onward)[x] + G[s \ {x}]
        BY <1>4, <3>1 DEF AddsUp
      <3> QED BY <2>2, <3>1, <3>2
    <2>4. SumsIn(G, others, Amounts(calling))
      BY <1>4, <2>3 DEF AddsUp, SumsIn
    <2> QED BY <1>3, <1>5, <2>1, <2>4, SumsAgree
  <1>7. F[others] \in Nat
    BY <1>3, <1>5 DEF AddsUp
  <1> QED BY <1>1, <1>3, <1>4, <1>5, <1>6, <1>7

\* Dating the calls under way gives a day that is over nothing to expect.
LEMMA DatedReserves ==
    ASSUME TypeOK
    PROVE  ReservedBy(Dated(call)) = IF dayOver THEN 0 ELSE Reserved
  <1>1. Dated(call) \in [Callers -> Explanations]
    BY DatedStays
  <1>2. CASE dayOver
    <2>1. Expected(Dated(call)) = {}
      <3>1. \A c \in Callers : Dated(call)[c].ofToday = FALSE
        BY <1>2 DEF Dated, TypeOK, Explanations
      <3> QED BY <3>1 DEF Expected
    <2>2. Amounts(Dated(call)) \in [Callers -> Nat]
      BY <1>1 DEF Amounts, Explanations
    <2>3. PICK F : AddsUp(F, Callers, Amounts(Dated(call)))
      BY <2>2, CallersAssumption, SumsExist
    <2>4. ReservedBy(Dated(call)) = F[{}]
      BY <1>1, <2>1, <2>3, ReservedAddsUp
    <2> QED BY <1>2, <2>3, <2>4 DEF AddsUp
  <1>3. CASE ~dayOver
    <2>1. \A c \in Callers : Dated(call)[c] = call[c]
      BY <1>3 DEF Dated, TypeOK, Explanations
    <2>2. Dated(call) = call
      BY <1>1, <2>1 DEF TypeOK
    <2> QED BY <1>3, <2>2 DEF Reserved, UnderWay, ReservedBy, Expected
  <1> QED BY <1>2, <1>3

LEMMA ReservedHere == Reserved = ReservedBy(call) /\ Reserved' = ReservedBy(call')
  <1>1. UnderWay = Expected(call) /\ UnderWay' = Expected(call')
    BY DEF UnderWay, Expected
  <1>2. Reserved = ReservedBy(call)
    BY <1>1 DEF Reserved, ReservedBy, MapThenSumSet, MapThenFoldSet
  <1>3. Reserved' = ReservedBy(call')
    BY <1>1 DEF Reserved, ReservedBy, MapThenSumSet, MapThenFoldSet
  <1> QED BY <1>2, <1>3

\* A step of one explanation moves what is reserved by what that one holds.
LEMMA StepMovesReserved ==
    ASSUME TypeOK, TypeOK', NEW c \in Callers, \A d \in Callers \ {c} : call'[d] = call[d]
    PROVE  /\ Reserved \in Nat /\ HeldBy(call, c) \in Nat /\ HeldBy(call', c) \in Nat
           /\ HeldBy(call, c) <= Reserved
           /\ Reserved' = Reserved - HeldBy(call, c) + HeldBy(call', c)
  <1>1. call \in [Callers -> Explanations] /\ call' \in [Callers -> Explanations]
    BY DEF TypeOK
  <1>2. Reserved = ReservedBy(call)
    BY ReservedHere
  <1>3. Reserved' = ReservedBy(call')
    BY ReservedHere
  <1> QED BY <1>1, <1>2, <1>3, ReservedMoves

\* A reservation that notices a new hour or day starts the day's ledger anew.
LEMMA ReservationBalances ==
    ASSUME BudgetInv, BudgetInv', LedgerBalances, NEW c \in Callers,
           call[c].at = "asking", Rollover, NEW held \in Nat,
           spent' = SpentNow + held,
           \A d \in Callers \ {c} : call'[d] = Dated(call)[d],
           HeldBy(call', c) = held
    PROVE  LedgerBalances'
  <1>1. Dated(call) \in [Callers -> Explanations] /\ Dated(call)[c].at = "asking"
    BY DatedStays DEF BudgetInv
  <1>2. HeldBy(Dated(call), c) = 0
    BY <1>1 DEF HeldBy
  <1>3. call' \in [Callers -> Explanations] /\ TypeOK /\ settled \in Nat /\ spent \in Nat
    BY DEF BudgetInv, TypeOK
  <1>4. /\ ReservedBy(Dated(call)) \in Nat
        /\ ReservedBy(call') = ReservedBy(Dated(call)) - 0 + held
    BY <1>1, <1>2, <1>3, ReservedMoves
  <1>5. Reserved' = ReservedBy(call')
    BY ReservedHere
  <1>6. ReservedBy(Dated(call)) = IF dayOver THEN 0 ELSE Reserved
    BY <1>3, DatedReserves
  <1>7. CASE dayOver
    <2>1. Reserved' = held /\ spent' = held /\ settled' = 0
      BY <1>4, <1>5, <1>6, <1>7 DEF Rollover, SpentNow
    <2> QED BY <2>1 DEF LedgerBalances
  <1>8. CASE ~dayOver
    <2>1. /\ Reserved \in Nat /\ Reserved' = Reserved + held
          /\ spent' = spent + held /\ settled' = settled
      BY <1>4, <1>5, <1>6, <1>8 DEF Rollover, SpentNow
    <2>2. strayed' = strayed
      BY <1>3, <1>8 DEF Rollover, TypeOK
    <2> QED BY <1>3, <2>1, <2>2 DEF LedgerBalances
  <1> QED BY <1>7, <1>8

\* An answer or a failure replaces a reservation by what the call cost.
LEMMA SettlementBalances ==
    ASSUME BudgetInv, BudgetInv', LedgerBalances, NEW c \in Callers,
           call[c].at = "waiting", Strays(c), NEW cost \in Nat,
           spent' = SpentAfter(c, cost),
           call[c].ofToday => settled' = settled + cost,
           \A d \in Callers \ {c} : call'[d] = call[d],
           call'[c].at # "waiting"
    PROVE  LedgerBalances'
  <1>1. TypeOK /\ TypeOK'
    BY DEF BudgetInv
  <1>2. CASE strayed \/ ~call[c].ofToday
    BY <1>2 DEF LedgerBalances, Strays
  <1>3. CASE ~strayed /\ call[c].ofToday
    <2>1. HeldBy(call, c) = call[c].estimate /\ HeldBy(call', c) = 0
      BY <1>3 DEF HeldBy
    <2>2. /\ Reserved \in Nat /\ call[c].estimate \in Nat
          /\ call[c].estimate <= Reserved
          /\ Reserved' = Reserved - call[c].estimate + 0
      BY <1>1, <2>1, StepMovesReserved
    <2>3. spent = settled + Reserved /\ settled \in Nat
      BY <1>1, <1>3 DEF LedgerBalances, TypeOK
    <2>4. spent + cost - call[c].estimate \in Nat
      BY <2>2, <2>3
    <2>5. spent' = spent + cost - call[c].estimate
      BY <2>4 DEF SpentAfter, AtLeastZero
    <2>6. settled' = settled + cost
      BY <1>3
    <2> QED BY <2>2, <2>3, <2>5, <2>6 DEF LedgerBalances
  <1> QED BY <1>2, <1>3

\* What is counted and what is reserved stay as they are.
LEMMA NothingReserved ==
    ASSUME BudgetInv, BudgetInv', LedgerBalances, NEW c \in Callers,
           call[c].at # "waiting", call'[c].at # "waiting",
           \A d \in Callers \ {c} : call'[d] = call[d],
           UNCHANGED <<spent, settled, strayed>>
    PROVE  LedgerBalances'
  <1>1. HeldBy(call, c) = 0 /\ HeldBy(call', c) = 0
    BY DEF HeldBy
  <1>2. Reserved \in Nat /\ Reserved' = Reserved - 0 + 0
    BY <1>1, StepMovesReserved DEF BudgetInv
  <1> QED BY <1>2 DEF LedgerBalances

LEMMA LedgerInit == Init => LedgerBalances
  <1> SUFFICES ASSUME Init PROVE LedgerBalances
    OBVIOUS
  <1>1. call \in [Callers -> Explanations]
    BY RestingIsExplanation DEF Init
  <1>2. Expected(call) = {}
    BY DEF Init, Expected, Resting
  <1>3. Amounts(call) \in [Callers -> Nat]
    BY <1>1 DEF Amounts, Explanations
  <1>4. PICK F : AddsUp(F, Callers, Amounts(call))
    BY <1>3, CallersAssumption, SumsExist
  <1>5. ReservedBy(call) = 0
    BY <1>1, <1>2, <1>4, ReservedAddsUp DEF AddsUp
  <1>6. Reserved = 0
    BY <1>5 DEF Reserved, UnderWay, ReservedBy, Expected
  <1> QED BY <1>6 DEF LedgerBalances, Init

LEMMA LedgerStep == BudgetInv /\ BudgetInv' /\ LedgerBalances /\ [Next]_vars => LedgerBalances'
  <1> SUFFICES ASSUME BudgetInv, BudgetInv', LedgerBalances, [Next]_vars PROVE LedgerBalances'
    OBVIOUS
  <1>0. call \in [Callers -> Explanations] /\ spent \in Nat
    BY DEF BudgetInv, TypeOK
  <1>1. ASSUME NEW c \in Callers, Begin(c) PROVE LedgerBalances'
    BY <1>0, <1>1, NothingReserved DEF Begin, counters, ghosts, Explanations
  <1>2. ASSUME NEW c \in Callers, Ask(c) PROVE LedgerBalances'
    <2>1. PICK estimate \in Estimates[Chain[call[c].next]] :
            /\ spent' = SpentNow + estimate
            /\ call' = [Dated(call) EXCEPT ![c].at = "waiting", ![c].estimate = estimate,
                                           ![c].ofToday = TRUE]
      BY <1>2 DEF Ask
    <2>2. call[c].at = "asking" /\ Rollover /\ estimate \in Nat
      BY <1>2, PricesAreNat DEF Ask, BudgetInv
    <2> DEFINE dated == Dated(call)
    <2>3. dated \in [Callers -> Explanations]
      BY DatedStays DEF BudgetInv
    <2>4. call' = [dated EXCEPT ![c].at = "waiting", ![c].estimate = estimate, ![c].ofToday = TRUE]
      BY <2>1
    <2> HIDE DEF dated
    <2>5. /\ \A d \in Callers \ {c} : call'[d] = dated[d]
          /\ HeldBy(call', c) = estimate
      BY <2>3, <2>4 DEF HeldBy, Explanations
    <2>6. \A d \in Callers \ {c} : call'[d] = Dated(call)[d]
      BY <2>5 DEF dated
    <2>7. HeldBy(call', c) = estimate
      BY <2>5
    <2>8. spent' = SpentNow + estimate
      BY <2>1
    <2> QED BY <2>2, <2>6, <2>7, <2>8, ReservationBalances
  <1>3. ASSUME NEW c \in Callers, AskRefused(c) PROVE LedgerBalances'
    <2>1. /\ call[c].at = "asking" /\ Rollover /\ spent' = SpentNow
          /\ call' = [Dated(call) EXCEPT ![c] = Resting]
      BY <1>3 DEF AskRefused, Returns
    <2>2. \A d \in Callers \ {c} : call'[d] = Dated(call)[d]
      BY <2>1, DatedStays DEF BudgetInv
    <2>3. HeldBy(call', c) = 0
      BY <2>1, DatedStays DEF BudgetInv, HeldBy, Resting
    <2>4. spent' = SpentNow + 0 /\ 0 \in Nat
      BY <1>0, <2>1 DEF SpentNow
    <2> QED BY <2>1, <2>2, <2>3, <2>4, ReservationBalances, Zenon
  <1>4. ASSUME NEW c \in Callers, Answered(c) PROVE LedgerBalances'
    <2>1. PICK cost \in Costs[Chain[call[c].next]] :
            /\ spent' = SpentAfter(c, cost)
            /\ settled' = IF call[c].ofToday THEN settled + cost ELSE settled
      BY <1>4 DEF Answered
    <2>2. cost \in Nat
      BY <1>4, PricesAreNat DEF Answered, BudgetInv, Placed
    <2>3. call[c].at = "waiting" /\ Strays(c) /\ call' = [call EXCEPT ![c] = Resting]
      BY <1>4 DEF Answered, Returns
    <2>4. (\A d \in Callers \ {c} : call'[d] = call[d]) /\ call'[c].at # "waiting"
      BY <1>0, <2>3 DEF Resting
    <2> QED BY <2>1, <2>2, <2>3, <2>4, SettlementBalances
  <1>5. ASSUME NEW c \in Callers, ProviderFails(c) \/ InvalidOutput(c) PROVE LedgerBalances'
    <2>1. /\ call[c].at = "waiting" /\ Strays(c) /\ spent' = SpentAfter(c, 0)
          /\ settled' = settled
      BY <1>5 DEF ProviderFails, InvalidOutput, GivesBack
    <2> DEFINE onward == [Resting EXCEPT !.at = "asking", !.next = call[c].next + 1]
    <2>2. call' = [call EXCEPT ![c] = Resting] \/ call' = [call EXCEPT ![c] = onward]
      BY <1>5 DEF ProviderFails, InvalidOutput, Returns, NextProvider
    <2>3. onward.at = "asking" /\ Resting.at = "idle"
      BY DEF Resting
    <2>4. (\A d \in Callers \ {c} : call'[d] = call[d]) /\ call'[c].at # "waiting"
      <3> HIDE DEF onward
      <3> QED BY <1>0, <2>2, <2>3
    <2>5. settled' = settled + 0
      BY <2>1 DEF BudgetInv, TypeOK
    <2> QED BY <2>1, <2>4, <2>5, SettlementBalances
  <1>6. ASSUME NEW c \in Callers, ChainEnds(c) PROVE LedgerBalances'
    <2>1. /\ call[c].at = "asking" /\ call' = [call EXCEPT ![c] = Resting]
          /\ UNCHANGED <<spent, settled, strayed>>
      BY <1>6 DEF ChainEnds, Returns, counters, ghosts
    <2>2. (\A d \in Callers \ {c} : call'[d] = call[d]) /\ call'[c].at # "waiting"
      BY <1>0, <2>1 DEF Resting
    <2> QED BY <2>1, <2>2, NothingReserved
  <1>7. ASSUME UNCHANGED <<spent, settled, strayed, call>> PROVE LedgerBalances'
    BY <1>7, ReservedHere DEF LedgerBalances
  <1>8. CASE HourPasses \/ DayPasses \/ Forgotten \/ UNCHANGED vars
    <2>1. UNCHANGED <<spent, settled, strayed, call>>
      BY <1>8 DEF HourPasses, DayPasses, Forgotten, vars, counters, ghosts
    <2> QED BY <1>7, <2>1
  <1>9. ASSUME NEW c \in Callers, ContextEnds(c) PROVE LedgerBalances'
    BY <1>7, <1>9 DEF ContextEnds, counters, ghosts
  <1> QED
    BY <1>1, <1>2, <1>3, <1>4, <1>5, <1>6, <1>8, <1>9 DEF Next, Explains

-----------------------------------------------------------------------------
\* The state of the budget and of every explanation keeps its type.
THEOREM TypeCorrect == Spec => []TypeOK
  <1>1. BudgetInv => TypeOK
    BY DEF BudgetInv
  <1> QED BY <1>1, BudgetIsInvariant, PTL

\* Whoever calls, fails or gives back, no more calls than the hour's cap
\* reach the providers within an hour.
THEOREM HourIsCapped == Spec => []HourlyCapHolds
  <1>1. BudgetInv => HourlyCapHolds
    BY DEF BudgetInv, CallsAreCounted, HourlyCapHolds
  <1> QED BY <1>1, BudgetIsInvariant, PTL

\* A day's counter passes its cap only by what answers cost beyond their
\* estimates, unless a call of the day before was settled against it.
THEOREM DayIsCapped == Spec => []DailyCapHolds
  <1>1. BudgetInv => DailyCapHolds
    BY DEF BudgetInv
  <1> QED BY <1>1, BudgetIsInvariant, PTL

\* Both caps hold, for every budget and every chain of providers.
THEOREM BudgetIsCapped == Spec => []CapsHold
  BY HourIsCapped, DayIsCapped, PTL DEF CapsHold

\* The day's counter is what today's answers cost and what is reserved for
\* the calls under way, unless a call of the day before was settled in it.
THEOREM TheLedgerBalances == Spec => []LedgerBalances
  BY LedgerInit, LedgerStep, BudgetIsInvariant, PTL DEF Spec
=============================================================================

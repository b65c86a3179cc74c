----------------------- MODULE AnalysisPipeline_proofs -----------------------
(***************************************************************************)
(* What an analysis may conclude, for every registry of checks, every      *)
(* table of weights and every thresholds.  Signals are never made up; the  *)
(* block list decides and a feed hit is never clean, whatever the score    *)
(* is; without a warning nothing was lost; and findings that weigh against *)
(* a message never take it back to clean, which rests on the score, the    *)
(* sum over a set that no order of adding can change.  And what the parser  *)
(* gives of a document, for every nesting of parts and every limits.       *)
(***************************************************************************)
EXTENDS AnalyzeRequest, FiniteSetTheorems, SequenceTheorems, WellFoundedInduction, TLAPS

\* Checks run only in their two stages, and a check that runs is queued.
Idle ==
    /\ asking => queue # <<>>
    /\ queue # <<>> => stage \in {"heuristics", "reputation"}

\* The model has not spoken before the semantic stage.
Unspoken == stage \in {"parse", "heuristics", "reputation", "llm"} => opinion = "none"

\* What a running check has collected is true of the message.
TrueHits == hits \subseteq mail

\* The result is the evaluation of the signals that stand.
ResultStands == Decided => result = Evaluate(signals, opinion)

EvidenceInv == Idle /\ Unspoken /\ TrueHits /\ OutageAddsNothing

-----------------------------------------------------------------------------
\* Without an opinion there is no semantic signal.
LEMMA NoOpinionNoSignal == SemanticSignals("none") = {}
  BY DEF SemanticSignals, Semantic

LEMMA EvidenceInit == Init => EvidenceInv
  BY DEF Init, EvidenceInv, Idle, Unspoken, TrueHits, OutageAddsNothing

LEMMA EvidenceStep == EvidenceInv /\ [Next]_vars => EvidenceInv'
  <1> SUFFICES ASSUME EvidenceInv, [Next]_vars PROVE EvidenceInv'
    OBVIOUS
  <1> USE DEF EvidenceInv, Idle, Unspoken, TrueHits, OutageAddsNothing, inputs, checkVars
  <1>1. CASE Parse
    BY <1>1 DEF Parse
  <1>2. CASE StartCheck
    BY <1>2 DEF StartCheck
  <1>3. CASE Lookup
    <2> DEFINE item == Min(todo)
    <2>1. asking /\ UNCHANGED <<stage, inputs, queue, asking, signals, opinion>>
      BY <1>3 DEF Lookup
    <2>2. Answered(item) \/ LookupFails(item)
      BY <1>3 DEF Lookup
    <2>3. hits' \subseteq mail
      BY <2>2 DEF Answered, LookupFails
    <2> QED BY <2>1, <2>3
  <1>4. CASE FinishCheck
    <2>1. signals' \subseteq signals \cup hits
      BY <1>4 DEF FinishCheck
    <2>2. /\ hits' = {} /\ ~asking'
          /\ queue # <<>> /\ UNCHANGED <<stage, mail, opinion>>
      BY <1>4 DEF FinishCheck
    <2> QED BY <2>1, <2>2
  <1>5. CASE BeginReputation
    BY <1>5 DEF BeginReputation
  <1>6. CASE EndReputation
    BY <1>6 DEF EndReputation
  <1>7. CASE Explain
    <2>1. signals \subseteq mail
      BY <1>7, NoOpinionNoSignal DEF Explain
    <2>2. UNCHANGED <<mail, hits, asking, queue, signals>> /\ stage' \in {"semantic", "score"}
      BY <1>7 DEF Explain
    <2>3. queue = <<>>
      BY <1>7 DEF Explain
    <2> QED BY <2>1, <2>2, <2>3
  <1>8. CASE Interpret
    BY <1>8 DEF Interpret
  <1>9. CASE Score
    BY <1>9 DEF Score
  <1>10. CASE Persist
    BY <1>10 DEF Persist
  <1>11. CASE DeadlinePasses
    BY <1>11 DEF DeadlinePasses
  <1>12. CASE UNCHANGED vars
    BY <1>12 DEF vars
  <1> QED
    BY <1>1, <1>2, <1>3, <1>4, <1>5, <1>6, <1>7, <1>8, <1>9, <1>10, <1>11, <1>12
       DEF Next, Work

\* Whatever lookups fail and whenever the deadlines pass, every signal is a
\* finding true of the message or the model's opinion.
THEOREM NothingIsMadeUp == Spec => []OutageAddsNothing
  <1>1. Spec => []EvidenceInv
    BY EvidenceInit, EvidenceStep, PTL DEF Spec
  <1>2. EvidenceInv => OutageAddsNothing
    BY DEF EvidenceInv
  <1> QED BY <1>1, <1>2, PTL

-----------------------------------------------------------------------------
\* Once there is a result, neither the signals nor the opinion change.
LEMMA ResultStep == EvidenceInv /\ ResultStands /\ [Next]_vars => ResultStands'
  <1> SUFFICES ASSUME EvidenceInv, ResultStands, [Next]_vars, Decided'
               PROVE  result' = Evaluate(signals', opinion')
    BY DEF ResultStands, Decided
  <1> USE DEF inputs, checkVars
  <1>1. CASE Score
    <2>1. result' = Evaluate(signals, opinion) /\ UNCHANGED <<signals, opinion>>
      BY <1>1 DEF Score
    <2> QED BY <2>1
  <1>2. CASE Decided /\ UNCHANGED <<result, signals, opinion>>
    BY <1>2 DEF ResultStands
  <1>3. CASE Persist
    BY <1>3, <1>2 DEF Persist, Decided
  <1>4. CASE UNCHANGED vars
    BY <1>4, <1>2 DEF vars, Decided
  <1>5. ASSUME Work \/ DeadlinePasses, ~Score, ~Persist PROVE FALSE
    <2>1. stage' \notin {"persist", "done"} \/ StartCheck \/ Lookup \/ FinishCheck
      BY <1>5 DEF Work, Parse, BeginReputation, EndReputation, Explain, Interpret,
                  DeadlinePasses
    <2>2. StartCheck \/ Lookup \/ FinishCheck
             => stage \in {"heuristics", "reputation"} /\ stage' = stage
      BY DEF EvidenceInv, Idle, StartCheck, Lookup, FinishCheck
    <2> QED BY <2>1, <2>2 DEF Decided
  <1> QED BY <1>1, <1>3, <1>4, <1>5 DEF Next

LEMMA ResultIsEvaluation == Spec => []ResultStands
  <1>1. Init => ResultStands
    BY DEF Init, ResultStands, Decided
  <1> QED
    BY <1>1, EvidenceInit, EvidenceStep, ResultStep, PTL DEF Spec

-----------------------------------------------------------------------------
\* The block list decides over thresholds, feeds and conflicts.
LEMMA BlocklistRule ==
  ASSUME NEW sigs, NEW op, Present("reputation.org_blocklist", sigs)
  PROVE  /\ Evaluate(sigs, op).verdict = "phishing"
         /\ Evaluate(sigs, op).score >= Thresholds.phishing
  <1> DEFINE facts == Facts(sigs, op)
             score == ScoreOf(Raw(sigs))
             ruled == HardRules(score, facts)
  <1>1. facts.blocklisted
    BY DEF Facts
  <1>2. ruled = [score |-> AtLeast(score, Thresholds.phishing), verdict |-> "phishing"]
    BY <1>1 DEF HardRules
  <1>3. ~Conflict(ruled, facts)
    BY <1>1 DEF Conflict
  <1>4. AtLeast(score, Thresholds.phishing) >= Thresholds.phishing
    BY ThresholdsAssumption DEF AtLeast
  <1>5. Judge(score, facts) = ruled
    BY <1>2, <1>3 DEF Judge
  <1> QED BY <1>2, <1>4, <1>5 DEF Evaluate

\* A feed hit is raised to suspicious at least, and a conflict only turns one
\* alarm into another.
LEMMA FeedRule ==
  ASSUME NEW sigs, NEW op, FeedHit(sigs)
  PROVE  Evaluate(sigs, op).verdict # "clean"
  <1> DEFINE facts == Facts(sigs, op)
             score == ScoreOf(Raw(sigs))
             ruled == HardRules(score, facts)
  <1>1. facts.feedHit
    BY DEF Facts
  <1>2. ruled.verdict # "clean"
    BY <1>1 DEF HardRules, ByThreshold
  <1>3. Judge(score, facts).verdict \in {ruled.verdict, "needs_review"}
    BY DEF Judge, HardRules
  <1> QED BY <1>2, <1>3 DEF Evaluate

\* A block-list entry that was read makes the answer phishing, whatever else
\* the checks, the allow list and the model say.
THEOREM TheBlocklistDecides == Spec => []BlocklistDecides
  <1>1. ResultStands => BlocklistDecides
    BY BlocklistRule DEF ResultStands, BlocklistDecides
  <1> QED BY <1>1, ResultIsEvaluation, PTL

\* A host or hop of a threat feed is never answered as clean.
THEOREM FeedHitsAreReported == Spec => []FeedHitIsNotClean
  <1>1. ResultStands => FeedHitIsNotClean
    BY FeedRule DEF ResultStands, FeedHitIsNotClean
  <1> QED BY <1>1, ResultIsEvaluation, PTL

\* Listings decide, for every catalog, weight and threshold assumed.
THEOREM ListingsAlwaysDecide == Spec => []ListingsDecide
  BY TheBlocklistDecides, FeedHitsAreReported, PTL DEF ListingsDecide

-----------------------------------------------------------------------------
(* Completeness: as long as no warning is given, every check whose turn has *)
(* passed has left what it found among the signals.                         *)

GivenQuietly == warnings \subseteq {Warn("store_failed", "store")}

Answerable(check) == online \/ ~NeedsClient(check)

\* The turn of a check is still to come, or will never come.
AwaitsTurn(check) ==
    \/ stage \in {"parse", "refused"}
    \/ stage = "heuristics" /\ check \in Range(ReputationChecks)
    \/ check \in Range(queue)

NothingLost ==
    GivenQuietly =>
        \A c \in Checks \ Silent : Answerable(c) => AwaitsTurn(c) \/ Reported(c, signals)

\* The running check has asked about what it has not found, or will.
HeadIsFollowed ==
    asking /\ ~failed /\ Head(queue) \notin Silent /\ Answerable(Head(queue)) =>
        \A f \in mail : f.id = Head(queue) =>
            \/ f.item \in todo \/ f \in hits
            \/ Head(queue) \in FirstHit /\ Present(Head(queue), hits)

CompleteInv ==
    /\ Idle
    /\ mail \in Mails /\ queue \in Seq(Checks)
    /\ NothingLost /\ HeadIsFollowed

-----------------------------------------------------------------------------
LEMMA FourInARow ==
    ASSUME NEW a, NEW b, NEW c, NEW d
    PROVE  <<a, b, c, d>> \in Seq(Range(<<a, b, c, d>>))
  <1> DEFINE q == <<a, b, c, d>>
  <1>1. q \in Seq({a, b, c, d})
    OBVIOUS
  <1>2. DOMAIN q = 1..4 /\ q[1] = a /\ q[2] = b /\ q[3] = c /\ q[4] = d
    OBVIOUS
  <1> HIDE DEF q
  <1>3. {a, b, c, d} \subseteq Range(q)
    BY <1>2 DEF Range
  <1>4. q \in Seq(Range(q))
    BY <1>1, <1>3
  <1> QED BY <1>4 DEF q

LEMMA ChecksAreQueued == Heuristics \in Seq(Checks) /\ ReputationChecks \in Seq(Checks)
  <1>1. Heuristics \in Seq(Range(Heuristics))
    BY PipelineAssumption DEF Range
  <1>2. ReputationChecks \in Seq(Range(ReputationChecks))
    BY FourInARow DEF ReputationChecks
  <1> QED BY <1>1, <1>2 DEF Checks

\* A finding named after a check is the one the check makes of its item; the
\* list check, which also speaks for the allow list, is no exception.
LEMMA FindingOfCheck ==
    ASSUME NEW f \in Findings, NEW c \in Checks, f.id = c
    PROVE  f = Finding(c, f.item) /\ f.item \in 1..Items[c]
  <1>1. PICK d \in Checks : \E n \in 1..Items[d] : f = Finding(d, n)
    BY DEF Findings
  <1> PICK n \in 1..Items[d] : f = Finding(d, n)
    BY <1>1
  <1>2. f.id = Emits(d, n) /\ f.item = n
    BY DEF Finding
  <1>3. "reputation.org_allowlist" \notin Checks
    <2>1. "reputation.org_allowlist" \notin Range(ReputationChecks)
      BY DEF ReputationChecks, Range
    <2> QED BY <2>1, PipelineAssumption DEF Checks
  <1>4. c = d
    BY <1>2, <1>3 DEF Emits
  <1> QED BY <1>2, <1>4

LEMMA OwnName ==
    ASSUME NEW c, c \notin Silent, NEW n PROVE Finding(c, n).id = c
  BY DEF Finding, Emits, Silent

LEMMA RangeOfTail ==
    ASSUME NEW S, NEW q \in Seq(S), q # <<>>
    PROVE  /\ Tail(q) \in Seq(S)
           /\ \A c \in Range(q) : c = Head(q) \/ c \in Range(Tail(q))
  <1>1. Len(q) \in Nat \ {0} /\ DOMAIN q = 1..Len(q)
    OBVIOUS
  <1>2. /\ Tail(q) \in Seq(S) /\ DOMAIN Tail(q) = 1..Len(q) - 1
        /\ \A i \in 1..Len(q) - 1 : Tail(q)[i] = q[i + 1]
    BY <1>1
  <1>3. ASSUME NEW i \in 1..Len(q), i # 1 PROVE q[i] \in Range(Tail(q))
    <2>1. i - 1 \in 1..Len(q) - 1 /\ Tail(q)[i - 1] = q[i]
      BY <1>1, <1>2, <1>3
    <2> QED BY <1>2, <2>1 DEF Range
  <1> QED BY <1>1, <1>2, <1>3 DEF Range

\* The warning of a check is none that a quiet analysis may have.
LEMMA CheckWarningIsHeard ==
    ASSUME NEW c PROVE CheckWarning(c) \notin {Warn("store_failed", "store")}
  BY DEF CheckWarning, Warn

LEMMA ReportedStays ==
    ASSUME NEW c, NEW S, NEW T, S \subseteq T, Reported(c, S) PROVE Reported(c, T)
  BY DEF Reported, Present

\* Whatever keeps the queue and the signals, and does not leave a stage with
\* checks to come, loses nothing.
LEMMA NothingLostStays ==
    ASSUME NothingLost, warnings \subseteq warnings', signals \subseteq signals',
           UNCHANGED <<mail, online>>,
           \A c \in Checks : AwaitsTurn(c) => AwaitsTurn(c)'
    PROVE  NothingLost'
  <1> SUFFICES ASSUME GivenQuietly', NEW c \in Checks \ Silent, Answerable(c)'
               PROVE  AwaitsTurn(c)' \/ Reported(c, signals)'
    BY DEF NothingLost
  <1>1. GivenQuietly /\ Answerable(c)
    BY DEF GivenQuietly, Answerable
  <1>2. AwaitsTurn(c) \/ Reported(c, signals)
    BY <1>1 DEF NothingLost
  <1>3. Reported(c, signals) => Reported(c, signals)'
    BY ReportedStays DEF Reported, Present
  <1> QED BY <1>2, <1>3

LEMMA CompleteInit == Init => CompleteInv
  <1> SUFFICES ASSUME Init PROVE CompleteInv
    OBVIOUS
  <1>1. Idle /\ mail \in Mails /\ queue \in Seq(Checks)
    BY DEF Init, Idle
  <1>2. NothingLost
    BY DEF Init, NothingLost, AwaitsTurn
  <1>3. HeadIsFollowed
    BY DEF Init, HeadIsFollowed
  <1> QED BY <1>1, <1>2, <1>3 DEF CompleteInv

\* An item that is asked about is found, or not true of the message, or the
\* lookup failed and with it the check.
LEMMA LookupFollows ==
    ASSUME CompleteInv, Lookup PROVE HeadIsFollowed'
  <1> DEFINE item == Min(todo)
             c == Head(queue)
  <1>1. asking /\ UNCHANGED <<inputs, queue, asking>> /\ (Answered(item) \/ LookupFails(item))
    BY DEF Lookup
  <1> SUFFICES ASSUME ~failed', c \notin Silent, Answerable(c), NEW f \in mail, f.id = c
               PROVE  \/ f.item \in todo' \/ f \in hits'
                      \/ c \in FirstHit /\ Present(c, hits')
    BY <1>1 DEF HeadIsFollowed, Answerable, NeedsClient, inputs
  <1>2. Answered(item) /\ ~failed
    <2>1. ~LookupFails(item)
      BY DEF LookupFails
    <2> QED BY <1>1, <2>1 DEF Answered
  <1>3. f.item \in todo \/ f \in hits \/ (c \in FirstHit /\ Present(c, hits))
    BY <1>1, <1>2 DEF CompleteInv, HeadIsFollowed
  <1>4. hits \subseteq hits'
    BY <1>2 DEF Answered
  <1>5. CASE f.item \in todo
    <2>1. c \in Checks
      BY <1>1 DEF CompleteInv, Idle
    <2>2. f = Finding(c, f.item)
      BY <2>1, FindingOfCheck, PipelineAssumption DEF CompleteInv
    <2>3. CASE f.item = item
      BY <1>2, <2>2, <2>3 DEF Answered
    <2>4. CASE f.item # item
      <3>1. CASE todo' = todo \ {item}
        BY <1>5, <2>4, <3>1
      <3>2. CASE Finding(c, item) \in mail /\ c \in FirstHit
        BY <1>2, <3>2, OwnName DEF Answered, Present
      <3> QED BY <1>2, <3>1, <3>2 DEF Answered
    <2> QED BY <2>3, <2>4
  <1> QED BY <1>3, <1>4, <1>5 DEF Present

\* A check that ends without an error leaves all it found.
LEMMA FinishLosesNothing ==
    ASSUME CompleteInv, FinishCheck PROVE NothingLost'
  <1> SUFFICES ASSUME GivenQuietly', NEW c \in Checks \ Silent, Answerable(c)'
               PROVE  AwaitsTurn(c)' \/ Reported(c, signals)'
    BY DEF NothingLost
  <1>0. asking /\ todo = {} /\ queue # <<>> /\ queue' = Tail(queue)
        /\ UNCHANGED <<stage, mail, online>>
    BY DEF FinishCheck, inputs, CompleteInv, Idle
  <1>1. ~failed
    <2>1. failed => CheckWarning(Head(queue)) \in warnings'
      BY DEF FinishCheck
    <2> QED BY <2>1, CheckWarningIsHeard DEF GivenQuietly
  <1>2. signals' = signals \cup hits /\ UNCHANGED warnings
    BY <1>1 DEF FinishCheck
  <1>3. GivenQuietly /\ Answerable(c)
    BY <1>0, <1>2 DEF GivenQuietly, Answerable
  <1>4. AwaitsTurn(c) \/ Reported(c, signals)
    BY <1>3 DEF CompleteInv, NothingLost
  <1>5. CASE Reported(c, signals)
    BY <1>0, <1>2, <1>5, ReportedStays DEF Reported
  <1>6. CASE c = Head(queue)
    <2>1. \A f \in mail : f.id = c => f \in hits \/ (c \in FirstHit /\ Present(c, hits))
      BY <1>0, <1>1, <1>3, <1>6 DEF CompleteInv, HeadIsFollowed
    <2> QED BY <1>0, <1>2, <2>1 DEF Reported, Present
  <1>7. CASE AwaitsTurn(c) /\ c # Head(queue)
    BY <1>0, <1>7, RangeOfTail DEF AwaitsTurn, CompleteInv
  <1> QED BY <1>4, <1>5, <1>6, <1>7

LEMMA CompleteStep == CompleteInv /\ [Next]_vars => CompleteInv'
  <1> SUFFICES ASSUME CompleteInv, [Next]_vars PROVE CompleteInv'
    OBVIOUS
  <1> USE DEF inputs, checkVars
  <1>0. /\ Idle /\ mail \in Mails /\ queue \in Seq(Checks) /\ NothingLost /\ HeadIsFollowed
    BY DEF CompleteInv
  <1>1. ASSUME ~asking', Idle', queue' \in Seq(Checks), mail' = mail, NothingLost'
        PROVE  CompleteInv'
    BY <1>0, <1>1 DEF CompleteInv, HeadIsFollowed
  <1>2. CASE Parse
    <2>1. queue = <<>> /\ ~asking
      BY <1>0, <1>2 DEF Parse, Idle
    <2>2. queue' \in Seq(Checks) /\ Idle' /\ mail' = mail /\ ~asking'
      BY <1>0, <1>2, <2>1, ChecksAreQueued DEF Parse, Idle
    <2>3. \A c \in Checks : AwaitsTurn(c)'
      BY <1>2 DEF Parse, AwaitsTurn, Checks
    <2>4. NothingLost'
      BY <2>3 DEF NothingLost
    <2> QED BY <1>1, <2>2, <2>4
  <1>3. CASE StartCheck
    <2>1. CASE ContextEnded
      <3>1. /\ queue' = <<>> /\ CheckWarning(Head(queue)) \in warnings'
            /\ ~asking' /\ mail' = mail
        BY <1>3, <2>1 DEF StartCheck
      <3>2. NothingLost'
        BY <3>1, CheckWarningIsHeard DEF NothingLost, GivenQuietly
      <3> QED BY <1>1, <3>1, <3>2 DEF Idle
    <2>2. CASE ~ContextEnded
      <3>1. /\ asking' /\ todo' = ItemsOf(Head(queue)) /\ queue # <<>>
            /\ UNCHANGED <<stage, mail, online, queue, warnings, hits, signals>>
        BY <1>3, <2>2 DEF StartCheck
      <3>2. NothingLost'
        BY <1>0, <3>1, NothingLostStays DEF AwaitsTurn
      <3>3. HeadIsFollowed'
        <4> SUFFICES ASSUME Answerable(Head(queue)), NEW f \in mail, f.id = Head(queue)
                     PROVE  f.item \in todo'
          BY <3>1 DEF HeadIsFollowed, Answerable
        <4>1. Head(queue) \in Checks
          BY <1>0, <3>1
        <4>2. f.item \in 1..Items[Head(queue)]
          BY <1>0, <4>1, FindingOfCheck, PipelineAssumption
        <4> QED BY <3>1, <4>2 DEF ItemsOf, Answerable
      <3> QED BY <1>0, <3>1, <3>2, <3>3 DEF CompleteInv, Idle
    <2> QED BY <2>1, <2>2
  <1>4. CASE Lookup
    <2>1. UNCHANGED <<stage, mail, online, queue, asking, signals, warnings>>
      BY <1>4 DEF Lookup
    <2>2. NothingLost'
      BY <1>0, <2>1, NothingLostStays DEF AwaitsTurn
    <2> QED BY <1>0, <1>4, <2>1, <2>2, LookupFollows DEF CompleteInv, Idle
  <1>5. CASE FinishCheck
    <2>1. queue # <<>> /\ queue' = Tail(queue) /\ ~asking' /\ UNCHANGED <<stage, mail>>
      BY <1>0, <1>5 DEF FinishCheck, Idle
    <2>2. queue' \in Seq(Checks) /\ Idle'
      BY <1>0, <2>1, RangeOfTail DEF Idle
    <2> QED BY <1>1, <1>5, <2>1, <2>2, FinishLosesNothing
  <1>6. CASE BeginReputation
    <2>1. /\ stage = "heuristics" /\ queue = <<>> /\ stage' = "reputation"
          /\ queue' = ReputationChecks
          /\ UNCHANGED <<mail, online, asking, signals, warnings>>
      BY <1>6 DEF BeginReputation
    <2>2. ~asking' /\ Idle'
      BY <1>0, <2>1 DEF Idle
    <2>3. NothingLost'
      BY <1>0, <2>1, NothingLostStays DEF AwaitsTurn, Range
    <2> QED BY <1>1, <2>1, <2>2, <2>3, ChecksAreQueued
  <1>7. ASSUME queue = <<>>, ~(stage \in {"parse", "heuristics", "refused"}),
               UNCHANGED <<mail, online, queue, asking>>,
               warnings \subseteq warnings', signals \subseteq signals'
        PROVE  CompleteInv'
    <2>1. NothingLost'
      BY <1>0, <1>7, NothingLostStays DEF AwaitsTurn, Range
    <2> QED BY <1>0, <1>1, <1>7, <2>1 DEF Idle
  <1>8. ASSUME EndReputation \/ Explain \/ Interpret \/ Score \/ Persist PROVE CompleteInv'
    <2>1. queue = <<>> /\ ~(stage \in {"parse", "heuristics", "refused"})
      BY <1>0, <1>8 DEF EndReputation, Explain, Interpret, Score, Persist, Idle
    <2>2. UNCHANGED <<mail, online, queue, asking>>
      BY <1>8 DEF EndReputation, Explain, Interpret, Score, Persist
    <2>3. warnings \subseteq warnings' /\ signals \subseteq signals'
      BY <1>8 DEF EndReputation, Explain, Interpret, Score, Persist
    <2> QED BY <1>7, <2>1, <2>2, <2>3
  <1>9. CASE DeadlinePasses \/ UNCHANGED vars
    <2>1. UNCHANGED <<stage, mail, online, checkVars, signals, warnings>>
      BY <1>9 DEF DeadlinePasses, vars
    <2>2. NothingLost'
      BY <1>0, <2>1, NothingLostStays DEF AwaitsTurn
    <2>3. HeadIsFollowed'
      BY <1>0, <2>1 DEF HeadIsFollowed, Answerable, Present
    <2> QED BY <1>0, <2>1, <2>2, <2>3 DEF CompleteInv, Idle
  <1> QED
    BY <1>2, <1>3, <1>4, <1>5, <1>6, <1>8, <1>9 DEF Next, Work

LEMMA QuietIsComplete == CompleteInv => QuietMeansComplete
  <1> SUFFICES ASSUME CompleteInv, Decided, GivenQuietly,
                      NEW c \in Checks \ Silent, Answerable(c)
               PROVE  Reported(c, signals)
    BY DEF QuietMeansComplete, GivenQuietly, Answerable
  <1>1. ~AwaitsTurn(c)
    BY DEF CompleteInv, Idle, Decided, AwaitsTurn, Range
  <1> QED BY <1>1 DEF CompleteInv, NothingLost

\* No finding of a check that can report a failure is missing from a quiet
\* analysis, for every registry, message, failure and deadline.
THEOREM QuietAnalysesAreComplete == Spec => []QuietMeansComplete
  BY QuietIsComplete, CompleteInit, CompleteStep, PTL DEF Spec

-----------------------------------------------------------------------------
(* More evidence never acquits.  The sum of a set of contributions is a     *)
(* recursive function that takes the signals in an order of its own; that   *)
(* every order gives one sum is shown on a smallest set that would have two. *)

\* Signals of known ids, finitely many.
Weighable(sigs) == IsFiniteSet(sigs) /\ \A sig \in sigs : sig.id \in DOMAIN Catalog

\* Among the subsets of a finite set there is always a smallest one.
LEMMA SmallestSubset ==
    ASSUME NEW D, IsFiniteSet(D), NEW T, T \subseteq SUBSET D, T # {}
    PROVE  \E s \in T : \A x \in s : s \ {x} \notin T
  <1>1. IsWellFoundedOn(StrictSubsetOrdering(D), SUBSET D)
    BY FS_StrictSubsetOrderingWellFounded, FS_FiniteSubsetsOfFinite
  <1>2. PICK s \in T : \A y \in T : <<y, s>> \notin StrictSubsetOrdering(D)
    BY <1>1, WFMin, Zenon
  <1>3. \A x \in s : s \ {x} \in SUBSET D => <<s \ {x}, s>> \in StrictSubsetOrdering(D)
    BY DEF StrictSubsetOrdering
  <1> QED BY <1>2, <1>3

\* A weight in points times a confidence in percent has the sign of the weight.
LEMMA ContributionHasItsSign ==
    ASSUME NEW sig, sig.id \in DOMAIN Catalog
    PROVE  Contribution(sig) \in Int /\ (Weight(sig) > 0 => Contribution(sig) >= 0)
  <1>1. Weight(sig) \in Int /\ Catalog[sig.id].confidence \in 1..100
    BY CatalogAssumption, WeightsAssumption DEF Weight
  <1>2. \A w \in Int, c \in 1..100 : w * c \in Int /\ (w > 0 => w * c >= 0)
    OBVIOUS
  <1> QED BY <1>1, <1>2 DEF Contribution

\* F adds up the contributions of the subsets of D.
AddsUp(F, D) ==
    /\ F \in [SUBSET D -> Int]
    /\ F[{}] = 0
    /\ \A s \in SUBSET D : \A x \in s : F[s] = Contribution(x) + F[s \ {x}]

LEMMA SumsExist ==
    ASSUME NEW D, Weighable(D)
    PROVE  \E F : AddsUp(F, D)
  <1> DEFINE T == {d \in SUBSET D : ~\E F : AddsUp(F, d)}
  <1> SUFFICES ASSUME T # {} PROVE FALSE
    OBVIOUS
  <1>1. PICK d \in T : \A x \in d : d \ {x} \notin T
    BY SmallestSubset DEF Weighable
  <1>2. CASE d = {}
    <2>1. AddsUp([s \in SUBSET d |-> 0], d)
      BY <1>2 DEF AddsUp
    <2> QED BY <2>1, <1>1
  <1>3. CASE d # {}
    <2>1. PICK x \in d : TRUE
      BY <1>3
    <2>2. PICK F : AddsUp(F, d \ {x})
      BY <1>1, <2>1
    <2>3. \A y \in d : Contribution(y) \in Int
      BY <1>1, ContributionHasItsSign DEF Weighable
    <2>4. PICK amount : amount = [y \in d |-> Contribution(y)]
      OBVIOUS
    <2>5. amount \in [d -> Int] /\ \A y \in d : amount[y] = Contribution(y)
      BY <2>3, <2>4
    <2> DEFINE held(s) == IF x \in s THEN amount[x] ELSE 0
               G == [s \in SUBSET d |-> held(s) + F[s \ {x}]]
    <2>6. \A s \in SUBSET d : /\ s \ {x} \in SUBSET (d \ {x})
                              /\ F[s \ {x}] \in Int /\ held(s) \in Int
      BY <2>1, <2>2, <2>5 DEF AddsUp
    <2>7. G \in [SUBSET d -> Int] /\ \A s \in SUBSET d : G[s] = held(s) + F[s \ {x}]
      <3>1. ASSUME NEW s \in SUBSET d PROVE held(s) + F[s \ {x}] \in Int
        <4>1. F[s \ {x}] \in Int /\ held(s) \in Int
          BY <2>6, Zenon
        <4>2. \A a, b \in Int : a + b \in Int
          OBVIOUS
        <4> QED BY <4>1, <4>2, Zenon
      <3> QED BY <3>1
    <2>8. G[{}] = 0
      BY <2>2 DEF AddsUp
    <2>9. ASSUME NEW s \in SUBSET d, NEW y \in s PROVE G[s] = Contribution(y) + G[s \ {y}]
      <3>1. s \ {y} \in SUBSET d /\ y \in d
        OBVIOUS
      <3>2. G[s] = held(s) + F[s \ {x}] /\ G[s \ {y}] = held(s \ {y}) + F[(s \ {y}) \ {x}]
        <4> HIDE DEF G, held
        <4> QED BY <2>7, <3>1
      <3>3. CASE y = x
        <4>1. (s \ {y}) \ {x} = s \ {x} /\ held(s) = amount[y] /\ held(s \ {y}) = 0
          BY <3>3
        <4>2. F[s \ {x}] \in Int /\ amount[y] \in Int /\ amount[y] = Contribution(y)
          BY <2>5, <2>6, <3>1
        <4> HIDE DEF G, held
        <4>3. PICK a \in Int, b \in Int : a = Contribution(y) /\ b = F[s \ {x}]
          BY <4>2
        <4>4. G[s] = a + b
          BY <3>2, <4>1, <4>2, <4>3
        <4>5. G[s \ {y}] = 0 + b
          BY <3>2, <4>1, <4>3
        <4>6. G[s \ {y}] = b
          BY <4>5
        <4> QED BY <4>3, <4>4, <4>6, Zenon
      <3>4. CASE y # x
        <4>1. (s \ {x}) \ {y} = (s \ {y}) \ {x} /\ held(s \ {y}) = held(s) /\ y \in s \ {x}
          BY <3>4
        <4>2. F[s \ {x}] = Contribution(y) + F[(s \ {y}) \ {x}]
          BY <2>2, <2>6, <4>1 DEF AddsUp
        <4>3. /\ F[(s \ {y}) \ {x}] \in Int /\ held(s) \in Int
              /\ amount[y] \in Int /\ amount[y] = Contribution(y)
          BY <2>5, <2>6, <3>1
        <4> HIDE DEF G, held
        <4> QED BY <3>2, <4>1, <4>2, <4>3
      <3> QED BY <3>3, <3>4
    <2>10. AddsUp(G, d)
      <3> HIDE DEF G
      <3> QED BY <2>7, <2>8, <2>9 DEF AddsUp
    <2> QED BY <2>10, <1>1
  <1> QED BY <1>2, <1>3

\* The recursion of MapThenSumSet comes to what every such F gives.
LEMMA RawAddsUp ==
    ASSUME NEW D, Weighable(D), NEW F, AddsUp(F, D), NEW S, S \subseteq D
    PROVE  Raw(S) = F[S]
  <1> DEFINE Pick(s) == CHOOSE x \in s : TRUE
             Sums(g) == [s \in SUBSET S |-> IF s = {} THEN 0
                           ELSE Contribution(Pick(s)) + g[s \ {Pick(s)}]]
             G == CHOOSE g : g = Sums(g)
             H == [s \in SUBSET S |-> F[s]]
  <1>1. Raw(S) = G[S]
    BY DEF Raw, MapThenSumSet, MapThenFoldSet
  <1>2. \A s \in SUBSET S : s # {} => Pick(s) \in s
    OBVIOUS
  <1> HIDE DEF Pick
  <1>3. H = Sums(H)
    <2> SUFFICES ASSUME NEW s \in SUBSET S
                 PROVE  H[s] = IF s = {} THEN 0 ELSE Contribution(Pick(s)) + H[s \ {Pick(s)}]
      OBVIOUS
    <2> QED BY <1>2 DEF AddsUp
  <1>4. G = Sums(G)
    <2> HIDE DEF H, Sums
    <2> QED BY <1>3
  <1> HIDE DEF G
  <1>5. \A s \in SUBSET S : G[s] = IF s = {} THEN 0
                                   ELSE Contribution(Pick(s)) + G[s \ {Pick(s)}]
    BY <1>4
  <1> DEFINE T == {s \in SUBSET S : G[s] # F[s]}
  <1>6. ASSUME T # {} PROVE FALSE
    <2>1. PICK s \in T : \A x \in s : s \ {x} \notin T
      BY <1>6, SmallestSubset, FS_Subset DEF Weighable
    <2>2. s # {}
      BY <2>1, <1>5 DEF AddsUp
    <2>3. Pick(s) \in s /\ G[s] = Contribution(Pick(s)) + G[s \ {Pick(s)}]
      BY <2>2, <1>2, <1>5
    <2>4. G[s \ {Pick(s)}] = F[s \ {Pick(s)}]
      BY <2>1, <2>3
    <2> QED BY <2>1, <2>3, <2>4 DEF AddsUp
  <1> QED BY <1>1, <1>6

\* Findings that weigh against a message never lower its score.
LEMMA RawRises ==
    ASSUME NEW S, NEW T, Weighable(T), S \subseteq T, \A sig \in T \ S : Weight(sig) > 0
    PROVE  Raw(S) \in Int /\ Raw(T) \in Int /\ Raw(S) <= Raw(T)
  <1>1. PICK F : AddsUp(F, T)
    BY SumsExist
  <1>2. Raw(S) = F[S] /\ Raw(T) = F[T] /\ F[S] \in Int /\ F[T] \in Int
    <2>1. Raw(S) = F[S]
      BY <1>1, RawAddsUp
    <2>2. Raw(T) = F[T]
      BY <1>1, RawAddsUp
    <2> QED BY <1>1, <2>1, <2>2 DEF AddsUp
  <1> DEFINE Lower == {u \in SUBSET T : S \subseteq u /\ ~(F[S] <= F[u])}
  <1>3. ASSUME Lower # {} PROVE FALSE
    <2>1. PICK u \in Lower : \A x \in u : u \ {x} \notin Lower
      <3>1. Lower \subseteq SUBSET T /\ IsFiniteSet(T)
        BY DEF Weighable
      <3> HIDE DEF Lower
      <3> QED BY <1>3, <3>1, SmallestSubset
    <2>2. u # S
      BY <2>1, <1>2
    <2>3. PICK x \in u : x \notin S
      BY <2>1, <2>2
    <2>4. F[u] = Contribution(x) + F[u \ {x}] /\ F[u \ {x}] \in Int /\ F[u] \in Int
      BY <1>1, <2>1, <2>3 DEF AddsUp
    <2>5. F[S] <= F[u \ {x}]
      BY <2>1, <2>3
    <2>6. Contribution(x) \in Int /\ Contribution(x) >= 0
      BY <2>1, <2>3, ContributionHasItsSign DEF Weighable
    <2> QED BY <1>2, <2>1, <2>4, <2>5, <2>6
  <1> QED BY <1>2, <1>3

LEMMA ScoreRises ==
    ASSUME NEW a \in Int, NEW b \in Int, a <= b
    PROVE  ScoreOf(a) \in 0..100 /\ ScoreOf(b) \in 0..100 /\ ScoreOf(a) <= ScoreOf(b)
  <1> DEFINE x == (a + 50) \div 100
             y == (b + 50) \div 100
  <1>1. x \in Int /\ y \in Int /\ x <= y
    OBVIOUS
  <1> HIDE DEF x, y
  <1>2. Clamp(x) \in 0..100 /\ Clamp(y) \in 0..100 /\ Clamp(x) <= Clamp(y)
    BY <1>1 DEF Clamp
  <1> QED BY <1>2 DEF ScoreOf, x, y

\* A verdict is other than clean exactly for one of three reasons.
LEMMA FlaggedMeans ==
    ASSUME NEW score \in 0..100, NEW sigs, NEW op
    PROVE  Judge(score, Facts(sigs, op)).verdict # "clean" <=>
               \/ Present("reputation.org_blocklist", sigs)
               \/ FeedHit(sigs)
               \/ score >= Thresholds.suspicious
  <1> DEFINE facts == Facts(sigs, op)
             ruled == HardRules(score, facts)
  <1>1. /\ facts.blocklisted = Present("reputation.org_blocklist", sigs)
        /\ facts.feedHit = FeedHit(sigs)
    BY DEF Facts
  <1>2. ByThreshold(score) # "clean" <=> score >= Thresholds.suspicious
    <2>1. Thresholds.phishing \in Int /\ Thresholds.suspicious \in Int
      BY ThresholdsAssumption
    <2>2. score >= Thresholds.phishing => score >= Thresholds.suspicious
      <3> HIDE DEF facts, ruled
      <3> QED BY <2>1, ThresholdsAssumption
    <2>3. CASE score >= Thresholds.phishing
      BY <2>2, <2>3 DEF ByThreshold
    <2>4. CASE ~(score >= Thresholds.phishing)
      BY <2>4 DEF ByThreshold
    <2> QED BY <2>3, <2>4
  <1>3. CASE facts.blocklisted
    <2>1. ruled = [score |-> AtLeast(score, Thresholds.phishing), verdict |-> "phishing"]
      BY <1>3 DEF HardRules
    <2>2. Judge(score, facts).verdict # "clean"
      BY <2>1 DEF Judge
    <2> QED BY <1>1, <1>3, <2>2
  <1>4. CASE ~facts.blocklisted /\ facts.feedHit /\ ByThreshold(score) = "clean"
    <2>1. ruled = [score |-> AtLeast(score, Thresholds.suspicious), verdict |-> "suspicious"]
      BY <1>4 DEF HardRules
    <2>2. Judge(score, facts).verdict # "clean"
      BY <2>1 DEF Judge
    <2> QED BY <1>1, <1>4, <2>2
  <1>5. CASE ~facts.blocklisted /\ ~(facts.feedHit /\ ByThreshold(score) = "clean")
    <2>1. ruled = [score |-> score, verdict |-> ByThreshold(score)]
      BY <1>5 DEF HardRules
    <2>2. ByThreshold(score) = "clean" => ~(score >= Thresholds.phishing)
      BY DEF ByThreshold
    <2>3. ByThreshold(score) = "clean" => ~Conflict(ruled, facts)
      BY <2>1, <2>2 DEF Conflict
    <2>4. Judge(score, facts).verdict # "clean" <=> ByThreshold(score) # "clean"
      BY <2>1, <2>3 DEF Judge
    <2> QED BY <1>1, <1>2, <1>5, <2>4
  <1> QED BY <1>3, <1>4, <1>5

LEMMA EvidenceCounts ==
    ASSUME NEW S, NEW T, Weighable(T), S \subseteq T, \A sig \in T \ S : Weight(sig) > 0,
           NEW op, Evaluate(S, op).verdict # "clean"
    PROVE  Evaluate(T, op).verdict # "clean"
  <1>1. Raw(S) \in Int /\ Raw(T) \in Int /\ Raw(S) <= Raw(T)
    BY RawRises
  <1>2. PICK a, b : a = ScoreOf(Raw(S)) /\ b = ScoreOf(Raw(T))
    OBVIOUS
  <1>3. a \in 0..100 /\ b \in 0..100 /\ a <= b
    BY <1>1, <1>2, ScoreRises
  <1>4. \/ Present("reputation.org_blocklist", S)
        \/ FeedHit(S)
        \/ a >= Thresholds.suspicious
    BY <1>2, <1>3, FlaggedMeans DEF Evaluate
  <1>5. \/ Present("reputation.org_blocklist", T)
        \/ FeedHit(T)
        \/ b >= Thresholds.suspicious
    BY <1>3, <1>4, ThresholdsAssumption DEF Present, FeedHit
  <1> QED BY <1>2, <1>3, <1>5, FlaggedMeans DEF Evaluate

-----------------------------------------------------------------------------
(* What the signals of an analysis are made of has a weight.                *)

WeighableInv ==
    /\ mail \in Mails /\ opinion \in Opinions \cup {"none"}
    /\ Weighable(signals) /\ Weighable(hits)

LEMMA OneMoreIsWeighable ==
    ASSUME NEW S, NEW T, Weighable(S), Weighable(T) PROVE Weighable(S \cup T)
  BY FS_Union DEF Weighable

LEMMA WeighableInit == Init => WeighableInv
  BY FS_EmptySet DEF Init, WeighableInv, Weighable

LEMMA WeighableStep == WeighableInv /\ [Next]_vars => WeighableInv'
  <1> SUFFICES ASSUME WeighableInv, [Next]_vars PROVE WeighableInv'
    OBVIOUS
  <1> USE DEF WeighableInv, inputs, checkVars
  <1>1. CASE Lookup
    <2> DEFINE item == Min(todo)
               hit == Finding(Head(queue), item)
    <2>1. UNCHANGED <<mail, opinion, signals>>
      BY <1>1 DEF Lookup
    <2>2. hits' = hits \/ (hit \in mail /\ hits' = hits \cup {hit})
      BY <1>1 DEF Lookup, Answered, LookupFails
    <2>3. ASSUME hit \in mail PROVE Weighable({hit})
      BY <2>3, PipelineAssumption, FS_Singleton DEF Weighable
    <2>4. Weighable(hits)'
      <3> HIDE DEF hit
      <3>1. ASSUME hit \in mail PROVE Weighable(hits \cup {hit})
        BY <2>3, <3>1, OneMoreIsWeighable
      <3> QED BY <2>2, <3>1 DEF Weighable
    <2> QED BY <2>1, <2>4 DEF Weighable
  <1>2. CASE FinishCheck
    <2>1. signals' \in {signals, signals \cup hits} /\ hits' = {} /\ UNCHANGED <<mail, opinion>>
      BY <1>2 DEF FinishCheck
    <2>2. Weighable(signals \cup hits) /\ Weighable({})
      BY OneMoreIsWeighable, FS_EmptySet DEF Weighable
    <2> QED BY <2>1, <2>2 DEF Weighable
  <1>3. CASE Interpret
    <2>1. /\ signals' \in {signals \cup {}, signals \cup SemanticSignals(opinion)}
          /\ UNCHANGED <<mail, opinion, hits>>
      BY <1>3 DEF Interpret
    <2>2. Weighable(SemanticSignals(opinion))
      <3>1. IsFiniteSet(SemanticSignals(opinion))
        BY FS_EmptySet, FS_Singleton DEF SemanticSignals
      <3>2. \A sig \in SemanticSignals(opinion) : sig.id \in DOMAIN Catalog
        BY SemanticAssumption, NoOpinionNoSignal
      <3> QED BY <3>1, <3>2 DEF Weighable
    <2>3. Weighable(signals \cup SemanticSignals(opinion)) /\ signals \cup {} = signals
      BY <2>2, OneMoreIsWeighable
    <2> QED BY <2>1, <2>3 DEF Weighable
  <1>4. CASE Explain
    <2>1. UNCHANGED <<mail, hits, signals>> /\ opinion' \in Opinions \cup {opinion}
      BY <1>4 DEF Explain
    <2> QED BY <2>1 DEF Weighable
  <1>5. CASE \/ Parse \/ StartCheck \/ BeginReputation \/ EndReputation \/ Score \/ Persist
             \/ DeadlinePasses \/ UNCHANGED vars
    <2>1. UNCHANGED <<mail, opinion, hits, signals>>
      BY <1>5 DEF Parse, StartCheck, BeginReputation, EndReputation, Score, Persist,
                  DeadlinePasses, vars
    <2> QED BY <2>1 DEF Weighable
  <1> QED BY <1>1, <1>2, <1>3, <1>4, <1>5 DEF Next, Work

\* A step from weighable signals is one that never acquits.
NeverAcquits ==
    \A op \in {"none", opinion'} :
        /\ signals \subseteq signals'
        /\ \A s \in signals' \ signals : Weight(s) > 0
        /\ Evaluate(signals, op).verdict # "clean"
        => Evaluate(signals', op).verdict # "clean"

LEMMA MoreNeverAcquits == WeighableInv' => [NeverAcquits]_signals
  <1> SUFFICES ASSUME Weighable(signals'), NEW op, signals \subseteq signals',
                      \A s \in signals' \ signals : Weight(s) > 0,
                      Evaluate(signals, op).verdict # "clean"
               PROVE  Evaluate(signals', op).verdict # "clean"
    BY DEF WeighableInv, Weighable, NeverAcquits
  <1> QED BY EvidenceCounts

\* Whatever the weights, the thresholds and the model's opinion: a message
\* flagged on its signals is still flagged when a check adds findings that
\* weigh against it (engine.go, Evaluate).
THEOREM FlaggedStaysFlagged == Spec => EvidenceNeverAcquits
  BY MoreNeverAcquits, WeighableInit, WeighableStep, PTL
     DEF Spec, EvidenceNeverAcquits, NeverAcquits

-----------------------------------------------------------------------------
(* The parser.  The walk of a message takes its parts in their order: what  *)
(* it has passed and what is ahead of it are always the parts of the whole  *)
(* message.  What a recursive function says of every part is taken from its *)
(* equation, and that this has a solution is shown level by level.          *)

\* A set of numbers with zero and every successor holds all of them.
LEMMA Reaches ==
    ASSUME NEW S, 0 \in S, \A n \in Nat : n \in S => n + 1 \in S
    PROVE  Nat \subseteq S
  <1> SUFFICES ASSUME Nat \ S # {} PROVE FALSE
    OBVIOUS
  <1> DEFINE Less == {ss \in Nat \X Nat : ss[1] < ss[2]}
  <1>1. IsWellFoundedOn(Less, Nat)
    BY NatLessThanWellFounded DEF OpToRel
  <1>2. PICK n \in Nat \ S : \A m \in Nat \ S : <<m, n>> \notin Less
    <2>1. Nat \ S \subseteq Nat
      OBVIOUS
    <2> HIDE DEF Less
    <2> QED BY <1>1, <2>1, WFMin, Zenon
  <1>3. n # 0 /\ n - 1 \in Nat
    BY <1>2
  <1>4. \A m \in Nat \ S : ~(m < n)
    BY <1>2
  <1>5. n - 1 \in S
    BY <1>3, <1>4
  <1> QED BY <1>2, <1>3, <1>5

\* f gives the first few of the sequences in s as one.
Joins(f, s) == f = [i \in 0..Len(s) |-> IF i = 0 THEN <<>> ELSE f[i - 1] \o s[i]]

LEMMA JoinsExist ==
    ASSUME NEW s, Len(s) \in Nat
    PROVE  \E f : Joins(f, s)
  <1> DEFINE Right(f, n) == f = [i \in 0..n |-> IF i = 0 THEN <<>> ELSE f[i - 1] \o s[i]]
             S == {n \in Nat : \E f : Right(f, n)}
  <1>1. 0 \in S
    <2>1. Right([i \in 0..0 |-> <<>>], 0)
      OBVIOUS
    <2> QED BY <2>1
  <1>2. ASSUME NEW n \in Nat, n \in S PROVE n + 1 \in S
    <2>1. PICK f : Right(f, n)
      BY <1>2
    <2>2. \A i \in 0..n : f[i] = IF i = 0 THEN <<>> ELSE f[i - 1] \o s[i]
      BY <2>1
    <2> DEFINE v == f[n] \o s[n + 1]
               g == [i \in 0..(n + 1) |-> IF i = n + 1 THEN v ELSE f[i]]
    <2> HIDE DEF v
    <2>3. ASSUME NEW i \in 0..(n + 1)
          PROVE  g[i] = IF i = 0 THEN <<>> ELSE g[i - 1] \o s[i]
      <3>1. CASE i = n + 1
        <4>1. g[i] = v /\ g[i - 1] = f[n] /\ i # 0
          BY <3>1
        <4> QED BY <3>1, <4>1 DEF v
      <3>2. CASE i \in 0..n
        <4>1. g[i] = f[i] /\ (i # 0 => g[i - 1] = f[i - 1])
          BY <3>2
        <4> QED BY <2>2, <3>2, <4>1
      <3> QED BY <3>1, <3>2
    <2>4. Right(g, n + 1)
      BY <2>3
    <2> HIDE DEF Right, g
    <2> QED BY <2>4
  <1> HIDE DEF S
  <1>3. Len(s) \in S
    BY <1>1, <1>2, Reaches
  <1> QED BY <1>3 DEF S, Joins

LEMMA JoinsFrom ==
    ASSUME NEW s, Len(s) \in Nat, NEW f, Joins(f, s)
    PROVE  f[0] = <<>> /\ \A i \in 1..Len(s) : f[i] = f[i - 1] \o s[i]
  <1> DEFINE e(i) == IF i = 0 THEN <<>> ELSE f[i - 1] \o s[i]
  <1>1. f = [i \in 0..Len(s) |-> e(i)]
    BY DEF Joins
  <1> HIDE DEF e
  <1>2. \A i \in 0..Len(s) : f[i] = e(i)
    BY <1>1
  <1>3. 0 \in 0..Len(s) /\ \A i \in 1..Len(s) : i \in 0..Len(s) /\ i # 0
    OBVIOUS
  <1>4. f[0] = <<>>
    BY <1>2, <1>3, Zenon DEF e
  <1>5. ASSUME NEW i \in 1..Len(s) PROVE f[i] = f[i - 1] \o s[i]
    BY <1>2, <1>3, Zenon DEF e
  <1> QED BY <1>4, <1>5

LEMMA JoinsNext ==
    ASSUME NEW s, Len(s) \in Nat, NEW f, Joins(f, s), NEW n \in Nat, n + 1 <= Len(s)
    PROVE  f[n + 1] = f[n] \o s[n + 1]
  <1>1. PICK i \in 1..Len(s) : i = n + 1
    OBVIOUS
  <1>2. i - 1 = n
    BY <1>1
  <1>3. f[i] = f[i - 1] \o s[i]
    BY JoinsFrom, Zenon
  <1> QED BY <1>1, <1>2, <1>3, Zenon

LEMMA JoinsAreOne ==
    ASSUME NEW s, Len(s) \in Nat, NEW f, Joins(f, s), NEW g, Joins(g, s)
    PROVE  f = g
  <1> DEFINE S == {n \in Nat : n <= Len(s) => f[n] = g[n]}
  <1>1. 0 \in S
    BY DEF Joins
  <1>2. ASSUME NEW n \in Nat, n \in S PROVE n + 1 \in S
    <2> SUFFICES ASSUME n + 1 <= Len(s) PROVE f[n + 1] = g[n + 1]
      OBVIOUS
    <2>1. f[n + 1] = f[n] \o s[n + 1] /\ g[n + 1] = g[n] \o s[n + 1]
      BY JoinsNext
    <2>2. f[n] = g[n]
      BY <1>2
    <2> QED BY <2>1, <2>2
  <1> HIDE DEF S
  <1>3. Nat \subseteq S
    BY <1>1, <1>2, Reaches
  <1>4. \A n \in 0..Len(s) : f[n] = g[n]
    BY <1>3 DEF S
  <1> QED BY <1>4 DEF Joins

LEMMA ConcatIs ==
    ASSUME NEW s, Len(s) \in Nat, NEW f, Joins(f, s)
    PROVE  Concat(s) = f[Len(s)]
  <1> DEFINE all == CHOOSE g : g = [i \in 0..Len(s) |-> IF i = 0 THEN <<>> ELSE g[i - 1] \o s[i]]
  <1>1. Joins(all, s)
    BY JoinsExist DEF Joins
  <1>2. all = f
    <2> HIDE DEF all
    <2> QED BY <1>1, JoinsAreOne
  <1>3. Concat(s) = all[Len(s)]
    BY DEF Concat
  <1> HIDE DEF all
  <1> QED BY <1>2, <1>3

LEMMA JoinsHaveType ==
    ASSUME NEW S, NEW s \in Seq(Seq(S)), NEW f, Joins(f, s)
    PROVE  \A n \in 0..Len(s) : f[n] \in Seq(S)
  <1> DEFINE R == {n \in Nat : n <= Len(s) => f[n] \in Seq(S)}
  <1>1. 0 \in R
    BY DEF Joins
  <1>2. ASSUME NEW n \in Nat, n \in R PROVE n + 1 \in R
    <2> SUFFICES ASSUME n + 1 <= Len(s) PROVE f[n + 1] \in Seq(S)
      OBVIOUS
    <2>1. f[n + 1] = f[n] \o s[n + 1]
      <3>1. Len(s) \in Nat
        OBVIOUS
      <3> QED BY <3>1, JoinsNext, Zenon
    <2>2. f[n] \in Seq(S) /\ s[n + 1] \in Seq(S)
      BY <1>2
    <2> QED BY <2>1, <2>2, ConcatProperties
  <1> HIDE DEF R
  <1>3. Nat \subseteq R
    BY <1>1, <1>2, Reaches
  <1> QED BY <1>3 DEF R

LEMMA ConcatHasType ==
    ASSUME NEW S, NEW s \in Seq(Seq(S))
    PROVE  Concat(s) \in Seq(S)
  <1>1. PICK f : Joins(f, s)
    BY JoinsExist
  <1> QED BY <1>1, ConcatIs, JoinsHaveType

LEMMA ConcatOfNone == Concat(<<>>) = <<>>
  <1>1. PICK f : Joins(f, <<>>)
    BY JoinsExist
  <1> QED BY <1>1, ConcatIs DEF Joins

LEMMA ConcatOfOne ==
    ASSUME NEW S, NEW x \in Seq(S)
    PROVE  Concat(<<x>>) = x
  <1>1. PICK f : Joins(f, <<x>>)
    BY JoinsExist
  <1>2. Len(<<x>>) = 1 /\ <<x>>[1] = x
    OBVIOUS
  <1>3. f[0] = <<>> /\ f[0 + 1] = f[0] \o <<x>>[0 + 1]
    BY <1>1, <1>2, JoinsNext DEF Joins
  <1>4. Concat(<<x>>) = f[1]
    BY <1>1, <1>2, ConcatIs
  <1> QED BY <1>2, <1>3, <1>4, ConcatEmptySeq

\* Three sequences join in either order, as an operator that the provers can
\* take as it is.
AnyOrder(a, u, v) == (a \o u) \o v = a \o (u \o v)

LEMMA Associates ==
    ASSUME NEW S, NEW a \in Seq(S), NEW u \in Seq(S), NEW v \in Seq(S)
    PROVE  AnyOrder(a, u, v)
  BY ConcatAssociative DEF AnyOrder

\* Two runs of sequences joined are the two joined.
LEMMA ConcatOfBoth ==
    ASSUME NEW S, NEW s \in Seq(Seq(S)), NEW t \in Seq(Seq(S))
    PROVE  Concat(s \o t) = Concat(s) \o Concat(t)
  <1>1. PICK f : Joins(f, s)
    BY JoinsExist
  <1>2. PICK g : Joins(g, t)
    BY JoinsExist
  <1> DEFINE m == Len(s)
             n == Len(t)
             a == f[m]
             e(i) == IF i <= m THEN f[i] ELSE a \o g[i - m]
             h == [i \in 0..(m + n) |-> e(i)]
  <1>3. /\ m \in Nat /\ n \in Nat /\ a \in Seq(S)
        /\ \A i \in 0..n : g[i] \in Seq(S)
        /\ f[0] = <<>> /\ g[0] = <<>>
        /\ \A i \in 1..m : f[i] = f[i - 1] \o s[i]
        /\ \A i \in 1..n : g[i] = g[i - 1] \o t[i]
    <2>1. m \in Nat /\ n \in Nat
      OBVIOUS
    <2>2. (\A i \in 0..m : f[i] \in Seq(S)) /\ \A i \in 0..n : g[i] \in Seq(S)
      BY <1>1, <1>2, JoinsHaveType
    <2>3. f[0] = <<>> /\ \A i \in 1..m : f[i] = f[i - 1] \o s[i]
      BY <1>1, JoinsFrom, Zenon, <2>1
    <2>4. g[0] = <<>> /\ \A i \in 1..n : g[i] = g[i - 1] \o t[i]
      BY <1>2, JoinsFrom, Zenon, <2>1
    <2> HIDE DEF m, n
    <2>5. a \in Seq(S)
      BY <2>1, <2>2
    <2> QED BY <2>1, <2>2, <2>3, <2>4, <2>5
  <1>4. /\ s \o t \in Seq(Seq(S)) /\ Len(s \o t) = m + n
        /\ \A i \in 1..m : (s \o t)[i] = s[i]
        /\ \A i \in 1..n : (s \o t)[m + i] = t[i]
    BY ConcatProperties
  <1> HIDE DEF m, n, a, e
  <1>h. (m + n \in Nat) /\ \A i \in 0..(m + n) : h[i] = e(i)
    BY <1>3
  <1>5. ASSUME NEW i \in 1..(m + n)
        PROVE  h[i] = h[i - 1] \o (s \o t)[i]
    <2>0. i \in 0..(m + n) /\ i - 1 \in 0..(m + n)
      BY <1>3
    <2>h. h[i] = e(i) /\ h[i - 1] = e(i - 1)
      BY <1>h, <2>0
    <2> HIDE DEF h
    <2>1. CASE i <= m
      <3>1. i \in 1..m /\ i - 1 <= m
        BY <1>3, <2>1
      <3>2. h[i] = f[i] /\ h[i - 1] = f[i - 1]
        BY <2>1, <2>h, <3>1, Zenon DEF e
      <3>3. f[i] = f[i - 1] \o s[i] /\ (s \o t)[i] = s[i]
        BY <1>3, <1>4, <3>1, Zenon
      <3> QED BY <3>2, <3>3, Zenon
    <2>2. CASE i > m
      <3>1. i - m \in 1..n /\ m + (i - m) = i /\ ~(i <= m) /\ i - m - 1 \in 0..n
        BY <1>3, <2>2
      <3>2. h[i] = a \o g[i - m]
        BY <2>h, <3>1, Zenon DEF e
      <3>3. h[i - 1] = a \o g[i - m - 1]
        <4>1. CASE i - 1 = m
          <5>1. i - 1 <= m /\ i - m - 1 = 0
            BY <1>3, <4>1
          <5>2. h[i - 1] = a
            BY <2>h, <4>1, <5>1, Zenon DEF e, a
          <5>3. a \o <<>> = a
            BY <1>3, ConcatEmptySeq
          <5> QED BY <1>3, <5>1, <5>2, <5>3, Zenon
        <4>2. CASE i - 1 > m
          <5>1. i - 1 - m = i - m - 1 /\ ~(i - 1 <= m)
            BY <1>3, <4>2
          <5> QED BY <2>h, <5>1, Zenon DEF e
        <4> QED BY <1>3, <2>2, <4>1, <4>2
      <3>4. g[i - m] = g[i - m - 1] \o t[i - m]
        BY <1>3, <3>1, Zenon
      <3>5. (s \o t)[i] = t[i - m]
        BY <1>4, <3>1, Zenon
      <3>6. g[i - m - 1] \in Seq(S)
        BY <1>3, <3>1, Zenon
      <3>7. t[i - m] \in Seq(S)
        <4>1. i - m \in 1..Len(t)
          BY <3>1, Zenon DEF n
        <4> QED BY <4>1, ElementOfSeq, Zenon
      <3>8. a \o (g[i - m - 1] \o t[i - m]) = (a \o g[i - m - 1]) \o t[i - m]
        <4>1. PICK b, u, v : b = a /\ u = g[i - m - 1] /\ v = t[i - m]
          BY Zenon
        <4>2. b \in Seq(S) /\ u \in Seq(S) /\ v \in Seq(S)
          BY <1>3, <3>6, <3>7, <4>1, Zenon
        <4>3. AnyOrder(b, u, v)
          BY <4>2, Associates
        <4> QED BY <4>1, <4>3, Zenon DEF AnyOrder
      <3> QED BY <3>2, <3>3, <3>4, <3>5, <3>8, Zenon
    <2>3. i <= m \/ i > m
      BY <1>3
    <2> QED BY <2>1, <2>2, <2>3, Zenon
  <1>6. h[0] = <<>>
    <2>1. 0 \in 0..(m + n) /\ 0 <= m
      BY <1>3
    <2>2. h[0] = e(0)
      BY <1>h, <2>1
    <2> HIDE DEF h
    <2> QED BY <1>3, <2>1, <2>2, Zenon DEF e
  <1>7. Joins(h, s \o t)
    <2> DEFINE k(i) == IF i = 0 THEN <<>> ELSE h[i - 1] \o (s \o t)[i]
    <2>0. h = [i \in 0..(m + n) |-> h[i]]
      BY <1>h
    <2> HIDE DEF h
    <2>1. \A i \in 0..(m + n) : i = 0 \/ (i # 0 /\ i \in 1..(m + n))
      BY <1>3
    <2>2. \A i \in 0..(m + n) : h[i] = k(i)
      BY <1>5, <1>6, <2>1, Zenon
    <2> HIDE DEF k
    <2>3. h = [i \in 0..(m + n) |-> k(i)]
      BY <2>0, <2>2
    <2> QED BY <1>4, <2>3, Zenon DEF Joins, k
  <1>8. Concat(s \o t) = h[m + n]
    <2> HIDE DEF h
    <2>1. Len(s \o t) = m + n /\ Len(s \o t) \in Nat
      BY <1>3, <1>4
    <2>2. Concat(s \o t) = h[Len(s \o t)]
      BY <1>7, <2>1, ConcatIs, Zenon
    <2> QED BY <2>1, <2>2, Zenon
  <1>9. h[m + n] = a \o g[n]
    <2>1. CASE n = 0
      <3>1. m + n \in 0..(m + n) /\ m + n <= m
        BY <1>3, <2>1
      <3>2. h[m + n] = e(m + n) /\ m + n = m
        BY <1>3, <1>h, <2>1, <3>1
      <3> HIDE DEF h
      <3>3. h[m + n] = a
        BY <3>1, <3>2, Zenon DEF e, a
      <3>4. a \o <<>> = a
        BY <1>3, ConcatEmptySeq
      <3>5. g[n] = <<>>
        BY <1>3, <2>1, Zenon
      <3> QED BY <3>3, <3>4, <3>5, Zenon
    <2>2. CASE n > 0
      <3>1. PICK k \in 0..(m + n) : k = m + n
        BY <1>3
      <3>2. ~(k <= m) /\ k - m = n
        BY <1>3, <2>2, <3>1
      <3>3. h[k] = e(k)
        BY <1>h
      <3> HIDE DEF h
      <3>4. h[k] = a \o g[k - m]
        BY <3>2, <3>3, Zenon DEF e
      <3> QED BY <3>1, <3>2, <3>4
    <2>3. n = 0 \/ n > 0
      BY <1>3
    <2> QED BY <2>1, <2>2, <2>3, Zenon
  <1>10. Concat(s) = a /\ Concat(t) = g[n]
    BY <1>1, <1>2, <1>3, ConcatIs DEF a, m, n
  <1> HIDE DEF h
  <1> QED BY <1>8, <1>9, <1>10

-----------------------------------------------------------------------------
\* The place of a part's child, and all of them.
Child(n, i) == [part |-> n.part.children[i], depth |-> n.depth + 1]

Children(n) == [i \in DOMAIN n.part.children |-> Child(n, i)]

Stops(n) == n.depth > MaxDepth \/ (n.part.type = "message" /\ n.part.attached)

\* What Below lists of a part, if f lists what is below its children.
BelowEach(f, n) == [i \in DOMAIN n.part.children |-> f[Child(n, i)]]

Lists(f, n) == <<n>> \o IF Stops(n) THEN <<>> ELSE Concat(BelowEach(f, n))

LEMMA ChildrenArePlaces ==
    ASSUME NEW n \in Places
    PROVE  /\ n.part \in Bodies /\ n.depth \in 0..MaxDepth + 1 /\ MaxDepth \in Nat
           /\ Len(n.part.children) \in Nat
           /\ DOMAIN n.part.children = 1..Len(n.part.children)
           /\ n.depth <= MaxDepth =>
                /\ \A i \in DOMAIN n.part.children : Child(n, i) \in Places
                /\ Children(n) \in Seq(Places)
                /\ Len(Children(n)) = Len(n.part.children)
  <1>1. n.part \in Bodies /\ n.depth \in 0..MaxDepth + 1 /\ MaxDepth \in Nat
    BY LimitsAssumption DEF Places
  <1>2. PICK kids : kids = n.part.children
    OBVIOUS
  <1>3. kids \in Seq(Range(kids)) /\ Range(kids) \subseteq Bodies
    BY <1>1, <1>2, BodiesAssumption
  <1>4. Len(kids) \in Nat /\ DOMAIN kids = 1..Len(kids) /\ \A i \in DOMAIN kids : kids[i] \in Bodies
    BY <1>3, LenProperties, ElementOfSeq
  <1>5. ASSUME n.depth <= MaxDepth
        PROVE  /\ \A i \in DOMAIN n.part.children : Child(n, i) \in Places
               /\ Children(n) \in Seq(Places)
               /\ Len(Children(n)) = Len(n.part.children)
    <2>1. n.depth + 1 \in 0..MaxDepth + 1
      BY <1>1, <1>5
    <2>2. \A i \in DOMAIN n.part.children : Child(n, i) \in Places
      BY <1>2, <1>4, <2>1 DEF Child, Places
    <2>3. Children(n) \in [1..Len(kids) -> Places]
      BY <1>2, <1>4, <2>2 DEF Children
    <2> QED BY <1>2, <1>4, <2>2, <2>3
  <1> QED BY <1>1, <1>2, <1>4, <1>5

LEMMA ListsLookDown ==
    ASSUME NEW n \in Places, NEW f, NEW g,
           \A m \in Places : m.depth = n.depth + 1 => f[m] = g[m]
    PROVE  Lists(f, n) = Lists(g, n)
  <1>1. CASE Stops(n)
    BY <1>1 DEF Lists
  <1>2. CASE ~Stops(n)
    <2>1. n.depth <= MaxDepth
      BY <1>2, ChildrenArePlaces DEF Stops
    <2>2. \A i \in DOMAIN n.part.children : Child(n, i) \in Places /\ Child(n, i).depth = n.depth + 1
      BY <2>1, ChildrenArePlaces DEF Child
    <2>3. BelowEach(f, n) = BelowEach(g, n)
      BY <2>2 DEF BelowEach
    <2> QED BY <2>3, Zenon DEF Lists
  <1> QED BY <1>1, <1>2

\* The recursion ends where a part lies too deep.
LEMMA ListingsExist == \E f : f = [n \in Places |-> Lists(f, n)]
  <1> DEFINE Right(f, k) == \A n \in Places : n.depth + k > MaxDepth => f[n] = Lists(f, n)
             S == {k \in Nat : \E f : Right(f, k)}
  <1>0. MaxDepth \in Nat
    BY LimitsAssumption
  <1>1. 0 \in S
    <2> DEFINE f == [n \in Places |-> <<n>> \o <<>>]
    <2>1. ASSUME NEW n \in Places, n.depth + 0 > MaxDepth PROVE f[n] = Lists(f, n)
      <3>1. Stops(n)
        BY <2>1, ChildrenArePlaces DEF Stops
      <3>2. f[n] = <<n>> \o <<>>
        BY Zenon
      <3> QED BY <3>1, <3>2, Zenon DEF Lists
    <2>2. Right(f, 0)
      BY <2>1
    <2> HIDE DEF f, Right
    <2> QED BY <2>2
  <1>2. ASSUME NEW k \in Nat, k \in S PROVE k + 1 \in S
    <2>1. PICK f : Right(f, k)
      BY <1>2
    <2> DEFINE g == [n \in Places |-> IF n.depth + k = MaxDepth THEN Lists(f, n) ELSE f[n]]
    <2>2. \A n \in Places : g[n] = IF n.depth + k = MaxDepth THEN Lists(f, n) ELSE f[n]
      BY Zenon
    <2> HIDE DEF g
    <2>3. ASSUME NEW n \in Places, n.depth + (k + 1) > MaxDepth PROVE g[n] = Lists(g, n)
      <3>1. n.depth \in Nat
        BY ChildrenArePlaces
      <3>2. \A m \in Places : m.depth = n.depth + 1 => ~(m.depth + k = MaxDepth)
        BY <1>0, <2>3, <3>1
      <3>3. \A m \in Places : m.depth = n.depth + 1 => f[m] = g[m]
        BY <2>2, <3>2, Zenon
      <3>4. Lists(f, n) = Lists(g, n)
        BY <3>3, ListsLookDown, Zenon
      <3>5. g[n] = Lists(f, n)
        <4>1. CASE n.depth + k = MaxDepth
          BY <2>2, <4>1, Zenon
        <4>2. CASE ~(n.depth + k = MaxDepth)
          <5>1. n.depth + k > MaxDepth
            BY <1>0, <2>3, <3>1, <4>2
          <5> QED BY <2>1, <2>2, <4>2, <5>1, Zenon
        <4> QED BY <4>1, <4>2, Zenon
      <3> QED BY <3>4, <3>5, Zenon
    <2>4. Right(g, k + 1)
      BY <2>3
    <2> HIDE DEF Right
    <2> QED BY <2>4
  <1> HIDE DEF S
  <1>3. MaxDepth + 1 \in S
    <2>1. Nat \subseteq S
      BY <1>1, <1>2, Reaches
    <2> QED BY <1>0, <2>1
  <1>4. PICK f : Right(f, MaxDepth + 1)
    BY <1>3 DEF S
  <1>5. PICK h : h = [n \in Places |-> f[n]]
    OBVIOUS
  <1>6. \A n \in Places : h[n] = f[n]
    BY <1>5
  <1>7. ASSUME NEW n \in Places PROVE h[n] = Lists(h, n)
    <2>1. n.depth + (MaxDepth + 1) > MaxDepth
      BY <1>0, ChildrenArePlaces
    <2>2. f[n] = Lists(f, n)
      BY <1>4, <2>1, Zenon
    <2>3. Lists(h, n) = Lists(f, n)
      BY <1>6, ListsLookDown, Zenon
    <2> QED BY <1>6, <2>2, <2>3, Zenon
  <1>8. h = [n \in Places |-> Lists(h, n)]
    <2>1. h = [n \in Places |-> h[n]]
      BY <1>5, <1>6
    <2> QED BY <1>7, <2>1, Zenon
  <1> QED BY <1>8, Zenon

LEMMA BelowIs == \A n \in Places : Below[n] = Lists(Below, n)
  <1>1. Below = CHOOSE f : f = [n \in Places |-> Lists(f, n)]
    BY Zenon DEF Below, Lists, Stops, BelowEach, Child
  <1>2. Below = [n \in Places |-> Lists(Below, n)]
    BY <1>1, ListingsExist, Zenon
  <1> QED BY <1>2, Zenon

LEMMA BelowHasType == \A n \in Places : Below[n] \in Seq(Places)
  <1> DEFINE S == {k \in Nat : \A n \in Places : n.depth + k > MaxDepth => Below[n] \in Seq(Places)}
  <1>0. MaxDepth \in Nat
    BY LimitsAssumption
  <1>a. ASSUME NEW n \in Places,
               n.depth <= MaxDepth => \A i \in DOMAIN n.part.children : Below[Child(n, i)] \in Seq(Places)
        PROVE  Below[n] \in Seq(Places)
    <2>1. Below[n] = Lists(Below, n)
      BY BelowIs
    <2>2. <<n>> \in Seq(Places) /\ <<>> \in Seq(Places)
      OBVIOUS
    <2>3. CASE Stops(n)
      <3>1. Below[n] = <<n>> \o <<>>
        BY <2>1, <2>3, Zenon DEF Lists
      <3> QED BY <2>2, <3>1, ConcatProperties
    <2>4. CASE ~Stops(n)
      <3>1. Below[n] = <<n>> \o Concat(BelowEach(Below, n))
        BY <2>1, <2>4, Zenon DEF Lists
      <3>2. n.depth <= MaxDepth
        BY <2>4, ChildrenArePlaces DEF Stops
      <3>3. \A i \in DOMAIN n.part.children : Below[Child(n, i)] \in Seq(Places)
        BY <1>a, <3>2
      <3>4. BelowEach(Below, n) \in [1..Len(n.part.children) -> Seq(Places)]
        BY <3>3, ChildrenArePlaces DEF BelowEach
      <3>5. BelowEach(Below, n) \in Seq(Seq(Places))
        BY <3>4, ChildrenArePlaces
      <3>6. Concat(BelowEach(Below, n)) \in Seq(Places)
        BY <3>5, ConcatHasType
      <3> QED BY <2>2, <3>1, <3>6, ConcatProperties
    <2> QED BY <2>3, <2>4
  <1>1. 0 \in S
    <2>1. ASSUME NEW n \in Places, n.depth + 0 > MaxDepth PROVE Below[n] \in Seq(Places)
      <3>1. ~(n.depth <= MaxDepth)
        BY <1>0, <2>1, ChildrenArePlaces
      <3> QED BY <1>a, <3>1
    <2> QED BY <2>1
  <1>2. ASSUME NEW k \in Nat, k \in S PROVE k + 1 \in S
    <2>1. ASSUME NEW n \in Places, n.depth + (k + 1) > MaxDepth PROVE Below[n] \in Seq(Places)
      <3>1. ASSUME n.depth <= MaxDepth, NEW i \in DOMAIN n.part.children
            PROVE  Below[Child(n, i)] \in Seq(Places)
        <4>1. Child(n, i) \in Places /\ Child(n, i).depth = n.depth + 1
          BY <3>1, ChildrenArePlaces DEF Child
        <4>2. Child(n, i).depth + k > MaxDepth
          BY <1>0, <2>1, <4>1, ChildrenArePlaces
        <4> QED BY <1>2, <4>1, <4>2
      <3> QED BY <1>a, <3>1
    <2> QED BY <2>1
  <1> HIDE DEF S
  <1>3. MaxDepth + 1 \in S
    <2>1. Nat \subseteq S
      BY <1>1, <1>2, Reaches
    <2> QED BY <1>0, <2>1
  <1>4. \A n \in Places : n.depth + (MaxDepth + 1) > MaxDepth
    BY <1>0, ChildrenArePlaces
  <1> QED BY <1>3, <1>4 DEF S

-----------------------------------------------------------------------------
\* The parts below these, one after the other.
Each(s) == [i \in DOMAIN s |-> Below[s[i]]]

Ahead(s) == Concat(Each(s))

LEMMA EachHasType ==
    ASSUME NEW s \in Seq(Places)
    PROVE  Each(s) \in Seq(Seq(Places)) /\ Len(Each(s)) = Len(s)
  <1>1. Each(s) \in [1..Len(s) -> Seq(Places)]
    BY BelowHasType DEF Each
  <1> QED BY <1>1

LEMMA AheadHasType ==
    ASSUME NEW s \in Seq(Places)
    PROVE  Ahead(s) \in Seq(Places)
  BY EachHasType, ConcatHasType DEF Ahead

LEMMA AheadOfNone == Ahead(<<>>) = <<>>
  <1>1. Each(<<>>) = <<>>
    BY DEF Each
  <1> QED BY <1>1, ConcatOfNone DEF Ahead

LEMMA AheadOfOne ==
    ASSUME NEW n \in Places
    PROVE  Ahead(<<n>>) = Below[n]
  <1>1. Each(<<n>>) = <<Below[n]>>
    BY DEF Each
  <1>2. Below[n] \in Seq(Places)
    BY BelowHasType
  <1> QED BY <1>1, <1>2, ConcatOfOne DEF Ahead

LEMMA AheadOfBoth ==
    ASSUME NEW s \in Seq(Places), NEW t \in Seq(Places)
    PROVE  Ahead(s \o t) = Ahead(s) \o Ahead(t)
  <1>1. s \o t \in Seq(Places) /\ Len(s \o t) = Len(s) + Len(t)
    BY ConcatProperties
  <1>2. Each(s \o t) = Each(s) \o Each(t)
    <2>1. Each(s) \in Seq(Seq(Places)) /\ Each(t) \in Seq(Seq(Places))
          /\ Each(s \o t) \in Seq(Seq(Places))
          /\ Len(Each(s)) = Len(s) /\ Len(Each(t)) = Len(t)
          /\ Len(Each(s \o t)) = Len(s) + Len(t)
      BY <1>1, EachHasType
    <2>2. Each(s) \o Each(t) \in Seq(Seq(Places)) /\ Len(Each(s) \o Each(t)) = Len(s) + Len(t)
      BY <2>1, ConcatProperties
    <2>3. ASSUME NEW i \in 1..Len(s) + Len(t)
          PROVE  Each(s \o t)[i] = (Each(s) \o Each(t))[i]
      <3>1. Each(s \o t)[i] = Below[(s \o t)[i]]
        BY <1>1 DEF Each
      <3>2. (s \o t)[i] = IF i <= Len(s) THEN s[i] ELSE t[i - Len(s)]
        BY ConcatProperties
      <3>3. (Each(s) \o Each(t))[i] =
               IF i <= Len(s) THEN Each(s)[i] ELSE Each(t)[i - Len(s)]
        <4>1. PICK u, v : u = Each(s) /\ v = Each(t)
          OBVIOUS
        <4>2. /\ u \in Seq(Seq(Places)) /\ v \in Seq(Seq(Places))
              /\ Len(u) = Len(s) /\ Len(v) = Len(t)
          BY <2>1, <4>1
        <4>3. (u \o v)[i] = IF i <= Len(u) THEN u[i] ELSE v[i - Len(u)]
          BY <4>2, ConcatProperties
        <4> QED BY <4>1, <4>2, <4>3, Zenon
      <3>4. CASE i <= Len(s)
        <4>1. i \in DOMAIN s
          BY <3>4
        <4>2. Each(s)[i] = Below[s[i]]
          BY <4>1, Zenon DEF Each
        <4> QED BY <3>1, <3>2, <3>3, <3>4, <4>2, Zenon
      <3>5. CASE ~(i <= Len(s))
        <4>1. i - Len(s) \in DOMAIN t
          BY <3>5
        <4>2. Each(t)[i - Len(s)] = Below[t[i - Len(s)]]
          BY <4>1, Zenon DEF Each
        <4> QED BY <3>1, <3>2, <3>3, <3>5, <4>2, Zenon
      <3> QED BY <3>4, <3>5, Zenon
    <2> QED BY <2>1, <2>2, <2>3, SeqEqual
  <1>3. Each(s) \in Seq(Seq(Places)) /\ Each(t) \in Seq(Seq(Places))
    BY EachHasType
  <1> QED BY <1>2, <1>3, ConcatOfBoth DEF Ahead

\* A part comes first, and then what is below it.
LEMMA FirstThenBelow ==
    ASSUME NEW n \in Places
    PROVE  /\ ~Stops(n) => Below[n] = <<n>> \o Ahead(Children(n))
           /\ Stops(n) \/ n.part.children = <<>> => Below[n] = <<n>>
  <1>1. Below[n] = Lists(Below, n)
    BY BelowIs
  <1>2. <<n>> \o <<>> = <<n>>
    OBVIOUS
  <1>3. CASE Stops(n)
    <2>1. Below[n] = <<n>> \o <<>>
      BY <1>1, <1>3, Zenon DEF Lists
    <2> QED BY <1>2, <1>3, <2>1
  <1>4. CASE ~Stops(n)
    <2>1. Below[n] = <<n>> \o Concat(BelowEach(Below, n))
      BY <1>1, <1>4, Zenon DEF Lists
    <2>2. BelowEach(Below, n) = Each(Children(n))
      BY DEF BelowEach, Each, Children
    <2>3. n.part.children = <<>> => BelowEach(Below, n) = <<>>
      BY DEF BelowEach
    <2> QED BY <1>2, <1>4, <2>1, <2>2, <2>3, ConcatOfNone, Zenon DEF Ahead
  <1> QED BY <1>3, <1>4

-----------------------------------------------------------------------------
\* The links kept of one more.
OneMore(before, link) ==
    IF Len(before) >= MaxLinks \/ link \in Unfollowed \cup Range(before)
    THEN before ELSE Append(before, link)

Filters(f, from) ==
    f = [i \in 0..Len(from) |-> IF i = 0 THEN <<>> ELSE OneMore(f[i - 1], from[i])]

LEMMA FiltersExist ==
    ASSUME NEW from, Len(from) \in Nat
    PROVE  \E f : Filters(f, from)
  <1> DEFINE Right(f, n) == f = [i \in 0..n |-> IF i = 0 THEN <<>> ELSE OneMore(f[i - 1], from[i])]
             S == {n \in Nat : \E f : Right(f, n)}
  <1>1. 0 \in S
    <2>1. Right([i \in 0..0 |-> <<>>], 0)
      OBVIOUS
    <2> QED BY <2>1
  <1>2. ASSUME NEW n \in Nat, n \in S PROVE n + 1 \in S
    <2>1. PICK f : Right(f, n)
      BY <1>2
    <2>2. \A i \in 0..n : f[i] = IF i = 0 THEN <<>> ELSE OneMore(f[i - 1], from[i])
      BY <2>1
    <2> DEFINE v == OneMore(f[n], from[n + 1])
               g == [i \in 0..(n + 1) |-> IF i = n + 1 THEN v ELSE f[i]]
    <2> HIDE DEF v
    <2>3. ASSUME NEW i \in 0..(n + 1)
          PROVE  g[i] = IF i = 0 THEN <<>> ELSE OneMore(g[i - 1], from[i])
      <3>1. CASE i = n + 1
        <4>1. g[i] = v /\ g[i - 1] = f[n] /\ i # 0
          BY <3>1
        <4> QED BY <3>1, <4>1 DEF v
      <3>2. CASE i \in 0..n
        <4>1. g[i] = f[i] /\ (i # 0 => g[i - 1] = f[i - 1])
          BY <3>2
        <4> QED BY <2>2, <3>2, <4>1
      <3> QED BY <3>1, <3>2
    <2>4. Right(g, n + 1)
      BY <2>3
    <2> HIDE DEF Right, g
    <2> QED BY <2>4
  <1> HIDE DEF S
  <1>3. Len(from) \in S
    BY <1>1, <1>2, Reaches
  <1> QED BY <1>3 DEF S, Filters

\* These links are those of the first few, each once, as far as there is room.
AreTheLinks(l, first) ==
    /\ Range(l) \subseteq first \ Unfollowed
    /\ IsFiniteSet(Range(l)) /\ Cardinality(Range(l)) = Len(l) /\ Len(l) <= MaxLinks
    /\ Len(l) < MaxLinks => Range(l) = first \ Unfollowed

LEMMA OneMoreLink ==
    ASSUME NEW S, NEW l \in Seq(S), NEW link \in S, NEW first, AreTheLinks(l, first)
    PROVE  /\ OneMore(l, link) \in Seq(S)
           /\ AreTheLinks(OneMore(l, link), first \cup {link})
  <1>0. MaxLinks \in Nat \ {0} /\ Len(l) \in Nat
    BY LimitsAssumption
  <1>1. CASE Len(l) >= MaxLinks \/ link \in Unfollowed \cup Range(l)
    <2>1. OneMore(l, link) = l
      BY <1>1 DEF OneMore
    <2> QED BY <1>0, <1>1, <2>1 DEF AreTheLinks
  <1>2. CASE ~(Len(l) >= MaxLinks \/ link \in Unfollowed \cup Range(l))
    <2>1. OneMore(l, link) = Append(l, link)
      BY <1>2, Zenon DEF OneMore
    <2>2. Append(l, link) \in Seq(S) /\ Len(Append(l, link)) = Len(l) + 1
      BY AppendProperties
    <2>3. Range(Append(l, link)) = Range(l) \cup {link}
      <3>1. /\ DOMAIN l = 1..Len(l) /\ DOMAIN Append(l, link) = 1..Len(l) + 1
            /\ \A i \in 1..Len(l) : Append(l, link)[i] = l[i]
            /\ Append(l, link)[Len(l) + 1] = link
        BY AppendProperties
      <3>2. 1..Len(l) + 1 = (1..Len(l)) \cup {Len(l) + 1}
        BY <1>0
      <3> QED BY <3>1, <3>2 DEF Range
    <2>4. IsFiniteSet(Range(l) \cup {link}) /\ Cardinality(Range(l) \cup {link}) = Len(l) + 1
      <3>1. IsFiniteSet(Range(l)) /\ link \notin Range(l) /\ Cardinality(Range(l)) = Len(l)
        BY <1>2 DEF AreTheLinks
      <3> QED BY <3>1, FS_AddElement
    <2>5. Len(l) < MaxLinks /\ Range(l) = first \ Unfollowed /\ link \notin Unfollowed
      BY <1>0, <1>2 DEF AreTheLinks
    <2>6. Len(l) + 1 <= MaxLinks
      BY <1>0, <2>5
    <2>7. Range(l) \cup {link} = (first \cup {link}) \ Unfollowed
      BY <2>5
    <2> QED BY <2>1, <2>2, <2>3, <2>4, <2>6, <2>7 DEF AreTheLinks
  <1> QED BY <1>1, <1>2

LEMMA LinksAreRight ==
    ASSUME NEW S, NEW from \in Seq(S)
    PROVE  AreTheLinks(ClassifyLinks(from), Range(from))
  <1>0. MaxLinks \in Nat \ {0} /\ Len(from) \in Nat /\ DOMAIN from = 1..Len(from)
    BY LimitsAssumption
  <1> DEFINE kept == CHOOSE f : Filters(f, from)
  <1>1. Filters(kept, from)
    BY <1>0, FiltersExist
  <1>2. ClassifyLinks(from) = kept[Len(from)]
    BY Zenon DEF ClassifyLinks, Filters, OneMore
  <1> HIDE DEF kept
  <1> DEFINE first(n) == {from[i] : i \in 1..n}
             T == {n \in Nat : n <= Len(from) => kept[n] \in Seq(S) /\ AreTheLinks(kept[n], first(n))}
  <1>3. kept[0] = <<>> /\ \A i \in 1..Len(from) : kept[i] = OneMore(kept[i - 1], from[i])
    BY <1>0, <1>1 DEF Filters
  <1>4. 0 \in T
    <2>1. Range(<<>>) = {} /\ first(0) = {}
      BY DEF Range
    <2>a. {} \subseteq {} \ Unfollowed /\ {} = {} \ Unfollowed /\ 0 <= MaxLinks
      BY <1>0
    <2>2. Len(<<>>) = 0 /\ <<>> \in Seq(S)
      OBVIOUS
    <2> HIDE DEF first
    <2>3. AreTheLinks(<<>>, first(0))
      BY <2>1, <2>2, <2>a, FS_EmptySet, Zenon DEF AreTheLinks
    <2> QED BY <1>3, <2>2, <2>3
  <1>5. ASSUME NEW n \in Nat, n \in T PROVE n + 1 \in T
    <2> SUFFICES ASSUME n + 1 <= Len(from)
                 PROVE  kept[n + 1] \in Seq(S) /\ AreTheLinks(kept[n + 1], first(n + 1))
      OBVIOUS
    <2>1. n + 1 \in 1..Len(from) /\ n + 1 - 1 = n
      BY <1>0
    <2>2. kept[n + 1] = OneMore(kept[n], from[n + 1])
      BY <1>3, <2>1
    <2>3. kept[n] \in Seq(S) /\ AreTheLinks(kept[n], first(n)) /\ from[n + 1] \in S
      BY <1>5, <2>1
    <2>4. first(n + 1) = first(n) \cup {from[n + 1]}
      BY <2>1
    <2> HIDE DEF first
    <2>5. /\ OneMore(kept[n], from[n + 1]) \in Seq(S)
          /\ AreTheLinks(OneMore(kept[n], from[n + 1]), first(n) \cup {from[n + 1]})
      BY <2>3, OneMoreLink, Zenon
    <2> QED BY <2>2, <2>4, <2>5, Zenon
  <1>6. Len(from) \in T
    <2> HIDE DEF T
    <2> QED BY <1>0, <1>4, <1>5, Reaches
  <1>7. AreTheLinks(kept[Len(from)], first(Len(from)))
    <2>1. Len(from) <= Len(from)
      BY <1>0
    <2> HIDE DEF first
    <2> QED BY <1>6, <2>1
  <1>8. first(Len(from)) = Range(from)
    BY <1>0 DEF Range
  <1> HIDE DEF first
  <1> QED BY <1>2, <1>7, <1>8, Zenon

\* What the links of bodies are.
Addresses == UNION {Range(p.hrefs) \cup Range(p.shown) : p \in Bodies}

LEMMA LinksAreSequences ==
    ASSUME NEW p \in Bodies
    PROVE  p.hrefs \in Seq(Addresses) /\ p.shown \in Seq(Addresses)
  <1>1. p.hrefs \in Seq(Range(p.hrefs)) /\ p.shown \in Seq(Range(p.shown))
    BY BodiesAssumption
  <1>2. Range(p.hrefs) \subseteq Addresses /\ Range(p.shown) \subseteq Addresses
    BY DEF Addresses
  <1> QED BY <1>1, <1>2, SeqMonotonic

LEMMA PiecesHaveLinks ==
    ASSUME NEW s \in Seq(Bodies)
    PROVE  HrefsOf(s) \in Seq(Addresses) /\ ShownIn(s) \in Seq(Addresses)
  <1> DEFINE h == [i \in DOMAIN s |-> s[i].hrefs]
             t == [i \in DOMAIN s |-> s[i].shown]
  <1>1. h \in [1..Len(s) -> Seq(Addresses)] /\ t \in [1..Len(s) -> Seq(Addresses)]
    <2>1. DOMAIN s = 1..Len(s) /\ \A i \in 1..Len(s) : s[i] \in Bodies
      OBVIOUS
    <2>2. \A i \in 1..Len(s) : s[i].hrefs \in Seq(Addresses) /\ s[i].shown \in Seq(Addresses)
      BY <2>1, LinksAreSequences
    <2> QED BY <2>1, <2>2
  <1>2. h \in Seq(Seq(Addresses)) /\ t \in Seq(Seq(Addresses))
    BY <1>1
  <1> HIDE DEF h, t
  <1>3. Concat(h) \in Seq(Addresses) /\ Concat(t) \in Seq(Addresses)
    BY <1>2, ConcatHasType
  <1> QED BY <1>3 DEF HrefsOf, ShownIn, h, t

-----------------------------------------------------------------------------
\* A mail as the walk gathers it.
Mailed ==
    [text : Seq(Bodies), html : Seq(Bodies), images : Seq({p.name : p \in Bodies}),
     attachments : Seq({AttachmentFrom(p) : p \in Bodies})]

LEMMA NothingIsMailed == Nothing \in Mailed /\ Holds(Nothing, <<>>)
  <1>1. Nothing \in Mailed
    BY DEF Nothing, Mailed
  <1>2. NamesIn(Nothing) = {} /\ SizeOf(Nothing) = 0
    BY DEF NamesIn, NamesOf, SizeOf, Nothing, Range
  <1>3. Leaves(<<>>) = {}
    BY DEF Leaves
  <1> QED BY <1>1, <1>2, <1>3, FS_EmptySet DEF Holds

\* The leaves among some parts and one more.
LEMMA LeavesOfOneMore ==
    ASSUME NEW s \in Seq(Places), NEW n \in Places
    PROVE  /\ Cardinality(Leaves(s)) \in Nat
           /\ ~IsLeaf(n.part) =>
                /\ Cardinality(Leaves(Append(s, n))) = Cardinality(Leaves(s))
                /\ {Append(s, n)[i].part.name : i \in Leaves(Append(s, n))}
                     = {s[i].part.name : i \in Leaves(s)}
           /\ IsLeaf(n.part) =>
                /\ Cardinality(Leaves(Append(s, n))) = Cardinality(Leaves(s)) + 1
                /\ {Append(s, n)[i].part.name : i \in Leaves(Append(s, n))}
                     = {s[i].part.name : i \in Leaves(s)} \cup {n.part.name}
  <1> DEFINE m == Len(s) + 1
             t == Append(s, n)
  <1>1. /\ Len(s) \in Nat /\ DOMAIN s = 1..Len(s) /\ DOMAIN t = 1..m
        /\ \A i \in 1..Len(s) : t[i] = s[i]
        /\ t[m] = n
    BY AppendProperties
  <1>2. 1..m = (1..Len(s)) \cup {m} /\ m \notin 1..Len(s)
    BY <1>1
  <1>3. IsFiniteSet(Leaves(s)) /\ m \notin Leaves(s) /\ Leaves(s) \subseteq 1..Len(s)
    <2>1. Leaves(s) \subseteq 1..Len(s)
      BY <1>1 DEF Leaves
    <2>2. IsFiniteSet(1..Len(s))
      BY <1>1, FS_Interval
    <2> QED BY <1>2, <2>1, <2>2, FS_Subset
  <1>4. Cardinality(Leaves(s)) \in Nat
    BY <1>3, FS_CardinalityType
  <1> HIDE DEF m, t
  <1>5. Leaves(t) = Leaves(s) \cup (IF IsLeaf(n.part) THEN {m} ELSE {})
    BY <1>1, <1>2 DEF Leaves
  <1>6. \A i \in Leaves(s) : t[i] = s[i]
    BY <1>1, <1>3
  <1>7. CASE ~IsLeaf(n.part)
    <2>1. Leaves(t) = Leaves(s)
      BY <1>5, <1>7
    <2> QED BY <1>4, <1>6, <1>7, <2>1 DEF t
  <1>8. CASE IsLeaf(n.part)
    <2>1. Leaves(t) = Leaves(s) \cup {m}
      BY <1>5, <1>8
    <2>2. Cardinality(Leaves(s) \cup {m}) = Cardinality(Leaves(s)) + 1
      BY <1>3, FS_AddElement
    <2>3. {t[i].part.name : i \in Leaves(s) \cup {m}} = {s[i].part.name : i \in Leaves(s)} \cup {n.part.name}
      BY <1>1, <1>6
    <2> QED BY <1>4, <1>8, <2>1, <2>2, <2>3 DEF t
  <1> QED BY <1>7, <1>8

\* What a sequence of records names, with one record more.
LEMMA NamesOfOneMore ==
    ASSUME NEW S, NEW s \in Seq(S), NEW x \in S
    PROVE  /\ Len(Append(s, x)) = Len(s) + 1 /\ Len(s) \in Nat /\ Append(s, x) \in Seq(S)
           /\ NamesOf(Append(s, x)) = NamesOf(s) \cup {x.name}
           /\ Range(Append(s, x)) = Range(s) \cup {x}
  <1> DEFINE t == Append(s, x)
  <1>1. /\ Len(s) \in Nat /\ DOMAIN s = 1..Len(s) /\ DOMAIN t = 1..Len(s) + 1
        /\ \A i \in 1..Len(s) : t[i] = s[i]
        /\ t[Len(s) + 1] = x
        /\ Len(t) = Len(s) + 1 /\ t \in Seq(S)
    BY AppendProperties
  <1>2. 1..Len(s) + 1 = (1..Len(s)) \cup {Len(s) + 1}
    BY <1>1
  <1> HIDE DEF t
  <1>3. NamesOf(t) = NamesOf(s) \cup {x.name}
    BY <1>1, <1>2 DEF NamesOf
  <1>4. Range(t) = Range(s) \cup {x}
    BY <1>1, <1>2 DEF Range
  <1> QED BY <1>1, <1>3, <1>4 DEF t

LEMMA OneFieldNew ==
    ASSUME NEW f \in Mailed, NEW a
    PROVE  /\ [f EXCEPT !.text = a] = [text |-> a, html |-> f.html, images |-> f.images,
                                       attachments |-> f.attachments]
           /\ [f EXCEPT !.html = a] = [text |-> f.text, html |-> a, images |-> f.images,
                                       attachments |-> f.attachments]
           /\ [f EXCEPT !.images = a] = [text |-> f.text, html |-> f.html, images |-> a,
                                         attachments |-> f.attachments]
           /\ [f EXCEPT !.attachments = a] = [text |-> f.text, html |-> f.html,
                                              images |-> f.images, attachments |-> a]
  <1>1. PICK t, h, i, at :
            f = [text |-> t, html |-> h, images |-> i, attachments |-> at]
    BY DEF Mailed
  <1> QED BY <1>1

\* A leaf that is kept, or passed over as blank.
LEMMA KeepIsRight ==
    ASSUME NEW f \in Mailed, NEW part \in Bodies, ~Inner(part)
    PROVE  /\ Keep(f, part) \in Mailed
           /\ IsLeaf(part) => /\ NamesIn(Keep(f, part)) = NamesIn(f) \cup {part.name}
                              /\ SizeOf(Keep(f, part)) = SizeOf(f) + 1
           /\ ~IsLeaf(part) => Keep(f, part) = f
  <1>1. /\ f.text \in Seq(Bodies) /\ f.html \in Seq(Bodies)
        /\ f.images \in Seq({p.name : p \in Bodies})
        /\ f.attachments \in Seq({AttachmentFrom(p) : p \in Bodies})
        /\ f = [text |-> f.text, html |-> f.html, images |-> f.images, attachments |-> f.attachments]
    BY DEF Mailed
  <1>2. AttachmentFrom(part).name = part.name
    BY DEF AttachmentFrom
  <1>3. part.type \in {"text", "html", "image", "other", "message", "multipart"}
    BY BodiesAssumption
  <1>a. Len(f.text) \in Nat /\ Len(f.html) \in Nat /\ Len(f.images) \in Nat /\ Len(f.attachments) \in Nat
    BY <1>1
  <1>b. PICK k1 \in Nat, k2 \in Nat, k3 \in Nat, k4 \in Nat :
            k1 = Len(f.text) /\ k2 = Len(f.html) /\ k3 = Len(f.images) /\ k4 = Len(f.attachments)
    BY <1>a, Zenon
  <1>c. SizeOf(f) = k1 + k2 + k3 + k4
    BY <1>b, Zenon DEF SizeOf
  <1>4. CASE IsAttachment(part)
    <2> DEFINE a == Append(f.attachments, AttachmentFrom(part))
    <2>1. Keep(f, part) = [f EXCEPT !.attachments = a]
      BY <1>4, Zenon DEF Keep
    <2>2. /\ a \in Seq({AttachmentFrom(p) : p \in Bodies}) /\ Len(a) = Len(f.attachments) + 1
          /\ NamesOf(a) = NamesOf(f.attachments) \cup {part.name}
      <3>1. PICK A : A = {AttachmentFrom(p) : p \in Bodies}
        OBVIOUS
      <3>2. PICK x : x = AttachmentFrom(part)
        OBVIOUS
      <3>3. x \in A /\ f.attachments \in Seq(A) /\ x.name = part.name
        BY <1>1, <1>2, <3>1, <3>2
      <3>4. /\ Append(f.attachments, x) \in Seq(A)
            /\ Len(Append(f.attachments, x)) = Len(f.attachments) + 1
            /\ NamesOf(Append(f.attachments, x)) = NamesOf(f.attachments) \cup {x.name}
        BY <3>3, NamesOfOneMore
      <3> QED BY <3>1, <3>2, <3>3, <3>4, Zenon
    <2> HIDE DEF a
    <2>3. [f EXCEPT !.attachments = a] =
             [text |-> f.text, html |-> f.html, images |-> f.images, attachments |-> a]
      BY OneFieldNew, Zenon
    <2>4. IsLeaf(part)
      BY <1>4 DEF IsLeaf
    <2>8. /\ Keep(f, part).text = f.text /\ Keep(f, part).html = f.html
         /\ Keep(f, part).images = f.images /\ Keep(f, part).attachments = a
      BY <2>1, <2>3, Zenon
    <2>5. Keep(f, part) \in Mailed
      BY <1>1, <2>1, <2>2, <2>3 DEF Mailed
    <2>6. NamesIn(Keep(f, part)) = NamesIn(f) \cup {part.name}
      BY <2>2, <2>8 DEF NamesIn
    <2>7. SizeOf(Keep(f, part)) = SizeOf(f) + 1
      <3>1. Len(a) = k4 + 1
        BY <1>b, <2>2
      <3>2. SizeOf(Keep(f, part)) = k1 + k2 + k3 + (k4 + 1)
        BY <1>b, <2>8, <3>1, Zenon DEF SizeOf
      <3> QED BY <1>c, <3>2
    <2> QED BY <2>4, <2>5, <2>6, <2>7
  <1>5. CASE ~IsAttachment(part) /\ part.type = "image"
    <2> DEFINE a == Append(f.images, part.name)
    <2>1. Keep(f, part) = [f EXCEPT !.images = a]
      BY <1>5, Zenon DEF Keep
    <2>2. /\ a \in Seq({p.name : p \in Bodies}) /\ Len(a) = Len(f.images) + 1
          /\ Range(a) = Range(f.images) \cup {part.name}
      <3>1. PICK N, x : N = {p.name : p \in Bodies} /\ x = part.name
        OBVIOUS
      <3>2. x \in N /\ f.images \in Seq(N)
        BY <1>1, <3>1
      <3>3. /\ Append(f.images, x) \in Seq(N)
            /\ Len(Append(f.images, x)) = Len(f.images) + 1
            /\ Range(Append(f.images, x)) = Range(f.images) \cup {x}
        BY <3>2, NamesOfOneMore
      <3> QED BY <3>1, <3>3, Zenon
    <2> HIDE DEF a
    <2>3. [f EXCEPT !.images = a] =
             [text |-> f.text, html |-> f.html, images |-> a, attachments |-> f.attachments]
      BY OneFieldNew, Zenon
    <2>4. IsLeaf(part)
      BY <1>5 DEF IsLeaf
    <2>8. /\ Keep(f, part).text = f.text /\ Keep(f, part).html = f.html
         /\ Keep(f, part).images = a /\ Keep(f, part).attachments = f.attachments
      BY <2>1, <2>3, Zenon
    <2>5. Keep(f, part) \in Mailed
      BY <1>1, <2>1, <2>2, <2>3 DEF Mailed
    <2>6. NamesIn(Keep(f, part)) = NamesIn(f) \cup {part.name}
      BY <2>2, <2>8 DEF NamesIn
    <2>7. SizeOf(Keep(f, part)) = SizeOf(f) + 1
      <3>1. Len(a) = k3 + 1
        BY <1>b, <2>2
      <3>2. SizeOf(Keep(f, part)) = k1 + k2 + (k3 + 1) + k4
        BY <1>b, <2>8, <3>1, Zenon DEF SizeOf
      <3> QED BY <1>c, <3>2
    <2> QED BY <2>4, <2>5, <2>6, <2>7
  <1>6. CASE ~IsAttachment(part) /\ part.type # "image" /\ part.blank
    <2>1. Keep(f, part) = f
      BY <1>6, Zenon DEF Keep
    <2>2. ~IsLeaf(part)
      BY <1>6 DEF IsLeaf
    <2> QED BY <2>1, <2>2
  <1>7. CASE ~IsAttachment(part) /\ part.type # "image" /\ ~part.blank
    <2>1. Keep(f, part) = [f EXCEPT ![part.type] = Append(@, part)]
      BY <1>7, Zenon DEF Keep
    <2>2. IsLeaf(part)
      BY <1>7 DEF IsLeaf
    <2>3. CASE part.type = "text"
      <3> DEFINE a == Append(f.text, part)
      <3>1. Keep(f, part) = [f EXCEPT !.text = a]
        BY <2>1, <2>3
      <3>2. /\ a \in Seq(Bodies) /\ Len(a) = Len(f.text) + 1
            /\ NamesOf(a) = NamesOf(f.text) \cup {part.name}
        BY <1>1, NamesOfOneMore
      <3> HIDE DEF a
      <3>3. [f EXCEPT !.text = a] =
               [text |-> a, html |-> f.html, images |-> f.images, attachments |-> f.attachments]
        BY OneFieldNew, Zenon
      <3>8. /\ Keep(f, part).text = a /\ Keep(f, part).html = f.html
           /\ Keep(f, part).images = f.images /\ Keep(f, part).attachments = f.attachments
        BY <3>1, <3>3, Zenon
      <3>5. Keep(f, part) \in Mailed
        BY <1>1, <3>1, <3>2, <3>3 DEF Mailed
      <3>6. NamesIn(Keep(f, part)) = NamesIn(f) \cup {part.name}
        BY <3>2, <3>8 DEF NamesIn
      <3>7. SizeOf(Keep(f, part)) = SizeOf(f) + 1
        <4>1. Len(a) = k1 + 1
          BY <1>b, <3>2
        <4>2. SizeOf(Keep(f, part)) = (k1 + 1) + k2 + k3 + k4
          BY <1>b, <3>8, <4>1, Zenon DEF SizeOf
        <4> QED BY <1>c, <4>2
      <3> QED BY <2>2, <3>5, <3>6, <3>7
    <2>4. CASE part.type = "html"
      <3> DEFINE a == Append(f.html, part)
      <3>1. Keep(f, part) = [f EXCEPT !.html = a]
        BY <2>1, <2>4
      <3>2. /\ a \in Seq(Bodies) /\ Len(a) = Len(f.html) + 1
            /\ NamesOf(a) = NamesOf(f.html) \cup {part.name}
        BY <1>1, NamesOfOneMore
      <3> HIDE DEF a
      <3>3. [f EXCEPT !.html = a] =
               [text |-> f.text, html |-> a, images |-> f.images, attachments |-> f.attachments]
        BY OneFieldNew, Zenon
      <3>8. /\ Keep(f, part).text = f.text /\ Keep(f, part).html = a
           /\ Keep(f, part).images = f.images /\ Keep(f, part).attachments = f.attachments
        BY <3>1, <3>3, Zenon
      <3>5. Keep(f, part) \in Mailed
        BY <1>1, <3>1, <3>2, <3>3 DEF Mailed
      <3>6. NamesIn(Keep(f, part)) = NamesIn(f) \cup {part.name}
        BY <3>2, <3>8 DEF NamesIn
      <3>7. SizeOf(Keep(f, part)) = SizeOf(f) + 1
        <4>1. Len(a) = k2 + 1
          BY <1>b, <3>2
        <4>2. SizeOf(Keep(f, part)) = k1 + (k2 + 1) + k3 + k4
          BY <1>b, <3>8, <4>1, Zenon DEF SizeOf
        <4> QED BY <1>c, <4>2
      <3> QED BY <2>2, <3>5, <3>6, <3>7
    <2>5. part.type \in {"text", "html"}
      BY <1>3, <1>7 DEF IsAttachment, Inner
    <2> QED BY <2>3, <2>4, <2>5
  <1> QED BY <1>4, <1>5, <1>6, <1>7

LEMMA KeepHolds ==
    ASSUME NEW f \in Mailed, NEW s \in Seq(Places), Holds(f, s), NEW n \in Places
    PROVE  /\ Inner(n.part) => Holds(f, Append(s, n))
           /\ ~Inner(n.part) => Keep(f, n.part) \in Mailed /\ Holds(Keep(f, n.part), Append(s, n))
  <1>1. n.part \in Bodies
    BY ChildrenArePlaces
  <1>2. CASE Inner(n.part)
    <2>1. ~IsLeaf(n.part)
      BY <1>2 DEF IsLeaf
    <2> QED BY <1>2, <2>1, LeavesOfOneMore DEF Holds
  <1>3. CASE ~Inner(n.part) /\ ~IsLeaf(n.part)
    <2>1. Keep(f, n.part) = f
      BY <1>1, <1>3, KeepIsRight
    <2> QED BY <1>3, <2>1, LeavesOfOneMore DEF Holds
  <1>4. CASE ~Inner(n.part) /\ IsLeaf(n.part)
    <2>1. /\ Keep(f, n.part) \in Mailed
          /\ NamesIn(Keep(f, n.part)) = NamesIn(f) \cup {n.part.name}
          /\ SizeOf(Keep(f, n.part)) = SizeOf(f) + 1
      BY <1>1, <1>4, KeepIsRight
    <2> QED BY <1>4, <2>1, LeavesOfOneMore DEF Holds
  <1> QED BY <1>2, <1>3, <1>4

-----------------------------------------------------------------------------
(* The walk.  What it has passed and what is ahead are the parts of the     *)
(* message; what it has passed is within the limits and in the mail.        *)

Root == [part |-> document.body, depth |-> 0]

WalkIsRight ==
    /\ IsMessage /\ document.readable
    /\ found \in Mailed
    /\ agenda \in Seq(Places)
    /\ \E past \in Seq(Places) :
         /\ PartsOf(document.body) = past \o Ahead(agenda)
         /\ Len(past) = parts /\ parts <= MaxParts
         /\ \A i \in DOMAIN past : IsFine(past[i])
         /\ Holds(found, past)

ParserInv ==
    /\ document \in Documents
    /\ parsed = "no" => found = Nothing /\ parts = 0
    /\ parsed = "walking" => WalkIsRight
    /\ ParsedIsWhole

LEMMA RootIsAPlace ==
    ASSUME document \in Documents
    PROVE  document.body \in Bodies /\ Root \in Places
  <1>1. document.body \in Bodies
    BY BodiesAssumption
  <1>2. 0 \in 0..MaxDepth + 1
    BY LimitsAssumption
  <1> QED BY <1>1, <1>2 DEF Root, Places

\* Some parts, and those that are fine with one more.
LEMMA FineWithOneMore ==
    ASSUME NEW s \in Seq(Places), NEW n \in Places,
           \A i \in DOMAIN s : IsFine(s[i]), IsFine(n)
    PROVE  \A i \in DOMAIN Append(s, n) : IsFine(Append(s, n)[i])
  <1>1. /\ DOMAIN s = 1..Len(s) /\ DOMAIN Append(s, n) = 1..Len(s) + 1 /\ Len(s) \in Nat
        /\ \A i \in 1..Len(s) : Append(s, n)[i] = s[i]
        /\ Append(s, n)[Len(s) + 1] = n
    BY AppendProperties
  <1>2. \A i \in 1..Len(s) + 1 : i \in 1..Len(s) \/ i = Len(s) + 1
    BY <1>1
  <1> QED BY <1>1, <1>2

LEMMA OneThenMore ==
    \A n \in Places : \A s, t \in Seq(Places) :
        <<n>> \in Seq(Places) /\ s \o (<<n>> \o t) = (s \o <<n>>) \o t
                              /\ (<<n>> \o s) \o t = <<n>> \o (s \o t)
  <1> SUFFICES ASSUME NEW n \in Places, NEW s \in Seq(Places), NEW t \in Seq(Places)
               PROVE  <<n>> \in Seq(Places) /\ s \o (<<n>> \o t) = (s \o <<n>>) \o t
                              /\ (<<n>> \o s) \o t = <<n>> \o (s \o t)
    BY Zenon
  <1>1. PICK one : one = <<n>>
    OBVIOUS
  <1>2. one \in Seq(Places)
    BY <1>1
  <1>3. AnyOrder(one, s, t) /\ AnyOrder(s, one, t)
    BY <1>2, Associates
  <1> QED BY <1>1, <1>2, <1>3, Zenon DEF AnyOrder

\* The first part of the agenda is the next of the message.
Leads(past, n, rest, all) ==
    /\ all \in Seq(Places)
    /\ Len(all) >= Len(past) + 1
    /\ Len(past) + 1 \in DOMAIN all /\ all[Len(past) + 1] = n
    /\ ~Stops(n) => all = Append(past, n) \o Ahead(Children(n) \o rest)
    /\ Stops(n) \/ n.part.children = <<>> => all = Append(past, n) \o Ahead(rest)

LEMMA NextPart ==
    ASSUME NEW past \in Seq(Places), NEW rest \in Seq(Places), NEW n \in Places,
           NEW all, all = past \o Ahead(<<n>> \o rest)
    PROVE  Leads(past, n, rest, all)
  <1>1. <<n>> \in Seq(Places)
    OBVIOUS
  <1>2. Ahead(<<n>> \o rest) = Below[n] \o Ahead(rest)
    BY <1>1, AheadOfBoth, AheadOfOne
  <1>3. Below[n] \in Seq(Places) /\ Ahead(rest) \in Seq(Places)
    BY BelowHasType, AheadHasType
  <1>4. \A u \in Seq(Places) : (<<n>> \o u) \o Ahead(rest) = <<n>> \o (u \o Ahead(rest))
    BY <1>3, OneThenMore, Zenon
  <1>5. \E more \in Seq(Places) : Below[n] = <<n>> \o more
    <2>1. CASE Stops(n)
      <3>1. Below[n] = <<n>> \o <<>> /\ <<>> \in Seq(Places)
        BY <2>1, FirstThenBelow, <1>1, ConcatEmptySeq
      <3> QED BY <3>1
    <2>2. CASE ~Stops(n)
      <3>1. n.depth <= MaxDepth
        BY <2>2, ChildrenArePlaces DEF Stops
      <3>2. Ahead(Children(n)) \in Seq(Places)
        BY <3>1, ChildrenArePlaces, AheadHasType
      <3> QED BY <2>2, <3>2, FirstThenBelow
    <2> QED BY <2>1, <2>2
  <1>6. PICK more \in Seq(Places) : Below[n] = <<n>> \o more
    BY <1>5
  <1>7. Append(past, n) = past \o <<n>> /\ Append(past, n) \in Seq(Places)
    BY AppendIsConcat, AppendProperties
  <1>8. ASSUME NEW t \in Seq(Places), Ahead(<<n>> \o rest) = <<n>> \o t
        PROVE  all = Append(past, n) \o t
    <2>1. past \o (<<n>> \o t) = (past \o <<n>>) \o t
      BY OneThenMore, Zenon
    <2> QED BY <1>7, <1>8, <2>1, Zenon
  <1>9. more \o Ahead(rest) \in Seq(Places)
    BY <1>3, ConcatProperties
  <1>10. Ahead(<<n>> \o rest) = <<n>> \o (more \o Ahead(rest))
    <2>2. (<<n>> \o more) \o Ahead(rest) = <<n>> \o (more \o Ahead(rest))
      BY <1>4, <1>6, Zenon
    <2> QED BY <1>2, <1>6, <2>2, Zenon
  <1>11. all = Append(past, n) \o (more \o Ahead(rest))
    BY <1>8, <1>9, <1>10
  <1>12. /\ all \in Seq(Places) /\ Len(all) >= Len(past) + 1
         /\ Len(past) + 1 \in DOMAIN all /\ all[Len(past) + 1] = n
    <2> DEFINE t == more \o Ahead(rest)
               a == Append(past, n)
    <2>1. a \in Seq(Places) /\ Len(a) = Len(past) + 1 /\ a[Len(past) + 1] = n /\ Len(past) \in Nat
      BY AppendProperties
    <2>a. t \in Seq(Places) /\ all = a \o t
      BY <1>9, <1>11, Zenon
    <2> HIDE DEF a, t
    <2>2. t \in Seq(Places) /\ all = a \o t /\ Len(t) \in Nat
      BY <2>a, LenProperties
    <2>b. a \o t \in Seq(Places) /\ Len(a \o t) = Len(a) + Len(t)
      BY <2>1, <2>2, ConcatProperties
    <2>3. all \in Seq(Places) /\ Len(all) = Len(past) + 1 + Len(t)
      BY <2>1, <2>2, <2>b
    <2>4. \A i \in 1..Len(a) + Len(t) : (a \o t)[i] = IF i <= Len(a) THEN a[i] ELSE t[i - Len(a)]
      BY <2>1, <2>2, ConcatProperties
    <2>5. Len(past) + 1 \in 1..Len(a) + Len(t) /\ Len(past) + 1 <= Len(a)
      BY <2>1, <2>2
    <2>6. (a \o t)[Len(past) + 1] = a[Len(past) + 1]
      BY <2>4, <2>5, Zenon
    <2>7. Len(past) + 1 \in DOMAIN all
      BY <2>1, <2>2, <2>3
    <2>8. Len(all) >= Len(past) + 1
      BY <2>1, <2>2, <2>3
    <2> QED BY <2>1, <2>2, <2>3, <2>6, <2>7, <2>8
  <1>13. ASSUME ~Stops(n) PROVE all = Append(past, n) \o Ahead(Children(n) \o rest)
    <2>1. n.depth <= MaxDepth
      BY <1>13, ChildrenArePlaces DEF Stops
    <2>2. Children(n) \in Seq(Places)
      BY <2>1, ChildrenArePlaces
    <2>3. Ahead(Children(n)) \in Seq(Places)
      BY <2>2, AheadHasType
    <2>4. Below[n] = <<n>> \o Ahead(Children(n))
      BY <1>13, FirstThenBelow
    <2>5. Ahead(Children(n) \o rest) = Ahead(Children(n)) \o Ahead(rest)
      BY <2>2, AheadOfBoth
    <2>6. (<<n>> \o Ahead(Children(n))) \o Ahead(rest) = <<n>> \o (Ahead(Children(n)) \o Ahead(rest))
      BY <1>4, <2>3, Zenon
    <2>7. Ahead(Children(n) \o rest) \in Seq(Places)
      BY <1>3, <2>3, <2>5, ConcatProperties
    <2>8. Ahead(<<n>> \o rest) = <<n>> \o Ahead(Children(n) \o rest)
      BY <1>2, <2>4, <2>5, <2>6, Zenon
    <2> QED BY <1>8, <2>7, <2>8, Zenon
  <1>14. ASSUME Stops(n) \/ n.part.children = <<>> PROVE all = Append(past, n) \o Ahead(rest)
    <2>1. Below[n] = <<n>>
      BY <1>14, FirstThenBelow, Zenon
    <2>2. Ahead(<<n>> \o rest) = <<n>> \o Ahead(rest)
      BY <1>2, <2>1, Zenon
    <2> QED BY <1>3, <1>8, <2>2, Zenon
  <1> QED BY <1>12, <1>13, <1>14, Zenon DEF Leads

-----------------------------------------------------------------------------
(* Its steps.                                                               *)

LEMMA InvIsTyped ==
    ASSUME ParserInv, Walking
    PROVE  /\ WalkIsRight
           /\ Head(agenda) \in Places /\ Tail(agenda) \in Seq(Places)
           /\ agenda = <<Head(agenda)>> \o Tail(agenda)
           /\ \E past \in Seq(Places) :
                /\ PartsOf(document.body) = past \o Ahead(<<Head(agenda)>> \o Tail(agenda))
                /\ Len(past) = parts /\ parts \in Nat /\ parts <= MaxParts
                /\ \A i \in DOMAIN past : IsFine(past[i])
                /\ Holds(found, past)
  <1>1. WalkIsRight /\ agenda \in Seq(Places) /\ agenda # <<>>
    BY DEF ParserInv, Walking, WalkIsRight
  <1>2. /\ Head(agenda) \in Places /\ Tail(agenda) \in Seq(Places)
    BY <1>1, HeadTailProperties
  <1>3. agenda = <<Head(agenda)>> \o Tail(agenda)
    BY <1>1
  <1>4. PICK past \in Seq(Places) :
         /\ PartsOf(document.body) = past \o Ahead(agenda)
         /\ Len(past) = parts /\ parts <= MaxParts
         /\ \A i \in DOMAIN past : IsFine(past[i])
         /\ Holds(found, past)
    BY <1>1 DEF WalkIsRight
  <1>5. PartsOf(document.body) = past \o Ahead(<<Head(agenda)>> \o Tail(agenda))
    BY <1>3, <1>4, Zenon
  <1>6. parts \in Nat
    BY <1>4
  <1> QED BY <1>1, <1>2, <1>3, <1>4, <1>5, <1>6

\* A part that exceeds a limit is one of a message that does.
LEMMA ExcessIsAboveLimits ==
    ASSUME ParserInv, Walking, Exceeds
    PROVE  ~WithinLimits(document.body)
  <1>1. PICK past \in Seq(Places) :
          /\ PartsOf(document.body) = past \o Ahead(<<Head(agenda)>> \o Tail(agenda))
          /\ Len(past) = parts /\ parts \in Nat
    BY InvIsTyped, Zenon
  <1> DEFINE n == Head(agenda)
             rest == Tail(agenda)
             all == PartsOf(document.body)
  <1>2. n \in Places /\ rest \in Seq(Places)
    BY InvIsTyped
  <1> HIDE DEF n, rest, all
  <1>3. all = past \o Ahead(<<n>> \o rest)
    BY <1>1, Zenon DEF n, rest, all
  <1>4. Leads(past, n, rest, all)
    BY <1>1, <1>2, <1>3, NextPart
  <1>5. all \in Seq(Places) /\ Len(all) >= parts + 1 /\ parts + 1 \in DOMAIN all /\ all[parts + 1] = n
    BY <1>1, <1>4, Zenon DEF Leads
  <1>6. n.depth > MaxDepth \/ parts + 1 > MaxParts \/ (n.part.type # "multipart" /\ (n.part.big \/ n.part.garbled))
    BY DEF Exceeds, Depth, Part, Multipart, n
  <1>7. MaxDepth \in Nat /\ MaxParts \in Nat /\ n.depth \in Nat /\ Len(all) \in Nat
    BY <1>2, <1>5, ChildrenArePlaces, LimitsAssumption
  <1>8. CASE parts + 1 > MaxParts
    <2>1. ~(Len(all) <= MaxParts)
      BY <1>1, <1>5, <1>7, <1>8
    <2> QED BY <2>1, Zenon DEF WithinLimits, all
  <1>9. CASE n.depth > MaxDepth \/ (n.part.type # "multipart" /\ (n.part.big \/ n.part.garbled))
    <2>1. ~IsFine(n)
      BY <1>7, <1>9 DEF IsFine
    <2>2. ~IsFine(all[parts + 1])
      BY <1>5, <2>1, Zenon
    <2> QED BY <1>5, <2>2, Zenon DEF WithinLimits, all
  <1> QED BY <1>6, <1>8, <1>9

\* What is still the walk with one part more behind it.
LEMMA WalkGoesOn ==
    ASSUME ParserInv, Walking, ~Exceeds,
           UNCHANGED <<document, parsed>>, parts' = parts + 1,
           Multipart \/ Forwarded => agenda' = OneDeeper \o Tail(agenda) /\ found' = found,
           ~(Multipart \/ Forwarded) => agenda' = Tail(agenda) /\ found' = Keep(found, Part)
    PROVE  WalkIsRight'
  <1> DEFINE n == Head(agenda)
             rest == Tail(agenda)
             all == PartsOf(document.body)
  <1>1. WalkIsRight /\ n \in Places /\ rest \in Seq(Places) /\ found \in Mailed
    BY InvIsTyped DEF WalkIsRight
  <1>2. PICK past \in Seq(Places) :
          /\ all = past \o Ahead(<<n>> \o rest)
          /\ Len(past) = parts /\ parts \in Nat
          /\ \A i \in DOMAIN past : IsFine(past[i])
          /\ Holds(found, past)
    BY InvIsTyped, Zenon
  <1>3. /\ n.part \in Bodies /\ n.depth \in Nat /\ MaxDepth \in Nat /\ MaxParts \in Nat
        /\ Len(n.part.children) \in Nat
    BY <1>1, ChildrenArePlaces, LimitsAssumption
  <1>4. IsFine(n) /\ n.depth <= MaxDepth /\ parts + 1 <= MaxParts
    BY <1>2, <1>3 DEF Exceeds, Depth, Part, Multipart, IsFine
  <1>5. Multipart \/ Forwarded <=> Inner(n.part)
    BY DEF Multipart, Forwarded, Inner, Part
  <1>6. OneDeeper = Children(n) /\ Part = n.part
    BY DEF OneDeeper, Children, Child, Part, Depth
  <1>7. Children(n) \in Seq(Places)
    BY <1>1, <1>4, ChildrenArePlaces
  <1>8. Inner(n.part) => ~Stops(n)
    BY <1>3, <1>4 DEF Inner, Stops
  <1>9. ~Inner(n.part) => Stops(n) \/ n.part.children = <<>>
    <2>1. n.part.type \notin {"message", "multipart"} => n.part.children = <<>>
      BY <1>3, BodiesAssumption
    <2> QED BY <2>1 DEF Inner, Stops
  <1> DEFINE now == Append(past, n)
  <1>10. now \in Seq(Places) /\ Len(now) = parts + 1 /\ \A i \in DOMAIN now : IsFine(now[i])
    <2>1. \A i \in DOMAIN now : IsFine(now[i])
      BY <1>1, <1>2, <1>4, FineWithOneMore
    <2>2. now \in Seq(Places) /\ Len(now) = Len(past) + 1
      BY <1>1, AppendProperties
    <2> QED BY <1>2, <2>1, <2>2
  <1> HIDE DEF n, rest, all, now
  <1>11. Leads(past, n, rest, all)
    BY <1>1, <1>2, NextPart
  <1>12. /\ agenda' \in Seq(Places) /\ found' \in Mailed
         /\ all = now \o Ahead(agenda') /\ Holds(found', now)
    <2>1. CASE Inner(n.part)
      <3>1. agenda' = Children(n) \o rest /\ found' = found
        BY <1>5, <1>6, <2>1, Zenon DEF rest
      <3>2. Children(n) \o rest \in Seq(Places)
        BY <1>1, <1>7, ConcatProperties
      <3>3. all = now \o Ahead(Children(n) \o rest)
        BY <1>8, <1>11, <2>1, Zenon DEF Leads, now
      <3>4. Holds(found, now)
        BY <1>1, <1>2, <2>1, KeepHolds DEF now
      <3> QED BY <1>1, <3>1, <3>2, <3>3, <3>4, Zenon
    <2>2. CASE ~Inner(n.part)
      <3>1. agenda' = rest /\ found' = Keep(found, n.part)
        BY <1>5, <1>6, <2>2, Zenon DEF rest
      <3>2. all = now \o Ahead(rest)
        BY <1>9, <1>11, <2>2, Zenon DEF Leads, now
      <3>3. Keep(found, n.part) \in Mailed /\ Holds(Keep(found, n.part), now)
        BY <1>1, <1>2, <2>2, KeepHolds DEF now
      <3> QED BY <1>1, <3>1, <3>2, <3>3, Zenon
    <2> QED BY <2>1, <2>2
  <1>13. PartsOf(document'.body) = all /\ IsMessage' /\ document'.readable
    BY <1>1 DEF WalkIsRight, IsMessage, all
  <1>14. parts' = parts + 1 /\ parts' <= MaxParts
    BY <1>4
  <1> QED BY <1>10, <1>12, <1>13, <1>14, Zenon DEF WalkIsRight

\* A walk that is over has passed the whole message.
LEMMA WalkIsOver ==
    ASSUME ParserInv, parsed = "walking", agenda = <<>>
    PROVE  WithinLimits(document.body) /\ Holds(found, PartsOf(document.body)) /\ found \in Mailed
  <1>1. WalkIsRight
    BY DEF ParserInv
  <1>2. PICK past \in Seq(Places) :
          /\ PartsOf(document.body) = past \o Ahead(agenda)
          /\ Len(past) = parts /\ parts <= MaxParts
          /\ \A i \in DOMAIN past : IsFine(past[i])
          /\ Holds(found, past)
    BY <1>1 DEF WalkIsRight
  <1>3. past \o <<>> = past
    BY ConcatEmptySeq
  <1>4. PartsOf(document.body) = past
    BY <1>2, <1>3, AheadOfNone, Zenon
  <1> QED BY <1>1, <1>2, <1>4, Zenon DEF WithinLimits, WalkIsRight

-----------------------------------------------------------------------------
\* A text that is a body shows the links of that body.
LEMMA LinksOfText ==
    ASSUME NEW body \in Bodies
    PROVE  /\ LinksOf([Nothing EXCEPT !.text = <<body>>]) = body.shown
           /\ body.shown \in Seq(Addresses)
  <1> DEFINE f == [Nothing EXCEPT !.text = <<body>>]
  <1>1. body.shown \in Seq(Addresses)
    BY LinksAreSequences
  <1>2. f.html = <<>> /\ f.text = <<body>> /\ <<body>> # <<>>
    BY DEF Nothing
  <1>3. HrefsOf(<<>>) = <<>>
    <2>1. [i \in DOMAIN <<>> |-> <<>>[i].hrefs] = <<>>
      OBVIOUS
    <2> QED BY <2>1, ConcatOfNone, Zenon DEF HrefsOf
  <1>4. ShownIn(<<body>>) = body.shown
    <2>1. [i \in DOMAIN <<body>> |-> <<body>>[i].shown] = <<body.shown>>
      OBVIOUS
    <2> QED BY <1>1, <2>1, ConcatOfOne, Zenon DEF ShownIn
  <1>5. <<>> \o body.shown = body.shown
    BY <1>1, ConcatEmptySeq
  <1> HIDE DEF f
  <1>6. LinksOf(f) = <<>> \o body.shown
    BY <1>2, <1>3, <1>4, Zenon DEF LinksOf
  <1> QED BY <1>1, <1>5, <1>6, Zenon DEF f

\* How a parse may end.
LEMMA EndsRight ==
    ASSUME document \in Documents,
           NEW how \in {"accepted", "degraded", "refused"}, NEW f, NEW from,
           Ends(how, f, from),
           IsMessage /\ document.readable =>
               /\ document.kind = "eml" => (how = "refused" <=> ~WithinLimits(document.body))
               /\ WithinLimits(document.body) => Holds(f, PartsOf(document.body)),
           how = "accepted" /\ IsMessage => from \in Seq(Addresses) /\ from = LinksOf(f)
    PROVE  ParserInv'
  <1>1. parsed' = how /\ found' = f /\ links' = ClassifyLinks(from) /\ document' = document
    BY DEF Ends
  <1>2. IsMessage' <=> IsMessage
    BY <1>1 DEF IsMessage
  <1>3. MessagesAreWhole'
    BY <1>1, <1>2, Zenon DEF MessagesAreWhole
  <1>4. LinksAreThoseShown'
    <2> SUFFICES ASSUME how = "accepted", IsMessage
                 PROVE  LET shown == Range(LinksOf(f)) \ Unfollowed
                        IN  /\ Range(links') \subseteq shown
                            /\ Cardinality(Range(links')) = Len(links') /\ Len(links') <= MaxLinks
                            /\ Len(links') < MaxLinks => Range(links') = shown
      BY <1>1, <1>2, Zenon DEF LinksAreThoseShown
    <2>1. AreTheLinks(links', Range(LinksOf(f)))
      BY <1>1, LinksAreRight
    <2> QED BY <2>1 DEF AreTheLinks
  <1>5. parsed' \notin {"no", "walking"} /\ document' \in Documents
    BY <1>1
  <1> QED BY <1>3, <1>4, <1>5, Zenon DEF ParserInv, ParsedIsWhole

\* A part that exceeds a limit ends the walk of a message as that deserves.
LEMMA RefusalIsRight ==
    ASSUME ParserInv, RefusePart
    PROVE  ParserInv'
  <1>1. document \in Documents /\ document.body \in Bodies /\ IsMessage /\ document.readable
    BY InvIsTyped, RootIsAPlace DEF RefusePart, ParserInv, WalkIsRight
  <1>2. ~WithinLimits(document.body)
    BY ExcessIsAboveLimits DEF RefusePart
  <1>3. CASE document.kind = "text"
    <2>1. Ends("accepted", [Nothing EXCEPT !.text = <<document.body>>], document.body.shown)
      BY <1>3 DEF RefusePart, AsText
    <2>2. document.kind # "eml"
      BY <1>3
    <2> QED BY <1>1, <1>2, <2>1, <2>2, EndsRight, LinksOfText
  <1>4. CASE document.kind # "text"
    <2>1. Ends("refused", Nothing, <<>>)
      BY <1>4 DEF RefusePart, Refuses
    <2> QED BY <1>1, <1>2, <2>1, EndsRight
  <1> QED BY <1>3, <1>4

\* The walk begins before the first part.
LEMMA WalkBegins ==
    ASSUME ParserInv, OpenMessage
    PROVE  WalkIsRight'
  <1>1. document \in Documents /\ parts = 0 /\ found = Nothing /\ document.readable /\ IsMessage
    BY DEF ParserInv, OpenMessage, IsMessage
  <1>2. Root \in Places
    BY <1>1, RootIsAPlace
  <1>3. agenda' = <<Root>> /\ parts' = 0 /\ found' = Nothing /\ document' = document
    BY <1>1 DEF OpenMessage, Root
  <1>4. IsMessage' /\ document'.readable
    BY <1>1, <1>3 DEF IsMessage
  <1>5. <<Root>> \in Seq(Places) /\ <<>> \in Seq(Places) /\ Len(<<>>) = 0 /\ DOMAIN <<>> = {}
    BY <1>2
  <1>6. PartsOf(document.body) = <<>> \o Ahead(<<Root>>)
    <2>1. Ahead(<<Root>>) = Below[Root] /\ Below[Root] \in Seq(Places)
      BY <1>2, AheadOfOne, BelowHasType
    <2>2. <<>> \o Below[Root] = Below[Root]
      BY <2>1, ConcatEmptySeq
    <2> QED BY <2>1, <2>2, Zenon DEF PartsOf, Root
  <1>7. PartsOf(document'.body) = <<>> \o Ahead(agenda')
    BY <1>3, <1>6, Zenon
  <1>8. 0 <= MaxParts
    BY LimitsAssumption
  <1>9. found' \in Mailed /\ Holds(found', <<>>)
    BY <1>3, NothingIsMailed, Zenon
  <1>10. \A i \in DOMAIN <<>> : IsFine(<<>>[i])
    BY <1>5
  <1>11. agenda' \in Seq(Places)
    BY <1>3, <1>5
  <1>12. Len(<<>>) = parts' /\ parts' <= MaxParts
    BY <1>3, <1>5, <1>8
  <1> QED BY <1>4, <1>5, <1>7, <1>9, <1>10, <1>11, <1>12, Zenon DEF WalkIsRight

LEMMA ParserInvInit == ParserInit => ParserInv
  BY DEF ParserInit, ParserInv, ParsedIsWhole, MessagesAreWhole, LinksAreThoseShown, ParserOver

LEMMA ParserInvStep == ParserInv /\ ParserNext => ParserInv'
  <1> SUFFICES ASSUME ParserInv, ParserNext PROVE ParserInv'
    OBVIOUS
  <1>0. document \in Documents /\ document.body \in Bodies
    BY RootIsAPlace DEF ParserInv
  <1>a. ASSUME document' = document, parsed' = "walking", WalkIsRight' PROVE ParserInv'
    <2>1. ParsedIsWhole'
      BY <1>a DEF ParsedIsWhole, MessagesAreWhole, LinksAreThoseShown, ParserOver
    <2>2. parsed' # "no" /\ document' \in Documents
      BY <1>0, <1>a
    <2> QED BY <1>a, <2>1, <2>2, Zenon DEF ParserInv
  <1>1. CASE RefuseDocument
    <2>1. ~(IsMessage /\ document.readable)
      BY <1>1 DEF RefuseDocument, IsMessage
    <2>2. Ends("refused", Nothing, <<>>)
      BY <1>1 DEF RefuseDocument, Refuses
    <2> QED BY <1>0, <2>1, <2>2, EndsRight
  <1>2. CASE OpenMessage
    <2>1. document' = document /\ parsed' = "walking"
      BY <1>2 DEF OpenMessage
    <2> QED BY <1>a, <1>2, <2>1, WalkBegins
  <1>3. CASE ReadText
    <2>1. ~(IsMessage /\ document.readable)
      BY <1>3 DEF ReadText, IsMessage
    <2>2. Ends("accepted", [Nothing EXCEPT !.text = <<document.body>>], document.body.shown)
      BY <1>3 DEF ReadText, AsText
    <2> QED BY <1>0, <2>1, <2>2, EndsRight, LinksOfText
  <1>4. CASE ReadOutlook
    <2>1. ~IsMessage
      BY <1>4 DEF ReadOutlook, IsMessage
    <2>2. \E how \in {"accepted", "refused"} : \E f, from : Ends(how, f, from)
      <3>1. \A f, from : Ends("accepted", f, from) => \E how \in {"accepted", "refused"} : \E f2, from2 : Ends(how, f2, from2)
        OBVIOUS
      <3>2. Refuses => \E how \in {"accepted", "refused"} : \E f2, from2 : Ends(how, f2, from2)
        BY Zenon DEF Refuses
      <3> QED BY <1>4, <3>1, <3>2, Zenon DEF ReadOutlook
    <2> QED BY <1>0, <2>1, <2>2, EndsRight
  <1>5. CASE ReadImage
    <2>1. ~IsMessage
      BY <1>5 DEF ReadImage, IsMessage
    <2>2. \E how \in {"accepted", "degraded", "refused"} : \E f, from : Ends(how, f, from)
      BY <1>5, Zenon DEF ReadImage, Refuses
    <2> QED BY <1>0, <2>1, <2>2, EndsRight
  <1>6. CASE ReadPDF
    <2>1. ~IsMessage
      BY <1>6 DEF ReadPDF, IsMessage
    <2>2. \E f, from : Ends("accepted", f, from)
      BY <1>6, Zenon DEF ReadPDF
    <2> QED BY <1>0, <2>1, <2>2, EndsRight
  <1>7. CASE RefusePart
    BY <1>7, RefusalIsRight
  <1>8. CASE OpenPart
    <2>1. document' = document /\ parsed' = "walking" /\ parsed' = parsed
      BY <1>8 DEF OpenPart, Walking
    <2>2. WalkIsRight'
      BY <1>8, WalkGoesOn DEF OpenPart
    <2> QED BY <1>a, <2>1, <2>2
  <1>9. CASE KeepPart
    <2>1. document' = document /\ parsed' = "walking" /\ parsed' = parsed
      BY <1>9 DEF KeepPart, Walking
    <2>2. WalkIsRight'
      BY <1>9, WalkGoesOn DEF KeepPart
    <2> QED BY <1>a, <2>1, <2>2
  <1>10. CASE Finish
    <2>1. parsed = "walking" /\ agenda = <<>> /\ Ends("accepted", found, LinksOf(found))
      BY <1>10 DEF Finish
    <2>2. WithinLimits(document.body) /\ Holds(found, PartsOf(document.body)) /\ found \in Mailed
      BY <2>1, WalkIsOver
    <2>3. LinksOf(found) \in Seq(Addresses)
      <3>1. found.text \in Seq(Bodies) /\ found.html \in Seq(Bodies)
        BY <2>2 DEF Mailed
      <3>2. /\ HrefsOf(found.html) \in Seq(Addresses)
            /\ ShownIn(found.text) \in Seq(Addresses) /\ ShownIn(found.html) \in Seq(Addresses)
        BY <3>1, PiecesHaveLinks
      <3>3. PICK h \in Seq(Addresses), t \in Seq(Addresses) : LinksOf(found) = h \o t
        BY <3>2, Zenon DEF LinksOf
      <3> QED BY <3>3, ConcatProperties
    <2> QED BY <1>0, <2>1, <2>2, <2>3, EndsRight
  <1> QED BY <1>1, <1>2, <1>3, <1>4, <1>5, <1>6, <1>7, <1>8, <1>9, <1>10, Zenon DEF ParserNext

\* A document is parsed whole or refused, whatever bodies are nested in it and
\* whatever the limits are.
THEOREM MailIsParsedWhole == RequestSpec => []ParsedIsWhole
  <1>1. RequestInit => ParserInv
    BY ParserInvInit DEF RequestInit
  <1>2. ParserInv /\ [RequestNext]_requestVars => ParserInv'
    <2> SUFFICES ASSUME ParserInv, [RequestNext]_requestVars PROVE ParserInv'
      OBVIOUS
    <2>1. CASE ParserNext
      BY <2>1, ParserInvStep
    <2>2. CASE UNCHANGED parserVars
      <3>1. UNCHANGED <<document, agenda, parts, found, links, parsed>>
        BY <2>2 DEF parserVars
      <3>2. (WalkIsRight' <=> WalkIsRight) /\ (ParsedIsWhole' <=> ParsedIsWhole)
        BY <3>1 DEF WalkIsRight, IsMessage, ParsedIsWhole, MessagesAreWhole, ParserOver,
                    LinksAreThoseShown
      <3> QED BY <3>1, <3>2, Zenon DEF ParserInv
    <2> QED BY <2>1, <2>2 DEF RequestNext, Parses, Analyses, Timeout, requestVars
  <1>3. ParserInv => ParsedIsWhole
    BY DEF ParserInv
  <1> QED BY <1>1, <1>2, <1>3, PTL DEF RequestSpec

-----------------------------------------------------------------------------
\* A request, with the steps of its parser hidden, is an analysis.
LEMMA RequestsAreAnalyses == RequestSpec => Init /\ [][Next]_vars
  <1>1. RequestInit => Init
    BY DEF RequestInit
  <1>2. [RequestNext]_requestVars => [Next]_vars
    BY DEF RequestNext, Parses, Analyses, Timeout, Next, requestVars
  <1> QED BY <1>1, <1>2, PTL DEF RequestSpec

\* Whatever document a request brings and however its parse goes, listings
\* decide, nothing is made up, quiet answers are complete and evidence never
\* acquits: the parser leaves the promises of the analysis alone.
THEOREM RequestsKeepThePromises ==
    RequestSpec => /\ []ListingsDecide /\ []OutageAddsNothing /\ []QuietMeansComplete
                   /\ EvidenceNeverAcquits
  <1>1. Init /\ [][Next]_vars => [](EvidenceInv /\ ResultStands)
    <2>1. Init => ResultStands
      BY DEF Init, ResultStands, Decided
    <2> QED BY <2>1, EvidenceInit, EvidenceStep, ResultStep, PTL
  <1>2. Init /\ [][Next]_vars => []QuietMeansComplete
    BY CompleteInit, CompleteStep, QuietIsComplete, PTL
  <1>3. Init /\ [][Next]_vars => EvidenceNeverAcquits
    BY WeighableInit, WeighableStep, MoreNeverAcquits, PTL DEF EvidenceNeverAcquits, NeverAcquits
  <1>4. EvidenceInv => OutageAddsNothing
    BY DEF EvidenceInv
  <1>5. ResultStands => ListingsDecide
    BY BlocklistRule, FeedRule DEF ResultStands, ListingsDecide, BlocklistDecides,
                                  FeedHitIsNotClean
  <1> QED BY <1>1, <1>2, <1>3, <1>4, <1>5, RequestsAreAnalyses, PTL
==============================================================================

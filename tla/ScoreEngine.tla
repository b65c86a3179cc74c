----------------------------- MODULE ScoreEngine -----------------------------
(***************************************************************************)
(* internal/score/engine.go: a set of signals and the language model's     *)
(* opinion become a score and a verdict.  Contributions are counted in     *)
(* hundredths (weight times a confidence in percent), so the arithmetic    *)
(* is exact where the program's float64 rounds.  The confidence, the       *)
(* attack type and the recommendations of an Analysis are left out: the    *)
(* verdict does not depend on them.                                        *)
(***************************************************************************)
EXTENDS Integers, FiniteSets, FiniteSetsExt

CONSTANTS
    Catalog,       \* signal id -> what the check that emits it bakes in
    Weights,       \* signal id -> weight, the ids data/weights.yaml names
    Thresholds     \* [phishing, suspicious], config.analysis.thresholds

Categories == {"header", "auth", "domain", "link", "attachment", "content",
               "brand", "reputation", "semantic"}

ASSUME CatalogAssumption ==
    \A id \in DOMAIN Catalog :
        /\ Catalog[id].weight \in Int
        /\ Catalog[id].confidence \in 1..100
        /\ Catalog[id].category \in Categories
        /\ Catalog[id].source \in {"heuristic", "dns", "ti", "llm"}

ASSUME WeightsAssumption == \A id \in DOMAIN Weights : Weights[id] \in Int

\* config.Validate: suspicious is lower than phishing, both are percentages.
ASSUME ThresholdsAssumption ==
    /\ Thresholds.phishing \in 1..100
    /\ Thresholds.suspicious \in 0..100
    /\ Thresholds.suspicious < Thresholds.phishing

Verdicts == {"clean", "suspicious", "needs_review", "phishing"}

-----------------------------------------------------------------------------
\* Configured weights override the defaults of the checks.
Weight(sig) ==
    IF sig.id \in DOMAIN Weights THEN Weights[sig.id] ELSE Catalog[sig.id].weight

Contribution(sig) == Weight(sig) * Catalog[sig.id].confidence

Raw(sigs) == MapThenSumSet(Contribution, sigs)

\* Fault: a sum past the top is taken for one below the bottom.
ClampSwapped(v) == IF v < 0 \/ v > 100 THEN 0 ELSE v

Clamp(v) == IF v < 0 THEN 0 ELSE IF v > 100 THEN 100 ELSE v

\* int(math.Round(raw)): below zero the clamp hides how halves are rounded.
ScoreOf(raw) == Clamp((raw + 50) \div 100)

-----------------------------------------------------------------------------
\* What the hard rules and the conflict rules look at.
Present(id, sigs) == \E sig \in sigs : sig.id = id

FeedHit(sigs) ==
    \E sig \in sigs : Catalog[sig.id].source = "ti" /\ Weight(sig) > 0

\* One technical check of weight 25 and confidence 0.8 is "strong".
Strong(sigs) ==
    \E sig \in sigs : /\ Catalog[sig.id].category # "semantic"
                      /\ Weight(sig) >= 25
                      /\ Catalog[sig.id].confidence >= 80

Facts(sigs, opinion) ==
    [blocklisted |-> Present("reputation.org_blocklist", sigs),
     allowlisted |-> Present("reputation.org_allowlist", sigs),
     feedHit     |-> FeedHit(sigs),
     strong      |-> Strong(sigs),
     cleared     |-> opinion = "clean"]

ByThreshold(score) ==
    IF score >= Thresholds.phishing THEN "phishing"
    ELSE IF score >= Thresholds.suspicious THEN "suspicious"
    ELSE "clean"

AtLeast(v, floor) == IF v >= floor THEN v ELSE floor

\* The hard rules: the organisation's block list decides, and a hit in a
\* threat feed is never clean.
HardRules(score, facts) ==
    IF facts.blocklisted
    THEN [score |-> AtLeast(score, Thresholds.phishing), verdict |-> "phishing"]
    ELSE IF facts.feedHit /\ ByThreshold(score) = "clean"
    THEN [score |-> AtLeast(score, Thresholds.suspicious), verdict |-> "suspicious"]
    ELSE [score |-> score, verdict |-> ByThreshold(score)]

\* Fault: conflicts are looked for under the block list too.
ConflictUnderBlocklist(ruled, facts) ==
    \/ facts.strong /\ facts.cleared /\ ruled.verdict # "clean"
    \/ facts.allowlisted /\ ruled.score >= Thresholds.phishing

Conflict(ruled, facts) ==
    /\ ~facts.blocklisted
    /\ \/ facts.strong /\ facts.cleared /\ ruled.verdict # "clean"
       \/ facts.allowlisted /\ ruled.score >= Thresholds.phishing

Judge(score, facts) ==
    LET ruled == HardRules(score, facts)
    IN  [ruled EXCEPT !.verdict = IF Conflict(ruled, facts)
                                  THEN "needs_review" ELSE @]

Evaluate(sigs, opinion) == Judge(ScoreOf(Raw(sigs)), Facts(sigs, opinion))
==============================================================================

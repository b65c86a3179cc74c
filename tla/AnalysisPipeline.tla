-------------------------- MODULE AnalysisPipeline ---------------------------
(***************************************************************************)
(* One analysis (internal/app/analyzer.go): parse, heuristics, reputation, *)
(* language model, semantic, score, persist.  The checks of a stage run    *)
(* one after another in id order (internal/signals/signals.go), each asks  *)
(* about the items of the message it covers (hosts, hops, attachments),    *)
(* and a lookup may fail.  The deadline of the analysis and the shorter    *)
(* one of the reputation stage may pass between any two steps.             *)
(***************************************************************************)
EXTENDS ScoreEngine, Sequences, SequencesExt

CONSTANTS
    Heuristics,    \* the local checks registered, in id order
    Items,         \* check -> how many items of a message it asks about
    Mails,         \* messages: the set of findings [id, item] true of each
    Opinions       \* verdicts the model may return

ReputationChecks == <<"reputation.domain_age", "reputation.domain_listed",
                      "reputation.ip_listed", "reputation.org_blocklist">>

Checks == Range(Heuristics) \cup Range(ReputationChecks)

\* How a check takes a failed lookup: it goes on and reports the first
\* error, it returns the error at once, or it takes the failure for "no".
Collecting == {"attachment.virustotal", "link.login_form", "reputation.domain_listed"}
Aborting   == {"header.received_ip_listed", "reputation.ip_listed"}
Silent     == {"reputation.domain_age", "reputation.org_blocklist"}

\* These return with their first finding.
FirstHit == {"header.received_ip_listed", "reputation.org_blocklist"}

\* The list check asks for the block list first, then for the allow list.
Emits(check, item) ==
    IF check = "reputation.org_blocklist" /\ item = 2
    THEN "reputation.org_allowlist" ELSE check

Finding(check, item) == [id |-> Emits(check, item), item |-> item]

Findings == UNION {{Finding(c, n) : n \in 1..Items[c]} : c \in Checks}

ASSUME PipelineAssumption ==
    /\ Heuristics \in Seq(DOMAIN Items)
    /\ "reputation.org_allowlist" \notin Range(Heuristics)
    /\ \A c \in Checks : Items[c] \in Nat
    /\ Mails \subseteq SUBSET Findings
    /\ \A f \in Findings : f.id \in DOMAIN Catalog

VARIABLES
    stage,      \* the stage the analysis is in
    mail,       \* what is true of the message
    online,     \* a reputation client is configured
    llm,        \* a language model is configured and asked for
    live,       \* the deadlines not yet passed: "analysis", "reputation"
    queue,      \* the checks of the stage still to run, the head running
    asking,     \* whether the head of the queue has been started
    todo,       \* the items it has not asked about
    hits,       \* the findings it has collected
    failed,     \* whether it keeps an error
    signals,    \* the signals of the finished checks
    opinion,    \* the verdict the model gave, or "none"
    warnings,   \* the kinds of warnings and the checks they name
    result,     \* the score and the verdict, or Pending
    stored      \* whether the result was saved

checkVars == <<queue, asking, todo, hits, failed>>
inputs == <<mail, online, llm>>
vars == <<stage, inputs, live, checkVars, signals, opinion, warnings, result, stored>>

-----------------------------------------------------------------------------
Pending == [score |-> 0, verdict |-> "pending"]

\* The opinion as a signal: the summary of one highlighted span.
Semantic == [phishing   |-> "semantic.llm_phishing",
             suspicious |-> "semantic.llm_suspicious",
             clean      |-> "semantic.llm_clean"]

SemanticSignals(op) ==
    IF op \in DOMAIN Semantic THEN {[id |-> Semantic[op], item |-> 1]} ELSE {}

ASSUME SemanticAssumption ==
    \A op \in Opinions : \A sig \in SemanticSignals(op) : sig.id \in DOMAIN Catalog

Warn(kind, check) == [kind |-> kind, check |-> check]

StageOf(check) == IF check \in Range(ReputationChecks) THEN "reputation" ELSE "heuristics"

CheckWarning(check) ==
    Warn(IF StageOf(check) = "reputation" THEN "reputation_degraded" ELSE "check_failed", check)

\* The context a stage hands to its checks.
ContextEnded == IF stage = "reputation" THEN "reputation" \notin live
                                        ELSE "analysis" \notin live

\* Without a client the network checks return before they ask.
NeedsClient(check) ==
    check \in (Collecting \cup Aborting \cup Silent)
              \ {"reputation.org_blocklist", "link.login_form"}

ItemsOf(check) == IF NeedsClient(check) /\ ~online THEN {} ELSE 1..Items[check]

TypeOK ==
    /\ stage \in {"parse", "heuristics", "reputation", "llm", "semantic",
                  "score", "persist", "done", "refused"}
    /\ mail \in Mails
    /\ online \in BOOLEAN /\ llm \in BOOLEAN
    /\ live \subseteq {"analysis", "reputation"}
    /\ queue \in Seq(Checks)
    /\ asking \in BOOLEAN /\ failed \in BOOLEAN
    /\ todo \subseteq Nat
    /\ hits \subseteq Findings
    /\ signals \subseteq Findings \cup UNION {SemanticSignals(op) : op \in Opinions}
    /\ opinion \in Opinions \cup {"none"}
    /\ result.verdict \in Verdicts \cup {"pending"} /\ result.score \in 0..100
    /\ stored \in BOOLEAN

Init ==
    /\ stage = "parse"
    /\ mail \in Mails
    /\ online \in BOOLEAN /\ llm \in BOOLEAN
    /\ live = {"analysis", "reputation"}
    /\ queue = <<>> /\ asking = FALSE /\ todo = {} /\ hits = {} /\ failed = FALSE
    /\ signals = {} /\ opinion = "none" /\ warnings = {}
    /\ result = Pending /\ stored = FALSE

-----------------------------------------------------------------------------
\* 1. Parse: the message is refused or the heuristics begin, with a warning
\* when nothing reads the text of a picture.
Parse ==
    /\ stage = "parse"
    /\ \/ stage' = "refused" /\ UNCHANGED <<queue, warnings>>
       \/ /\ stage' = "heuristics" /\ queue' = Heuristics
          /\ warnings' \in {warnings, warnings \cup {Warn("ocr_unavailable", "parse")}}
    /\ UNCHANGED <<inputs, live, asking, todo, hits, failed, signals, opinion,
                   result, stored>>

\* RunCategories takes the next check, unless its context has ended: then it
\* reports that once and drops the checks left.
StartCheck ==
    /\ queue # <<>> /\ ~asking
    /\ IF ContextEnded
       THEN /\ queue' = <<>>
            /\ warnings' = warnings \cup {CheckWarning(Head(queue))}
            /\ UNCHANGED <<asking, todo>>
       ELSE /\ asking' = TRUE
            /\ todo' = ItemsOf(Head(queue))
            /\ UNCHANGED <<queue, warnings>>
    /\ UNCHANGED <<stage, inputs, live, hits, failed, signals, opinion, result, stored>>

\* The check asks about its next item and is told what is true of it.
Answered(item) ==
    LET check == Head(queue)
        hit   == Finding(check, item) \in mail
    IN  /\ hits' = IF hit THEN hits \cup {Finding(check, item)} ELSE hits
        /\ todo' = IF hit /\ check \in FirstHit THEN {} ELSE todo \ {item}
        /\ UNCHANGED failed

\* Fault: the failed lookup of a collecting check leaves "listed" set.
FailureCountsAsHit(item) ==
    LET check == Head(queue)
    IN  /\ check \in Collecting \cup Aborting \cup Silent
        /\ hits' = hits \cup {Finding(check, item)}
        /\ todo' = todo \ {item}
        /\ UNCHANGED failed

\* The lookup fails: no answer, a breaker that is open, a deadline.
LookupFails(item) ==
    LET check == Head(queue)
    IN  /\ check \in Collecting \cup Aborting \cup Silent
        /\ failed' = (failed \/ check \notin Silent)
        /\ todo' = IF check \in Aborting THEN {} ELSE todo \ {item}
        /\ hits' = hits

Lookup ==
    /\ asking /\ todo # {}
    /\ LET item == Min(todo) IN Answered(item) \/ LookupFails(item)
    /\ UNCHANGED <<stage, inputs, live, queue, asking, signals, opinion,
                   warnings, result, stored>>

\* Fault: the error of a check is dropped with its signals.
FinishWithoutWarning ==
    /\ asking /\ todo = {}
    /\ signals' = IF failed THEN signals ELSE signals \cup hits
    /\ queue' = Tail(queue) /\ asking' = FALSE /\ hits' = {} /\ failed' = FALSE
    /\ UNCHANGED <<stage, inputs, live, todo, opinion, warnings, result, stored>>

\* Fault: a check that failed is run again.
FinishAndRetry ==
    /\ asking /\ todo = {}
    /\ signals' = IF failed THEN signals ELSE signals \cup hits
    /\ queue' = IF failed THEN queue ELSE Tail(queue)
    /\ asking' = FALSE /\ hits' = {} /\ failed' = FALSE
    /\ UNCHANGED <<stage, inputs, live, todo, opinion, warnings, result, stored>>

\* The check returns: its signals count only if it returned no error.
FinishCheck ==
    /\ asking /\ todo = {}
    /\ IF failed
       THEN warnings' = warnings \cup {CheckWarning(Head(queue))} /\ UNCHANGED signals
       ELSE signals' = signals \cup hits /\ UNCHANGED warnings
    /\ queue' = Tail(queue) /\ asking' = FALSE /\ hits' = {} /\ failed' = FALSE
    /\ UNCHANGED <<stage, inputs, live, todo, opinion, result, stored>>

\* 3 to 4 and 4 to 5: a stage ends when its queue is empty.
BeginReputation ==
    /\ stage = "heuristics" /\ queue = <<>>
    /\ stage' = "reputation" /\ queue' = ReputationChecks
    /\ UNCHANGED <<inputs, live, asking, todo, hits, failed, signals, opinion,
                   warnings, result, stored>>

EndReputation ==
    /\ stage = "reputation" /\ queue = <<>>
    /\ stage' = IF llm THEN "llm" ELSE "score"
    /\ live' = live \ {"reputation"}
    /\ UNCHANGED <<inputs, checkVars, signals, opinion, warnings, result, stored>>

\* 5. The model gives its opinion (a cached one even after the deadline) or
\* the chain of providers fails.
Explain ==
    /\ stage = "llm"
    /\ \/ \E op \in Opinions :
            opinion' = op /\ stage' = "semantic" /\ UNCHANGED warnings
       \/ /\ warnings' = warnings \cup {Warn("llm_unavailable", "llm")}
          /\ stage' = "score" /\ UNCHANGED opinion
    /\ UNCHANGED <<inputs, live, checkVars, signals, result, stored>>

\* 6. The opinion becomes a signal.  The stage drops the error it gets when
\* the deadline has passed.
Interpret ==
    /\ stage = "semantic"
    /\ signals' = signals \cup IF ContextEnded THEN {} ELSE SemanticSignals(opinion)
    /\ stage' = "score"
    /\ UNCHANGED <<inputs, live, checkVars, opinion, warnings, result, stored>>

\* 7. Score and verdict.
Score ==
    /\ stage = "score"
    /\ result' = Evaluate(signals, opinion)
    /\ stage' = "persist"
    /\ UNCHANGED <<inputs, live, checkVars, signals, opinion, warnings, stored>>

\* 8. Persist: a storage failure is one more warning, the verdict is returned.
Persist ==
    /\ stage = "persist"
    /\ \/ stored' = TRUE /\ UNCHANGED warnings
       \/ stored' = FALSE /\ warnings' = warnings \cup {Warn("store_failed", "store")}
    /\ stage' = "done"
    /\ UNCHANGED <<inputs, live, checkVars, signals, opinion, result>>

\* A deadline passes; the reputation stage's lies within the analysis's.
DeadlinePasses ==
    /\ stage \notin {"parse", "persist", "done", "refused"}
    /\ \/ "analysis" \in live /\ live' = {}
       \/ stage = "reputation" /\ "reputation" \in live /\ live' = live \ {"reputation"}
    /\ UNCHANGED <<stage, inputs, checkVars, signals, opinion, warnings, result, stored>>

Work == Parse \/ StartCheck \/ Lookup \/ FinishCheck \/ BeginReputation
        \/ EndReputation \/ Explain \/ Interpret \/ Score \/ Persist

Next == Work \/ DeadlinePasses

\* The analysis is one goroutine: it keeps running, and every lookup returns,
\* because every client has a timeout of its own.
Spec == Init /\ [][Next]_vars /\ WF_vars(Work)
-----------------------------------------------------------------------------
Decided == stage \in {"persist", "done"}

\* An entry of the organisation's block list that was read decides, whatever
\* the allow list, the other checks and the model say (orgLists and the hard
\* rules of Evaluate).
BlocklistDecides ==
    Decided /\ Present("reputation.org_blocklist", signals) =>
        result.verdict = "phishing" /\ result.score >= Thresholds.phishing

\* An outage never becomes evidence: every signal is a finding true of the
\* message or the opinion the model really gave (client.go: "Provider failures
\* degrade to unknown and never create a positive signal").
OutageAddsNothing == signals \subseteq mail \cup SemanticSignals(opinion)

\* A host or hop found in a threat feed is never reported clean, whatever
\* official alignment, the allow list or the model subtract.
FeedHitIsNotClean == Decided /\ FeedHit(signals) => result.verdict # "clean"

\* What the organisation or a feed has listed decides (the two rules above),
\* whatever deadline, outage, allow list or model came in between.
ListingsDecide == BlocklistDecides /\ FeedHitIsNotClean

\* What is true of the message in the eyes of a check is among the signals,
\* or the finding it returned with instead.
Reported(check, sigs) ==
    \A f \in mail : f.id = check =>
        f \in sigs \/ (check \in FirstHit /\ Present(check, sigs))

\* A quiet analysis is a complete one: when no warning is given, every finding
\* of a check that can report a failed lookup is among the signals, or the
\* first one where the check looks no further (signals.go, RunCategories, and
\* what each check does with an error).
QuietMeansComplete ==
    Decided /\ warnings \subseteq {Warn("store_failed", "store")} =>
        \A c \in Checks \ Silent : online \/ ~NeedsClient(c) => Reported(c, signals)

\* More evidence never acquits: a message that would be flagged on the
\* signals so far is still flagged once a check adds findings that weigh
\* against it (thresholds, hard rules and conflicts of Evaluate together).
EvidenceNeverAcquits ==
    [][ \A op \in {"none", opinion'} :
          /\ signals \subseteq signals'
          /\ \A s \in signals' \ signals : Weight(s) > 0
          /\ Evaluate(signals, op).verdict # "clean"
          => Evaluate(signals', op).verdict # "clean" ]_signals

\* Every request is answered or refused, whichever lookups fail and whenever
\* the deadlines pass.
EveryRequestEnds == (stage = "parse") ~> (stage \in {"done", "refused"})

==============================================================================

---------------------------- MODULE Submissions ----------------------------
(***************************************************************************)
(* The life of a submission: the asynchronous POST /v1/analyze, the        *)
(* analyst and reporter handlers, DELETE, the retention loop, and process  *)
(* restarts, all working on the tables of SubmissionStore.                 *)
(***************************************************************************)
EXTENDS SubmissionStore, Naturals

CONSTANTS
    Workers,        \* request goroutines that may be in flight at once
    Analysts,       \* principals with role analyst or admin
    NoOrg,          \* the empty organisation: not restricted to a tenant
    OrgOf,          \* organisation of a submission's submitter
    PrincipalOrg,   \* organisation of a principal
    Targets,        \* review statuses the requests ask for (bound)
    MaxMishaps      \* restarts and storage errors in one behaviour (bound)

ASSUME SubmissionsAssumption ==
    /\ Analysts \subseteq Principals
    /\ Targets \subseteq ReviewStatuses
    /\ MaxMishaps \in Nat

VARIABLES
    job,        \* the detached analysis goroutine of an id
    reply,      \* what the client of POST /v1/analyze has been told
    task,       \* the request each worker serves
    purge,      \* the retention goroutine
    deletes,    \* history: ids a DELETE request has begun to remove
    mishaps     \* restarts and storage errors so far

jobVars == <<job, reply>>
vars == <<storeVars, jobVars, task, purge, deletes, mishaps>>

-----------------------------------------------------------------------------
\* "undo-*": the analysis failed and its goroutine runs DeleteSubmission.
Jobs == {"unused", "running", "undo-signals", "undo-analyses", "undo-row",
         "stored", "unstored", "failed", "undeleted", "lost"}

\* The analysis goroutine no longer exists.
Over == {"stored", "unstored", "failed", "undeleted", "lost"}

Replies == {"none", "waiting", "ok", "error", "accepted", "dropped"}

Ops == {"review", "report", "incident", "bulk", "delete"}

Task == [op   : Ops,
         pc   : {"reload", "update", "signals", "analyses", "row"},
         id   : Ids,
         todo : SUBSET Ids,            \* ids a bulk action has yet to visit
         by   : Principals,
         to   : ReviewStatuses]

Idle == [op |-> "idle"]

At(w, pc) == task[w] # Idle /\ task[w].pc = pc

Purge == [pc     : {"idle", "iocs", "signals", "analyses", "rows"},
          cutoff : SUBSET Ids]

TypeOK ==
    /\ StoreTypeOK
    /\ job \in [Ids -> Jobs]
    /\ reply \in [Ids -> Replies]
    /\ task \in [Workers -> Task \cup {Idle}]
    /\ purge \in Purge
    /\ deletes \in SUBSET Ids
    /\ mishaps \in 0..MaxMishaps

Init ==
    /\ StoreInit
    /\ job = [id \in Ids |-> "unused"]
    /\ reply = [id \in Ids |-> "none"]
    /\ task = [w \in Workers |-> Idle]
    /\ purge = [pc |-> "idle", cutoff |-> {}]
    /\ deletes = {}
    /\ mishaps = 0

-----------------------------------------------------------------------------
(* POST /v1/analyze: reserve the row, start the detached goroutine, wait at *)
(* most the sync budget.  Every other channel calls Analyze directly.       *)

SetJob(id, phase) == job' = [job EXCEPT ![id] = phase]

Mishap ==
    /\ mishaps < MaxMishaps
    /\ mishaps' = mishaps + 1

Reserve(id) ==
    /\ job[id] = "unused"
    /\ SaveReservation(id)
    /\ SetJob(id, "running")
    /\ reply' = [reply EXCEPT ![id] = "waiting"]
    /\ UNCHANGED <<task, purge, deletes, mishaps>>

\* SaveSubmission of the reservation failed: 500, no goroutine, no row.
ReserveFails(id) ==
    /\ job[id] = "unused"
    /\ Mishap
    /\ SetJob(id, "failed")
    /\ reply' = [reply EXCEPT ![id] = "error"]
    /\ UNCHANGED <<storeVars, task, purge, deletes>>

\* Analyze reaches its end; a storage error only becomes a warning.
JobStores(id) ==
    /\ job[id] = "running"
    /\ SaveResult(id)
    /\ SetJob(id, "stored")
    /\ UNCHANGED <<reply, task, purge, deletes, mishaps>>

JobStoreFails(id) ==
    /\ job[id] = "running"
    /\ Mishap
    /\ SetJob(id, "unstored")
    /\ UNCHANGED <<storeVars, reply, task, purge, deletes>>

\* Fault: the reservation is not dropped.
JobFailsKeepsRow(id) ==
    /\ job[id] = "running"
    /\ SetJob(id, "failed")
    /\ UNCHANGED <<storeVars, reply, task, purge, deletes, mishaps>>

\* Analyze returns an error (unparsable, empty or oversized input): the
\* goroutine drops the reservation with the three statements of
\* DeleteSubmission and ignores their errors.
JobFails(id) ==
    /\ job[id] = "running"
    /\ SetJob(id, "undo-signals")
    /\ UNCHANGED <<storeVars, reply, task, purge, deletes, mishaps>>

JobUndoes(id) ==
    /\ \/ /\ job[id] = "undo-signals"
          /\ DeleteChildren("signals", {id})
          /\ SetJob(id, "undo-analyses")
       \/ /\ job[id] = "undo-analyses"
          /\ DeleteChildren("analyses", {id})
          /\ SetJob(id, "undo-row")
       \/ /\ job[id] = "undo-row"
          /\ DeleteRows({id})
          /\ SetJob(id, "failed")
    /\ UNCHANGED <<reply, task, purge, deletes, mishaps>>

JobUndoFails(id) ==
    /\ job[id] \in {"undo-signals", "undo-analyses", "undo-row"}
    /\ Mishap
    /\ SetJob(id, "undeleted")
    /\ UNCHANGED <<storeVars, reply, task, purge, deletes>>

\* The handler's select: the result channel or the timer.
Answer(id) ==
    /\ reply[id] = "waiting"
    /\ job[id] \in Over
    /\ reply' = [reply EXCEPT ![id] =
                   IF job[id] \in {"stored", "unstored"} THEN "ok" ELSE "error"]
    /\ UNCHANGED <<storeVars, job, task, purge, deletes, mishaps>>

SyncBudgetEnds(id) ==
    /\ reply[id] = "waiting"
    /\ reply' = [reply EXCEPT ![id] = "accepted"]
    /\ UNCHANGED <<storeVars, job, task, purge, deletes, mishaps>>

\* Analyze called by the CLI, the web form or an ingest receiver: the final
\* SaveSubmission is the first and only write.
AnalyzeElsewhere(id) ==
    /\ job[id] = "unused"
    /\ \/ /\ SaveResult(id)
          /\ SetJob(id, "stored")
          /\ UNCHANGED mishaps
       \/ /\ Mishap
          /\ SetJob(id, "unstored")
          /\ UNCHANGED storeVars
    /\ UNCHANGED <<reply, task, purge, deletes>>

-----------------------------------------------------------------------------
(* The handlers that change an existing submission.  A worker reads the     *)
(* row and the caller's organisation first and writes in later statements.  *)

\* Fault: the organisation of the caller is not compared.
MayActIgnoresOrg(p, id) == TRUE

MayAct(p, id) == PrincipalOrg[p] \in {NoOrg, OrgOf[id]}

Admitted(t) ==
    /\ Stored(t.id)
    /\ MayAct(t.by, t.id)
    /\ t.op = "report" => submissions[t.id].status \notin Confirmed

\* A request arrives and its first statement reads the row: submissionForActor,
\* the report handler's 409, BulkStatus's reload.  A request that is refused
\* changes nothing and is no step.
Begin(w) ==
    /\ task[w] = Idle
    /\ \E t \in Task :
         /\ t.pc = IF t.op = "delete" THEN "signals" ELSE "update"
         /\ t.op # "report" => t.by \in Analysts
         /\ t.to \in CASE t.op \in {"review", "bulk"} -> Targets
                       [] t.op = "incident" -> {"escalated"}
                       [] OTHER -> {"in_review"}
         /\ IF t.op = "bulk" THEN t.id \in t.todo ELSE t.todo = {}
         /\ Admitted(t)
         /\ task' = [task EXCEPT ![w] = t]
    /\ UNCHANGED <<storeVars, jobVars, purge, deletes, mishaps>>

\* 404, an SQL error or a disconnected client ends the request; what its
\* earlier statements did stays done.
Abandon(w) ==
    /\ task[w] # Idle
    /\ task' = [task EXCEPT ![w] = Idle]
    /\ UNCHANGED <<storeVars, jobVars, purge, deletes, mishaps>>

\* A bulk action reloads and checks each item before it changes it.
Reload(w) ==
    /\ At(w, "reload")
    /\ Admitted(task[w])
    /\ task' = [task EXCEPT ![w].pc = "update"]
    /\ UNCHANGED <<storeVars, jobVars, purge, deletes, mishaps>>

\* The status is written whatever the row holds by now; no row is ErrNotFound.
\* A bulk action goes on with the next id of its list, which may name an id
\* again; every other request is answered.
Update(w) ==
    /\ At(w, "update")
    /\ UpdateSubmissionStatus(task[w].id, task[w].to, task[w].by)
    /\ \E rest \in {task[w].todo, task[w].todo \ {task[w].id}} :
         IF Stored(task[w].id) /\ rest # {}
         THEN \E next \in rest :
                task' = [task EXCEPT ![w].pc = "reload", ![w].id = next,
                                     ![w].todo = rest]
         ELSE task' = [task EXCEPT ![w] = Idle]
    /\ UNCHANGED <<jobVars, purge, deletes, mishaps>>

\* DeleteSubmission: three statements and no transaction.
Delete(w) ==
    LET id == task[w].id IN
    /\ \/ /\ At(w, "signals")
          /\ DeleteChildren("signals", {id})
          /\ task' = [task EXCEPT ![w].pc = "analyses"]
       \/ /\ At(w, "analyses")
          /\ DeleteChildren("analyses", {id})
          /\ task' = [task EXCEPT ![w].pc = "row"]
       \/ /\ At(w, "row")
          /\ DeleteRows({id})
          /\ task' = [task EXCEPT ![w] = Idle]
    /\ deletes' = deletes \cup {id}
    /\ UNCHANGED <<jobVars, purge, mishaps>>

-----------------------------------------------------------------------------
(* retentionLoop and PurgeOlderThan: the cutoff is fixed when the purge     *)
(* starts, the rows it selects are looked up again by every statement.      *)

\* An analysis lasts seconds and the retention period days: only the row of
\* a goroutine that is over can expire.
Expire(id) ==
    /\ Stored(id) /\ id \notin old
    /\ job[id] \in Over
    /\ Age(id)
    /\ UNCHANGED <<jobVars, task, purge, deletes, mishaps>>

StartPurge ==
    /\ purge.pc = "idle"
    /\ Expired(old) # {}
    /\ purge' = [pc |-> "iocs", cutoff |-> old]
    /\ UNCHANGED <<storeVars, jobVars, task, deletes, mishaps>>

PurgeOlderThan ==
    /\ \/ /\ purge.pc = "iocs"
          /\ DeleteChildren("submission_iocs", Expired(purge.cutoff))
          /\ purge' = [purge EXCEPT !.pc = "signals"]
       \/ /\ purge.pc = "signals"
          /\ DeleteChildren("signals", Expired(purge.cutoff))
          /\ purge' = [purge EXCEPT !.pc = "analyses"]
       \/ /\ purge.pc = "analyses"
          /\ DeleteChildren("analyses", Expired(purge.cutoff))
          /\ purge' = [purge EXCEPT !.pc = "rows"]
       \/ /\ purge.pc = "rows"
          /\ DeleteRows(Expired(purge.cutoff))
          /\ purge' = [pc |-> "idle", cutoff |-> {}]
    /\ UNCHANGED <<jobVars, task, deletes, mishaps>>

\* A statement of the purge fails; the loop tries again an hour later.
PurgeFails ==
    /\ purge.pc # "idle"
    /\ Mishap
    /\ purge' = [pc |-> "idle", cutoff |-> {}]
    /\ UNCHANGED <<storeVars, jobVars, task, deletes>>

\* The process stops and starts again: only the tables survive.  Shutdown
\* waits for requests, not for the detached goroutines, so it loses the
\* analyses behind a 202 just as a crash does.
Restart ==
    /\ Mishap
    /\ job' = [id \in Ids |-> IF job[id] \in Over \cup {"unused"}
                              THEN job[id] ELSE "lost"]
    /\ reply' = [id \in Ids |-> IF reply[id] = "waiting"
                                THEN "dropped" ELSE reply[id]]
    /\ task' = [w \in Workers |-> Idle]
    /\ purge' = [pc |-> "idle", cutoff |-> {}]
    /\ UNCHANGED <<storeVars, deletes>>

-----------------------------------------------------------------------------
JobStep(id) ==
    JobStores(id) \/ JobStoreFails(id) \/ JobFails(id) \/ JobUndoes(id)
        \/ JobUndoFails(id)

Next ==
    \/ \E id \in Ids :
         \/ Reserve(id) \/ ReserveFails(id) \/ AnalyzeElsewhere(id)
         \/ JobStep(id)
         \/ Answer(id) \/ SyncBudgetEnds(id)
         \/ Expire(id)
    \/ \E w \in Workers : Begin(w) \/ Abandon(w) \/ Reload(w) \/ Update(w) \/ Delete(w)
    \/ StartPurge \/ PurgeOlderThan \/ PurgeFails
    \/ Restart

Spec == Init /\ [][Next]_vars

\* The scheduler runs every goroutine, an analysis is bounded by its own
\* timeout, the retention ticker fires and time passes.
FairSpec ==
    /\ Spec
    /\ \A id \in Ids : WF_vars(JobStep(id)) /\ WF_vars(Answer(id))
    /\ \A id \in Ids : WF_vars(Expire(id))
    /\ WF_vars(StartPurge) /\ WF_vars(PurgeOlderThan)

-----------------------------------------------------------------------------
(* Properties *)

\* A stored analysis and its row agree: SaveSubmission writes both in one
\* transaction and no handler sets "processing", so a client that polls never
\* reads a result on a row that still says "processing", whatever reviews and
\* deletions ran meanwhile (SaveSubmission, UpdateSubmissionStatus).
ResultNotProcessing ==
    \A id \in Ids : Stored(id) /\ "analyses" \in children[id]
                        => submissions[id].status # "processing"

\* A row under review names a caller of the submission's own organisation, and
\* a decision names an analyst and carries its time: the final save resets the
\* reviewer and the status together, so no interleaving leaves a decision whose
\* author is missing or from another tenant (handleReview, BulkStatus,
\* CreateIncident, handleReportSubmission, SaveSubmission).
DecisionHasReviewer ==
    \A id \in Ids :
        LET row == submissions[id] IN
        row.status \in ReviewStatuses =>
            /\ row.reviewedBy \in Principals
            /\ PrincipalOrg[row.reviewedBy] \in {NoOrg, OrgOf[id]}
            /\ row.status \in Decided => row.reviewedAt = "set"
                                           /\ row.reviewedBy \in Analysts

\* What POST /v1/analyze said can be polled.  While the analysis runs its row
\* is there, and once the save succeeded the row, its analysis, signals and
\* indicators are complete, until a DELETE or the retention period removes
\* them: the goroutine saves before it answers and nothing else drops a row
\* (handleAnalyze, Analyze, DeleteSubmission, PurgeOlderThan).
AnswerCanBePolled ==
    \A id \in Ids \ deletes :
        /\ job[id] = "running" => Stored(id)
        /\ job[id] = "stored" /\ id \notin old
               => Stored(id) /\ children[id] = Tables

\* A failed analysis leaves nothing behind: by the time the goroutine is over
\* its reservation is gone, and no review that raced with it brought the row
\* back (handleAnalyze's DeleteSubmission before the result is sent).
FailedLeavesNothing ==
    \A id \in Ids : job[id] = "failed" => ~Stored(id) /\ children[id] = {}

\* Dependent rows never outlive their submission, whichever statements of a
\* purge ran before a failure or a restart, with one exception: on SQLite,
\* where the cascade is off, an id that a DELETE request touched.
NoOrphanRows ==
    \A id \in Ids :
        ~Stored(id) /\ (backend = "postgres" \/ id \notin deletes)
            => children[id] = {}

\* Failures, purges and restarts leave no rows without their submission, and
\* a failed analysis leaves no submission (the two conditions above).
NothingLeftBehind == FailedLeavesNothing /\ NoOrphanRows

\* Only an id's own analysis creates its row: once that goroutine is over, a
\* deleted or purged submission stays gone, whatever requests were in flight.
GoneStaysGone ==
    [][\A id \in Ids : job[id] \in Over /\ ~Stored(id) => ~Stored(id)']_vars

\* No submission stays "processing" for ever: its analysis ends and settles
\* the row, or, when a restart or a storage error lost that analysis, the row
\* expires and the retention loop removes it.
ProcessingEnds ==
    \A id \in Ids :
        submissions[id].status = "processing"
            ~> submissions[id].status # "processing"

\* (Refinement) The tables and goroutines implement the polled resource.
Resource == INSTANCE AnalysisResource WITH
    phase   <- [id \in Ids |-> IF job[id] = "unused" THEN "new"
                               ELSE IF job[id] \in Over THEN "closed" ELSE "open"],
    visible <- {id \in Ids : Stored(id)},
    result  <- {id \in Ids : Stored(id) /\ "analyses" \in children[id]}

ImplementsResource == Resource!Spec

\* sqlite.go says DeleteSubmission "removes a submission and its children
\* (privacy: DELETE /v1/submissions/{id})": once the row is gone and no
\* analysis runs, nothing of it is left in any table.
DeletedLeavesNothing ==
    \A id \in deletes : ~Stored(id) /\ job[id] \in Over => children[id] = {}

=============================================================================

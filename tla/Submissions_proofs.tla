------------------------- MODULE Submissions_proofs -------------------------
(***************************************************************************)
(* The safety properties of the submissions' life and of the readers that  *)
(* list them, for every set of ids, workers and principals, every bound,   *)
(* every assignment of tenants and every page size.                        *)
(***************************************************************************)
EXTENDS Submissions, Listings, FiniteSetTheorems, WellFoundedInduction, TLAPS

-----------------------------------------------------------------------------
(* The statements keep the tables well typed. *)

LEMMA NoRowIsRow == NoRow \in Row
  BY DEF NoRow, Row

LEMMA UpsertIsRow ==
    ASSUME StoreTypeOK, NEW id \in Ids, NEW status \in Statuses, NEW body \in BOOLEAN
    PROVE  Upsert(id, status, body) \in Row
  BY DEF StoreTypeOK, Upsert, Row

LEMMA SaveReservationType ==
    ASSUME StoreTypeOK, NEW id \in Ids, SaveReservation(id)
    PROVE  StoreTypeOK'
<1>1. Upsert(id, "processing", FALSE) \in Row
  BY UpsertIsRow DEF Statuses
<1>2. QED
  BY <1>1 DEF StoreTypeOK, SaveReservation

LEMMA SaveResultType ==
    ASSUME StoreTypeOK, NEW id \in Ids, SaveResult(id)
    PROVE  StoreTypeOK'
<1>1. Upsert(id, "analyzed", StoreBodies) \in Row
  BY UpsertIsRow, StoreAssumption DEF Statuses
<1>2. QED
  BY <1>1 DEF StoreTypeOK, SaveResult

LEMMA UpdateType ==
    ASSUME StoreTypeOK, NEW id \in Ids, NEW by \in Principals,
           NEW status \in ReviewStatuses, UpdateSubmissionStatus(id, status, by)
    PROVE  StoreTypeOK'
<1>1. submissions' \in [Ids -> Row]
  <2>1. [submissions[id] EXCEPT !.status = status, !.reviewedBy = by,
                                !.reviewedAt = ReviewTime(status)] \in Row
    BY DEF StoreTypeOK, Row, Statuses, ReviewTime
  <2>2. QED
    BY <2>1 DEF StoreTypeOK, UpdateSubmissionStatus
<1>2. QED
  BY <1>1 DEF StoreTypeOK, UpdateSubmissionStatus

LEMMA DeleteChildrenType ==
    ASSUME StoreTypeOK, NEW table, NEW ids, DeleteChildren(table, ids)
    PROVE  StoreTypeOK'
  BY DEF StoreTypeOK, DeleteChildren

LEMMA DeleteRowsType ==
    ASSUME StoreTypeOK, NEW ids, DeleteRows(ids)
    PROVE  StoreTypeOK'
  BY NoRowIsRow DEF StoreTypeOK, DeleteRows

LEMMA MishapType ==
    ASSUME mishaps \in 0..MaxMishaps, Mishap
    PROVE  mishaps' \in 0..MaxMishaps
  BY SubmissionsAssumption DEF Mishap

-----------------------------------------------------------------------------
\* Every variable keeps its type: in particular no statement invents a status
\* or a dependent table, and a request only ever names known principals.
THEOREM TypeCorrect == Spec => []TypeOK
<1>1. Init => TypeOK
  BY NoRowIsRow, SubmissionsAssumption
     DEF Init, StoreInit, TypeOK, StoreTypeOK, Jobs, Replies, Purge
<1>2. TypeOK /\ [Next]_vars => TypeOK'
  <2> SUFFICES ASSUME TypeOK, [Next]_vars PROVE TypeOK'
    OBVIOUS
  <2> USE DEF TypeOK, jobVars, storeVars
  <2>1. ASSUME NEW id \in Ids, Reserve(id) PROVE TypeOK'
    BY <2>1, SaveReservationType DEF Reserve, SetJob, Jobs, Replies
  <2>2. ASSUME NEW id \in Ids, ReserveFails(id) PROVE TypeOK'
    BY <2>2, MishapType DEF ReserveFails, SetJob, Jobs, Replies, StoreTypeOK
  <2>3. ASSUME NEW id \in Ids, AnalyzeElsewhere(id) PROVE TypeOK'
    BY <2>3, SaveResultType, MishapType DEF AnalyzeElsewhere, SetJob, Jobs, StoreTypeOK
  <2>4. ASSUME NEW id \in Ids, JobStep(id) PROVE TypeOK'
    <3>1. CASE JobStores(id)
      BY <3>1, SaveResultType DEF JobStores, SetJob, Jobs
    <3>2. CASE JobStoreFails(id)
      BY <3>2, MishapType DEF JobStoreFails, SetJob, Jobs, StoreTypeOK
    <3>3. CASE JobFails(id)
      BY <3>3 DEF JobFails, SetJob, Jobs, StoreTypeOK
    <3>4. CASE JobUndoes(id)
      BY <3>4, DeleteChildrenType, DeleteRowsType DEF JobUndoes, SetJob, Jobs
    <3>5. CASE JobUndoFails(id)
      BY <3>5, MishapType DEF JobUndoFails, SetJob, Jobs, StoreTypeOK
    <3>6. QED
      BY <2>4, <3>1, <3>2, <3>3, <3>4, <3>5 DEF JobStep
  <2>5. ASSUME NEW id \in Ids, Answer(id) \/ SyncBudgetEnds(id) PROVE TypeOK'
    BY <2>5 DEF Answer, SyncBudgetEnds, Replies, StoreTypeOK
  <2>6. ASSUME NEW id \in Ids, Expire(id) PROVE TypeOK'
    BY <2>6 DEF Expire, Age, StoreTypeOK
  <2>7. ASSUME NEW w \in Workers, Begin(w) PROVE TypeOK'
    BY <2>7 DEF Begin, StoreTypeOK
  <2>8. ASSUME NEW w \in Workers, Abandon(w) PROVE TypeOK'
    BY <2>8 DEF Abandon, StoreTypeOK
  <2>9. ASSUME NEW w \in Workers, Reload(w) PROVE TypeOK'
    BY <2>9 DEF Reload, At, Task, StoreTypeOK
  <2>10. ASSUME NEW w \in Workers, Update(w) PROVE TypeOK'
    <3>1. task[w] \in Task
      BY <2>10 DEF Update, At
    <3>2. StoreTypeOK'
      BY <2>10, <3>1, UpdateType DEF Update, Task
    <3>3. task' \in [Workers -> Task \cup {Idle}]
      <4>1. ASSUME NEW rest \in SUBSET task[w].todo, NEW next \in rest
            PROVE  [task[w] EXCEPT !.pc = "reload", !.id = next, !.todo = rest] \in Task
        BY <3>1 DEF Task
      <4>2. PICK rest \in {task[w].todo, task[w].todo \ {task[w].id}} :
              IF Stored(task[w].id) /\ rest # {}
              THEN \E next \in rest :
                     task' = [task EXCEPT ![w].pc = "reload", ![w].id = next, ![w].todo = rest]
              ELSE task' = [task EXCEPT ![w] = Idle]
        BY <2>10, Zenon DEF Update
      <4>3. rest \in SUBSET task[w].todo
        BY <4>2
      <4>4. CASE Stored(task[w].id) /\ rest # {}
        <5>1. PICK next \in rest :
                task' = [task EXCEPT ![w].pc = "reload", ![w].id = next, ![w].todo = rest]
          BY <4>2, <4>4
        <5> DEFINE new == [task[w] EXCEPT !.pc = "reload", !.id = next, !.todo = rest]
        <5>2. task' = [task EXCEPT ![w] = new]
          BY <5>1
        <5>3. new \in Task
          BY <4>1, <4>3
        <5> HIDE DEF new
        <5> QED
          BY <5>2, <5>3
      <4>5. CASE ~(Stored(task[w].id) /\ rest # {})
        BY <4>2, <4>5
      <4> QED
        BY <4>4, <4>5
    <3>4. QED
      BY <2>10, <3>2, <3>3 DEF Update
  <2>11. ASSUME NEW w \in Workers, Delete(w) PROVE TypeOK'
    <3>1. task[w] \in Task
      BY <2>11 DEF Delete, At
    <3>2. StoreTypeOK'
      BY <2>11, DeleteChildrenType, DeleteRowsType DEF Delete
    <3>3. task' \in [Workers -> Task \cup {Idle}]
      BY <2>11, <3>1 DEF Delete, Task
    <3>4. QED
      BY <2>11, <3>1, <3>2, <3>3 DEF Delete, Task
  <2>12. CASE StartPurge
    BY <2>12 DEF StartPurge, Purge, StoreTypeOK
  <2>13. CASE PurgeOlderThan
    <3>1. StoreTypeOK'
      BY <2>13, DeleteChildrenType, DeleteRowsType DEF PurgeOlderThan
    <3>2. QED
      BY <2>13, <3>1 DEF PurgeOlderThan, Purge
  <2>14. CASE PurgeFails
    BY <2>14, MishapType DEF PurgeFails, Purge, StoreTypeOK
  <2>15. CASE Restart
    BY <2>15, MishapType DEF Restart, Jobs, Replies, Purge, StoreTypeOK
  <2>16. CASE UNCHANGED vars
    BY <2>16 DEF vars, StoreTypeOK
  <2>17. QED
    BY <2>1, <2>2, <2>3, <2>4, <2>5, <2>6, <2>7, <2>8, <2>9, <2>10, <2>11,
       <2>12, <2>13, <2>14, <2>15, <2>16 DEF Next
<1>3. QED
  BY <1>1, <1>2, PTL DEF Spec

-----------------------------------------------------------------------------
(* The inductive invariant behind the properties of the tables. *)

\* What the state of an analysis says about its rows.  Only a stored analysis
\* has dependent rows, and only an analysis that is over has an expired row.
JobInv ==
    \A id \in Ids :
        /\ job[id] \in {"unused", "failed"} => ~Stored(id)
        /\ job[id] # "stored" => children[id] = {}
        /\ job[id] = "stored" => submissions[id].status # "processing"
        /\ id \in old => job[id] \in Over

\* How far a purge has come with the rows its cutoff selects.
PurgeInv ==
    /\ purge.cutoff \subseteq old
    /\ \A id \in purge.cutoff : Stored(id) =>
         /\ purge.pc \in {"signals", "analyses", "rows"}
                => "submission_iocs" \notin children[id]
         /\ purge.pc \in {"analyses", "rows"} => "signals" \notin children[id]
         /\ purge.pc = "rows" => "analyses" \notin children[id]

TablesInv == JobInv /\ PurgeInv /\ NoOrphanRows /\ AnswerCanBePolled

(* What each statement does to the presence, the status and the children of *)
(* a row.                                                                   *)

LEMMA SaveReservationEffect ==
    ASSUME StoreTypeOK, NEW id \in Ids, SaveReservation(id), NEW i \in Ids
    PROVE  /\ submissions'[i].status = IF i = id THEN "processing"
                                                ELSE submissions[i].status
           /\ children'[i] = IF i = id THEN children[i] \ {"submission_iocs"}
                                       ELSE children[i]
           /\ old' = old /\ backend' = backend
<1>1. Upsert(id, "processing", FALSE).status = "processing"
  BY DEF StoreTypeOK, Upsert, Row
<1>2. QED
  BY <1>1 DEF StoreTypeOK, SaveReservation

LEMMA SaveResultEffect ==
    ASSUME StoreTypeOK, NEW id \in Ids, SaveResult(id), NEW i \in Ids
    PROVE  /\ submissions'[i].status = IF i = id THEN "analyzed"
                                                ELSE submissions[i].status
           /\ children'[i] = IF i = id THEN Tables ELSE children[i]
           /\ old' = old /\ backend' = backend
<1>1. Upsert(id, "analyzed", StoreBodies).status = "analyzed"
  BY DEF StoreTypeOK, Upsert, Row
<1>2. QED
  BY <1>1 DEF StoreTypeOK, SaveResult

LEMMA UpdateEffect ==
    ASSUME StoreTypeOK, NEW id \in Ids, NEW by, NEW status,
           UpdateSubmissionStatus(id, status, by), NEW i \in Ids
    PROVE  /\ submissions'[i].status = IF i = id /\ Stored(id)
                                       THEN status ELSE submissions[i].status
           /\ children' = children /\ old' = old /\ backend' = backend
<1>1. CASE Stored(id)
  <2>1. submissions' = [submissions EXCEPT ![id] =
            [submissions[id] EXCEPT !.status = status, !.reviewedBy = by,
                                    !.reviewedAt = ReviewTime(status)]]
    BY <1>1 DEF UpdateSubmissionStatus
  <2>2. [submissions[id] EXCEPT !.status = status, !.reviewedBy = by,
                                !.reviewedAt = ReviewTime(status)].status = status
    BY DEF StoreTypeOK, Row
  <2>3. QED
    BY <1>1, <2>1, <2>2 DEF StoreTypeOK, UpdateSubmissionStatus
<1>2. CASE ~Stored(id)
  BY <1>2 DEF UpdateSubmissionStatus
<1>3. QED
  BY <1>1, <1>2

-----------------------------------------------------------------------------
LEMMA TablesInit == Init => TablesInv
  BY DEF Init, StoreInit, TablesInv, JobInv, PurgeInv, NoOrphanRows,
         AnswerCanBePolled, Stored, NoRow

LEMMA TablesStep == TypeOK /\ TablesInv /\ [Next]_vars => TablesInv'
<1> SUFFICES ASSUME TypeOK, TablesInv, [Next]_vars PROVE TablesInv'
  OBVIOUS
<1>t. StoreTypeOK
  BY DEF TypeOK
<1>c. purge.cutoff \subseteq Ids
  BY DEF TypeOK, Purge
<1> USE DEF TablesInv, JobInv, PurgeInv, NoOrphanRows, AnswerCanBePolled, Stored
<1>1. ASSUME NEW id \in Ids, Reserve(id) PROVE TablesInv'
  <2>1. \A i \in Ids :
          /\ submissions'[i].status = IF i = id THEN "processing"
                                                ELSE submissions[i].status
          /\ children'[i] = IF i = id THEN children[i] \ {"submission_iocs"}
                                      ELSE children[i]
          /\ old' = old /\ backend' = backend
    BY <1>1, <1>t, SaveReservationEffect DEF Reserve
  <2>2. JobInv'
    BY <1>1, <2>1 DEF Reserve, SetJob, TypeOK, Over
  <2>3. PurgeInv'
    BY <1>c, <1>1, <2>1 DEF Reserve, SetJob, TypeOK, Over
  <2>4. NoOrphanRows'
    BY <1>1, <2>1 DEF Reserve, SetJob, TypeOK, Over
  <2>5. AnswerCanBePolled'
    BY <1>1, <2>1 DEF Reserve, SetJob, TypeOK, Over
  <2>6. QED
    BY <2>2, <2>3, <2>4, <2>5
<1>2. ASSUME NEW id \in Ids, ReserveFails(id) PROVE TablesInv'
  BY <1>2 DEF ReserveFails, SetJob, TypeOK, Over, storeVars
<1>3. ASSUME NEW id \in Ids, AnalyzeElsewhere(id) PROVE TablesInv'
  BY <1>3, <1>t, SaveResultEffect
     DEF AnalyzeElsewhere, SaveResult, SetJob, TypeOK, StoreTypeOK, Over, storeVars
<1>4. ASSUME NEW id \in Ids, JobStep(id) PROVE TablesInv'
  <2>1. CASE JobStores(id)
    <3>1. \A i \in Ids :
            /\ submissions'[i].status = IF i = id THEN "analyzed"
                                                  ELSE submissions[i].status
            /\ children'[i] = IF i = id THEN Tables ELSE children[i]
            /\ old' = old /\ backend' = backend
      BY <2>1, <1>t, SaveResultEffect DEF JobStores
    <3>2. JobInv'
      BY <2>1, <3>1 DEF JobStores, SetJob, TypeOK, Over
    <3>3. PurgeInv'
      BY <1>c, <2>1, <3>1 DEF JobStores, SetJob, TypeOK, Over
    <3>4. NoOrphanRows'
      BY <2>1, <3>1 DEF JobStores, SetJob, TypeOK, Over
    <3>5. AnswerCanBePolled'
      BY <2>1, <3>1 DEF JobStores, SetJob, TypeOK, Over
    <3>6. QED
      BY <3>2, <3>3, <3>4, <3>5
  <2>2. CASE JobStoreFails(id) \/ JobFails(id) \/ JobUndoFails(id)
    BY <2>2 DEF JobStoreFails, JobFails, JobUndoFails, SetJob, TypeOK, Over, storeVars
  <2>3. CASE JobUndoes(id)
    BY <2>3 DEF JobUndoes, DeleteChildren, DeleteRows, NoRow, SetJob, TypeOK,
                 StoreTypeOK, Over
  <2>4. QED
    BY <1>4, <2>1, <2>2, <2>3 DEF JobStep
<1>5. ASSUME NEW id \in Ids, Answer(id) \/ SyncBudgetEnds(id) PROVE TablesInv'
  BY <1>5 DEF Answer, SyncBudgetEnds, storeVars
<1>6. ASSUME NEW id \in Ids, Expire(id) PROVE TablesInv'
  BY <1>6 DEF Expire, Age, jobVars
<1>7. ASSUME NEW w \in Workers, Begin(w) \/ Abandon(w) \/ Reload(w) PROVE TablesInv'
  BY <1>7 DEF Begin, Abandon, Reload, storeVars, jobVars
<1>8. ASSUME NEW w \in Workers, Update(w) PROVE TablesInv'
  <2>1. task[w].id \in Ids /\ task[w].to \in ReviewStatuses
    BY <1>8 DEF Update, At, TypeOK, Task
  <2>2. QED
    <3>1. \A i \in Ids :
            /\ submissions'[i].status = IF i = task[w].id /\ Stored(task[w].id)
                                        THEN task[w].to ELSE submissions[i].status
            /\ children' = children /\ old' = old /\ backend' = backend
      BY <1>8, <1>t, <2>1, UpdateEffect DEF Update
    <3>2. task[w].to \notin {"absent", "processing"}
      BY <2>1 DEF ReviewStatuses, Decided, Confirmed
    <3>3. JobInv'
      BY <1>8, <2>1, <3>1, <3>2 DEF Update, jobVars
    <3>4. PurgeInv'
      BY <1>c, <1>8, <2>1, <3>1, <3>2 DEF Update, jobVars
    <3>5. NoOrphanRows'
      BY <1>8, <2>1, <3>1, <3>2 DEF Update, jobVars
    <3>6. AnswerCanBePolled'
      BY <1>8, <2>1, <3>1, <3>2 DEF Update, jobVars
    <3>7. QED
      BY <3>3, <3>4, <3>5, <3>6
<1>9. ASSUME NEW w \in Workers, Delete(w) PROVE TablesInv'
  BY <1>9 DEF Delete, DeleteChildren, DeleteRows, NoRow, jobVars, TypeOK, StoreTypeOK
<1>10. CASE StartPurge
  BY <1>10 DEF StartPurge, storeVars, jobVars
<1>11. CASE PurgeOlderThan
  <2> DEFINE ids == Expired(purge.cutoff)
  <2>1. \A i \in Ids : i \in ids <=> i \in purge.cutoff /\ Stored(i)
    BY DEF Expired
  <2>2. CASE purge.pc = "iocs"
    BY <1>11, <2>1, <2>2
       DEF PurgeOlderThan, DeleteChildren, jobVars, TypeOK, StoreTypeOK, Purge
  <2>3. CASE purge.pc = "signals"
    BY <1>11, <2>1, <2>3
       DEF PurgeOlderThan, DeleteChildren, jobVars, TypeOK, StoreTypeOK, Purge
  <2>4. CASE purge.pc = "analyses"
    BY <1>11, <2>1, <2>4
       DEF PurgeOlderThan, DeleteChildren, jobVars, TypeOK, StoreTypeOK, Purge
  <2>5. CASE purge.pc = "rows"
    <3>1. JobInv'
      BY <1>11, <2>1, <2>5 DEF PurgeOlderThan, DeleteRows, NoRow, jobVars, TypeOK, StoreTypeOK,
             Tables, Over
    <3>2. PurgeInv'
      BY <1>11, <2>1, <2>5 DEF PurgeOlderThan, DeleteRows, NoRow, jobVars, TypeOK, StoreTypeOK,
             Tables, Over
    <3>3. NoOrphanRows'
      BY <1>11, <2>1, <2>5 DEF PurgeOlderThan, DeleteRows, NoRow, jobVars, TypeOK, StoreTypeOK,
             Tables, Over
    <3>4. AnswerCanBePolled'
      BY <1>11, <2>1, <2>5 DEF PurgeOlderThan, DeleteRows, NoRow, jobVars, TypeOK, StoreTypeOK,
             Tables, Over
    <3>5. QED
      BY <3>1, <3>2, <3>3, <3>4
  <2>6. QED
    BY <1>11, <2>2, <2>3, <2>4, <2>5 DEF PurgeOlderThan
<1>12. CASE PurgeFails
  BY <1>12 DEF PurgeFails, storeVars, jobVars
<1>13. CASE Restart
  BY <1>13 DEF Restart, storeVars, Over
<1>14. CASE UNCHANGED vars
  BY <1>14 DEF vars, storeVars, jobVars
<1>15. QED
  BY <1>1, <1>2, <1>3, <1>4, <1>5, <1>6, <1>7, <1>8, <1>9, <1>10, <1>11,
     <1>12, <1>13, <1>14 DEF Next

\* The tables keep their invariant along every behaviour.
THEOREM TablesInvariant == Spec => []TablesInv
  BY TypeCorrect, TablesInit, TablesStep, PTL DEF Spec

\* No client reads a finished analysis on a row that is still "processing".
THEOREM ResultsAreSettled == Spec => []ResultNotProcessing
<1>1. TablesInv => ResultNotProcessing
  BY DEF TablesInv, JobInv, ResultNotProcessing
<1>2. QED
  BY <1>1, TablesInvariant, PTL

\* Every goroutine that ends with an error has removed its reservation.
THEOREM FailuresLeaveNothing == Spec => []FailedLeavesNothing
<1>1. TablesInv => FailedLeavesNothing
  BY DEF TablesInv, JobInv, FailedLeavesNothing
<1>2. QED
  BY <1>1, TablesInvariant, PTL

\* No interleaving of purge, undo and requests strands dependent rows, but for
\* DELETE on SQLite.
THEOREM NoOrphans == Spec => []NoOrphanRows
  BY TablesInvariant, PTL DEF TablesInv

\* Neither a failure nor a purge strands rows (both conditions at once).
THEOREM NothingIsLeftBehind == Spec => []NothingLeftBehind
  BY FailuresLeaveNothing, NoOrphans, PTL DEF NothingLeftBehind

\* An accepted or answered analysis is there for the client to read until it is
\* deleted or expires.
THEOREM AnswersCanBePolled == Spec => []AnswerCanBePolled
  BY TablesInvariant, PTL DEF TablesInv

-----------------------------------------------------------------------------
\* A submission whose goroutine is over and whose row is gone never returns:
\* the only statements that insert run while the goroutine still does.
THEOREM GoneForGood == Spec => GoneStaysGone
<1>1. TypeOK /\ [Next]_vars
        => [\A id \in Ids : job[id] \in Over /\ ~Stored(id) => ~Stored(id)']_vars
  <2> SUFFICES ASSUME TypeOK, [Next]_vars, NEW i \in Ids,
                      job[i] \in Over, ~Stored(i)
               PROVE  ~Stored(i)' \/ UNCHANGED vars
    OBVIOUS
  <2>t. StoreTypeOK
    BY DEF TypeOK
  <2>0. ASSUME submissions' = submissions PROVE ~Stored(i)'
    BY <2>0 DEF Stored
  <2>1. ASSUME NEW id \in Ids, Reserve(id) PROVE ~Stored(i)'
    BY <2>1, <2>t, SaveReservationEffect DEF Reserve, Over, Stored
  <2>2. ASSUME NEW id \in Ids, SaveResult(id), job[id] \notin Over PROVE ~Stored(i)'
    BY <2>2, <2>t, SaveResultEffect DEF Stored
  <2>3. ASSUME NEW w \in Workers, Update(w) PROVE ~Stored(i)'
    <3>1. task[w].id \in Ids
      BY <2>3 DEF Update, At, TypeOK, Task
    <3>2. QED
      BY <2>3, <2>t, <3>1, UpdateEffect DEF Update, Stored
  <2>4. ASSUME NEW ids, DeleteRows(ids) PROVE ~Stored(i)'
    BY <2>4 DEF DeleteRows, NoRow, Stored
  <2>5. ASSUME NEW id \in Ids, JobStep(id) PROVE ~Stored(i)'
    BY <2>0, <2>2, <2>4, <2>5
       DEF JobStep, JobStores, JobStoreFails, JobFails, JobUndoes, JobUndoFails,
           DeleteChildren, storeVars, Over
  <2>6. ASSUME NEW id \in Ids, AnalyzeElsewhere(id) PROVE ~Stored(i)'
    BY <2>0, <2>2, <2>6 DEF AnalyzeElsewhere, storeVars, Over
  <2>7. ASSUME NEW id \in Ids,
               ReserveFails(id) \/ Answer(id) \/ SyncBudgetEnds(id) \/ Expire(id)
        PROVE  ~Stored(i)'
    BY <2>0, <2>7 DEF ReserveFails, Answer, SyncBudgetEnds, Expire, Age, storeVars
  <2>8. ASSUME NEW w \in Workers, Begin(w) \/ Abandon(w) \/ Reload(w) \/ Delete(w)
        PROVE  ~Stored(i)'
    BY <2>0, <2>4, <2>8 DEF Begin, Abandon, Reload, Delete, DeleteChildren, storeVars
  <2>9. CASE StartPurge \/ PurgeOlderThan \/ PurgeFails \/ Restart
    BY <2>0, <2>4, <2>9
       DEF StartPurge, PurgeOlderThan, PurgeFails, Restart, DeleteChildren, storeVars
  <2>10. QED
    BY <2>1, <2>3, <2>5, <2>6, <2>7, <2>8, <2>9 DEF Next
<1>2. QED
  BY <1>1, TypeCorrect, PTL DEF Spec, GoneStaysGone

-----------------------------------------------------------------------------
(* Who decided: what a request in flight is allowed to write. *)

\* A request that would record a decision comes from an analyst, and one whose
\* next statement is the UPDATE has checked the tenant of that submission.
TaskInv ==
    \A w \in Workers : task[w] # Idle =>
        /\ task[w].to \in Decided => task[w].by \in Analysts
        /\ task[w].pc = "update" => MayAct(task[w].by, task[w].id)

RowDecided(id) ==
    LET row == submissions[id] IN
    row.status \in ReviewStatuses =>
        /\ row.reviewedBy \in Principals
        /\ PrincipalOrg[row.reviewedBy] \in {NoOrg, OrgOf[id]}
        /\ row.status \in Decided => row.reviewedAt = "set"
                                       /\ row.reviewedBy \in Analysts

ReviewInv == TaskInv /\ DecisionHasReviewer

LEMMA ReviewInit == Init => ReviewInv
  BY DEF Init, StoreInit, ReviewInv, TaskInv, DecisionHasReviewer, NoRow,
         ReviewStatuses, Decided, Confirmed

LEMMA TaskStep == TypeOK /\ TaskInv /\ [Next]_vars => TaskInv'
<1> SUFFICES ASSUME TypeOK, TaskInv, [Next]_vars PROVE TaskInv'
  OBVIOUS
<1> USE DEF TaskInv
<1>0. ASSUME task' = task PROVE TaskInv'
  BY <1>0 DEF MayAct
<1>1. ASSUME NEW w \in Workers, Begin(w) PROVE TaskInv'
  <2>1. PICK t \in Task :
          /\ t.op # "report" => t.by \in Analysts
          /\ t.to \in CASE t.op \in {"review", "bulk"} -> Targets
                        [] t.op = "incident" -> {"escalated"}
                        [] OTHER -> {"in_review"}
          /\ Admitted(t)
          /\ task' = [task EXCEPT ![w] = t]
    BY <1>1 DEF Begin
  <2>2. t.to \in Decided => t.by \in Analysts
    BY <2>1 DEF Decided, Confirmed
  <2>3. MayAct(t.by, t.id)
    BY <2>1 DEF Admitted
  <2>4. QED
    BY <2>1, <2>2, <2>3 DEF TypeOK, MayAct
<1>2. ASSUME NEW w \in Workers, Abandon(w) PROVE TaskInv'
  BY <1>2 DEF Abandon, TypeOK, MayAct
<1>3. ASSUME NEW w \in Workers, Reload(w) PROVE TaskInv'
  <2>1. task[w] # Idle /\ task[w] \in Task /\ MayAct(task[w].by, task[w].id)
    BY <1>3 DEF Reload, At, Admitted, TypeOK
  <2>2. QED
    BY <1>3, <2>1 DEF Reload, TypeOK, Task, MayAct
<1>4. ASSUME NEW w \in Workers, Update(w) PROVE TaskInv'
  <2>1. task[w] # Idle /\ task[w] \in Task
    BY <1>4 DEF Update, At, TypeOK
  <2>2. CASE task' = [task EXCEPT ![w] = Idle]
    BY <2>2 DEF TypeOK, MayAct
  <2>3. ASSUME NEW rest \in SUBSET task[w].todo, NEW next \in rest,
               task' = [task EXCEPT ![w].pc = "reload", ![w].id = next,
                                    ![w].todo = rest]
        PROVE  TaskInv'
    <3>1. /\ task'[w].pc = "reload"
          /\ task'[w].to = task[w].to /\ task'[w].by = task[w].by
      BY <2>1, <2>3 DEF TypeOK, Task
    <3>2. \A v \in Workers : v # w => task'[v] = task[v]
      BY <2>3 DEF TypeOK
    <3>3. QED
      BY <2>1, <3>1, <3>2 DEF MayAct
  <2>4. QED
    BY <1>4, <2>2, <2>3 DEF Update
<1>5. ASSUME NEW w \in Workers, Delete(w) PROVE TaskInv'
  <2>1. task[w] # Idle /\ task[w] \in Task
    BY <1>5 DEF Delete, At, TypeOK
  <2>2. QED
    BY <1>5, <2>1 DEF Delete, TypeOK, Task, MayAct
<1>6. CASE Restart
  BY <1>6 DEF Restart
<1>7. QED
  BY <1>0, <1>1, <1>2, <1>3, <1>4, <1>5, <1>6
     DEF Next, vars, Reserve, ReserveFails, AnalyzeElsewhere, JobStep, JobStores,
         JobStoreFails, JobFails, JobUndoes, JobUndoFails, Answer, SyncBudgetEnds,
         Expire, StartPurge, PurgeOlderThan, PurgeFails

\* Each statement keeps the decision on every row it touches.
LEMMA DecisionStep ==
    TypeOK /\ ReviewInv /\ [Next]_vars => DecisionHasReviewer'
<1> SUFFICES ASSUME TypeOK, ReviewInv, [Next]_vars, NEW i \in Ids PROVE RowDecided(i)'
  BY DEF DecisionHasReviewer, RowDecided
<1>r. RowDecided(i)
  BY DEF ReviewInv, DecisionHasReviewer, RowDecided
<1>t. StoreTypeOK
  BY DEF TypeOK
<1>0. ASSUME submissions'[i] = submissions[i] PROVE RowDecided(i)'
  BY <1>0, <1>r DEF RowDecided
<1>1. ASSUME submissions'[i].status \notin ReviewStatuses PROVE RowDecided(i)'
  BY <1>1 DEF RowDecided
<1>2. ASSUME NEW id \in Ids, SaveReservation(id) PROVE RowDecided(i)'
  <2>1. CASE i = id
    <3>1. submissions'[i].status = "processing"
      BY <1>2, <1>t, <2>1, SaveReservationEffect
    <3>2. QED
      BY <1>1, <3>1 DEF ReviewStatuses, Decided, Confirmed
  <2>2. CASE i # id
    BY <1>0, <1>2, <2>2 DEF SaveReservation, TypeOK, StoreTypeOK
  <2>3. QED
    BY <2>1, <2>2
<1>3. ASSUME NEW id \in Ids, SaveResult(id) PROVE RowDecided(i)'
  <2>1. CASE i = id
    <3>1. submissions'[i].status = "analyzed"
      BY <1>3, <1>t, <2>1, SaveResultEffect
    <3>2. QED
      BY <1>1, <3>1 DEF ReviewStatuses, Decided, Confirmed
  <2>2. CASE i # id
    BY <1>0, <1>3, <2>2 DEF SaveResult, TypeOK, StoreTypeOK
  <2>3. QED
    BY <2>1, <2>2
<1>4. ASSUME NEW ids, DeleteRows(ids) PROVE RowDecided(i)'
  <2>1. CASE i \in ids
    <3>1. submissions'[i].status = "absent"
      BY <1>4, <2>1 DEF DeleteRows, NoRow
    <3>2. QED
      BY <1>1, <3>1 DEF ReviewStatuses, Decided, Confirmed
  <2>2. CASE i \notin ids
    BY <1>0, <1>4, <2>2 DEF DeleteRows
  <2>3. QED
    BY <2>1, <2>2
<1>5. ASSUME NEW w \in Workers, Update(w) PROVE RowDecided(i)'
  <2>1. task[w] # Idle /\ task[w] \in Task /\ task[w].pc = "update"
    BY <1>5 DEF Update, At, TypeOK
  <2>2. CASE i = task[w].id /\ Stored(i)
    <3> DEFINE new == [submissions[i] EXCEPT !.status = task[w].to,
                                             !.reviewedBy = task[w].by,
                                             !.reviewedAt = ReviewTime(task[w].to)]
    <3>1. submissions'[i] = new
      BY <1>5, <2>2 DEF Update, UpdateSubmissionStatus, TypeOK, StoreTypeOK
    <3>2. /\ new.status = task[w].to /\ new.reviewedBy = task[w].by
          /\ new.reviewedAt = ReviewTime(task[w].to)
      BY DEF TypeOK, StoreTypeOK, Row
    <3>3. /\ task[w].to \in Decided => task[w].by \in Analysts
          /\ PrincipalOrg[task[w].by] \in {NoOrg, OrgOf[i]}
          /\ task[w].by \in Principals
      BY <2>1, <2>2 DEF ReviewInv, TaskInv, MayAct, Task
    <3> HIDE DEF new
    <3>4. QED
      BY <3>1, <3>2, <3>3 DEF RowDecided, ReviewTime
  <2>3. CASE ~(i = task[w].id /\ Stored(i))
    BY <1>0, <1>5, <2>3 DEF Update, UpdateSubmissionStatus, TypeOK, StoreTypeOK
  <2>4. QED
    BY <2>2, <2>3
<1>6. ASSUME NEW id \in Ids, JobStep(id) PROVE RowDecided(i)'
  BY <1>0, <1>3, <1>4, <1>6
     DEF JobStep, JobStores, JobStoreFails, JobFails, JobUndoes, JobUndoFails,
         DeleteChildren, storeVars
<1>7. ASSUME NEW id \in Ids,
             Reserve(id) \/ ReserveFails(id) \/ AnalyzeElsewhere(id)
                \/ Answer(id) \/ SyncBudgetEnds(id) \/ Expire(id)
      PROVE  RowDecided(i)'
  BY <1>0, <1>2, <1>3, <1>7
     DEF Reserve, ReserveFails, AnalyzeElsewhere, Answer, SyncBudgetEnds, Expire,
         Age, storeVars
<1>8. ASSUME NEW w \in Workers, Begin(w) \/ Abandon(w) \/ Reload(w) \/ Delete(w)
      PROVE  RowDecided(i)'
  BY <1>0, <1>4, <1>8 DEF Begin, Abandon, Reload, Delete, DeleteChildren, storeVars
<1>9. CASE StartPurge \/ PurgeOlderThan \/ PurgeFails \/ Restart
  BY <1>0, <1>4, <1>9
     DEF StartPurge, PurgeOlderThan, PurgeFails, Restart, DeleteChildren, storeVars
<1>10. CASE UNCHANGED vars
  BY <1>0, <1>10 DEF vars, storeVars
<1>11. QED
  BY <1>5, <1>6, <1>7, <1>8, <1>9, <1>10 DEF Next

\* No interleaving of final saves, reviews, bulk actions and reports leaves a
\* decision without an analyst of the submission's own organisation.
THEOREM DecisionsHaveReviewers == Spec => []DecisionHasReviewer
<1>1. TypeOK /\ ReviewInv /\ [Next]_vars => ReviewInv'
  BY TaskStep, DecisionStep DEF ReviewInv
<1>2. ReviewInv => DecisionHasReviewer
  BY DEF ReviewInv
<1>3. QED
  BY <1>1, <1>2, ReviewInit, TypeCorrect, PTL DEF Spec

-----------------------------------------------------------------------------
(* Refinement: every step of the tables and goroutines is a step of the      *)
(* polled resource or leaves it as it was.                                   *)

PhaseOf(j) == IF j = "unused" THEN "new" ELSE IF j \in Over THEN "closed" ELSE "open"
Phase == [id \in Ids |-> PhaseOf(job[id])]
Visible == {id \in Ids : Stored(id)}
Result == {id \in Ids : Stored(id) /\ "analyses" \in children[id]}

LEMMA ResourceInit == Init => Resource!Init
  BY DEF Init, StoreInit, NoRow, Stored, Resource!Init

LEMMA ResourceStep == TypeOK /\ JobInv /\ [Next]_vars => [Resource!Next]_(Resource!vars)
<1> SUFFICES ASSUME TypeOK, JobInv, [Next]_vars
             PROVE  Resource!Next \/ UNCHANGED <<Phase, Visible, Result>>
  BY DEF Phase, PhaseOf, Visible, Result, Resource!vars
<1>t. StoreTypeOK
  BY DEF TypeOK
\* The four abstract actions, in terms of the mapped variables.
<1>a. ASSUME NEW id \in Ids, Phase[id] = "new", Phase' = [Phase EXCEPT ![id] = "open"],
             Visible' = Visible \cup {id}, Result' = Result
      PROVE  Resource!Next
  BY <1>a DEF Resource!Next, Resource!Accept, Phase, PhaseOf, Visible, Result
<1>c. ASSUME NEW id \in Ids, Phase[id] \in {"new", "open"},
             Phase' = [Phase EXCEPT ![id] = "closed"],
             Visible' = Visible \cup {id}, Result' = Result \cup {id}
      PROVE  Resource!Next
  BY <1>c DEF Resource!Next, Resource!Complete, Phase, PhaseOf, Visible, Result
<1>g. ASSUME NEW ids \in SUBSET Ids, ids # {},
             \A id \in ids : Phase[id] \in {"new", "open"},
             Phase' = [id \in Ids |-> IF id \in ids THEN "closed" ELSE Phase[id]],
             Visible' \in SUBSET Visible, Visible \ Visible' \subseteq ids,
             Result' = Result
      PROVE  Resource!Next
  BY <1>g DEF Resource!Next, Resource!GiveUp, Phase, PhaseOf, Visible, Result
<1>e. ASSUME Phase' = Phase, Visible' \in SUBSET Visible, Result' \in SUBSET Result
      PROVE  Resource!Next
  BY <1>e DEF Resource!Next, Resource!Erode, Phase, PhaseOf, Visible, Result
<1>1. ASSUME NEW id \in Ids, Reserve(id) PROVE Resource!Next
  <2>1. \A i \in Ids : /\ Stored(i)' <=> Stored(i) \/ i = id
                       /\ children'[i] = IF i = id THEN children[i] \ {"submission_iocs"}
                                                   ELSE children[i]
    BY <1>1, <1>t, SaveReservationEffect DEF Reserve, Stored
  <2>2. Phase[id] = "new" /\ Phase' = [Phase EXCEPT ![id] = "open"]
    BY <1>1 DEF Reserve, SetJob, Phase, PhaseOf, TypeOK, Over
  <2>3. Visible' = Visible \cup {id}
    BY <2>1 DEF Visible
  <2>4. Result' = Result
    BY <1>1, <2>1 DEF Result, JobInv, Reserve
  <2>5. QED
    BY <1>a, <2>2, <2>3, <2>4
<1>2. ASSUME NEW id \in Ids, SaveResult(id), SetJob(id, "stored"),
             job[id] \in {"unused", "running"}
      PROVE  Resource!Next
  <2>1. \A i \in Ids : /\ Stored(i)' <=> Stored(i) \/ i = id
                       /\ children'[i] = IF i = id THEN Tables ELSE children[i]
    BY <1>2, <1>t, SaveResultEffect DEF Stored
  <2>2. Phase[id] \in {"new", "open"} /\ Phase' = [Phase EXCEPT ![id] = "closed"]
    BY <1>2 DEF SetJob, Phase, PhaseOf, TypeOK, Over
  <2>3. Visible' = Visible \cup {id}
    BY <2>1 DEF Visible
  <2>4. Result' = Result \cup {id}
    BY <2>1 DEF Result, Tables
  <2>5. QED
    BY <1>c, <2>2, <2>3, <2>4
<1>3. ASSUME NEW id \in Ids, NEW end \in Over, SetJob(id, end), job[id] \notin Over,
             submissions' = submissions, children' = children
      PROVE  Resource!Next
  <2>1. /\ Phase[id] \in {"new", "open"}
        /\ Phase' = [i \in Ids |-> IF i \in {id} THEN "closed" ELSE Phase[i]]
    BY <1>3 DEF SetJob, Phase, PhaseOf, TypeOK, Over
  <2>2. Visible' = Visible /\ Result' = Result
    BY <1>3 DEF Visible, Result, Stored
  <2>3. QED
    BY <1>g, <2>1, <2>2
<1>4. ASSUME NEW ids, DeleteRows(ids)
      PROVE  Visible' \in SUBSET Visible /\ Result' \in SUBSET Result
  BY <1>4 DEF DeleteRows, NoRow, Visible, Result, Stored
<1>5. ASSUME NEW table, NEW ids, DeleteChildren(table, ids)
      PROVE  Visible' = Visible /\ Result' \in SUBSET Result
  BY <1>5 DEF DeleteChildren, Visible, Result, Stored
<1>6. ASSUME job' = job PROVE Phase' = Phase
  BY <1>6 DEF Phase, PhaseOf
<1>7. ASSUME submissions' = submissions, children' = children
      PROVE  Visible' = Visible /\ Result' = Result
  BY <1>7 DEF Visible, Result, Stored
<1>8. ASSUME NEW id \in Ids, JobStep(id)
      PROVE  Resource!Next \/ UNCHANGED <<Phase, Visible, Result>>
  <2>1. CASE JobStores(id)
    BY <1>2, <2>1 DEF JobStores
  <2>2. CASE JobStoreFails(id) \/ JobUndoFails(id)
    BY <1>3, <2>2 DEF JobStoreFails, JobUndoFails, storeVars, Over
  <2>3. ASSUME SetJob(id, "undo-signals") \/ SetJob(id, "undo-analyses")
                  \/ SetJob(id, "undo-row"),
               job[id] \in {"running", "undo-signals", "undo-analyses"}
        PROVE  Phase' = Phase
    BY <2>3 DEF SetJob, Phase, PhaseOf, TypeOK, Over
  <2>4. CASE JobFails(id)
    BY <1>7, <2>3, <2>4 DEF JobFails, storeVars
  <2>5. ASSUME NEW table, DeleteChildren(table, {id}), job[id] # "stored", Phase' = Phase
        PROVE  Resource!Next
    BY <1>5, <1>e, <2>5
  <2>6. ASSUME job[id] = "undo-row", DeleteRows({id}), SetJob(id, "failed")
        PROVE  Resource!Next
    <3>1. /\ Phase[id] \in {"new", "open"}
          /\ Phase' = [i \in Ids |-> IF i \in {id} THEN "closed" ELSE Phase[i]]
      BY <2>6 DEF SetJob, Phase, PhaseOf, TypeOK, Over
    <3>2. Visible \ Visible' \subseteq {id}
      BY <2>6 DEF DeleteRows, Visible, Stored
    <3>3. Result' = Result
      BY <2>6 DEF DeleteRows, NoRow, Result, Stored, JobInv
    <3>4. QED
      BY <1>4, <1>g, <2>6, <3>1, <3>2, <3>3
  <2>7. CASE JobUndoes(id)
    BY <2>3, <2>5, <2>6, <2>7 DEF JobUndoes
  <2>8. QED
    BY <1>8, <2>1, <2>2, <2>4, <2>7 DEF JobStep
<1>9. ASSUME NEW id \in Ids, ReserveFails(id) \/ AnalyzeElsewhere(id) PROVE Resource!Next
  BY <1>2, <1>3, <1>9 DEF ReserveFails, AnalyzeElsewhere, storeVars, Over
<1>10. ASSUME NEW id \in Ids, Answer(id) \/ SyncBudgetEnds(id) \/ Expire(id)
       PROVE  UNCHANGED <<Phase, Visible, Result>>
  BY <1>6, <1>7, <1>10 DEF Answer, SyncBudgetEnds, Expire, Age, storeVars, jobVars
<1>11. ASSUME NEW w \in Workers, Begin(w) \/ Abandon(w) \/ Reload(w)
       PROVE  UNCHANGED <<Phase, Visible, Result>>
  BY <1>6, <1>7, <1>11 DEF Begin, Abandon, Reload, storeVars, jobVars
<1>12. ASSUME NEW w \in Workers, Update(w) PROVE UNCHANGED <<Phase, Visible, Result>>
  <2>1. task[w].id \in Ids /\ task[w].to \in ReviewStatuses
    BY <1>12 DEF Update, At, TypeOK, Task
  <2>2. \A i \in Ids : Stored(i)' = Stored(i)
    <3>1. UpdateSubmissionStatus(task[w].id, task[w].to, task[w].by)
      BY <1>12 DEF Update
    <3>2. QED
      BY <1>t, <2>1, <3>1, UpdateEffect DEF Stored, ReviewStatuses, Decided, Confirmed
  <2>3. children' = children
    BY <1>12 DEF Update, UpdateSubmissionStatus
  <2>4. Visible' = Visible /\ Result' = Result
    BY <2>2, <2>3 DEF Visible, Result
  <2>5. QED
    BY <1>6, <1>12, <2>4 DEF Update, jobVars
<1>13. ASSUME NEW w \in Workers, Delete(w) PROVE Resource!Next
  BY <1>4, <1>5, <1>6, <1>e, <1>13 DEF Delete, jobVars
<1>14. CASE PurgeOlderThan
  BY <1>4, <1>5, <1>6, <1>e, <1>14 DEF PurgeOlderThan, jobVars
<1>15. CASE StartPurge \/ PurgeFails
  BY <1>6, <1>7, <1>15 DEF StartPurge, PurgeFails, storeVars, jobVars
<1>16. CASE Restart
  <2> DEFINE ids == {id \in Ids : job[id] \notin Over \cup {"unused"}}
  <2>1. \A id \in ids : Phase[id] \in {"new", "open"}
    BY DEF Phase, PhaseOf
  <2>2. Phase' = [id \in Ids |-> IF id \in ids THEN "closed" ELSE Phase[id]]
    BY <1>16 DEF Restart, Phase, PhaseOf, Over
  <2>3. Visible' = Visible /\ Result' = Result
    BY <1>7, <1>16 DEF Restart, storeVars
  <2>4. CASE ids = {}
    BY <2>2, <2>3, <2>4 DEF Phase
  <2>5. CASE ids # {}
    <3> HIDE DEF ids
    <3>1. ids \in SUBSET Ids
      BY DEF ids
    <3>2. QED
      BY <1>g, <2>1, <2>2, <2>3, <2>5, <3>1
  <2>6. QED
    BY <2>4, <2>5
<1>17. CASE UNCHANGED vars
  BY <1>6, <1>7, <1>17 DEF vars, storeVars, jobVars
<1>18. QED
  BY <1>1, <1>8, <1>9, <1>10, <1>11, <1>12, <1>13, <1>14, <1>15, <1>16, <1>17 DEF Next

\* What a polling client may see is what the abstract resource allows: an id is
\* opened once, its result appears at most once, and nothing ever comes back.
THEOREM Refinement == Spec => ImplementsResource
<1>1. TablesInv => JobInv
  BY DEF TablesInv
<1>2. QED
  BY <1>1, TypeCorrect, TablesInvariant, ResourceInit, ResourceStep, PTL
     DEF Spec, ImplementsResource, Resource!Spec

-----------------------------------------------------------------------------
(* Reading while others write.  The rows the reader selects are finite in  *)
(* number, and what a reader has seen of them is told from how many come   *)
(* before each (for its pages), from the statements of a deletion that are *)
(* done (for half rows) and from the number of writes (for figures).       *)

Readers ==
    [task : {"none", "export", "list", "stats"},
     at : {"rest", "ids", "row", "signals", "count", "over", "failed"},
     offset : Nat, asked : Nat, page : SUBSET Mine, fetched : Nat, shown : [Ids -> Nat],
     torn : SUBSET Ids, disturbed : SUBSET {"added", "changed", "removed"}, figures : Seq(Nat)]

\* The rows are well typed, and those the reader counts on are there.
RowsAreRight ==
    /\ StoreTypeOK
    /\ deleting \in [Ids -> 0..3]
    /\ changes \in Nat
    /\ IsFiniteSet(Selected)
    /\ kept \subseteq Selected
    /\ \A id \in Ids :
         deleting[id] = 0 /\ "analyses" \in children[id] => "signals" \in children[id]

\* A row that is missing, or without its analysis or its signals, is deleted.
HalvesAreRight(r) ==
    /\ IsFiniteSet(r.page)
    /\ r.at \in {"signals", "failed"} => r.page # {}
    /\ \A id \in r.page : Stored(id) \/ deleting[id] > 0
    /\ r.at = "signals" => "analyses" \in children[Max(r.page)] \/ deleting[Max(r.page)] > 0
    /\ r.at = "failed" => deleting[Max(r.page)] > 0
    /\ \A id \in r.torn : deleting[id] > 0

\* The rows before this one have been read or are on the page.
Reached(r) == IF r.at = "ids" THEN r.offset ELSE r.offset + PageSize

More(r) == r.at = "ids" \/ r.fetched >= PageSize

NoneIsMissed(r) ==
    "removed" \notin r.disturbed /\ r.at # "failed" =>
        \A id \in kept : \/ r.shown[id] >= 1
                         \/ id \in r.page
                         \/ More(r) /\ Before(id) >= Reached(r)

NoneIsRepeated(r) ==
    "added" \notin r.disturbed =>
        \A id \in kept :
            /\ r.shown[id] <= 1
            /\ r.shown[id] = 1 => id \notin r.page
            /\ r.shown[id] = 1 \/ id \in r.page => Before(id) < Reached(r)

PagesAreRight(r) ==
    r.task = "export" =>
        /\ r.asked = PageSize
        /\ r.at \in {"ids", "over"} => r.page = {}
        /\ r.at = "over" => r.fetched < PageSize
        /\ NoneIsMissed(r)
        /\ NoneIsRepeated(r)

\* A figure of these rows is off by no more than the writes since.
Near(n, rows, writes) == n <= Cardinality(rows) + writes /\ Cardinality(rows) <= n + writes

NoMore(f, i, j, writes) == i \in DOMAIN f /\ j \in DOMAIN f => f[i] <= f[j] + writes

FiguresAgree(f, writes) ==
    /\ NoMore(f, 2, 4, writes) /\ NoMore(f, 4, 2, writes)
    /\ NoMore(f, 1, 3, writes) /\ NoMore(f, 3, 1, writes)
    /\ NoMore(f, 1, 5, writes) /\ NoMore(f, 5, 1, writes)
    /\ NoMore(f, 5, 8, writes) /\ NoMore(f, 8, 5, writes)
    /\ NoMore(f, 1, 2, writes) /\ NoMore(f, 6, 2, writes) /\ NoMore(f, 7, 2, writes)

FiguresAreNear(f, rows, analysed, writes) ==
    /\ \A i \in {1, 3, 5} : i \in DOMAIN f => Near(f[i], analysed, writes)
    /\ \A i \in {2, 4} : i \in DOMAIN f => Near(f[i], rows, writes)

FiguresAreRight(r) ==
    r.task = "stats" =>
        /\ r.at \in {"count", "over"}
        /\ r.at = "count" => Len(r.figures) < 8
        /\ r.at = "over" => Len(r.figures) = 8
        /\ FiguresAgree(r.figures, changes)
        /\ r.at = "count" => FiguresAreNear(r.figures, Selected, Analysed, changes)

ReaderIsRight(r) ==
    /\ r \in Readers
    /\ r.at = "rest" <=> r.task = "none"
    /\ r.at = "count" => r.task = "stats"
    /\ HalvesAreRight(r)
    /\ PagesAreRight(r)
    /\ FiguresAreRight(r)

ListingInv == RowsAreRight /\ ReaderIsRight(reader)

-----------------------------------------------------------------------------
(* Rows in their order. *)

LEMMA MinIsIn ==
    ASSUME NEW S \in SUBSET Nat, S # {}
    PROVE  \E n \in S : \A m \in S : n <= m
<1> DEFINE Less == {ss \in Nat \X Nat : ss[1] < ss[2]}
<1>1. PICK n \in S : \A m \in S : <<m, n>> \notin Less
  <2>1. IsWellFoundedOn(Less, Nat)
    BY NatLessThanWellFounded DEF OpToRel
  <2> HIDE DEF Less
  <2> QED
    BY <2>1, WFMin, Zenon
<1>2. ASSUME NEW m \in S  PROVE n <= m
  <2>1. m \in Nat /\ n \in Nat
    OBVIOUS
  <2>2. m < n => <<m, n>> \in Less
    BY <2>1
  <2> QED
    BY <1>1, <2>1, <2>2
<1> QED
  BY <1>1, <1>2

\* Two sets that differ in one element have nearly as many.
LEMMA NearlyAsMany ==
    ASSUME NEW A, IsFiniteSet(A), NEW B, NEW x, B \subseteq A \cup {x}, A \ {x} \subseteq B
    PROVE  /\ IsFiniteSet(B) /\ Cardinality(A) \in Nat /\ Cardinality(B) \in Nat
           /\ Cardinality(B) <= Cardinality(A) + 1 /\ Cardinality(A) <= Cardinality(B) + 1
<1>1. IsFiniteSet(A \cup {x}) /\ Cardinality(A) \in Nat
      /\ Cardinality(A \cup {x}) = IF x \in A THEN Cardinality(A) ELSE Cardinality(A) + 1
  BY FS_AddElement, FS_CardinalityType
<1>2. IsFiniteSet(B) /\ Cardinality(B) <= Cardinality(A \cup {x})
  BY <1>1, FS_Subset
<1>3. IsFiniteSet(B \cup {x}) /\ Cardinality(B) \in Nat
      /\ Cardinality(B \cup {x}) = IF x \in B THEN Cardinality(B) ELSE Cardinality(B) + 1
  BY <1>2, FS_AddElement, FS_CardinalityType
<1>4. Cardinality(A) <= Cardinality(B \cup {x})
  BY <1>3, FS_Subset
<1> QED
  BY <1>1, <1>2, <1>3, <1>4

\* How many of these come before a row: the number grows with the rows, and
\* of two rows the older has more before it.
LEMMA FewerComeBefore ==
    ASSUME NEW S, IsFiniteSet(S), NEW T, S \subseteq T, IsFiniteSet(T), NEW id
    PROVE  /\ Cardinality({k \in S : k > id}) \in Nat
           /\ Cardinality({k \in S : k > id}) <= Cardinality({k \in T : k > id})
<1>1. IsFiniteSet({k \in T : k > id})
  BY FS_Subset
<1>2. {k \in S : k > id} \subseteq {k \in T : k > id}
  OBVIOUS
<1> QED
  BY <1>1, <1>2, FS_Subset, FS_CardinalityType

LEMMA OlderComeLater ==
    ASSUME NEW S \in SUBSET Nat, IsFiniteSet(S), NEW a \in S, NEW b \in S, a > b
    PROVE  Cardinality({k \in S : k > a}) < Cardinality({k \in S : k > b})
<1>1. PICK A : A = {k \in S : k > a}
  OBVIOUS
<1>2. PICK B : B = {k \in S : k > b}
  OBVIOUS
<1>3. IsFiniteSet(A) /\ IsFiniteSet(B) /\ Cardinality(A) \in Nat /\ Cardinality(B) \in Nat
  BY <1>1, <1>2, FS_Subset, FS_CardinalityType
<1>4. A \cup {a} \subseteq B /\ a \notin A
  <2>1. a \in Nat /\ b \in Nat
    OBVIOUS
  <2>2. ASSUME NEW k \in A  PROVE k \in B
    <3>1. k \in S /\ k > a /\ k \in Nat
      BY <1>1
    <3> QED
      BY <1>2, <2>1, <3>1
  <2>3. a \in B
    BY <1>2
  <2>4. a \notin A
    BY <1>1, <2>1
  <2> QED
    BY <2>2, <2>3, <2>4
<1>5. Cardinality(A \cup {a}) = Cardinality(A) + 1
  BY <1>3, <1>4, FS_AddElement
<1>6. Cardinality(A \cup {a}) <= Cardinality(B)
  BY <1>3, <1>4, FS_Subset
<1> QED
  BY <1>1, <1>2, <1>3, <1>5, <1>6

LEMMA NewestIsIn ==
    ASSUME NEW S \in SUBSET Nat, IsFiniteSet(S), S # {}
    PROVE  Max(S) \in S
<1> DEFINE C == {Cardinality({k \in S : k > id}) : id \in S}
<1>1. C \in SUBSET Nat /\ C # {}
  <2>1. \A id \in S : Cardinality({k \in S : k > id}) \in Nat
    BY FewerComeBefore
  <2> QED
    BY <2>1
<1>2. PICK n \in C : \A m \in C : n <= m
  <2> HIDE DEF C
  <2> QED
    BY <1>1, MinIsIn
<1>3. PICK id \in S : n = Cardinality({k \in S : k > id})
  OBVIOUS
<1>4. ASSUME NEW k \in S  PROVE id >= k
  <2>1. n <= Cardinality({j \in S : j > k}) /\ n \in Nat /\ Cardinality({j \in S : j > k}) \in Nat
    BY <1>1, <1>2
  <2>2. k > id => Cardinality({j \in S : j > k}) < n
    BY <1>3, OlderComeLater
  <2>3. k \in Nat /\ id \in Nat
    OBVIOUS
  <2> QED
    BY <2>1, <2>2, <2>3
<1> QED
  BY <1>4 DEF Max

\* Where there is a row beyond it, a page is full.
LEMMA PageIsFull ==
    ASSUME NEW S \in SUBSET Nat, IsFiniteSet(S), NEW id \in S, NEW limit \in Nat \ {0},
           NEW offset \in Nat, NEW f \in [S -> Nat],
           \A k \in S : f[k] = Cardinality({j \in S : j > k}), f[id] >= offset + limit
    PROVE  Cardinality({k \in S : f[k] >= offset /\ f[k] < offset + limit}) >= limit
<1>1. PICK N \in Nat : N = Cardinality(S)
  BY FS_CardinalityType
<1>2. ASSUME NEW k \in S  PROVE f[k] \in 0..(N - 1)
  <2>1. PICK A : A = {j \in S : j > k}
    OBVIOUS
  <2>2. IsFiniteSet(A) /\ Cardinality(A) \in Nat /\ k \notin A /\ A \cup {k} \subseteq S
    <3>1. k \in Nat
      OBVIOUS
    <3> QED
      BY <2>1, <3>1, FS_Subset, FS_CardinalityType
  <2>3. Cardinality(A \cup {k}) = Cardinality(A) + 1 /\ Cardinality(A \cup {k}) <= N
    BY <1>1, <2>2, FS_AddElement, FS_Subset
  <2> QED
    BY <1>1, <2>1, <2>2, <2>3
<1>3. ASSUME NEW a \in S, NEW b \in S, f[a] = f[b]  PROVE a = b
  <2>1. a \in Nat /\ b \in Nat /\ f[a] \in Nat /\ f[b] \in Nat
    OBVIOUS
  <2>2. ~(a > b)
    <3>1. a > b => f[a] < f[b]
      BY OlderComeLater
    <3> QED
      BY <1>3, <2>1, <3>1
  <2>3. ~(b > a)
    <3>1. b > a => f[b] < f[a]
      BY OlderComeLater
    <3> QED
      BY <1>3, <2>1, <3>1
  <2> QED
    BY <2>1, <2>2, <2>3
<1>4. f \in Injection(S, 0..(N - 1))
  BY <1>2, <1>3 DEF Injection, IsInjective
<1>5. IsFiniteSet(0..(N - 1)) /\ Cardinality(0..(N - 1)) = N
  <2>1. N - 1 \in Int /\ 0 \in Int
    OBVIOUS
  <2>2. /\ IsFiniteSet(0..(N - 1))
        /\ Cardinality(0..(N - 1)) = IF 0 > N - 1 THEN 0 ELSE N - 1 - 0 + 1
    BY <2>1, FS_Interval
  <2> QED
    BY <2>2
<1>6. f \in Surjection(S, 0..(N - 1))
  BY <1>1, <1>4, <1>5, FS_Injection
<1>7. PICK P : P = {k \in S : f[k] >= offset /\ f[k] < offset + limit}
  OBVIOUS
<1>8. PICK I : I = offset..(offset + limit - 1)
  OBVIOUS
<1>9. PICK g : g = [k \in P |-> f[k]]
  OBVIOUS
<1>10. g \in Surjection(P, I)
  <2>1. \A k \in P : g[k] \in I
    BY <1>7, <1>8, <1>9
  <2>2. ASSUME NEW t \in I  PROVE \E k \in P : g[k] = t
    <3>1. t \in Nat /\ t >= offset /\ t < offset + limit
      BY <1>8
    <3>2. f[id] \in 0..(N - 1) /\ f[id] \in Nat
      BY <1>2
    <3>3. t \in 0..(N - 1)
      BY <3>1, <3>2
    <3>4. PICK k \in S : f[k] = t
      BY <1>6, <3>3 DEF Surjection
    <3> QED
      BY <1>7, <1>9, <3>1, <3>4
  <2> QED
    BY <1>9, <2>1, <2>2 DEF Surjection
<1>11. IsFiniteSet(P)
  BY <1>7, FS_Subset
<1>12. Cardinality(I) <= Cardinality(P)
  BY <1>10, <1>11, FS_Surjection
<1>13. Cardinality(I) = limit
  BY <1>8, FS_Interval
<1> QED
  BY <1>7, <1>12, <1>13

-----------------------------------------------------------------------------
(* The writers. *)

\* What a write of a row may do to the rows the reader selects, and what the
\* reader notes of it.
Wrote(id, what) ==
    /\ StoreTypeOK' /\ deleting' \in [Ids -> 0..3]
    /\ \A k \in Ids :
         /\ deleting[k] <= deleting'[k]
         /\ Stored(k) => Stored(k)' \/ deleting'[k] > 0
         /\ "analyses" \in children[k] => "analyses" \in children'[k] \/ deleting'[k] > 0
         /\ deleting'[k] = 0 /\ "analyses" \in children'[k] => "signals" \in children'[k]
    /\ Selected' \subseteq Selected \cup {id} /\ Selected \ {id} \subseteq Selected'
    /\ Analysed' \subseteq Analysed \cup {id} /\ Analysed \ {id} \subseteq Analysed'
    /\ id \notin Mine => Selected' = Selected /\ Analysed' = Analysed
    /\ what = "added" => Selected \subseteq Selected'
    /\ what = "changed" => Selected' = Selected
    /\ what = "removed" => Selected' \subseteq Selected

Unnoticed == Analysed' = Analysed /\ Selected' = Selected /\ UNCHANGED <<reader, kept, changes>>

LEMMA ArriveWrites ==
    ASSUME ListingInv, NEW id \in Ids, Arrive(id)
    PROVE  Wrote(id, "added") /\ Note("added", id)
<1> USE DEF ListingInv, RowsAreRight
<1>1. ~Stored(id) /\ deleting[id] = 0 /\ UNCHANGED deleting /\ Note("added", id)
  BY DEF Arrive
<1>2. StoreTypeOK'
  BY SaveResultType, SaveReservationType DEF Arrive
<1>3. /\ \A k \in Ids \ {id} : submissions'[k] = submissions[k] /\ children'[k] = children[k]
      /\ submissions'[id].status # "absent"
      /\ children'[id] = Tables \/ children'[id] = children[id] \ {"submission_iocs"}
  <2>1. CASE SaveResult(id)
    BY <2>1 DEF SaveResult, StoreTypeOK, Upsert, Stored, Row
  <2>2. CASE SaveReservation(id)
    BY <2>2 DEF SaveReservation, StoreTypeOK, Upsert, Stored, Row
  <2> QED
    BY <2>1, <2>2 DEF Arrive
<1>4. \A k \in Ids \ {id} : Stored(k)' <=> Stored(k)
  BY <1>3 DEF Stored
<1>5. Stored(id)'
  BY <1>3 DEF Stored
<1>6. Mine \subseteq Ids
  BY ListingAssumption
<1>7. /\ Selected' \subseteq Selected \cup {id} /\ Selected \subseteq Selected'
      /\ id \notin Mine => Selected' = Selected
  BY <1>1, <1>4, <1>5, <1>6 DEF Selected
<1>8. /\ Analysed' \subseteq Analysed \cup {id} /\ Analysed \ {id} \subseteq Analysed'
      /\ id \notin Mine => Analysed' = Analysed
  BY <1>3, <1>6, <1>7 DEF Analysed, Selected
<1>9. \A k \in Ids : deleting[k] <= deleting'[k] /\ deleting'[k] = deleting[k]
  BY <1>1
<1>10. "analyses" \in Tables /\ "signals" \in Tables
  BY DEF Tables
<1>11. ASSUME NEW k \in Ids
       PROVE  /\ "analyses" \in children[k] => "analyses" \in children'[k]
              /\ deleting'[k] = 0 /\ "analyses" \in children'[k] => "signals" \in children'[k]
  BY <1>1, <1>3, <1>9, <1>10
<1> QED
  BY <1>1, <1>2, <1>4, <1>5, <1>7, <1>8, <1>9, <1>11 DEF Wrote

LEMMA FinishWrites ==
    ASSUME ListingInv, NEW id \in Ids, Finish(id)
    PROVE  \E what \in {"added", "changed"} : Wrote(id, what) /\ Note(what, id)
<1> USE DEF ListingInv, RowsAreRight
<1>1. PICK what : what = IF Stored(id) THEN "changed" ELSE "added"
  OBVIOUS
<1>2. what \in {"added", "changed"} /\ Note(what, id) /\ UNCHANGED deleting /\ SaveResult(id)
  BY <1>1 DEF Finish
<1>3. StoreTypeOK'
  BY <1>2, SaveResultType
<1>4. /\ \A k \in Ids \ {id} : submissions'[k] = submissions[k] /\ children'[k] = children[k]
      /\ submissions'[id].status # "absent"
      /\ children'[id] = Tables
  BY <1>2 DEF SaveResult, StoreTypeOK, Upsert, Stored, Row
<1>5. \A k \in Ids \ {id} : Stored(k)' <=> Stored(k)
  BY <1>4 DEF Stored
<1>6. Stored(id)'
  BY <1>4 DEF Stored
<1>7. Mine \subseteq Ids
  BY ListingAssumption
<1>8. /\ Selected' \subseteq Selected \cup {id} /\ Selected \subseteq Selected'
      /\ id \notin Mine => Selected' = Selected
      /\ what = "changed" => Selected' = Selected
  BY <1>1, <1>5, <1>6, <1>7 DEF Selected
<1>9. /\ Analysed' \subseteq Analysed \cup {id} /\ Analysed \ {id} \subseteq Analysed'
      /\ id \notin Mine => Analysed' = Analysed
  BY <1>4, <1>7, <1>8 DEF Analysed, Selected
<1>10. \A k \in Ids : deleting[k] <= deleting'[k] /\ deleting'[k] = deleting[k]
  BY <1>2
<1>11. "analyses" \in Tables /\ "signals" \in Tables
  BY DEF Tables
<1>12. ASSUME NEW k \in Ids
       PROVE  /\ "analyses" \in children[k] => "analyses" \in children'[k]
              /\ deleting'[k] = 0 /\ "analyses" \in children'[k] => "signals" \in children'[k]
  BY <1>4, <1>10, <1>11
<1> QED
  BY <1>2, <1>3, <1>5, <1>6, <1>8, <1>9, <1>10, <1>12 DEF Wrote

LEMMA DeleteWrites ==
    ASSUME ListingInv, NEW id \in Ids, DeleteNext(id)
    PROVE  \E what \in {"changed", "removed"} : Wrote(id, what) /\ Note(what, id)
<1> USE DEF ListingInv, RowsAreRight
<1>1. deleting' = [deleting EXCEPT ![id] = @ + 1] /\ deleting[id] \in {0, 1, 2}
  BY DEF DeleteNext
<1>2. /\ deleting' \in [Ids -> 0..3] /\ deleting'[id] > 0
      /\ \A k \in Ids : deleting[k] <= deleting'[k]
      /\ \A k \in Ids \ {id} : deleting'[k] = deleting[k]
  BY <1>1
<1>3. Mine \subseteq Ids
  BY ListingAssumption
<1>4. ASSUME NEW table \in Tables, DeleteChildren(table, {id})  PROVE Wrote(id, "changed")
  <2>1. StoreTypeOK'
    BY <1>4, DeleteChildrenType
  <2>2. /\ submissions' = submissions
        /\ \A k \in Ids \ {id} : children'[k] = children[k]
        /\ children'[id] \subseteq children[id]
    BY <1>4 DEF DeleteChildren
  <2>3. \A k \in Ids : Stored(k)' <=> Stored(k)
    BY <2>2 DEF Stored
  <2>4. Selected' = Selected
    BY <1>3, <2>3 DEF Selected
  <2>5. /\ Analysed' \subseteq Analysed \cup {id} /\ Analysed \ {id} \subseteq Analysed'
        /\ id \notin Mine => Analysed' = Analysed
    BY <1>3, <2>2, <2>4 DEF Analysed, Selected
  <2>6. ASSUME NEW k \in Ids
        PROVE  /\ "analyses" \in children[k] => "analyses" \in children'[k] \/ deleting'[k] > 0
               /\ deleting'[k] = 0 /\ "analyses" \in children'[k] => "signals" \in children'[k]
    BY <1>2, <2>2
  <2> QED
    BY <1>2, <2>1, <2>3, <2>4, <2>5, <2>6 DEF Wrote
<1>5. ASSUME DeleteRows({id})  PROVE Wrote(id, "removed")
  <2>1. StoreTypeOK'
    BY <1>5, DeleteRowsType
  <2>2. /\ \A k \in Ids \ {id} : submissions'[k] = submissions[k] /\ children'[k] = children[k]
        /\ submissions'[id] = NoRow
    BY <1>5 DEF DeleteRows, StoreTypeOK
  <2>3. \A k \in Ids \ {id} : Stored(k)' <=> Stored(k)
    BY <2>2 DEF Stored
  <2>4. ~Stored(id)'
    BY <2>2 DEF Stored, NoRow
  <2>5. /\ Selected' \subseteq Selected /\ Selected \ {id} \subseteq Selected'
        /\ id \notin Mine => Selected' = Selected
    BY <1>3, <2>3, <2>4 DEF Selected
  <2>6. /\ Analysed' \subseteq Analysed /\ Analysed \ {id} \subseteq Analysed'
        /\ id \notin Mine => Analysed' = Analysed
    BY <1>3, <2>2, <2>4, <2>5 DEF Analysed, Selected
  <2>7. ASSUME NEW k \in Ids
        PROVE  /\ Stored(k) => Stored(k)' \/ deleting'[k] > 0
               /\ "analyses" \in children[k] => "analyses" \in children'[k] \/ deleting'[k] > 0
               /\ deleting'[k] = 0 /\ "analyses" \in children'[k] => "signals" \in children'[k]
    BY <1>2, <2>2, <2>3
  <2> QED
    BY <1>2, <2>1, <2>5, <2>6, <2>7 DEF Wrote
<1> QED
  BY <1>4, <1>5 DEF DeleteNext, Tables

LEMMA DecideWrites ==
    ASSUME ListingInv, NEW id \in Ids, NEW status \in Decisions, NEW p \in Principals,
           Decide(id, status, p)
    PROVE  Wrote(id, "changed") /\ Unnoticed
<1> USE DEF ListingInv, RowsAreRight
<1>1. /\ UpdateSubmissionStatus(id, status, p) /\ status \in ReviewStatuses
      /\ UNCHANGED <<reader, deleting, kept, changes, children>>
  BY ListingAssumption DEF Decide, Watching, UpdateSubmissionStatus
<1>2. StoreTypeOK'
  BY <1>1, UpdateType
<1>3. status # "absent"
  BY <1>1 DEF ReviewStatuses, Decided, Confirmed
<1>4. ASSUME NEW k \in Ids  PROVE Stored(k)' <=> Stored(k)
  <2>1. CASE k = id /\ Stored(id)
    BY <1>1, <1>3, <2>1 DEF UpdateSubmissionStatus, Stored, StoreTypeOK, Row
  <2>2. CASE ~(k = id /\ Stored(id))
    BY <1>1, <2>2 DEF UpdateSubmissionStatus, Stored, StoreTypeOK
  <2> QED
    BY <2>1, <2>2
<1>5. Selected' = Selected
  BY <1>4, ListingAssumption DEF Selected
<1>6. Analysed' = Analysed
  BY <1>1, <1>5 DEF Analysed
<1>7. \A k \in Ids : deleting[k] <= deleting'[k]
  BY <1>1
<1> QED
  BY <1>1, <1>2, <1>4, <1>5, <1>6, <1>7 DEF Wrote, Unnoticed

\* The reader goes on as it was, but for what it notes of the write.
SameReading(r, s) ==
    /\ s.task = r.task /\ s.at = r.at /\ s.offset = r.offset /\ s.asked = r.asked
    /\ s.page = r.page /\ s.fetched = r.fetched /\ s.shown = r.shown /\ s.torn = r.torn
    /\ s.figures = r.figures /\ r.disturbed \subseteq s.disturbed

Noted(id, what) ==
    /\ reader' \in Readers /\ SameReading(reader, reader')
    /\ id \in Mine /\ reader.at # "rest" /\ what # "changed" => what \in reader'.disturbed
    /\ changes' \in Nat /\ changes <= changes'
    /\ reader.at = "count" =>
         changes' = changes + 1 \/ (Selected' = Selected /\ Analysed' = Analysed)
    /\ kept' \subseteq kept
    /\ what = "removed" => id \notin kept'

LEMMA NoteIsNoted ==
    ASSUME ListingInv, NEW id \in Ids, NEW what \in {"added", "changed", "removed"},
           Wrote(id, what), Note(what, id)
    PROVE  Noted(id, what)
<1>1. reader \in Readers /\ changes \in Nat
  BY DEF ListingInv, ReaderIsRight, RowsAreRight
<1>2. reader' \in Readers /\ SameReading(reader, reader')
      /\ (id \in Mine /\ reader.at # "rest" /\ what # "changed" => what \in reader'.disturbed)
  <2>1. CASE id \in Mine /\ reader.at # "rest" /\ what # "changed"
    <3>1. reader' = [reader EXCEPT !.disturbed = @ \cup {what}]
      BY <2>1 DEF Note
    <3> QED
      BY <1>1, <3>1 DEF Readers, SameReading
  <2>2. CASE ~(id \in Mine /\ reader.at # "rest" /\ what # "changed")
    <3>1. reader' = reader
      BY <2>2 DEF Note
    <3> QED
      BY <1>1, <2>2, <3>1 DEF SameReading
  <2> QED
    BY <2>1, <2>2
<1>3. /\ changes' \in Nat /\ changes <= changes'
      /\ reader.at = "count" /\ id \in Mine => changes' = changes + 1
  BY <1>1 DEF Note
<1>4. kept' \subseteq kept /\ (what = "removed" => id \notin kept')
  BY DEF Note
<1> QED
  BY <1>2, <1>3, <1>4 DEF Noted, Wrote

LEMMA UnnoticedIsNoted ==
    ASSUME ListingInv, NEW id \in Ids, Unnoticed
    PROVE  Noted(id, "changed")
<1>1. reader \in Readers /\ changes \in Nat
  BY DEF ListingInv, ReaderIsRight, RowsAreRight
<1> QED
  BY <1>1 DEF Noted, Unnoticed, SameReading

LEMMA RowsStayRight ==
    ASSUME ListingInv, NEW id \in Ids, NEW what \in {"added", "changed", "removed"},
           Wrote(id, what), Noted(id, what)
    PROVE  /\ RowsAreRight'
           /\ Cardinality(Selected) \in Nat /\ Cardinality(Selected') \in Nat
           /\ Cardinality(Selected') <= Cardinality(Selected) + 1
           /\ Cardinality(Selected) <= Cardinality(Selected') + 1
           /\ Cardinality(Analysed) \in Nat /\ Cardinality(Analysed') \in Nat
           /\ Cardinality(Analysed') <= Cardinality(Analysed) + 1
           /\ Cardinality(Analysed) <= Cardinality(Analysed') + 1
<1>1. RowsAreRight
  BY DEF ListingInv
<1>2. PICK S, T : S = Selected /\ T = Selected'
  OBVIOUS
<1>3. IsFiniteSet(S) /\ T \subseteq S \cup {id} /\ S \ {id} \subseteq T
  BY <1>1, <1>2 DEF RowsAreRight, Wrote
<1>4. /\ IsFiniteSet(T) /\ Cardinality(S) \in Nat /\ Cardinality(T) \in Nat
      /\ Cardinality(T) <= Cardinality(S) + 1 /\ Cardinality(S) <= Cardinality(T) + 1
  BY <1>3, NearlyAsMany
<1>5. PICK A, B : A = Analysed /\ B = Analysed'
  OBVIOUS
<1>6. IsFiniteSet(A) /\ B \subseteq A \cup {id} /\ A \ {id} \subseteq B
  BY <1>2, <1>3, <1>5, FS_Subset DEF Wrote, Analysed
<1>7. /\ Cardinality(A) \in Nat /\ Cardinality(B) \in Nat
      /\ Cardinality(B) <= Cardinality(A) + 1 /\ Cardinality(A) <= Cardinality(B) + 1
  BY <1>6, NearlyAsMany
<1>8. kept' \subseteq Selected'
  <2>1. kept' \subseteq Selected
    BY <1>1 DEF RowsAreRight, Noted
  <2>2. CASE what = "removed"
    BY <1>2, <1>3, <2>1, <2>2 DEF Noted
  <2>3. CASE what # "removed"
    BY <2>1, <2>3 DEF Wrote
  <2> QED
    BY <2>2, <2>3
<1>9. RowsAreRight'
  BY <1>2, <1>4, <1>8 DEF RowsAreRight, Wrote, Noted
<1> QED
  BY <1>2, <1>4, <1>5, <1>7, <1>9

LEMMA RanksMove ==
    ASSUME ListingInv, NEW id \in Ids, NEW what \in {"added", "changed", "removed"},
           Wrote(id, what), RowsAreRight', NEW k
    PROVE  /\ Before(k) \in Nat /\ Before(k)' \in Nat
           /\ what # "removed" \/ id \notin Mine => Before(k) <= Before(k)'
           /\ what # "added" \/ id \notin Mine => Before(k)' <= Before(k)
<1>1. PICK S, T : S = Selected /\ T = Selected'
  OBVIOUS
<1>2. IsFiniteSet(S) /\ IsFiniteSet(T)
  BY <1>1 DEF ListingInv, RowsAreRight
<1>3. Before(k) = Cardinality({j \in S : j > k}) /\ Before(k)' = Cardinality({j \in T : j > k})
  BY <1>1 DEF Before
<1>4. /\ Cardinality({j \in S : j > k}) \in Nat /\ Cardinality({j \in T : j > k}) \in Nat
      /\ S \subseteq T => Cardinality({j \in S : j > k}) <= Cardinality({j \in T : j > k})
      /\ T \subseteq S => Cardinality({j \in T : j > k}) <= Cardinality({j \in S : j > k})
  BY <1>2, FewerComeBefore
<1>5. /\ what # "removed" \/ id \notin Mine => S \subseteq T
      /\ what # "added" \/ id \notin Mine => T \subseteq S
  BY <1>1 DEF Wrote
<1> QED
  BY <1>3, <1>4, <1>5

LEMMA PageOfIds ==
    ASSUME NEW r \in Readers
    PROVE  /\ Mine \subseteq Ids /\ r.page \subseteq Ids /\ r.page \in SUBSET Nat
           /\ HalvesAreRight(r) /\ r.at \in {"signals", "failed"} => Max(r.page) \in r.page
<1>1. Mine \subseteq Ids /\ Ids \subseteq Nat
  BY ListingAssumption
<1>2. r.page \in SUBSET Mine
  BY DEF Readers
<1>3. HalvesAreRight(r) /\ r.at \in {"signals", "failed"} => IsFiniteSet(r.page) /\ r.page # {}
  BY DEF HalvesAreRight
<1> QED
  BY <1>1, <1>2, <1>3, NewestIsIn

LEMMA HalvesStayRight ==
    ASSUME NEW id \in Ids, NEW what, Wrote(id, what),
           StoreTypeOK, deleting \in [Ids -> 0..3],
           NEW r \in Readers, NEW s, SameReading(r, s), HalvesAreRight(r)
    PROVE  HalvesAreRight(s)'
<1>1. r.page \subseteq Ids /\ (r.at \in {"signals", "failed"} => Max(r.page) \in Ids)
  BY PageOfIds
<1>2. r.torn \subseteq Ids
  BY DEF Readers
<1>3. \A k \in Ids : /\ deleting[k] \in 0..3 /\ deleting'[k] \in 0..3
                     /\ deleting[k] > 0 => deleting'[k] > 0
  BY DEF Wrote
<1>4. \A k \in r.page : Stored(k)' \/ deleting'[k] > 0
  BY <1>1, <1>3 DEF HalvesAreRight, Wrote
<1>5. r.at = "signals" => "analyses" \in children'[Max(r.page)] \/ deleting'[Max(r.page)] > 0
  BY <1>1, <1>3 DEF HalvesAreRight, Wrote
<1>6. r.at = "failed" => deleting'[Max(r.page)] > 0
  BY <1>1, <1>3 DEF HalvesAreRight
<1>7. \A k \in r.torn : deleting'[k] > 0
  BY <1>2, <1>3 DEF HalvesAreRight
<1> QED
  BY <1>4, <1>5, <1>6, <1>7 DEF HalvesAreRight, SameReading

LEMMA PagesStayRight ==
    ASSUME ListingInv, NEW id \in Ids, NEW what \in {"added", "changed", "removed"},
           Wrote(id, what), Noted(id, what), RowsAreRight'
    PROVE  PagesAreRight(reader)'
<1>1. PICK r, s : r = reader /\ s = reader'
  OBVIOUS
<1>2. r \in Readers /\ PagesAreRight(r) /\ SameReading(r, s) /\ (r.at = "rest" <=> r.task = "none")
  BY <1>1 DEF ListingInv, ReaderIsRight, Noted
<1>3. ASSUME r.task = "export"
      PROVE  id \in Mine /\ what # "changed" => what \in s.disturbed
  BY <1>1, <1>2, <1>3 DEF Noted
<1>4. kept' \subseteq kept
  BY DEF Noted
<1>5. r.offset \in Nat /\ r.shown \in [Ids -> Nat] /\ PageSize \in Nat
  BY <1>2, ListingAssumption DEF Readers, PageSize
<1>6. Reached(s) = Reached(r) /\ More(s) = More(r) /\ Reached(r) \in Nat
  BY <1>2, <1>5 DEF Reached, More, SameReading
<1>7. ASSUME r.task = "export"  PROVE NoneIsMissed(s)'
  <2> SUFFICES ASSUME "removed" \notin s.disturbed, s.at # "failed", NEW k \in kept'
               PROVE  s.shown[k] >= 1 \/ k \in s.page \/ (More(s) /\ Before(k)' >= Reached(s))
    BY DEF NoneIsMissed, More, Reached
  <2>1. what # "removed" \/ id \notin Mine
    BY <1>3, <1>7
  <2>2. Before(k) \in Nat /\ Before(k)' \in Nat /\ Before(k) <= Before(k)'
    BY <2>1, RanksMove
  <2>3. r.shown[k] >= 1 \/ k \in r.page \/ (More(r) /\ Before(k) >= Reached(r))
    BY <1>2, <1>4, <1>7 DEF PagesAreRight, NoneIsMissed, SameReading
  <2> QED
    BY <1>2, <1>6, <2>2, <2>3 DEF SameReading
<1>8. ASSUME r.task = "export"  PROVE NoneIsRepeated(s)'
  <2> SUFFICES ASSUME "added" \notin s.disturbed, NEW k \in kept'
               PROVE  /\ s.shown[k] <= 1
                      /\ s.shown[k] = 1 => k \notin s.page
                      /\ s.shown[k] = 1 \/ k \in s.page => Before(k)' < Reached(s)
    BY DEF NoneIsRepeated, Reached
  <2>1. what # "added" \/ id \notin Mine
    BY <1>3, <1>8
  <2>2. Before(k) \in Nat /\ Before(k)' \in Nat /\ Before(k)' <= Before(k)
    BY <2>1, RanksMove
  <2>3. /\ r.shown[k] <= 1
        /\ r.shown[k] = 1 => k \notin r.page
        /\ r.shown[k] = 1 \/ k \in r.page => Before(k) < Reached(r)
    BY <1>2, <1>4, <1>8 DEF PagesAreRight, NoneIsRepeated, SameReading
  <2> QED
    BY <1>2, <1>6, <2>2, <2>3 DEF SameReading
<1> QED
  BY <1>1, <1>2, <1>7, <1>8 DEF PagesAreRight, SameReading

LEMMA FiguresStayNear ==
    ASSUME NEW f, NEW n \in Nat, NEW m \in Nat, n <= m, NEW S, NEW T, NEW A, NEW B,
           f \in Seq(Nat), Cardinality(S) \in Nat, Cardinality(T) \in Nat,
           Cardinality(A) \in Nat, Cardinality(B) \in Nat,
           \/ T = S /\ B = A
           \/ /\ m = n + 1
              /\ Cardinality(T) <= Cardinality(S) + 1 /\ Cardinality(S) <= Cardinality(T) + 1
              /\ Cardinality(B) <= Cardinality(A) + 1 /\ Cardinality(A) <= Cardinality(B) + 1
    PROVE  /\ FiguresAgree(f, n) => FiguresAgree(f, m)
           /\ FiguresAreNear(f, S, A, n) => FiguresAreNear(f, T, B, m)
<1>1. \A i \in DOMAIN f : f[i] \in Nat
  OBVIOUS
<1>2. ASSUME NEW i, NEW j, NoMore(f, i, j, n)  PROVE NoMore(f, i, j, m)
  BY <1>1, <1>2 DEF NoMore
<1>3. FiguresAgree(f, n) => FiguresAgree(f, m)
  BY <1>2 DEF FiguresAgree
<1>4. ASSUME NEW k \in Nat, NEW X, NEW Y, Near(k, X, n),
             Cardinality(X) \in Nat, Cardinality(Y) \in Nat,
             Y = X \/ (m = n + 1 /\ Cardinality(X) <= Cardinality(Y) + 1
                                 /\ Cardinality(Y) <= Cardinality(X) + 1)
      PROVE  Near(k, Y, m)
  <2>1. CASE Y = X
    BY <1>4, <2>1 DEF Near
  <2>2. CASE m = n + 1 /\ Cardinality(X) <= Cardinality(Y) + 1
                      /\ Cardinality(Y) <= Cardinality(X) + 1
    <3> DEFINE x == Cardinality(X)
               y == Cardinality(Y)
    <3>1. k <= x + n /\ x <= k + n
      BY <1>4 DEF Near
    <3>2. x <= y + 1 /\ y <= x + 1 /\ m = n + 1 /\ x \in Nat /\ y \in Nat
      BY <1>4, <2>2
    <3>3. k <= y + m /\ y <= k + m
      <4> HIDE DEF x, y
      <4> QED
        BY <3>1, <3>2
    <3> QED
      BY <3>3 DEF Near
  <2> QED
    BY <1>4, <2>1, <2>2
<1>5. /\ \A k \in Nat : Near(k, S, n) => Near(k, T, m)
      /\ \A k \in Nat : Near(k, A, n) => Near(k, B, m)
  BY <1>4
<1>6. FiguresAreNear(f, S, A, n) => FiguresAreNear(f, T, B, m)
  BY <1>1, <1>5 DEF FiguresAreNear
<1> QED
  BY <1>3, <1>6

LEMMA FiguresStayRight ==
    ASSUME ListingInv, NEW id \in Ids, NEW what \in {"added", "changed", "removed"},
           Wrote(id, what), Noted(id, what)
    PROVE  FiguresAreRight(reader)'
<1>1. PICK r, s : r = reader /\ s = reader'
  OBVIOUS
<1>2. r \in Readers /\ FiguresAreRight(r) /\ SameReading(r, s)
  BY <1>1 DEF ListingInv, ReaderIsRight, Noted
<1>3. PICK n, m : n = changes /\ m = changes'
  OBVIOUS
<1>4. n \in Nat /\ m \in Nat /\ n <= m
  BY <1>3 DEF ListingInv, RowsAreRight, Noted
<1>5. PICK S, T, A, B : S = Selected /\ T = Selected' /\ A = Analysed /\ B = Analysed'
  OBVIOUS
<1>6. /\ Cardinality(S) \in Nat /\ Cardinality(T) \in Nat
      /\ Cardinality(T) <= Cardinality(S) + 1 /\ Cardinality(S) <= Cardinality(T) + 1
      /\ Cardinality(A) \in Nat /\ Cardinality(B) \in Nat
      /\ Cardinality(B) <= Cardinality(A) + 1 /\ Cardinality(A) <= Cardinality(B) + 1
  BY <1>5, RowsStayRight
<1>7. r.figures \in Seq(Nat) /\ s.figures = r.figures /\ s.at = r.at /\ s.task = r.task
  BY <1>2 DEF Readers, SameReading
<1>8. FiguresAgree(r.figures, n) => FiguresAgree(r.figures, m)
  <2>1. \A i \in DOMAIN r.figures : r.figures[i] \in Nat
    BY <1>7
  <2> QED
    BY <1>4, <2>1 DEF FiguresAgree, NoMore
<1>9. ASSUME r.at = "count"
      PROVE  FiguresAreNear(r.figures, S, A, n) => FiguresAreNear(r.figures, T, B, m)
  <2>1. m = n + 1 \/ (T = S /\ B = A)
    BY <1>1, <1>3, <1>5, <1>9 DEF Noted
  <2> QED
    BY <1>4, <1>6, <1>7, <2>1, FiguresStayNear
<1> QED
  BY <1>1, <1>2, <1>3, <1>5, <1>7, <1>8, <1>9 DEF FiguresAreRight

LEMMA WritesKeepIt ==
    ASSUME ListingInv, NEW id \in Ids, NEW what \in {"added", "changed", "removed"},
           Wrote(id, what), Noted(id, what)
    PROVE  ListingInv'
<1>1. RowsAreRight'
  BY RowsStayRight
<1>2. PagesAreRight(reader)' /\ FiguresAreRight(reader)'
  BY <1>1, PagesStayRight, FiguresStayRight
<1>3. PICK r, s : r = reader /\ s = reader'
  OBVIOUS
<1>4. HalvesAreRight(s)'
  BY <1>3, HalvesStayRight DEF ListingInv, ReaderIsRight, RowsAreRight, Noted
<1>5. /\ reader' \in Readers
      /\ reader'.at = "rest" <=> reader'.task = "none"
      /\ reader'.at = "count" => reader'.task = "stats"
  BY DEF ListingInv, ReaderIsRight, Noted, SameReading
<1> QED
  BY <1>1, <1>2, <1>3, <1>4, <1>5 DEF ListingInv, ReaderIsRight

-----------------------------------------------------------------------------
(* The reader. *)

ReaderReads == UNCHANGED <<storeVars, analysing, deleting, kept, changes>>

LEMMA ReaderMoves ==
    ASSUME ListingInv, ReaderReads, NEW r, reader' = r, ReaderIsRight(r)
    PROVE  ListingInv'
<1>1. UNCHANGED <<submissions, children, backend, old, deleting, kept, changes>>
  BY DEF ReaderReads, storeVars
<1>2. \A id \in Ids : Stored(id)' <=> Stored(id)
  BY <1>1 DEF Stored
<1>3. Selected' = Selected
  BY <1>1 DEF Selected, Stored
<1>4. Analysed' = Analysed
  BY <1>1, <1>3 DEF Analysed
<1>5. \A id : Before(id)' = Before(id)
  BY <1>3 DEF Before
<1>6. RowsAreRight'
  BY <1>1, <1>3 DEF ListingInv, RowsAreRight, StoreTypeOK
<1>7. HalvesAreRight(r)'
  BY <1>1 DEF ReaderIsRight, HalvesAreRight, Stored
<1>8. PagesAreRight(r)'
  BY <1>1, <1>5 DEF ReaderIsRight, PagesAreRight, NoneIsMissed, NoneIsRepeated, More, Reached
<1>9. FiguresAreRight(r)'
  BY <1>1, <1>3, <1>4 DEF ReaderIsRight, FiguresAreRight
<1>10. ReaderIsRight(r)'
  BY <1>7, <1>8, <1>9 DEF ReaderIsRight
<1>11. PICK s : s = reader'
  OBVIOUS
<1> QED
  BY <1>6, <1>10 DEF ListingInv

LEMMA ReadsAreReads ==
    ASSUME Reads, UNCHANGED Watching
    PROVE  ReaderReads
BY DEF Reads, Watching, ReaderReads, storeVars

LEMMA PagesHaveASize ==
    /\ PageSize \in Nat \ {0} /\ Limit(PageSize) = PageSize
    /\ \A asked : Limit(asked) \in Nat \ {0}
BY ListingAssumption DEF PageSize, Limit

\* The newest row of the page goes into the answer.
LEMMA RowIsShown ==
    ASSUME ListingInv, NEW r, r = reader, r.at \in {"row", "signals"},
           NEW id, id = Max(r.page), id \in r.page, NEW s \in Readers,
           s.task = r.task, s.at = "row", s.offset = r.offset, s.asked = r.asked,
           s.page = r.page \ {id}, s.fetched = r.fetched,
           s.shown = [r.shown EXCEPT ![id] = @ + 1], s.disturbed = r.disturbed,
           s.torn \subseteq r.torn \cup {k \in {id} : deleting[k] > 0}
    PROVE  ReaderIsRight(s)
<1>1. r \in Readers /\ ReaderIsRight(r)
  BY DEF ListingInv, ReaderIsRight
<1>2. r.task # "stats" /\ r.task # "none"
  BY <1>1 DEF ReaderIsRight, FiguresAreRight
<1>3. HalvesAreRight(s)
  <2>1. IsFiniteSet(s.page)
    BY <1>1, FS_Subset DEF ReaderIsRight, HalvesAreRight
  <2> QED
    BY <1>1, <2>1 DEF ReaderIsRight, HalvesAreRight
<1>4. r.shown \in [Ids -> Nat] /\ id \in Ids /\ s.shown[id] = r.shown[id] + 1
      /\ \A k \in Ids \ {id} : s.shown[k] = r.shown[k]
  <2>1. r.shown \in [Ids -> Nat]
    BY <1>1 DEF Readers
  <2>2. id \in Ids
    BY <1>1, PageOfIds
  <2> QED
    BY <2>1, <2>2
<1>5. Reached(s) = Reached(r) /\ More(s) = More(r)
  BY DEF Reached, More
<1>6. kept \subseteq Ids
  BY ListingAssumption DEF ListingInv, RowsAreRight, Selected
<1>7. NoneIsMissed(r) => NoneIsMissed(s)
  <2> SUFFICES ASSUME NoneIsMissed(r), "removed" \notin s.disturbed, NEW k \in kept
               PROVE  s.shown[k] >= 1 \/ k \in s.page \/ (More(s) /\ Before(k) >= Reached(s))
    BY DEF NoneIsMissed
  <2>1. r.shown[k] >= 1 \/ k \in r.page \/ (More(r) /\ Before(k) >= Reached(r))
    BY DEF NoneIsMissed
  <2>2. CASE k = id
    BY <1>4, <2>2
  <2>3. CASE k # id
    BY <1>4, <1>5, <1>6, <2>1, <2>3
  <2> QED
    BY <2>2, <2>3
<1>8. NoneIsRepeated(r) => NoneIsRepeated(s)
  <2> SUFFICES ASSUME NoneIsRepeated(r), "added" \notin s.disturbed, NEW k \in kept
               PROVE  /\ s.shown[k] <= 1
                      /\ s.shown[k] = 1 => k \notin s.page
                      /\ s.shown[k] = 1 \/ k \in s.page => Before(k) < Reached(s)
    BY DEF NoneIsRepeated
  <2>1. /\ r.shown[k] <= 1
        /\ r.shown[k] = 1 => k \notin r.page
        /\ r.shown[k] = 1 \/ k \in r.page => Before(k) < Reached(r)
    BY DEF NoneIsRepeated
  <2>2. CASE k = id
    BY <1>4, <1>5, <2>1, <2>2
  <2>3. CASE k # id
    BY <1>4, <1>5, <1>6, <2>1, <2>3
  <2> QED
    BY <2>2, <2>3
<1>9. PagesAreRight(s)
  BY <1>1, <1>7, <1>8 DEF ReaderIsRight, PagesAreRight
<1> QED
  BY <1>2, <1>3, <1>9 DEF ReaderIsRight, FiguresAreRight

LEMMA ReadIdsKeeps ==
    ASSUME ListingInv, ReadIds
    PROVE  ListingInv'
<1>1. PICK r : r = reader
  OBVIOUS
<1>2. r \in Readers /\ ReaderIsRight(r) /\ r.at = "ids"
  BY <1>1 DEF ListingInv, ReaderIsRight, ReadIds
<1>3. PICK page : page = Page(Limit(r.asked), r.offset)
  OBVIOUS
<1> DEFINE s == [r EXCEPT !.page = page, !.fetched = Cardinality(page), !.at = "row"]
<1>4. reader' = s /\ ReaderReads
  BY <1>1, <1>3, ReadsAreReads DEF ReadIds
<1>5. page \subseteq Selected /\ Selected \subseteq Mine /\ IsFiniteSet(Selected)
      /\ Selected \in SUBSET Nat
  BY <1>3, ListingAssumption DEF Page, Selected, ListingInv, RowsAreRight
<1>6. IsFiniteSet(page) /\ Cardinality(page) \in Nat
  BY <1>5, FS_Subset, FS_CardinalityType
<1>7. /\ s \in Readers /\ s.task = r.task /\ s.at = "row" /\ s.offset = r.offset
      /\ s.asked = r.asked /\ s.page = page /\ s.fetched = Cardinality(page)
      /\ s.shown = r.shown /\ s.torn = r.torn /\ s.disturbed = r.disturbed
  BY <1>2, <1>5, <1>6 DEF Readers
<1> HIDE DEF s
<1>8. r.task # "stats" /\ r.task # "none"
  BY <1>2 DEF ReaderIsRight, FiguresAreRight
<1>9. HalvesAreRight(s)
  BY <1>2, <1>5, <1>6, <1>7 DEF ReaderIsRight, HalvesAreRight, Selected
<1>10. r.offset \in Nat /\ r.shown \in [Ids -> Nat] /\ kept \subseteq Selected
  BY <1>2 DEF Readers, ListingInv, RowsAreRight
<1>11. \A k \in Selected : Before(k) \in Nat
  <2>1. PICK S : S = Selected
    OBVIOUS
  <2>2. \A k : Cardinality({j \in S : j > k}) \in Nat
    BY <1>5, <2>1, FewerComeBefore
  <2> QED
    BY <2>1, <2>2 DEF Before
<1>12. ASSUME r.task = "export"
       PROVE  /\ PagesAreRight(r) /\ r.asked = PageSize /\ r.page = {}
              /\ page = {k \in Selected : Before(k) >= r.offset /\ Before(k) < r.offset + PageSize}
              /\ Reached(s) = r.offset + PageSize /\ Reached(r) = r.offset
              /\ (More(s) <=> Cardinality(page) >= PageSize)
  BY <1>2, <1>3, <1>7, <1>12, PagesHaveASize
     DEF ReaderIsRight, PagesAreRight, Page, Reached, More
<1>13. ASSUME r.task = "export", NEW k \in Selected, Before(k) >= r.offset + PageSize
       PROVE  Cardinality(page) >= PageSize
  <2>1. PICK S : S = Selected
    OBVIOUS
  <2>2. PICK f : f = [j \in S |-> Cardinality({i \in S : i > j})]
    OBVIOUS
  <2>3. \A j \in S : f[j] = Before(j)
    BY <2>1, <2>2 DEF Before
  <2>4. f \in [S -> Nat] /\ \A j \in S : f[j] = Cardinality({i \in S : i > j})
    BY <1>11, <2>1, <2>2, <2>3
  <2>5. Cardinality({j \in S : f[j] >= r.offset /\ f[j] < r.offset + PageSize}) >= PageSize
    BY <1>5, <1>10, <1>13, <2>1, <2>3, <2>4, PagesHaveASize, PageIsFull
  <2>6. page = {j \in S : f[j] >= r.offset /\ f[j] < r.offset + PageSize}
    BY <1>12, <1>13, <2>1, <2>3
  <2> QED
    BY <2>5, <2>6
<1>14. ASSUME r.task = "export"  PROVE NoneIsMissed(s)
  <2> SUFFICES ASSUME "removed" \notin r.disturbed, NEW k \in kept
               PROVE  s.shown[k] >= 1 \/ k \in s.page \/ (More(s) /\ Before(k) >= Reached(s))
    BY <1>7 DEF NoneIsMissed
  <2>1. r.shown[k] >= 1 \/ Before(k) >= r.offset
    BY <1>2, <1>12, <1>14 DEF PagesAreRight, NoneIsMissed
  <2>2. k \in Selected /\ Before(k) \in Nat /\ PageSize \in Nat
    BY <1>10, <1>11, PagesHaveASize
  <2>3. Before(k) >= r.offset + PageSize \/ Before(k) < r.offset + PageSize
    BY <1>10, <2>2
  <2> QED
    BY <1>7, <1>12, <1>13, <1>14, <2>1, <2>2, <2>3
<1>15. ASSUME r.task = "export"  PROVE NoneIsRepeated(s)
  <2> SUFFICES ASSUME "added" \notin r.disturbed, NEW k \in kept
               PROVE  /\ s.shown[k] <= 1
                      /\ s.shown[k] = 1 => k \notin s.page
                      /\ s.shown[k] = 1 \/ k \in s.page => Before(k) < Reached(s)
    BY <1>7 DEF NoneIsRepeated
  <2>1. r.shown[k] <= 1 /\ (r.shown[k] = 1 => Before(k) < r.offset)
    BY <1>12, <1>15 DEF PagesAreRight, NoneIsRepeated
  <2>2. k \in Selected /\ Before(k) \in Nat /\ PageSize \in Nat
    BY <1>10, <1>11, PagesHaveASize
  <2>3. k \in page => Before(k) >= r.offset /\ Before(k) < r.offset + PageSize
    BY <1>12, <1>15
  <2>4. Before(k) < r.offset => Before(k) < r.offset + PageSize
    BY <1>10, <2>2
  <2>5. s.shown[k] = 1 => k \notin s.page
    BY <1>7, <1>10, <2>1, <2>2, <2>3
  <2> QED
    BY <1>7, <1>12, <1>15, <2>1, <2>3, <2>4, <2>5
<1>16. PagesAreRight(s)
  BY <1>7, <1>12, <1>14, <1>15 DEF PagesAreRight
<1>17. ReaderIsRight(s)
  BY <1>7, <1>8, <1>9, <1>16 DEF ReaderIsRight, FiguresAreRight
<1> QED
  BY <1>4, <1>17, ReaderMoves

LEMMA ReadRowKeeps ==
    ASSUME ListingInv, ReadRow
    PROVE  ListingInv'
<1>1. PICK r, id : r = reader /\ id = Max(r.page)
  OBVIOUS
<1>2. r \in Readers /\ ReaderIsRight(r) /\ r.at = "row" /\ r.page # {} /\ ReaderReads
  BY <1>1, ReadsAreReads DEF ListingInv, ReaderIsRight, ReadRow
<1>3. r.task # "stats" /\ r.task # "none"
  BY <1>2 DEF ReaderIsRight, FiguresAreRight
<1>4. IsFiniteSet(r.page) /\ r.page \in SUBSET Nat /\ r.page \subseteq Ids
  BY <1>2, PageOfIds DEF ReaderIsRight, HalvesAreRight
<1>5. id \in r.page /\ id \in Ids
  BY <1>1, <1>2, <1>4, NewestIsIn
<1>6. CASE ~Stored(id)
  <2> DEFINE s == [r EXCEPT !.at = "failed"]
  <2>1. reader' = s
    BY <1>1, <1>6 DEF ReadRow
  <2>2. /\ s \in Readers /\ s.task = r.task /\ s.at = "failed" /\ s.offset = r.offset
        /\ s.asked = r.asked /\ s.page = r.page /\ s.fetched = r.fetched
        /\ s.shown = r.shown /\ s.torn = r.torn /\ s.disturbed = r.disturbed
    BY <1>2 DEF Readers
  <2> HIDE DEF s
  <2>3. HalvesAreRight(s)
    BY <1>1, <1>2, <1>5, <1>6, <2>2 DEF ReaderIsRight, HalvesAreRight
  <2>4. PagesAreRight(s)
    BY <1>2, <2>2 DEF ReaderIsRight, PagesAreRight, NoneIsMissed, NoneIsRepeated, Reached, More
  <2>5. ReaderIsRight(s)
    BY <1>3, <2>2, <2>3, <2>4 DEF ReaderIsRight, FiguresAreRight
  <2> QED
    BY <1>2, <2>1, <2>5, ReaderMoves
<1>7. CASE Stored(id) /\ "analyses" \in children[id]
  <2> DEFINE s == [r EXCEPT !.at = "signals"]
  <2>1. reader' = s
    BY <1>1, <1>7 DEF ReadRow
  <2>2. /\ s \in Readers /\ s.task = r.task /\ s.at = "signals" /\ s.offset = r.offset
        /\ s.asked = r.asked /\ s.page = r.page /\ s.fetched = r.fetched
        /\ s.shown = r.shown /\ s.torn = r.torn /\ s.disturbed = r.disturbed
    BY <1>2 DEF Readers
  <2> HIDE DEF s
  <2>3. HalvesAreRight(s)
    BY <1>1, <1>2, <1>5, <1>7, <2>2 DEF ReaderIsRight, HalvesAreRight
  <2>4. PagesAreRight(s)
    BY <1>2, <2>2 DEF ReaderIsRight, PagesAreRight, NoneIsMissed, NoneIsRepeated, Reached, More
  <2>5. ReaderIsRight(s)
    BY <1>3, <2>2, <2>3, <2>4 DEF ReaderIsRight, FiguresAreRight
  <2> QED
    BY <1>2, <2>1, <2>5, ReaderMoves
<1>8. CASE Stored(id) /\ "analyses" \notin children[id]
  <2> DEFINE s == [r EXCEPT !.page = @ \ {id}, !.shown[id] = @ + 1]
  <2>1. reader' = s
    BY <1>1, <1>8 DEF ReadRow
  <2>2. r.page \ {id} \in SUBSET Mine /\ [r.shown EXCEPT ![id] = @ + 1] \in [Ids -> Nat]
    <3>1. r.page \in SUBSET Mine /\ r.shown \in [Ids -> Nat]
      BY <1>2 DEF Readers
    <3> QED
      BY <1>5, <3>1
  <2>3. /\ s.task = r.task /\ s.at = "row" /\ s.offset = r.offset
        /\ s.asked = r.asked /\ s.page = r.page \ {id} /\ s.fetched = r.fetched
        /\ s.shown = [r.shown EXCEPT ![id] = @ + 1] /\ s.torn = r.torn
        /\ s.disturbed = r.disturbed
    BY <1>2 DEF Readers
  <2>4. s \in Readers
    BY <1>2, <2>2 DEF Readers
  <2> HIDE DEF s
  <2>5. ReaderIsRight(s)
    BY <1>1, <1>2, <1>5, <2>3, <2>4, RowIsShown
  <2> QED
    BY <1>2, <2>1, <2>5, ReaderMoves
<1> QED
  BY <1>6, <1>7, <1>8

LEMMA ReadSignalsKeeps ==
    ASSUME ListingInv, ReadSignals
    PROVE  ListingInv'
<1>1. PICK r, id : r = reader /\ id = Max(r.page)
  OBVIOUS
<1>2. r \in Readers /\ ReaderIsRight(r) /\ r.at = "signals" /\ ReaderReads
  BY <1>1, ReadsAreReads DEF ListingInv, ReaderIsRight, ReadSignals
<1>3. id \in r.page /\ id \in Ids
  BY <1>1, <1>2, PageOfIds DEF ReaderIsRight
<1>4. PICK torn : torn = IF "signals" \in children[id] THEN r.torn ELSE r.torn \cup {id}
  OBVIOUS
<1>5. torn \subseteq r.torn \cup {k \in {id} : deleting[k] > 0}
  <2>1. "signals" \notin children[id] => deleting[id] > 0
    BY <1>1, <1>2, <1>3 DEF ReaderIsRight, HalvesAreRight, ListingInv, RowsAreRight
  <2> QED
    BY <1>4, <2>1
<1> DEFINE s == [r EXCEPT !.at = "row", !.page = @ \ {id}, !.shown[id] = @ + 1, !.torn = torn]
<1>6. reader' = s
  BY <1>1, <1>4 DEF ReadSignals
<1>7. /\ r.page \ {id} \in SUBSET Mine /\ [r.shown EXCEPT ![id] = @ + 1] \in [Ids -> Nat]
      /\ torn \in SUBSET Ids
  BY <1>2, <1>3, <1>4 DEF Readers
<1>8. /\ s.task = r.task /\ s.at = "row" /\ s.offset = r.offset
      /\ s.asked = r.asked /\ s.page = r.page \ {id} /\ s.fetched = r.fetched
      /\ s.shown = [r.shown EXCEPT ![id] = @ + 1] /\ s.torn = torn
      /\ s.disturbed = r.disturbed
  BY <1>2 DEF Readers
<1>9. s \in Readers
  BY <1>2, <1>7 DEF Readers
<1> HIDE DEF s
<1>10. ReaderIsRight(s)
  BY <1>1, <1>2, <1>3, <1>5, <1>8, <1>9, RowIsShown
<1> QED
  BY <1>2, <1>6, <1>10, ReaderMoves

LEMMA EndPageKeeps ==
    ASSUME ListingInv, EndPage
    PROVE  ListingInv'
<1>1. PICK r : r = reader
  OBVIOUS
<1>2. r \in Readers /\ ReaderIsRight(r) /\ r.at = "row" /\ r.page = {} /\ ReaderReads
  BY <1>1, ReadsAreReads DEF ListingInv, ReaderIsRight, EndPage
<1>3. r.task # "stats" /\ r.task # "none"
  BY <1>2 DEF ReaderIsRight, FiguresAreRight
<1>4. r.offset \in Nat /\ r.fetched \in Nat /\ PageSize \in Nat
  BY <1>2, PagesHaveASize DEF Readers
<1>5. CASE r.task = "export" /\ r.fetched >= PageSize
  <2> DEFINE s == [r EXCEPT !.at = "ids", !.offset = @ + PageSize]
  <2>1. reader' = s
    BY <1>1, <1>5 DEF EndPage
  <2>2. r.offset + PageSize \in Nat
    BY <1>4
  <2>3. /\ s \in Readers /\ s.task = r.task /\ s.at = "ids" /\ s.offset = r.offset + PageSize
        /\ s.asked = r.asked /\ s.page = r.page /\ s.fetched = r.fetched
        /\ s.shown = r.shown /\ s.torn = r.torn /\ s.disturbed = r.disturbed
    BY <1>2, <2>2 DEF Readers
  <2> HIDE DEF s
  <2>4. HalvesAreRight(s)
    BY <1>2, <2>3 DEF ReaderIsRight, HalvesAreRight
  <2>5. Reached(s) = Reached(r) /\ More(s) /\ More(r)
    BY <1>2, <1>5, <2>3 DEF Reached, More
  <2>6. NoneIsMissed(s) /\ NoneIsRepeated(s)
    BY <1>2, <1>5, <2>3, <2>5 DEF ReaderIsRight, PagesAreRight, NoneIsMissed, NoneIsRepeated
  <2>7. PagesAreRight(s)
    BY <1>2, <2>3, <2>6 DEF ReaderIsRight, PagesAreRight
  <2>8. ReaderIsRight(s)
    BY <1>3, <2>3, <2>4, <2>7 DEF ReaderIsRight, FiguresAreRight
  <2> QED
    BY <1>2, <2>1, <2>8, ReaderMoves
<1>6. CASE ~(r.task = "export" /\ r.fetched >= PageSize)
  <2> DEFINE s == [r EXCEPT !.at = "over"]
  <2>1. reader' = s
    BY <1>1, <1>6 DEF EndPage
  <2>2. /\ s \in Readers /\ s.task = r.task /\ s.at = "over" /\ s.offset = r.offset
        /\ s.asked = r.asked /\ s.page = r.page /\ s.fetched = r.fetched
        /\ s.shown = r.shown /\ s.torn = r.torn /\ s.disturbed = r.disturbed
    BY <1>2 DEF Readers
  <2> HIDE DEF s
  <2>3. HalvesAreRight(s)
    BY <1>2, <2>2 DEF ReaderIsRight, HalvesAreRight
  <2>4. Reached(s) = Reached(r) /\ More(s) = More(r)
    BY <1>2, <2>2 DEF Reached, More
  <2>5. r.task = "export" => NoneIsMissed(s) /\ NoneIsRepeated(s) /\ s.fetched < PageSize
    BY <1>2, <1>4, <1>6, <2>2, <2>4
       DEF ReaderIsRight, PagesAreRight, NoneIsMissed, NoneIsRepeated
  <2>6. PagesAreRight(s)
    BY <1>2, <2>2, <2>5 DEF ReaderIsRight, PagesAreRight
  <2>7. ReaderIsRight(s)
    BY <1>3, <2>2, <2>3, <2>6 DEF ReaderIsRight, FiguresAreRight
  <2> QED
    BY <1>2, <2>1, <2>7, ReaderMoves
<1> QED
  BY <1>5, <1>6

LEMMA NextPair ==
    ASSUME NEW f \in Seq(Nat), NEW n \in 1..8, Len(f) = n - 1, NEW v \in Nat, NEW c \in Nat,
           NEW g, g = Append(f, v), NEW i \in 1..8, NEW j \in 1..8, i # j, NoMore(f, i, j, c),
           j = n /\ i < n => f[i] <= v + c, i = n /\ j < n => v <= f[j] + c
    PROVE  NoMore(g, i, j, c)
<1>1. DOMAIN f = 1..(n - 1) /\ DOMAIN g = 1..n /\ g[n] = v
  OBVIOUS
<1>2. \A k \in 1..(n - 1) : g[k] = f[k]
  OBVIOUS
<1>3. CASE i = n
  BY <1>1, <1>2, <1>3 DEF NoMore
<1>4. CASE j = n
  BY <1>1, <1>2, <1>4 DEF NoMore
<1>5. CASE i # n /\ j # n
  BY <1>1, <1>2, <1>5 DEF NoMore
<1> QED
  BY <1>3, <1>4, <1>5

\* The next figure is right now, and agrees with the earlier ones.
LEMMA CountNextKeeps ==
    ASSUME ListingInv, CountNext
    PROVE  ListingInv'
<1>1. PICK r, f, n, c : r = reader /\ f = r.figures /\ n = Len(f) + 1 /\ c = changes
  OBVIOUS
<1>2. /\ r \in Readers /\ ReaderIsRight(r) /\ r.at = "count" /\ r.task = "stats" /\ ReaderReads
  BY <1>1, ReadsAreReads DEF ListingInv, ReaderIsRight, CountNext
<1>3. /\ f \in Seq(Nat) /\ n \in 1..8 /\ Len(f) = n - 1 /\ DOMAIN f = 1..(n - 1) /\ c \in Nat
      /\ FiguresAgree(f, c) /\ FiguresAreNear(f, Selected, Analysed, c)
  <2>1. f \in Seq(Nat) /\ Len(f) < 8
    BY <1>1, <1>2 DEF Readers, ReaderIsRight, FiguresAreRight
  <2>2. FiguresAgree(f, c) /\ FiguresAreNear(f, Selected, Analysed, c) /\ c \in Nat
    BY <1>1, <1>2 DEF ReaderIsRight, FiguresAreRight, ListingInv, RowsAreRight
  <2>3. DOMAIN f = 1..Len(f) /\ Len(f) \in Nat
    BY <2>1
  <2>4. n \in 1..8 /\ Len(f) = n - 1
    <3>1. \A l \in Nat : l < 8 /\ n = l + 1 => n \in 1..8 /\ l = n - 1
      OBVIOUS
    <3> QED
      BY <1>1, <2>1, <2>3, <3>1
  <2> QED
    BY <2>1, <2>2, <2>3, <2>4
<1>4. PICK C : C = Counted(Statements[n])
  OBVIOUS
<1>5. PICK v, g : v = Cardinality(C) /\ g = Append(f, v)
  OBVIOUS
<1>6. PICK S, A : S = Selected /\ A = Analysed
  OBVIOUS
<1>7. /\ n \in {1, 3, 5, 8} => C = A
      /\ n \in {2, 4} => C = S
      /\ C \subseteq S /\ A \subseteq S /\ IsFiniteSet(S)
  <2>1. A \subseteq S /\ IsFiniteSet(S)
    BY <1>6 DEF Analysed, ListingInv, RowsAreRight
  <2>2. n = 1 \/ n = 2 \/ n = 3 \/ n = 4 \/ n = 5 \/ n = 6 \/ n = 7 \/ n = 8
    BY <1>3
  <2>3. /\ n = 1 => Statements[n] = "verdict"
        /\ n = 2 => Statements[n] = "status"
        /\ n = 3 => Statements[n] = "attack"
        /\ n = 4 => Statements[n] = "department"
        /\ n = 5 => Statements[n] = "duration"
        /\ n = 6 => Statements[n] = "review"
        /\ n = 7 => Statements[n] = "signals"
        /\ n = 8 => Statements[n] = "brands"
    BY DEF Statements
  <2>4. CASE n \in {1, 3, 5, 8}
    BY <1>4, <1>6, <2>1, <2>3, <2>4 DEF Counted
  <2>5. CASE n \in {2, 4}
    BY <1>4, <1>6, <2>1, <2>3, <2>5 DEF Counted
  <2>6. CASE n = 6
    BY <1>4, <1>6, <2>1, <2>3, <2>6 DEF Counted
  <2>7. CASE n = 7
    BY <1>4, <1>6, <2>1, <2>3, <2>7 DEF Counted
  <2> QED
    BY <2>2, <2>4, <2>5, <2>6, <2>7
<1>8. /\ v \in Nat /\ Cardinality(S) \in Nat /\ Cardinality(A) \in Nat
      /\ v <= Cardinality(S) /\ Cardinality(A) <= Cardinality(S)
      /\ n \in {1, 3, 5, 8} => v = Cardinality(A)
      /\ n \in {2, 4} => v = Cardinality(S)
  BY <1>5, <1>7, FS_Subset, FS_CardinalityType
<1>9. /\ g \in Seq(Nat) /\ Len(g) = n /\ DOMAIN g = 1..n /\ g[n] = v
      /\ \A i \in 1..(n - 1) : g[i] = f[i] /\ f[i] \in Nat
  <2>1. f \in Seq(Nat) /\ v \in Nat /\ Len(f) = n - 1 /\ n \in 1..8
    BY <1>3, <1>8
  <2>2. g \in Seq(Nat) /\ Len(g) = Len(f) + 1
    BY <1>5, <2>1
  <2>3. Len(g) = n /\ DOMAIN g = 1..n
    BY <2>1, <2>2
  <2>4. g[n] = v /\ \A i \in 1..(n - 1) : g[i] = f[i] /\ f[i] \in Nat
    BY <1>5, <2>1
  <2> QED
    BY <2>2, <2>3, <2>4
<1>10. /\ \A i \in {1, 3, 5} : i \in 1..(n - 1) =>
            f[i] <= Cardinality(A) + c /\ Cardinality(A) <= f[i] + c
       /\ \A i \in {2, 4} : i \in 1..(n - 1) =>
            f[i] <= Cardinality(S) + c /\ Cardinality(S) <= f[i] + c
  BY <1>3, <1>6 DEF FiguresAreNear, Near
<1>11. FiguresAgree(g, c)
  <2>1. ASSUME NEW i \in 1..8, NEW j \in 1..8, i # j, NoMore(f, i, j, c),
               j = n /\ i < n => f[i] <= v + c, i = n /\ j < n => v <= f[j] + c
        PROVE  NoMore(g, i, j, c)
    <3>1. /\ f \in Seq(Nat) /\ n \in 1..8 /\ Len(f) = n - 1
          /\ v \in Nat /\ c \in Nat /\ g = Append(f, v)
      BY <1>3, <1>5, <1>8
    <3>2. j = n /\ i < n => f[i] <= v + c
      BY <2>1
    <3>3. i = n /\ j < n => v <= f[j] + c
      BY <2>1
    <3> QED
      BY <2>1, <3>1, <3>2, <3>3, NextPair
  <2>2. NoMore(g, 2, 4, c)
    BY <1>3, <1>8, <1>9, <1>10, <2>1 DEF FiguresAgree
  <2>3. NoMore(g, 4, 2, c)
    BY <1>3, <1>8, <1>9, <1>10, <2>1 DEF FiguresAgree
  <2>4. NoMore(g, 1, 3, c)
    BY <1>3, <1>8, <1>9, <1>10, <2>1 DEF FiguresAgree
  <2>5. NoMore(g, 3, 1, c)
    BY <1>3, <1>8, <1>9, <1>10, <2>1 DEF FiguresAgree
  <2>6. NoMore(g, 1, 5, c)
    BY <1>3, <1>8, <1>9, <1>10, <2>1 DEF FiguresAgree
  <2>7. NoMore(g, 5, 1, c)
    BY <1>3, <1>8, <1>9, <1>10, <2>1 DEF FiguresAgree
  <2>8. NoMore(g, 5, 8, c)
    BY <1>3, <1>8, <1>9, <1>10, <2>1 DEF FiguresAgree
  <2>9. NoMore(g, 8, 5, c)
    BY <1>3, <1>8, <1>9, <1>10, <2>1 DEF FiguresAgree
  <2>10. NoMore(g, 1, 2, c)
    BY <1>3, <1>8, <1>9, <1>10, <2>1 DEF FiguresAgree
  <2>11. NoMore(g, 6, 2, c)
    <3>1. NoMore(f, 6, 2, c)
      BY <1>3 DEF FiguresAgree
    <3>2. n = 6 => v <= f[2] + c
      <4>1. n = 6 => 2 \in 1..(n - 1)
        OBVIOUS
      <4>2. n = 6 => Cardinality(S) <= f[2] + c /\ f[2] \in Nat
        BY <1>9, <1>10, <4>1
      <4> QED
        BY <1>3, <1>8, <4>2
    <3> QED
      BY <2>1, <3>1, <3>2
  <2>12. NoMore(g, 7, 2, c)
    <3>1. NoMore(f, 7, 2, c)
      BY <1>3 DEF FiguresAgree
    <3>2. n = 7 => v <= f[2] + c
      <4>1. n = 7 => 2 \in 1..(n - 1)
        OBVIOUS
      <4>2. n = 7 => Cardinality(S) <= f[2] + c /\ f[2] \in Nat
        BY <1>9, <1>10, <4>1
      <4> QED
        BY <1>3, <1>8, <4>2
    <3> QED
      BY <2>1, <3>1, <3>2
  <2> QED
    BY <2>2, <2>3, <2>4, <2>5, <2>6, <2>7, <2>8, <2>9, <2>10, <2>11, <2>12 DEF FiguresAgree
<1>12. FiguresAreNear(g, S, A, c)
  <2>1. ASSUME NEW i \in {1, 3, 5}, i \in DOMAIN g  PROVE Near(g[i], A, c)
    <3>1. i = n \/ i \in 1..(n - 1)
      BY <1>3, <1>9, <2>1
    <3> QED
      <4>1. CASE i = n
        <5>1. g[i] = Cardinality(A) /\ Cardinality(A) \in Nat
          BY <1>8, <1>9, <4>1
        <5> QED
          BY <1>3, <5>1 DEF Near
      <4>2. CASE i \in 1..(n - 1)
        BY <1>9, <1>10, <4>2 DEF Near
      <4> QED
        BY <3>1, <4>1, <4>2
  <2>2. ASSUME NEW i \in {2, 4}, i \in DOMAIN g  PROVE Near(g[i], S, c)
    <3>1. i = n \/ i \in 1..(n - 1)
      BY <1>3, <1>9, <2>2
    <3> QED
      <4>1. CASE i = n
        <5>1. g[i] = Cardinality(S) /\ Cardinality(S) \in Nat
          BY <1>8, <1>9, <4>1
        <5> QED
          BY <1>3, <5>1 DEF Near
      <4>2. CASE i \in 1..(n - 1)
        BY <1>9, <1>10, <4>2 DEF Near
      <4> QED
        BY <3>1, <4>1, <4>2
  <2> QED
    BY <2>1, <2>2 DEF FiguresAreNear
<1> DEFINE s == [r EXCEPT !.figures = g, !.at = IF n = 8 THEN "over" ELSE "count"]
<1>13. reader' = s
  <2>1. Len(Statements) = 8
    BY DEF Statements
  <2> QED
    BY <1>1, <1>4, <1>5, <1>9, <2>1 DEF CountNext
<1>14. /\ s \in Readers /\ s.task = "stats" /\ s.at = (IF n = 8 THEN "over" ELSE "count")
       /\ s.page = r.page /\ s.torn = r.torn /\ s.figures = g
  BY <1>2, <1>9 DEF Readers
<1> HIDE DEF s
<1>15. HalvesAreRight(s)
  BY <1>2, <1>14 DEF ReaderIsRight, HalvesAreRight
<1>16. FiguresAreRight(s)
  <2>1. s.at \in {"count", "over"} /\ (s.at = "count" => n < 8) /\ (s.at = "over" => n = 8)
    BY <1>3, <1>14
  <2> QED
    BY <1>1, <1>6, <1>9, <1>11, <1>12, <1>14, <2>1 DEF FiguresAreRight
<1>17. ReaderIsRight(s)
  BY <1>14, <1>15, <1>16 DEF ReaderIsRight, PagesAreRight
<1> QED
  BY <1>2, <1>13, <1>17, ReaderMoves

LEMMA RestingIsRight ==
    /\ ReaderIsRight(Resting)
    /\ Resting.task = "none" /\ Resting.at = "rest" /\ Resting.page = {}
    /\ Resting.torn = {} /\ Resting.figures = <<>> /\ Resting.disturbed = {}
    /\ Resting.shown = [id \in Ids |-> 0] /\ Resting \in Readers
<1>1. /\ Resting.task = "none" /\ Resting.at = "rest" /\ Resting.page = {}
      /\ Resting.torn = {} /\ Resting.figures = <<>> /\ Resting.disturbed = {}
      /\ Resting.shown = [id \in Ids |-> 0]
  BY DEF Resting
<1>2. [id \in Ids |-> 0] \in [Ids -> Nat] /\ <<>> \in Seq(Nat)
  OBVIOUS
<1>3. Resting \in Readers
  BY <1>2 DEF Resting, Readers
<1>4. HalvesAreRight(Resting)
  BY <1>1, FS_EmptySet DEF HalvesAreRight
<1> QED
  BY <1>1, <1>3, <1>4 DEF ReaderIsRight, PagesAreRight, FiguresAreRight

\* The reader looks at nothing yet, or at nothing any more.
LEMMA NewReaderIsRight ==
    ASSUME ListingInv, UNCHANGED <<storeVars, deleting>>, kept' \subseteq Selected, changes' = 0,
           NEW s, reader' = s, s \in Readers, s.page = {}, s.torn = {}, s.figures = <<>>,
           s.disturbed = {}, s.shown = [id \in Ids |-> 0],
           \/ s.task = "none" /\ s.at = "rest"
           \/ s.task = "export" /\ s.at = "ids" /\ s.asked = PageSize /\ s.offset = 0
           \/ s.task = "list" /\ s.at = "ids"
           \/ s.task = "stats" /\ s.at = "count"
    PROVE  ListingInv'
<1>1. UNCHANGED <<submissions, children, backend, old, deleting>>
  BY DEF storeVars
<1>2. \A id \in Ids : Stored(id)' <=> Stored(id)
  BY <1>1 DEF Stored
<1>3. Selected' = Selected
  BY <1>1 DEF Selected, Stored
<1>4. RowsAreRight'
  BY <1>1, <1>3 DEF ListingInv, RowsAreRight, StoreTypeOK
<1>5. HalvesAreRight(s)'
  BY FS_EmptySet DEF HalvesAreRight
<1>6. FiguresAreRight(s)'
  <2>1. DOMAIN s.figures = {} /\ Len(s.figures) = 0
    OBVIOUS
  <2>2. FiguresAgree(s.figures, changes')
    BY <2>1 DEF FiguresAgree, NoMore
  <2>3. FiguresAreNear(s.figures, Selected', Analysed', changes')
    BY <2>1 DEF FiguresAreNear
  <2> QED
    BY <2>1, <2>2, <2>3 DEF FiguresAreRight
<1>7. PagesAreRight(s)'
  <2> SUFFICES ASSUME s.task = "export"
               PROVE  NoneIsMissed(s)' /\ NoneIsRepeated(s)'
    BY DEF PagesAreRight
  <2>1. s.at = "ids" /\ s.offset = 0
    OBVIOUS
  <2>2. PICK S : S = Selected
    OBVIOUS
  <2>3. IsFiniteSet(S) /\ S \subseteq Ids
    BY <2>2, ListingAssumption DEF ListingInv, RowsAreRight, Selected
  <2>4. \A k : Cardinality({j \in S : j > k}) \in Nat
    BY <2>3, FewerComeBefore
  <2>5. \A k : Before(k)' \in Nat
    BY <1>3, <2>2, <2>4 DEF Before
  <2>6. \A k \in kept' : s.shown[k] = 0
    BY <2>2, <2>3
  <2>7. NoneIsMissed(s)'
    BY <2>1, <2>5 DEF NoneIsMissed, More, Reached
  <2>8. NoneIsRepeated(s)'
    BY <2>6 DEF NoneIsRepeated
  <2> QED
    BY <2>7, <2>8
<1>8. ReaderIsRight(s)'
  BY <1>5, <1>6, <1>7 DEF ReaderIsRight
<1> QED
  BY <1>4, <1>8 DEF ListingInv

LEMMA BeginningKeeps ==
    ASSUME ListingInv, BeginExport \/ BeginListing \/ BeginStats
    PROVE  ListingInv'
<1>1. ASSUME NEW kind \in {"export", "list", "stats"}, NEW asked \in Nat, NEW offset \in Nat,
             BeginReading(kind, asked, offset),
             kind = "export" => asked = PageSize /\ offset = 0
      PROVE  ListingInv'
  <2> DEFINE s == [Resting EXCEPT !.task = kind, !.asked = asked, !.offset = offset,
                                  !.at = IF kind = "stats" THEN "count" ELSE "ids"]
  <2>1. reader' = s
    BY <1>1 DEF BeginReading
  <2>2. UNCHANGED <<storeVars, deleting>> /\ kept' \subseteq Selected /\ changes' = 0
    BY <1>1 DEF BeginReading, Reads
  <2>3. Resting \in Readers
    BY RestingIsRight
  <2>4. /\ s \in Readers /\ s.task = kind /\ s.asked = asked /\ s.offset = offset
        /\ s.at = (IF kind = "stats" THEN "count" ELSE "ids")
        /\ s.page = Resting.page /\ s.torn = Resting.torn /\ s.figures = Resting.figures
        /\ s.disturbed = Resting.disturbed /\ s.shown = Resting.shown
    BY <2>3 DEF Readers
  <2> HIDE DEF s
  <2> QED
    BY <1>1, <2>1, <2>2, <2>4, RestingIsRight, NewReaderIsRight
<1>2. CASE BeginExport
  BY <1>1, <1>2, PagesHaveASize DEF BeginExport
<1>3. CASE BeginListing
  <2>1. Asked \subseteq Nat
    BY ListingAssumption
  <2> QED
    BY <1>1, <1>3, <2>1 DEF BeginListing
<1>4. CASE BeginStats
  BY <1>1, <1>4 DEF BeginStats
<1> QED
  BY <1>2, <1>3, <1>4

LEMMA RestKeeps ==
    ASSUME ListingInv, Rest
    PROVE  ListingInv'
<1>1. reader' = Resting /\ kept' = {} /\ changes' = 0 /\ UNCHANGED <<storeVars, deleting>>
  BY DEF Rest, Reads
<1> QED
  BY <1>1, RestingIsRight, NewReaderIsRight

LEMMA WritersKeep ==
    ASSUME ListingInv, NEW id \in Ids,
           \/ Arrive(id) \/ Finish(id) \/ DeleteNext(id)
           \/ \E status \in Decisions, p \in Principals : Decide(id, status, p)
    PROVE  ListingInv'
<1>1. CASE Arrive(id)
  BY <1>1, ArriveWrites, NoteIsNoted, WritesKeepIt
<1>2. CASE Finish(id)
  BY <1>2, FinishWrites, NoteIsNoted, WritesKeepIt
<1>3. CASE DeleteNext(id)
  BY <1>3, DeleteWrites, NoteIsNoted, WritesKeepIt
<1>4. CASE \E status \in Decisions, p \in Principals : Decide(id, status, p)
  BY <1>4, DecideWrites, UnnoticedIsNoted, WritesKeepIt
<1> QED
  BY <1>1, <1>2, <1>3, <1>4

LEMMA ListingStarts == ListingInit => ListingInv
<1> SUFFICES ASSUME ListingInit  PROVE ListingInv
  OBVIOUS
<1>1. StoreTypeOK /\ \A id \in Ids : submissions[id] = NoRow /\ children[id] = {}
  BY NoRowIsRow DEF ListingInit, StoreInit, StoreTypeOK
<1>2. Selected = {}
  <2>1. NoRow.status = "absent" /\ Mine \subseteq Ids
    BY ListingAssumption DEF NoRow
  <2> QED
    BY <1>1, <2>1 DEF Selected, Stored
<1>3. deleting \in [Ids -> 0..3] /\ kept = {} /\ changes = 0 /\ reader = Resting
  BY DEF ListingInit
<1>4. RowsAreRight
  BY <1>1, <1>2, <1>3, FS_EmptySet DEF RowsAreRight
<1> QED
  BY <1>3, <1>4, RestingIsRight DEF ListingInv

LEMMA ListingGoesOn == ListingInv /\ [ListingNext]_listingVars => ListingInv'
<1> SUFFICES ASSUME ListingInv, [ListingNext]_listingVars  PROVE ListingInv'
  OBVIOUS
<1>1. CASE UNCHANGED listingVars
  <2>1. ReaderReads /\ reader' = reader
    BY <1>1 DEF listingVars, ReaderReads
  <2>2. PICK r : r = reader
    OBVIOUS
  <2>3. reader' = r /\ ReaderIsRight(r)
    BY <2>1, <2>2 DEF ListingInv
  <2> QED
    BY <2>1, <2>3, ReaderMoves
<1>2. CASE BeginExport \/ BeginListing \/ BeginStats
  BY <1>2, BeginningKeeps
<1>3. CASE ReadIds \/ ReadRow \/ ReadSignals \/ EndPage \/ CountNext \/ Rest
  BY <1>3, ReadIdsKeeps, ReadRowKeeps, ReadSignalsKeeps, EndPageKeeps, CountNextKeeps, RestKeeps
<1>4. ASSUME NEW id \in Ids,
             \/ Arrive(id) \/ Finish(id) \/ DeleteNext(id)
             \/ \E status \in Decisions, p \in Principals : Decide(id, status, p)
      PROVE  ListingInv'
  BY <1>4, WritersKeep
<1> QED
  BY <1>1, <1>2, <1>3, <1>4 DEF ListingNext

LEMMA RightPagesAreComplete == ListingInv => ExportIsComplete
<1> SUFFICES ASSUME ListingInv, reader.task = "export", reader.at = "over", NEW id \in kept
             PROVE  /\ "removed" \notin reader.disturbed => reader.shown[id] >= 1
                    /\ "added" \notin reader.disturbed => reader.shown[id] <= 1
  BY DEF ExportIsComplete
<1>1. PICK r : r = reader
  OBVIOUS
<1>2. r \in Readers /\ PagesAreRight(r)
  BY <1>1 DEF ListingInv, ReaderIsRight
<1>3. r.page = {} /\ r.fetched < PageSize /\ r.fetched \in Nat /\ PageSize \in Nat
  BY <1>1, <1>2, PagesHaveASize DEF PagesAreRight, Readers
<1>4. ~More(r)
  BY <1>1, <1>3 DEF More
<1> QED
  BY <1>1, <1>2, <1>3, <1>4 DEF PagesAreRight, NoneIsMissed, NoneIsRepeated

LEMMA RightFiguresAgree == ListingInv => TearsAreWrites
<1> SUFFICES ASSUME ListingInv  PROVE TearsAreWrites
  OBVIOUS
<1>1. PICK r, f, c : r = reader /\ f = r.figures /\ c = changes
  OBVIOUS
<1>2. r \in Readers /\ HalvesAreRight(r) /\ FiguresAreRight(r)
  BY <1>1 DEF ListingInv, ReaderIsRight
<1>3. HalfRowsAreDeletions
  BY <1>1, <1>2 DEF HalvesAreRight, HalfRowsAreDeletions
<1>4. ASSUME r.task = "stats", r.at = "over"
      PROVE  /\ f[2] <= f[4] + c /\ f[4] <= f[2] + c /\ f[1] <= f[3] + c /\ f[3] <= f[1] + c
             /\ f[1] <= f[5] + c /\ f[5] <= f[1] + c /\ f[5] <= f[8] + c /\ f[8] <= f[5] + c
             /\ f[1] <= f[2] + c /\ f[6] <= f[2] + c /\ f[7] <= f[2] + c
  <2>1. Len(f) = 8 /\ FiguresAgree(f, c) /\ f \in Seq(Nat)
    BY <1>1, <1>2, <1>4 DEF FiguresAreRight, Readers
  <2>2. DOMAIN f = 1..8
    BY <2>1
  <2> QED
    BY <2>1, <2>2 DEF FiguresAgree, NoMore
<1>5. StatsAgree
  BY <1>1, <1>4 DEF StatsAgree
<1> QED
  BY <1>3, <1>5 DEF TearsAreWrites

\* A subject's export that ended holds every submission of theirs that was
\* stored all the while, at least once unless one of theirs was removed
\* meanwhile, and at most once unless one was added (handlers.go,
\* handleSubjectExport; sqlite.go, ListSubmissions).
THEOREM ExportsAreComplete == ListingSpec => []ExportIsComplete
<1> QED
  BY ListingStarts, ListingGoesOn, RightPagesAreComplete, PTL DEF ListingSpec

\* A reader without a transaction sees half of a submission only while that is
\* being deleted, and the figures of one answer disagree by no more than the
\* rows written between the first and the last of its statements (sqlite.go,
\* ListSubmissions, scanSubmission and Stats).
THEOREM ReadersSeeWholeRows == ListingSpec => []TearsAreWrites
<1> QED
  BY ListingStarts, ListingGoesOn, RightFiguresAgree, PTL DEF ListingSpec
=============================================================================

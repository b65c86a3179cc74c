--------------------------- MODULE SubmissionStore ---------------------------
(***************************************************************************)
(* The tables a submission lives in (internal/store/sqlite.go) and the     *)
(* statements the rest of the program runs on them.  One operator is one   *)
(* SQL statement, or one transaction where the code opens one.  The SQLite *)
(* pool holds a single connection, so statements of different requests     *)
(* interleave and never overlap; on PostgreSQL the row locks order the     *)
(* statements that write the same id.                                      *)
(***************************************************************************)
CONSTANTS
    Ids,          \* submission identifiers (ULIDs: one request each)
    Principals,   \* callers of the HTTP API
    Nobody,       \* the empty reviewed_by column
    StoreBodies   \* storage.store_bodies

ASSUME StoreAssumption ==
    /\ Nobody \notin Principals
    /\ StoreBodies \in BOOLEAN

VARIABLES
    backend,      \* which driver config.storage selects; never changes
    submissions,  \* the submissions table, a row per id
    children,     \* the dependent tables that hold rows of an id
    old           \* ids whose received_at lies before the retention cutoff

storeVars == <<backend, submissions, children, old>>

-----------------------------------------------------------------------------
Confirmed == {"confirmed_phish", "confirmed_clean"}

\* The statuses that record a decision.
Decided == Confirmed \cup {"escalated"}

ReviewStatuses == Decided \cup {"in_review"}

Statuses == {"processing", "analyzed"} \cup ReviewStatuses

Tables == {"analyses", "signals", "submission_iocs"}

\* A row keeps the columns the program's control depends on: reviewed_at is
\* NULL or a time, and body is "message_json IS NOT NULL".
Row == [status     : Statuses \cup {"absent"},
        reviewedBy : Principals \cup {Nobody},
        reviewedAt : {"null", "set"},
        body       : BOOLEAN]

NoRow == [status |-> "absent", reviewedBy |-> Nobody,
          reviewedAt |-> "null", body |-> FALSE]

Stored(id) == submissions[id].status # "absent"

StoreTypeOK ==
    /\ backend \in {"sqlite", "postgres"}
    /\ submissions \in [Ids -> Row]
    /\ children \in [Ids -> SUBSET Tables]
    /\ old \in SUBSET Ids

StoreInit ==
    /\ backend \in {"sqlite", "postgres"}
    /\ submissions = [id \in Ids |-> NoRow]
    /\ children = [id \in Ids |-> {}]
    /\ old = {}

-----------------------------------------------------------------------------
(* SaveSubmission.  The upsert takes status and reviewed_by from the saved  *)
(* value (department too, which nothing here reads); on conflict it leaves  *)
(* message_json, reviewed_at and the other columns of the first insert.     *)

Upsert(id, status, body) ==
    IF Stored(id)
    THEN [submissions[id] EXCEPT !.status = status, !.reviewedBy = Nobody]
    ELSE [status |-> status, reviewedBy |-> Nobody,
          reviewedAt |-> "null", body |-> body]

\* The reservation: no Message and no Result, so the transaction rewrites
\* submission_iocs to nothing and leaves analyses and signals alone.
SaveReservation(id) ==
    /\ submissions' =
         [submissions EXCEPT ![id] = Upsert(id, "processing", FALSE)]
    /\ children' = [children EXCEPT ![id] = @ \ {"submission_iocs"}]
    /\ UNCHANGED <<backend, old>>

\* Fault: the transaction leaves out replaceIOCs.
SaveResultForgetsIOCs(id) ==
    /\ submissions' =
         [submissions EXCEPT ![id] = Upsert(id, "analyzed", StoreBodies)]
    /\ children' = [children EXCEPT ![id] = Tables \ {"submission_iocs"}]
    /\ UNCHANGED <<backend, old>>

\* Fault: the transaction leaves out the analysis.
SaveResultForgetsAnalysis(id) ==
    /\ submissions' =
         [submissions EXCEPT ![id] = Upsert(id, "analyzed", StoreBodies)]
    /\ children' = [children EXCEPT ![id] = Tables \ {"analyses"}]
    /\ UNCHANGED <<backend, old>>

\* The finished analysis: row, indicators, analysis and signals at once (of a
\* message that has at least one signal and one indicator).
SaveResult(id) ==
    /\ submissions' =
         [submissions EXCEPT ![id] = Upsert(id, "analyzed", StoreBodies)]
    /\ children' = [children EXCEPT ![id] = Tables]
    /\ UNCHANGED <<backend, old>>

-----------------------------------------------------------------------------
(* UpdateSubmissionStatus: unconditional, RowsAffected = 0 is ErrNotFound.  *)

ReviewTime(status) == IF status \in Decided THEN "set" ELSE "null"

UpdateSubmissionStatus(id, status, by) ==
    /\ submissions' =
         IF Stored(id)
         THEN [submissions EXCEPT ![id].status     = status,
                                  ![id].reviewedBy = by,
                                  ![id].reviewedAt = ReviewTime(status)]
         ELSE submissions
    /\ UNCHANGED <<backend, children, old>>

\* DELETE FROM <table> for the given ids.
DeleteChildren(table, ids) ==
    /\ children' = [id \in Ids |-> IF id \in ids THEN children[id] \ {table}
                                                 ELSE children[id]]
    /\ UNCHANGED <<backend, submissions, old>>

\* DELETE FROM submissions.  The schema declares ON DELETE CASCADE, which
\* PostgreSQL enforces; the default SQLite DSN never turns foreign_keys on.
DeleteRows(ids) ==
    /\ submissions' =
         [id \in Ids |-> IF id \in ids THEN NoRow ELSE submissions[id]]
    /\ children' =
         [id \in Ids |-> IF id \in ids /\ backend = "postgres"
                         THEN {} ELSE children[id]]
    /\ UNCHANGED <<backend, old>>

\* Fault: a purge passes over the reservations that were never finished.
ExpiredSkipsUnfinished(cutoff) ==
    {id \in cutoff : Stored(id) /\ submissions[id].status # "processing"}

\* The rows a purge that started with this cutoff still selects.
Expired(cutoff) == {id \in cutoff : Stored(id)}

\* Time passes: received_at of a row falls behind the retention period.
Age(id) ==
    /\ old' = old \cup {id}
    /\ UNCHANGED <<backend, submissions, children>>
=============================================================================

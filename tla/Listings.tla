------------------------------ MODULE Listings ------------------------------
(***************************************************************************)
(* Reading many submissions at once while others write: the queue, the     *)
(* campaigns, a subject's export page by page, the statistics.  No reader  *)
(* holds a transaction.  A listing reads ids, then row after row, and of   *)
(* each row the signals in a statement of their own; the statistics are    *)
(* eight statements.                                                       *)
(***************************************************************************)
EXTENDS SubmissionStore, Naturals, Sequences, FiniteSetsExt

CONSTANTS
    Mine,          \* ids of the rows the reader's filter selects
    Decisions,     \* review statuses the analysts decide for (bound)
    Few,           \* ids still to come when figures are watched (bound)
    Asked,         \* limits the clients of a listing ask for (bound)
    MaxLimit,      \* the most ids one listing returns (500), and
    DefaultLimit   \* what it returns when asked for none or for more (50)

\* Ids are numbered by received_at.
ASSUME ListingAssumption ==
    /\ Ids \subseteq Nat /\ Mine \subseteq Ids /\ Decisions \subseteq ReviewStatuses
    /\ Few \subseteq Ids /\ Asked \subseteq Nat
    /\ MaxLimit \in Nat \ {0} /\ DefaultLimit \in 1..MaxLimit

VARIABLES
    watched,       \* what the reader reads: "pages" or "figures"
    reader,        \* the one reader that is watched
    analysing,     \* ids whose detached analysis has yet to save its result
    deleting,      \* id -> statements of its deletion that are done
    kept,          \* (ghost) selected rows stored ever since the reader began
    changes        \* (ghost) rows stored, finished or cut since it began

listingVars == <<storeVars, watched, reader, analysing, deleting, kept, changes>>

Watching == <<kept, changes>>

-----------------------------------------------------------------------------
Selected == {id \in Mine : Stored(id)}

\* ORDER BY received_at DESC: how many rows come before one.
Before(id) == Cardinality({k \in Selected : k > id})

\* LIMIT and OFFSET.
Page(limit, offset) ==
    {id \in Selected : Before(id) >= offset /\ Before(id) < offset + limit}

Statements ==
    <<"verdict", "status", "attack", "department", "duration", "review", "signals", "brands">>

Resting == [task |-> "none", at |-> "rest", offset |-> 0, asked |-> 0, page |-> {},
            fetched |-> 0, shown |-> [id \in Ids |-> 0], torn |-> {}, disturbed |-> {},
            figures |-> <<>>]

ListingInit ==
    /\ StoreInit /\ backend = "sqlite"   \* no reader looks at what a DELETE leaves
    /\ reader = Resting
    /\ analysing = {}
    /\ watched \in {"pages", "figures"}
    /\ deleting = [id \in Ids |-> IF watched = "figures" /\ id \notin Few THEN 3 ELSE 0]
    /\ kept = {} /\ changes = 0

-----------------------------------------------------------------------------
(* Writers.  A receiver or a client that waits saves the finished analysis, *)
(* one that does not saves a reservation first; the detached analysis saves *)
(* its result whatever became of the row; analysts decide; DeleteSubmission *)
(* removes a row behind its signals and its analysis (as PurgeOlderThan     *)
(* does, behind its indicators).                                            *)

\* The watched reader takes note of a write to one of its rows.
Note(what, id) ==
    /\ reader' = IF id \in Mine /\ reader.at # "rest" /\ what # "changed"
                 THEN [reader EXCEPT !.disturbed = @ \cup {what}] ELSE reader
    /\ changes' = IF id \in Mine /\ reader.at = "count" THEN changes + 1 ELSE changes
    /\ kept' = IF what = "removed" THEN kept \ {id} ELSE kept

Arrive(id) ==
    /\ ~Stored(id) /\ deleting[id] = 0
    /\ \/ SaveResult(id) /\ UNCHANGED analysing
       \/ SaveReservation(id) /\ analysing' = analysing \cup {id}
    /\ Note("added", id)
    /\ UNCHANGED <<watched, deleting>>

Finish(id) ==
    /\ id \in analysing
    /\ SaveResult(id)
    /\ analysing' = analysing \ {id}
    /\ Note(IF Stored(id) THEN "changed" ELSE "added", id)
    /\ UNCHANGED <<watched, deleting>>

\* No page shows more of a decision than its status: only figures see one.
Decide(id, status, p) ==
    /\ watched = "figures"
    /\ UpdateSubmissionStatus(id, status, p)
    /\ UNCHANGED <<watched, reader, analysing, deleting, Watching>>

DeleteNext(id) ==
    /\ \/ /\ deleting[id] = 0 /\ Stored(id)
          /\ DeleteChildren("signals", {id})
          /\ Note("changed", id)
       \/ /\ deleting[id] = 1
          /\ DeleteChildren("analyses", {id})
          /\ Note("changed", id)
       \/ /\ deleting[id] = 2
          /\ DeleteRows({id})
          /\ Note("removed", id)
    /\ deleting' = [deleting EXCEPT ![id] = @ + 1]
    /\ UNCHANGED <<watched, analysing>>

-----------------------------------------------------------------------------
(* ListSubmissions and the handlers that call it.                           *)

Limit(asked) == IF asked \in 1..MaxLimit THEN asked ELSE DefaultLimit

\* Fault: a page of the export is one more than a listing returns.
PageSizeOverLimit == MaxLimit + 1

\* handleSubjectExport asks for pages of the largest size there is.
PageSize == MaxLimit

Reads == UNCHANGED <<storeVars, watched, analysing, deleting>>

BeginReading(task, asked, offset) ==
    /\ reader.at = "rest"
    /\ reader' = [Resting EXCEPT !.task = task, !.asked = asked, !.offset = offset,
                                 !.at = IF task = "stats" THEN "count" ELSE "ids"]
    /\ kept' = (IF task = "export" THEN Selected ELSE {}) /\ changes' = 0
    /\ Reads

BeginExport == watched = "pages" /\ BeginReading("export", PageSize, 0)

BeginListing ==
    /\ watched = "pages"
    /\ \E asked \in Asked, offset \in 0..1 : BeginReading("list", asked, offset)

BeginStats == watched = "figures" /\ BeginReading("stats", 0, 0)

ReadIds ==
    /\ reader.at = "ids"
    /\ LET page == Page(Limit(reader.asked), reader.offset) IN
       reader' = [reader EXCEPT !.page = page, !.fetched = Cardinality(page), !.at = "row"]
    /\ Reads /\ UNCHANGED Watching

\* A row that is gone by now fails the whole listing.
ReadRow ==
    /\ reader.at = "row" /\ reader.page # {}
    /\ LET id == Max(reader.page) IN
       reader' = IF ~Stored(id) THEN [reader EXCEPT !.at = "failed"]
                 ELSE IF "analyses" \in children[id] THEN [reader EXCEPT !.at = "signals"]
                 ELSE [reader EXCEPT !.page = @ \ {id}, !.shown[id] = @ + 1]
    /\ Reads /\ UNCHANGED Watching

ReadSignals ==
    /\ reader.at = "signals"
    /\ LET id == Max(reader.page) IN
       reader' = [reader EXCEPT !.at = "row", !.page = @ \ {id}, !.shown[id] = @ + 1,
                      !.torn = IF "signals" \in children[id] THEN @ ELSE @ \cup {id}]
    /\ Reads /\ UNCHANGED Watching

\* An export goes on until a page is not full.
EndPage ==
    /\ reader.at = "row" /\ reader.page = {}
    /\ reader' = IF reader.task = "export" /\ reader.fetched >= PageSize
                 THEN [reader EXCEPT !.at = "ids", !.offset = @ + PageSize]
                 ELSE [reader EXCEPT !.at = "over"]
    /\ Reads /\ UNCHANGED Watching

\* (bound) What is written after the watched reader has its answer waits
\* until it rests.
Answered == reader.at \in {"over", "failed"}

Rest ==
    /\ Answered
    /\ reader' = Resting /\ kept' = {} /\ changes' = 0
    /\ Reads

-----------------------------------------------------------------------------
(* Stats: the rows each of its statements counts.                           *)

Analysed == {id \in Selected : "analyses" \in children[id]}

\* Fault: statuses are counted over rows that have an analysis.
CountedJoined(statement) ==
    CASE statement \in {"verdict", "status", "attack", "duration", "brands"} -> Analysed
      [] statement = "department" -> Selected
      [] statement = "review" -> {id \in Selected : submissions[id].reviewedAt = "set"}
      [] statement = "signals" -> {id \in Selected : "signals" \in children[id]}

Counted(statement) ==
    CASE statement \in {"verdict", "attack", "duration", "brands"} -> Analysed
      [] statement \in {"status", "department"} -> Selected
      [] statement = "review" -> {id \in Selected : submissions[id].reviewedAt = "set"}
      [] statement = "signals" -> {id \in Selected : "signals" \in children[id]}

CountNext ==
    /\ reader.at = "count"
    /\ LET figures == Append(reader.figures,
                             Cardinality(Counted(Statements[Len(reader.figures) + 1])))
       IN  reader' = [reader EXCEPT !.figures = figures,
                          !.at = IF Len(figures) = Len(Statements) THEN "over" ELSE "count"]
    /\ Reads /\ UNCHANGED Watching

-----------------------------------------------------------------------------
ListingNext ==
    \/ /\ ~Answered
       /\ \/ \E id \in Ids : Arrive(id) \/ Finish(id) \/ DeleteNext(id)
          \/ \E id \in Ids, status \in Decisions, p \in Principals : Decide(id, status, p)
    \/ BeginExport \/ BeginListing \/ BeginStats
    \/ ReadIds \/ ReadRow \/ ReadSignals \/ EndPage \/ CountNext \/ Rest

ListingSpec == ListingInit /\ [][ListingNext]_listingVars

-----------------------------------------------------------------------------
\* A subject's export that ended holds every submission of theirs that was
\* stored all the while, at least once unless one of theirs was removed
\* meanwhile, and at most once unless one was added: pages cut by offset lose
\* and repeat nothing else (handlers.go, handleSubjectExport).
ExportIsComplete ==
    reader.task = "export" /\ reader.at = "over" =>
        \A id \in kept :
            /\ "removed" \notin reader.disturbed => reader.shown[id] >= 1
            /\ "added" \notin reader.disturbed => reader.shown[id] <= 1

\* A listing fails, and an analysis is shown without its signals, only over a
\* row whose deletion has begun: no other request makes a reader without a
\* transaction see half of a submission (sqlite.go, ListSubmissions and
\* scanSubmission against SaveSubmission).
HalfRowsAreDeletions ==
    \A id \in reader.torn \cup (IF reader.at = "failed" THEN {Max(reader.page)} ELSE {}) :
        deleting[id] > 0

\* The figures of one answer come from eight moments.  They disagree by no
\* more than the rows written between the first and the last of them: as many
\* statuses as departments, as many verdicts as attack types and durations, no
\* more verdicts, reviews or (one kind of) signals than rows (sqlite.go, Stats).
StatsAgree ==
    reader.task = "stats" /\ reader.at = "over" =>
        LET f == reader.figures
            NoMoreThan(i, j) == f[i] <= f[j] + changes
            AsMany(i, j) == NoMoreThan(i, j) /\ NoMoreThan(j, i)
        IN  /\ AsMany(2, 4) /\ AsMany(1, 3) /\ AsMany(1, 5) /\ AsMany(5, 8)
            /\ NoMoreThan(1, 2) /\ NoMoreThan(6, 2) /\ NoMoreThan(7, 2)

\* What a reader without a transaction sees torn was being written (the two
\* conditions above).
TearsAreWrites == HalfRowsAreDeletions /\ StatsAgree
=============================================================================

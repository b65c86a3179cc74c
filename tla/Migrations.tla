----------------------------- MODULE Migrations -----------------------------
(***************************************************************************)
(* Schema migrations (internal/store/migrate.go) run by every process that *)
(* opens the store: the service and each admin command migrate up first,   *)
(* migrate down then reverts the newest version.  A file and its row in    *)
(* schema_migrations are one transaction; the version that decides which   *)
(* files to run is read once, outside of it.                               *)
(***************************************************************************)
EXTENDS Naturals, FiniteSets, FiniteSetsExt

CONSTANTS
    Processes,     \* processes that may have the database open at once
    MaxOpens,      \* commands in one behaviour (bound)
    MaxCrashes     \* processes killed in one behaviour (bound)

ASSUME MigrationAssumption == MaxOpens \in Nat /\ MaxCrashes \in Nat

VARIABLES
    db,            \* the database a connection sees
    run,           \* what each process does with it
    opens, crashes,
    crossed        \* (ghost) two migrate down ran at the same time

migrationVars == <<db, run, opens, crashes, crossed>>

-----------------------------------------------------------------------------
(* migrations/*.sql: 1, 2 and 3 create and drop whole tables if they (do     *)
(* not) exist; 4 and 5 add columns; the down file of 4 is empty, that of 5   *)
(* drops its columns.                                                        *)
Latest == 5
Versions == 1..Latest
AddsColumns == {4, 5}

EmptyDown == {4}

\* A database: recorded versions, versions whose tables or columns exist, and
\* the writes of the service it holds.
Absent == [kind |-> "absent", versions |-> {}, schema |-> {}, stamp |-> 0]

Empty == [Absent EXCEPT !.kind = "database"]

Newest(d) == Max(d.versions \cup {0})

CanUp(d, v) ==
    /\ d.kind = "database" /\ v \notin d.versions
    /\ v \in AddsColumns => 1 \in d.schema /\ v \notin d.schema

Up(d, v) == [d EXCEPT !.versions = @ \cup {v}, !.schema = @ \cup {v}]

CanDown(d, v) == v \in AddsColumns \ EmptyDown => v \in d.schema

Down(d, v) ==
    [d EXCEPT !.versions = @ \ {v},
              !.schema = IF v \in EmptyDown THEN @ ELSE @ \ {v}]

-----------------------------------------------------------------------------
Idle == [cmd |-> "none", pc |-> "idle", version |-> 0, alone |-> TRUE]

Connected(p) == run[p].pc \in {"migrating", "open", "reverting"}

Alone(p) == \A q \in Processes \ {p} : ~Connected(q)

MigrationsInit ==
    /\ db = Absent
    /\ run = [p \in Processes |-> Idle]
    /\ opens = 0 /\ crashes = 0
    /\ crossed = FALSE

\* Nobody who runs now is alone any more.
Joined(p, r) ==
    [q \in Processes |-> IF q = p THEN [r EXCEPT !.alone = Alone(p)]
                         ELSE IF Connected(q) THEN [run[q] EXCEPT !.alone = FALSE]
                         ELSE run[q]]

Become(p, pc) == run' = [run EXCEPT ![p].pc = pc]

End(p) == run' = [run EXCEPT ![p] = Idle]

\* Opening creates the file and schema_migrations, and reads the version.

\* Fault: migrate down opens the store without migrating it up first.
OpenStoreAsIs(p, cmd) ==
    /\ ~Connected(p) /\ opens < MaxOpens
    /\ db' = IF db.kind = "absent" THEN Empty ELSE db
    /\ run' = Joined(p, [Idle EXCEPT !.cmd = cmd, !.version = Newest(db),
                                     !.pc = IF cmd = "down" THEN "open" ELSE "migrating"])
    /\ crossed' = (crossed \/ (cmd = "down" /\ \E q \in Processes \ {p} :
                                                  Connected(q) /\ run[q].cmd = "down"))
    /\ opens' = opens + 1
    /\ UNCHANGED crashes

OpenStore(p, cmd) ==
    /\ ~Connected(p) /\ opens < MaxOpens
    /\ db' = IF db.kind = "absent" THEN Empty ELSE db
    /\ run' = Joined(p, [Idle EXCEPT !.cmd = cmd, !.version = Newest(db), !.pc = "migrating"])
    /\ crossed' = (crossed \/ (cmd = "down" /\ \E q \in Processes \ {p} :
                                                  Connected(q) /\ run[q].cmd = "down"))
    /\ opens' = opens + 1
    /\ UNCHANGED crashes

\* One file: its statements and its row, or neither and the command fails.
ApplyNext(p) ==
    /\ run[p].pc = "migrating" /\ run[p].version < Latest
    /\ LET v == run[p].version + 1 IN
       \/ CanUp(db, v) /\ db' = Up(db, v) /\ run' = [run EXCEPT ![p].version = v]
       \/ ~CanUp(db, v) /\ UNCHANGED db
          /\ IF db.kind = "database" THEN Become(p, "failed") ELSE End(p)
    /\ UNCHANGED <<opens, crashes, crossed>>

Opened(p) ==
    /\ run[p].pc = "migrating" /\ run[p].version = Latest
    /\ Become(p, "open")
    /\ UNCHANGED <<db, opens, crashes, crossed>>

\* A process that keeps its transaction longer than busy_timeout fails others.
Busy(p) ==
    /\ run[p].pc \in {"migrating", "reverting"} /\ ~Alone(p)
    /\ Become(p, "failed")
    /\ UNCHANGED <<db, opens, crashes, crossed>>

ReadVersion(p) ==
    /\ run[p].cmd = "down" /\ run[p].pc = "open"
    /\ IF Newest(db) = 0 THEN End(p)
       ELSE run' = [run EXCEPT ![p].version = Newest(db), ![p].pc = "reverting"]
    /\ UNCHANGED <<db, opens, crashes, crossed>>

Revert(p) ==
    /\ run[p].pc = "reverting"
    /\ IF CanDown(db, run[p].version)
       THEN db' = Down(db, run[p].version) /\ End(p)
       ELSE Become(p, "failed") /\ UNCHANGED db
    /\ UNCHANGED <<opens, crashes, crossed>>

\* Most commands only open the store, and end; a service is stopped.
Close(p) ==
    /\ run[p].cmd = "open" /\ run[p].pc = "open"
    /\ End(p)
    /\ UNCHANGED <<db, opens, crashes, crossed>>

Kill(p) ==
    /\ Connected(p) /\ crashes < MaxCrashes
    /\ End(p)
    /\ crashes' = crashes + 1
    /\ UNCHANGED <<db, opens, crossed>>

-----------------------------------------------------------------------------
\* The schema is the one the recorded versions stand for, and the versions
\* are the first few, whatever mixture of upgrades, one migrate down at a time
\* and kills led there: version 4, whose down file reverts nothing, is never
\* the one reverted (migrate.go, applyMigrations and migrateDown; openStore).
SchemaMatchesVersions ==
    db.kind = "database" /\ ~crossed =>
        /\ db.schema = db.versions
        /\ \E k \in 0..Latest : db.versions = 1..k

\* A command that opened the store with no other process beside it found or
\* made the newest schema; it fails only for company, or after two migrate
\* down were run together (openStore, applyMigrations).
LoneStartSucceeds ==
    \A p \in Processes : run[p].alone /\ db.kind = "database" /\ ~crossed =>
        /\ run[p].pc # "failed"
        /\ run[p].pc = "open" => db.versions = Versions

\* However the store is opened, it has the schema it says it has, and a
\* command alone with it succeeds (the two conditions above).
SchemaIsSound == SchemaMatchesVersions /\ LoneStartSucceeds
=============================================================================

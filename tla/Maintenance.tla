---------------------------- MODULE Maintenance ----------------------------
(***************************************************************************)
(* The SQLite file under the operator's hands: migrations, backup and      *)
(* restore (internal/store/backup.go), a service that writes, and kills at *)
(* any point.  The database runs in WAL mode: what a connection sees is    *)
(* the file and the write-ahead log beside it.                             *)
(***************************************************************************)
EXTENDS Migrations

CONSTANT MaxStamp     \* writes of the service (bound)

VARIABLES
    base,         \* the database file alone; db differs while the log holds more
    copy,         \* the snapshot file
    tmp,          \* <database>.restore.tmp
    tool,         \* the backup or restore command
    window,       \* (ghost) what was committed while the backup runs
    vouched,      \* (ghost) copy is what a backup that reported success wrote
    restored      \* (ghost) what the last restore that reported success put in place

fileVars == <<base, copy, tmp, tool, window, vouched, restored>>
vars == <<migrationVars, fileVars>>

-----------------------------------------------------------------------------
Torn == [Absent EXCEPT !.kind = "torn"]      \* a file cut off while written
Mixed == [Absent EXCEPT !.kind = "mixed"]    \* a log replayed over another file

NoTool == [cmd |-> "none", pc |-> "idle", seen |-> Absent]

Init ==
    /\ MigrationsInit
    /\ base = Absent /\ copy = Absent /\ tmp = Absent
    /\ tool = NoTool
    /\ window = {} /\ vouched = FALSE /\ restored = "nothing"

\* A commit may be checkpointed into the file at once; the last connection
\* that closes in good order leaves no log.
Settles ==
    IF tool'.cmd = "backup"
       \/ crashes' > crashes
       \/ \E p \in Processes : run'[p].pc \in {"migrating", "open", "reverting"}
    THEN base' \in {base, db'}
    ELSE base' = db'

Seen == IF tool.cmd = "backup" THEN window' = window \cup {db'} ELSE UNCHANGED window

ByProcess == UNCHANGED <<copy, tmp, tool, vouched, restored>> /\ Seen /\ Settles

\* The operator stops the service, and starts nothing, for a restore.
Open(p) ==
    /\ tool.cmd # "restore"
    /\ \E cmd \in {"open", "down"} : OpenStore(p, cmd)
    /\ ByProcess

Migrate(p) == (ApplyNext(p) \/ Opened(p) \/ Busy(p)) /\ ByProcess

MigrateDown(p) == (ReadVersion(p) \/ Revert(p)) /\ ByProcess

Stop(p) == (Close(p) \/ Kill(p)) /\ ByProcess

Write(p) ==
    /\ run[p].cmd = "open" /\ run[p].pc = "open"
    /\ db.kind = "database" /\ db.stamp < MaxStamp
    /\ db' = [db EXCEPT !.stamp = @ + 1]
    /\ UNCHANGED <<run, opens, crashes, crossed>>
    /\ ByProcess

-----------------------------------------------------------------------------
(* BackupSQLite: VACUUM INTO reads one committed state and writes it to a   *)
(* file that must not exist yet; integrity_check follows.                   *)

ByTool == UNCHANGED <<run, opens, crashes, crossed>>

StartBackup ==
    /\ tool.pc = "idle" /\ copy = Absent /\ opens < MaxOpens
    /\ db' = IF db.kind = "absent" THEN Empty ELSE db
    /\ base' = IF db.kind = "absent" THEN Empty ELSE base
    /\ tool' = [NoTool EXCEPT !.cmd = "backup", !.pc = "snapshot"]
    /\ window' = {db'}
    /\ opens' = opens + 1
    /\ UNCHANGED <<run, crashes, crossed, copy, tmp, vouched, restored>>

\* Fault: the database file is copied as it lies there.
SnapshotCopiesFile ==
    /\ tool.pc = "snapshot" /\ db.kind = "database"
    /\ tool' = [tool EXCEPT !.pc = "writing", !.seen = base]
    /\ copy' = Empty
    /\ UNCHANGED <<db, base, tmp, window, vouched, restored>> /\ ByTool

Snapshot ==
    /\ tool.pc = "snapshot" /\ db.kind = "database"
    /\ tool' = [tool EXCEPT !.pc = "writing", !.seen = db]
    /\ copy' = Empty
    /\ UNCHANGED <<db, base, tmp, window, vouched, restored>> /\ ByTool

WriteSnapshot ==
    /\ tool.pc = "writing"
    /\ \/ copy' = Torn /\ copy # Torn /\ UNCHANGED tool
       \/ copy' = tool.seen /\ tool' = [tool EXCEPT !.pc = "check"]
    /\ UNCHANGED <<db, base, tmp, window, vouched, restored>> /\ ByTool

EndBackup ==
    /\ tool.cmd = "backup" /\ tool.pc = "check"
    /\ tool' = NoTool
    /\ vouched' = TRUE
    /\ window' = {}
    /\ base' \in IF \E p \in Processes : Connected(p) THEN {base, db} ELSE {db}
    /\ UNCHANGED <<db, copy, tmp, restored>> /\ ByTool

-----------------------------------------------------------------------------
(* RestoreSQLite --force.  Opening a source that is not there to check it   *)
(* creates an empty database, which passes.                                 *)

StartRestore ==
    /\ tool.pc = "idle" /\ opens < MaxOpens
    /\ \A p \in Processes : ~Connected(p)
    /\ copy.kind # "torn"
    /\ copy' = IF copy.kind = "absent" THEN Empty ELSE copy
    /\ tool' = [NoTool EXCEPT !.cmd = "restore", !.pc = "clear"]
    /\ opens' = opens + 1
    /\ UNCHANGED <<db, run, crashes, crossed, base, tmp, window, vouched, restored>>

\* os.Remove of an earlier restore's remains, then O_EXCL.
ClearTmp ==
    /\ tool.pc = "clear"
    /\ tmp' = Torn
    /\ tool' = [tool EXCEPT !.pc = "copying"]
    /\ UNCHANGED <<db, base, copy, window, vouched, restored>> /\ ByTool

CopyFile ==
    /\ tool.pc = "copying"
    /\ tmp' = copy
    /\ tool' = [tool EXCEPT !.pc = "rename"]
    /\ UNCHANGED <<db, base, copy, window, vouched, restored>> /\ ByTool

\* The log of a service that was killed stays beside the new file.
Replaced(new) == IF db = base THEN new ELSE Mixed

\* Fault: the file is renamed into place before it is copied in full.
RenameEarly ==
    /\ tool.pc \in {"copying", "rename"}
    /\ base' = tmp /\ db' = Replaced(tmp)
    /\ tmp' = Absent
    /\ tool' = NoTool
    /\ restored' = IF vouched /\ db' = copy THEN "backup" ELSE "other"
    /\ UNCHANGED <<copy, window, vouched>> /\ ByTool

Rename ==
    /\ tool.pc = "rename"
    /\ base' = tmp /\ db' = Replaced(tmp)
    /\ tmp' = Absent
    /\ tool' = NoTool
    /\ restored' = IF vouched /\ db' = copy THEN "backup" ELSE "other"
    /\ UNCHANGED <<copy, window, vouched>> /\ ByTool

KillTool ==
    /\ tool.cmd # "none" /\ crashes < MaxCrashes
    /\ tool' = NoTool /\ window' = {}
    /\ crashes' = crashes + 1
    /\ UNCHANGED <<db, base, copy, tmp, vouched, restored, run, opens, crossed>>

\* The operator takes the snapshot file away, or removes a torn one.
TakeAway ==
    /\ tool.cmd = "none" /\ copy # Absent
    /\ copy' = Absent /\ vouched' = FALSE
    /\ UNCHANGED <<db, base, tmp, tool, window, restored>> /\ ByTool

-----------------------------------------------------------------------------
Next ==
    \/ \E p \in Processes : Open(p) \/ Migrate(p) \/ MigrateDown(p) \/ Stop(p) \/ Write(p)
    \/ StartBackup \/ Snapshot \/ WriteSnapshot \/ EndBackup
    \/ StartRestore \/ ClearTmp \/ CopyFile \/ Rename \/ KillTool \/ TakeAway

Spec == Init /\ [][Next]_vars

-----------------------------------------------------------------------------
\* A backup that succeeded holds one state that was committed while it ran,
\* with what only the write-ahead log held, whatever the service wrote and
\* whichever migration ran beside it (backup.go, BackupSQLite).
BackupIsASnapshot ==
    tool.cmd = "backup" /\ tool.pc = "check" => copy \in window

\* A restore changes the database at most once, to the whole of the source;
\* killed anywhere it leaves the old database or the new one.  Only the log
\* that a killed service left is replayed over the new file (backup.go,
\* RestoreSQLite).
RestoreIsAtomic ==
    [][tool.cmd = "restore" /\ db' # db =>
          /\ tool'.cmd = "none"
          /\ db' = copy \/ (db # base /\ db' = Mixed)]_vars

\* backup.go:49 says RestoreSQLite "validates a snapshot and atomically
\* replaces the configured SQLite file": what a restore that reported success
\* put in place is what a backup that reported success had written.
RestoredFromABackup == restored # "other"
=============================================================================

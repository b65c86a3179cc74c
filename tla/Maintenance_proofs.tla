------------------------- MODULE Maintenance_proofs -------------------------
(***************************************************************************)
(* Theorems about the database under migrations, backups and restores, for *)
(* any number of processes, commands and kills.  SchemaInv says where each *)
(* command stands in the schema it works on; ToolInv follows a backup's    *)
(* snapshot and keeps a restore alone with its file.  The first supports   *)
(* SchemaIsSound, the second the two theorems about snapshots.             *)
(***************************************************************************)
EXTENDS Maintenance, TLAPS

\* A database as a connection or a copy may find it: the recorded versions
\* are the first few and the schema is the one they stand for.
Sound(d) ==
    /\ d \in [kind : {"absent", "database", "torn", "mixed"},
              versions : SUBSET Versions, schema : SUBSET Versions, stamp : Nat]
    /\ d.kind = "database" => d.schema = d.versions /\ \E k \in 0..Latest : d.versions = 1..k
    /\ d.kind # "database" => d.versions = {}

Commands ==
    [cmd : {"none", "open", "down"}, version : 0..Latest, alone : BOOLEAN,
     pc : {"idle", "migrating", "open", "reverting", "failed"}]

Active(r) == r.pc \in {"migrating", "open", "reverting"}

\* Where a command r stands in a database d: it has applied or found what is
\* below its version, a migrate down still has it, and a command that met no
\* other has no more and no less.
Stands(r, d) ==
    /\ d.kind # "absent"
    /\ d.kind # "database" => r.pc = "migrating" /\ r.version = 0
    /\ d.kind = "database" /\ (r.cmd = "down" \/ r.version < Latest) =>
         1..r.version \subseteq d.versions
    /\ d.kind = "database" /\ r.alone => d.versions = 1..r.version
    /\ r.pc \in {"open", "reverting"} => r.version = Latest
    /\ r.pc = "reverting" => r.cmd = "down"

RunsAreSound ==
    /\ run \in [Processes -> Commands]
    /\ \A p \in Processes : Active(run[p]) => Stands(run[p], db)
    /\ \A p \in Processes : Active(run[p]) /\ run[p].alone => Alone(p)
    /\ \A p, q \in Processes :
         Active(run[p]) /\ Active(run[q]) /\ run[p].cmd = "down" /\ run[q].cmd = "down" => p = q
    /\ \A p \in Processes : run[p].pc = "failed" => ~run[p].alone

\* Until two migrate down run together everything that holds a database
\* holds a sound one.
SchemaInv ==
    ~crossed =>
        /\ RunsAreSound
        /\ Sound(db) /\ Sound(base) /\ Sound(copy) /\ Sound(tmp) /\ Sound(tool.seen)

\* The backup and the restore command: a backup's window holds what it may
\* still read and what it has read, and nothing is open during a restore.
ToolInv ==
    /\ tool = [cmd |-> tool.cmd, pc |-> tool.pc, seen |-> tool.seen]
    /\ tool.pc = "idle" <=> tool.cmd = "none"
    /\ tool.cmd = "backup" <=> tool.pc \in {"snapshot", "writing", "check"}
    /\ tool.cmd = "restore" <=> tool.pc \in {"clear", "copying", "rename"}
    /\ tool.cmd = "backup" => db \in window
    /\ tool.pc \in {"writing", "check"} => tool.seen \in window
    /\ tool.pc = "check" => copy = tool.seen
    /\ tool.cmd = "restore" => \A p \in Processes : ~Connected(p)
    /\ tool.pc = "rename" => tmp = copy

Inv == SchemaInv /\ ToolInv

-----------------------------------------------------------------------------
(* What the files do to a sound database. *)

\* The newest of the first k versions is k.
LEMMA NewestIs ==
    ASSUME NEW d, NEW k \in Nat, d.versions = 1..k
    PROVE  Newest(d) = k
<1> DEFINE S == d.versions \cup {0}
<1>1. k \in S /\ \A y \in S : k >= y
  OBVIOUS
<1>2. ASSUME NEW x \in S, \A y \in S : x >= y  PROVE x = k
  <2>1. x \in Nat /\ x >= k /\ k >= x
    BY <1>1, <1>2
  <2> QED
    BY <2>1
<1> QED
  BY <1>1, <1>2 DEF Newest, Max

\* Without a recorded version the newest is 0.
LEMMA NewestOfNone ==
    ASSUME NEW d, d.versions = {}
    PROVE  Newest(d) = 0
<1>1. 1..0 = {}
  OBVIOUS
<1> QED
  BY <1>1, NewestIs

LEMMA SoundConstants == Sound(Absent) /\ Sound(Empty) /\ Sound(Torn) /\ Sound(Mixed)
<1>1. 1..0 = {} /\ 0 \in 0..Latest
  BY DEF Latest
<1> QED
  BY <1>1 DEF Sound, Absent, Empty, Torn, Mixed, Versions

LEMMA FirstOnes ==
    ASSUME NEW n \in Nat, NEW k \in Nat, 1..n \subseteq 1..k
    PROVE  n <= k
<1>1. CASE n = 0
  BY <1>1
<1>2. CASE n # 0
  <2>1. n \in 1..n
    BY <1>2
  <2> QED
    BY <2>1
<1> QED
  BY <1>1, <1>2

\* The next file takes a sound database to the next sound one.
LEMMA UpIsSound ==
    ASSUME NEW d, Sound(d), NEW n \in 0..Latest, n < Latest,
           1..n \subseteq d.versions, CanUp(d, n + 1)
    PROVE  /\ Sound(Up(d, n + 1))
           /\ Up(d, n + 1).kind = "database"
           /\ d.versions = 1..n
           /\ Up(d, n + 1).versions = 1..(n + 1)
<1> DEFINE u == Up(d, n + 1)
<1>1. d.kind = "database" /\ n + 1 \notin d.versions
  BY DEF CanUp
<1>2. PICK k \in 0..Latest : d.versions = 1..k /\ d.schema = 1..k
  BY <1>1 DEF Sound
<1>3. k = n
  <2>1. n <= k
    BY <1>2, FirstOnes
  <2>2. ~(n + 1 \in 1..k)
    BY <1>1, <1>2
  <2> QED
    BY <2>1, <2>2
<1>4. n + 1 \in 0..Latest /\ (1..n) \cup {n + 1} = 1..(n + 1)
  BY DEF Latest
<1>5. u.kind = "database" /\ u.versions = 1..(n + 1) /\ u.schema = 1..(n + 1) /\ u.stamp = d.stamp
  BY <1>1, <1>2, <1>3, <1>4 DEF Up, Sound
<1>6. u \in [kind : {"absent", "database", "torn", "mixed"},
             versions : SUBSET Versions, schema : SUBSET Versions, stamp : Nat]
  <2>1. 1..(n + 1) \subseteq Versions
    BY DEF Versions, Latest
  <2> QED
    BY <1>2, <1>3, <1>4, <2>1 DEF Up, Sound
<1> QED
  BY <1>2, <1>3, <1>4, <1>5, <1>6 DEF Sound

\* Alone with a sound database the next file can be applied.
LEMMA UpSucceeds ==
    ASSUME NEW d, Sound(d), d.kind = "database", NEW n \in 0..Latest, n < Latest,
           d.versions = 1..n
    PROVE  CanUp(d, n + 1)
<1>1. d.schema = 1..n
  BY DEF Sound
<1>2. n + 1 \in AddsColumns => 1 \in 1..n
  BY DEF AddsColumns, Latest
<1> QED
  BY <1>1, <1>2 DEF CanUp

\* Only the newest version is reverted, and its file leaves the one before.
LEMMA DownIsSound ==
    ASSUME NEW d, Sound(d), d.kind = "database", 1..Latest \subseteq d.versions
    PROVE  /\ CanDown(d, Latest)
           /\ Sound(Down(d, Latest))
           /\ Down(d, Latest).kind = "database"
           /\ Down(d, Latest).versions = 1..(Latest - 1)
<1> DEFINE u == Down(d, Latest)
<1>1. PICK k \in 0..Latest : d.versions = 1..k /\ d.schema = 1..k
  BY DEF Sound
<1>2. k = Latest
  BY <1>1 DEF Latest
<1>3. (1..Latest) \ {Latest} = 1..(Latest - 1) /\ Latest - 1 \in 0..Latest /\ Latest \in 1..Latest
  BY DEF Latest
<1>4. u.kind = "database" /\ u.versions = 1..(Latest - 1) /\ u.schema = 1..(Latest - 1)
  BY <1>1, <1>2, <1>3 DEF Down, Sound, EmptyDown, Latest
<1>5. u \in [kind : {"absent", "database", "torn", "mixed"},
             versions : SUBSET Versions, schema : SUBSET Versions, stamp : Nat]
  BY DEF Down, Sound
<1> QED
  BY <1>1, <1>2, <1>3, <1>4, <1>5 DEF Sound, CanDown

\* A service's write changes no schema.
LEMMA WriteIsSound ==
    ASSUME NEW d, Sound(d)
    PROVE  LET w == [d EXCEPT !.stamp = @ + 1] IN
           Sound(w) /\ w.kind = d.kind /\ w.versions = d.versions
BY DEF Sound

-----------------------------------------------------------------------------
(* SchemaInv, in two parts: the databases, then the commands.               *)

Stores == Sound(db) /\ Sound(base) /\ Sound(copy) /\ Sound(tmp) /\ Sound(tool.seen)

LEMMA NeverUncrossed == [Next]_vars /\ ~crossed' => ~crossed
<1> SUFFICES ASSUME [Next]_vars, ~crossed'  PROVE ~crossed
  OBVIOUS
<1>1. CASE \E p \in Processes : Open(p)
  BY <1>1 DEF Open, OpenStore
<1>2. CASE \E p \in Processes : Migrate(p) \/ MigrateDown(p) \/ Stop(p) \/ Write(p)
  BY <1>2 DEF Migrate, MigrateDown, Stop, Write, ApplyNext, Opened, Busy, ReadVersion,
              Revert, Close, Kill
<1>3. CASE StartBackup \/ Snapshot \/ WriteSnapshot \/ EndBackup \/ StartRestore \/ ClearTmp
           \/ CopyFile \/ Rename \/ KillTool \/ TakeAway
  BY <1>3 DEF StartBackup, Snapshot, WriteSnapshot, EndBackup, StartRestore, ClearTmp,
              CopyFile, Rename, KillTool, TakeAway, ByTool
<1>4. CASE UNCHANGED vars
  BY <1>4 DEF vars, migrationVars
<1> QED
  BY <1>1, <1>2, <1>3, <1>4 DEF Next

\* The file holds what it held or what a connection sees.
LEMMA FileFollows ==
    ASSUME ByProcess, Sound(base), Sound(copy), Sound(tmp), Sound(tool.seen), Sound(db')
    PROVE  Stores'
<1>1. base' = base \/ base' = db'
  BY DEF ByProcess, Settles
<1>2. Sound(base')
  BY <1>1
<1> QED
  BY <1>2 DEF ByProcess, Stores

\* A command still stands where it stood when another has applied a file.
LEMMA StandsInLarger ==
    ASSUME NEW d, NEW e, NEW r \in Commands, Stands(r, d), ~r.alone,
           d.kind = "database", e.kind = "database", d.versions \subseteq e.versions
    PROVE  Stands(r, e)
BY DEF Stands

\* Nor does a migrate down move the other commands.
LEMMA StandsAfterDown ==
    ASSUME NEW d, NEW e, NEW r \in Commands, Stands(r, d), ~r.alone, r.cmd # "down",
           d.kind = "database", e.kind = "database", e.versions = 1..(Latest - 1)
    PROVE  Stands(r, e)
<1>1. r.version \in Nat /\ (r.version < Latest => 1..r.version \subseteq 1..(Latest - 1))
  BY DEF Commands, Latest
<1> QED
  BY <1>1 DEF Stands

\* Two commands that run together are not alone, and only one reverts.
LEMMA Company ==
    ASSUME RunsAreSound, NEW p \in Processes, NEW q \in Processes \ {p},
           Active(run[p]), Active(run[q])
    PROVE  ~run[q].alone /\ (run[p].cmd = "down" => run[q].cmd # "down")
BY DEF RunsAreSound, Alone, Connected, Active

\* One command moves or ends.
LEMMA OneMoves ==
    ASSUME RunsAreSound, NEW p \in Processes, Active(run[p]), NEW r \in Commands,
           run' = [run EXCEPT ![p] = r],
           Active(r) => Stands(r, db') /\ r.cmd = run[p].cmd /\ r.alone = run[p].alone,
           r.pc = "failed" => ~r.alone,
           \A q \in Processes \ {p} : Active(run[q]) => Stands(run[q], db')
    PROVE  RunsAreSound'
<1>1. run' \in [Processes -> Commands] /\ run'[p] = r
      /\ \A q \in Processes \ {p} : run'[q] = run[q]
  BY DEF RunsAreSound
<1>2. \A q \in Processes : Active(run'[q]) => Active(run[q]) /\ Stands(run'[q], db')
  BY <1>1
<1>3. \A q \in Processes : Active(run'[q]) /\ run'[q].alone => Alone(q)'
  <2>1. \A q \in Processes : Active(run'[q]) /\ run'[q].alone => Active(run[q]) /\ run[q].alone
    BY <1>1
  <2>2. \A q \in Processes : Active(run'[q]) /\ run'[q].alone => Alone(q)
    BY <2>1 DEF RunsAreSound
  <2> QED
    BY <1>2, <2>2 DEF Alone, Connected, Active
<1>4. \A i, j \in Processes :
        Active(run'[i]) /\ Active(run'[j]) /\ run'[i].cmd = "down" /\ run'[j].cmd = "down" => i = j
  <2>1. \A q \in Processes : Active(run'[q]) => Active(run[q]) /\ run'[q].cmd = run[q].cmd
    BY <1>1
  <2> QED
    BY <2>1 DEF RunsAreSound
<1>5. \A q \in Processes : run'[q].pc = "failed" => ~run'[q].alone
  BY <1>1 DEF RunsAreSound
<1> QED
  BY <1>1, <1>2, <1>3, <1>4, <1>5 DEF RunsAreSound

LEMMA IdleIsACommand == Idle \in Commands /\ ~Active(Idle) /\ Idle.pc # "failed"
BY DEF Idle, Commands, Active, Latest

\* A command that ends leaves the database to the others.
LEMMA OneEnds ==
    ASSUME RunsAreSound, NEW p \in Processes, Active(run[p]), End(p), db' = db
    PROVE  RunsAreSound'
<1>1. \A q \in Processes \ {p} : Active(run[q]) => Stands(run[q], db')
  BY DEF RunsAreSound
<1>2. run' = [run EXCEPT ![p] = Idle]
  BY DEF End
<1> QED
  BY <1>1, <1>2, IdleIsACommand, OneMoves

\* A command that fails has had company.
LEMMA OneFails ==
    ASSUME RunsAreSound, NEW p \in Processes, Active(run[p]), ~run[p].alone,
           Become(p, "failed"), db' = db
    PROVE  RunsAreSound'
<1> DEFINE r == [run[p] EXCEPT !.pc = "failed"]
<1>1. r \in Commands /\ ~Active(r) /\ ~r.alone
  BY DEF RunsAreSound, Commands, Active
<1>2. run' = [run EXCEPT ![p] = r]
  BY DEF Become, RunsAreSound
<1>3. \A q \in Processes \ {p} : Active(run[q]) => Stands(run[q], db')
  BY DEF RunsAreSound
<1> HIDE DEF r
<1> QED
  BY <1>1, <1>2, <1>3, OneMoves

-----------------------------------------------------------------------------
(* The steps of a command. *)

Opening(c, v, a) ==
    [[Idle EXCEPT !.cmd = c, !.version = v, !.pc = "migrating"] EXCEPT !.alone = a]

LEMMA OpeningCommand ==
    ASSUME NEW c \in {"open", "down"}, NEW v \in 0..Latest, NEW a \in BOOLEAN
    PROVE  /\ Opening(c, v, a) \in Commands
           /\ Opening(c, v, a).pc = "migrating" /\ Opening(c, v, a).cmd = c
           /\ Opening(c, v, a).alone = a /\ Opening(c, v, a).version = v
<1> DEFINE i == [Idle EXCEPT !.cmd = c, !.version = v, !.pc = "migrating"]
<1>1. i \in Commands /\ i.pc = "migrating" /\ i.cmd = c /\ i.version = v
  BY DEF Idle, Commands
<1> HIDE DEF i
<1> DEFINE r == [i EXCEPT !.alone = a]
<1>2. /\ r \in Commands /\ r.pc = "migrating" /\ r.cmd = c
      /\ r.alone = a /\ r.version = v
  BY <1>1 DEF Commands
<1> QED
  BY <1>2 DEF i, Opening

Reverting(r, v) == [r EXCEPT !.version = v, !.pc = "reverting"]

LEMMA RevertingCommand ==
    ASSUME NEW r \in Commands, NEW v \in 0..Latest
    PROVE  /\ Reverting(r, v) \in Commands
           /\ Reverting(r, v).pc = "reverting" /\ Reverting(r, v).cmd = r.cmd
           /\ Reverting(r, v).alone = r.alone /\ Reverting(r, v).version = v
BY DEF Commands, Reverting

LEMMA OpenKeeps ==
    ASSUME RunsAreSound, Sound(db), NEW p \in Processes, NEW cmd \in {"open", "down"},
           OpenStore(p, cmd), ~crossed'
    PROVE  RunsAreSound' /\ Sound(db')
<1> DEFINE r == Opening(cmd, Newest(db), Alone(p))
<1>1. Newest(db) \in 0..Latest /\ (db.kind = "database" => db.versions = 1..Newest(db))
      /\ (db.kind # "database" => Newest(db) = 0)
  <2>1. CASE db.kind = "database"
    <3>1. PICK k \in 0..Latest : db.versions = 1..k
      BY <2>1 DEF Sound
    <3>2. Newest(db) = k
      BY <3>1, NewestIs DEF Latest
    <3> QED
      BY <2>1, <3>1, <3>2
  <2>2. CASE db.kind # "database"
    BY <2>2, NewestOfNone DEF Sound, Latest
  <2> QED
    BY <2>1, <2>2
<1>2. Alone(p) \in BOOLEAN
  BY DEF Alone
<1>3. /\ r \in Commands /\ r.pc = "migrating" /\ r.cmd = cmd
      /\ (r.alone <=> Alone(p)) /\ r.version = Newest(db)
  <2>1. Newest(db) \in 0..Latest
    BY <1>1
  <2>2. r \in Commands
    BY <1>2, <2>1, OpeningCommand, Zenon
  <2>3. r.pc = "migrating"
    BY <1>2, <2>1, OpeningCommand
  <2>5. r.cmd = cmd
    BY <1>2, <2>1, OpeningCommand
  <2>6. r.version = Newest(db)
    BY <1>2, <2>1, OpeningCommand
  <2>4. r.alone <=> Alone(p)
    BY <1>2, <2>1, OpeningCommand
  <2> QED
    BY <2>2, <2>3, <2>4, <2>5, <2>6
<1>4. r \in Commands
  BY <1>3
<1>5. Sound(db') /\ db'.kind # "absent"
      /\ (db.kind # "absent" => db' = db)
      /\ (db.kind = "absent" => db'.versions = {} /\ db.versions = {} /\ db'.kind = "database")
  <2>1. Empty.kind = "database" /\ Empty.versions = {}
    BY DEF Empty, Absent
  <2> QED
    BY <2>1, SoundConstants DEF OpenStore, Sound
<1>6. Stands(r, db')
  <2>1. CASE db.kind = "absent"
    <3>1. Newest(db) = 0 /\ 1..0 = {}
      BY <1>5, <2>1, NewestOfNone
    <3> QED
      BY <1>3, <1>5, <2>1, <3>1 DEF Stands
  <2>2. CASE db.kind # "absent"
    BY <1>1, <1>3, <1>5, <2>2 DEF Stands
  <2> QED
    BY <2>1, <2>2
<1>7. \A q \in Processes \ {p} : Active(run[q]) => db' = db /\ Stands(run[q], db)
  BY <1>5 DEF RunsAreSound, Stands
<1>8. run' = Joined(p, [Idle EXCEPT !.cmd = cmd, !.version = Newest(db), !.pc = "migrating"])
  BY DEF OpenStore
<1>9. /\ run'[p] = r
      /\ \A q \in Processes \ {p} :
           run'[q] = IF Active(run[q]) THEN [run[q] EXCEPT !.alone = FALSE] ELSE run[q]
      /\ DOMAIN run' = Processes
      /\ run' = [q \in Processes |-> run'[q]]
  BY <1>8 DEF Joined, Connected, Active, Opening
<1> HIDE DEF r
<1>10. \A q \in Processes \ {p} :
         /\ run'[q] \in Commands /\ run'[q].cmd = run[q].cmd /\ run'[q].pc = run[q].pc
         /\ run'[q].version = run[q].version
         /\ Active(run'[q]) <=> Active(run[q])
         /\ Active(run[q]) => ~run'[q].alone
         /\ ~Active(run[q]) => run'[q] = run[q]
  <2>1. TAKE q \in Processes \ {p}
  <2>2. run[q] \in Commands
    BY DEF RunsAreSound
  <2>3. CASE Active(run[q])
    <3>1. run'[q] = [run[q] EXCEPT !.alone = FALSE]
      BY <1>9, <2>3
    <3> QED
      BY <2>2, <2>3, <3>1 DEF Commands, Active
  <2>4. CASE ~Active(run[q])
    BY <1>9, <2>2, <2>4
  <2> QED
    BY <2>3, <2>4
<1>11. run' \in [Processes -> Commands]
  BY <1>4, <1>9, <1>10
<1>12. \A q \in Processes : Active(run'[q]) => Stands(run'[q], db')
  <2>1. ASSUME NEW q \in Processes \ {p}, Active(run'[q])  PROVE Stands(run'[q], db')
    <3>1. Stands(run[q], db) /\ db' = db
      BY <1>7, <1>10, <2>1
    <3> QED
      BY <1>10, <2>1, <3>1 DEF Stands
  <2> QED
    BY <1>6, <1>9, <2>1
<1>13. \A q \in Processes : Active(run'[q]) /\ run'[q].alone => Alone(q)'
  <2>1. r.alone => Alone(p)
    BY <1>3
  <2>2. Alone(p) => Alone(p)'
    BY <1>10 DEF Alone, Connected, Active
  <2> QED
    BY <1>9, <1>10, <2>1, <2>2
<1>14. \A i, j \in Processes :
        Active(run'[i]) /\ Active(run'[j]) /\ run'[i].cmd = "down" /\ run'[j].cmd = "down" => i = j
  <2>1. cmd = "down" => \A q \in Processes \ {p} : Active(run[q]) => run[q].cmd # "down"
    BY DEF OpenStore, Connected, Active
  <2>2. r.cmd = cmd
    BY <1>3
  <2> QED
    BY <1>9, <1>10, <2>1, <2>2 DEF RunsAreSound
<1>15. \A q \in Processes : run'[q].pc = "failed" => ~run'[q].alone
  BY <1>3, <1>9, <1>10 DEF RunsAreSound, Active
<1> QED
  BY <1>5, <1>11, <1>12, <1>13, <1>14, <1>15 DEF RunsAreSound

LEMMA ApplyKeeps ==
    ASSUME RunsAreSound, Sound(db), NEW p \in Processes, ApplyNext(p)
    PROVE  RunsAreSound' /\ Sound(db')
<1> DEFINE n == run[p].version
           r == [run[p] EXCEPT !.version = n + 1]
<1>1. run[p] \in Commands /\ run[p].pc = "migrating" /\ Active(run[p]) /\ n \in 0..Latest /\ n < Latest
  BY DEF ApplyNext, RunsAreSound, Commands, Active
<1>2. Stands(run[p], db)
  BY <1>1 DEF RunsAreSound
<1>3. CASE CanUp(db, n + 1) /\ db' = Up(db, n + 1) /\ run' = [run EXCEPT ![p].version = n + 1]
  <2>1. db.kind = "database" /\ 1..n \subseteq db.versions
    BY <1>1, <1>2, <1>3 DEF CanUp, Stands
  <2>2. Sound(db') /\ db'.kind = "database" /\ db.versions = 1..n /\ db'.versions = 1..(n + 1)
    BY <1>1, <1>3, <2>1, UpIsSound
  <2>3. run' = [run EXCEPT ![p] = r]
    BY <1>3 DEF RunsAreSound
  <2>4. r \in Commands /\ Active(r) /\ r.cmd = run[p].cmd /\ r.alone = run[p].alone
        /\ r.pc = "migrating" /\ r.version = n + 1
    BY <1>1 DEF Commands, Active, Latest
  <2> HIDE DEF r
  <2>5. Stands(r, db')
    BY <2>2, <2>4 DEF Stands
  <2>6. db.versions \subseteq db'.versions
    BY <1>1, <2>2
  <2>7. ASSUME NEW q \in Processes \ {p}, Active(run[q])  PROVE Stands(run[q], db')
    <3>1. ~run[q].alone /\ Stands(run[q], db) /\ run[q] \in Commands
      BY <1>1, <2>7, Company DEF RunsAreSound
    <3> QED
      BY <2>1, <2>2, <2>6, <3>1, StandsInLarger
  <2>8. RunsAreSound'
    BY <1>1, <2>3, <2>4, <2>5, <2>7, OneMoves
  <2> QED
    BY <2>2, <2>8
<1>4. CASE ~CanUp(db, n + 1) /\ UNCHANGED db /\ db.kind = "database" /\ Become(p, "failed")
  <2>1. ~run[p].alone
    <3>1. SUFFICES ASSUME run[p].alone  PROVE FALSE
      OBVIOUS
    <3>2. db.versions = 1..n
      BY <1>2, <1>4, <3>1 DEF Stands
    <3> QED
      BY <1>1, <1>4, <3>2, UpSucceeds
  <2> QED
    BY <1>1, <1>4, <2>1, OneFails
<1>5. CASE UNCHANGED db /\ End(p)
  BY <1>1, <1>5, OneEnds
<1> QED
  BY <1>3, <1>4, <1>5 DEF ApplyNext

LEMMA OpenedKeeps ==
    ASSUME RunsAreSound, NEW p \in Processes, Opened(p)
    PROVE  RunsAreSound'
<1> DEFINE r == [run[p] EXCEPT !.pc = "open"]
<1>1. run[p] \in Commands /\ Active(run[p]) /\ Stands(run[p], db) /\ run[p].version = Latest
      /\ Latest # 0 /\ run[p].pc = "migrating"
  BY DEF Opened, RunsAreSound, Active, Latest
<1>2. r \in Commands /\ r.pc = "open" /\ r.cmd = run[p].cmd /\ r.alone = run[p].alone
      /\ r.version = run[p].version
  BY <1>1 DEF Commands
<1>3. run' = [run EXCEPT ![p] = r] /\ db' = db
  BY DEF Opened, Become, RunsAreSound
<1> HIDE DEF r
<1>4. Stands(r, db')
  BY <1>1, <1>2, <1>3 DEF Stands
<1>5. \A q \in Processes \ {p} : Active(run[q]) => Stands(run[q], db')
  BY <1>3 DEF RunsAreSound
<1> QED
  BY <1>1, <1>2, <1>3, <1>4, <1>5, OneMoves

LEMMA ReadVersionKeeps ==
    ASSUME RunsAreSound, Sound(db), NEW p \in Processes, ReadVersion(p)
    PROVE  RunsAreSound'
<1> DEFINE r == Reverting(run[p], Latest)
<1>1. run[p] \in Commands /\ Active(run[p]) /\ Stands(run[p], db) /\ run[p].pc = "open"
      /\ run[p].cmd = "down" /\ db' = db
  BY DEF ReadVersion, RunsAreSound, Active
<1>2. db.kind = "database" /\ run[p].version = Latest /\ 1..Latest \subseteq db.versions
  BY <1>1 DEF Stands
<1>3. db.versions = 1..Latest /\ Newest(db) = Latest
  <2>1. PICK k \in 0..Latest : db.versions = 1..k
    BY <1>2 DEF Sound
  <2>2. Latest <= k /\ k <= Latest /\ Latest \in Nat /\ k \in Nat
    BY <1>2, <2>1, FirstOnes DEF Latest
  <2>3. k = Latest
    BY <2>2
  <2> QED
    BY <2>1, <2>2, <2>3, NewestIs
<1>4. run' = [run EXCEPT ![p] = r]
  <2>1. Newest(db) # 0
    BY <1>3 DEF Latest
  <2> QED
    BY <1>3, <2>1 DEF ReadVersion, RunsAreSound, Reverting
<1>5. r \in Commands /\ r.pc = "reverting" /\ r.cmd = "down" /\ r.alone = run[p].alone
      /\ r.version = Latest
  <2>1. Latest \in 0..Latest
    BY DEF Latest
  <2> QED
    BY <1>1, <2>1, RevertingCommand
<1> HIDE DEF r
<1>6. Stands(r, db')
  BY <1>1, <1>2, <1>3, <1>5 DEF Stands
<1>7. \A q \in Processes \ {p} : Active(run[q]) => Stands(run[q], db')
  BY <1>1 DEF RunsAreSound
<1> QED
  BY <1>1, <1>4, <1>5, <1>6, <1>7, OneMoves

LEMMA RevertKeeps ==
    ASSUME RunsAreSound, Sound(db), NEW p \in Processes, Revert(p)
    PROVE  RunsAreSound' /\ Sound(db')
<1>1. run[p] \in Commands /\ Active(run[p]) /\ Stands(run[p], db) /\ run[p].pc = "reverting"
  BY DEF Revert, RunsAreSound, Active
<1>2. db.kind = "database" /\ run[p].version = Latest /\ 1..Latest \subseteq db.versions
      /\ run[p].cmd = "down"
  BY <1>1 DEF Stands
<1>3. db' = Down(db, Latest) /\ End(p)
  BY <1>2, DownIsSound DEF Revert
<1>4. Sound(db') /\ db'.kind = "database" /\ db'.versions = 1..(Latest - 1)
  BY <1>2, <1>3, DownIsSound
<1>5. ASSUME NEW q \in Processes \ {p}, Active(run[q])  PROVE Stands(run[q], db')
  <2>1. ~run[q].alone /\ Stands(run[q], db) /\ run[q] \in Commands /\ run[q].cmd # "down"
    BY <1>1, <1>2, <1>5, Company DEF RunsAreSound
  <2> QED
    BY <1>2, <1>4, <2>1, StandsAfterDown
<1>6. run' = [run EXCEPT ![p] = Idle]
  BY <1>3 DEF End
<1> QED
  BY <1>1, <1>4, <1>5, <1>6, IdleIsACommand, OneMoves

LEMMA WriteKeeps ==
    ASSUME RunsAreSound, Sound(db), NEW p \in Processes, Write(p)
    PROVE  RunsAreSound' /\ Sound(db')
<1>1. Sound(db') /\ db'.kind = db.kind /\ db'.versions = db.versions /\ run' = run
  BY WriteIsSound DEF Write
<1>2. \A q \in Processes : Active(run[q]) => Stands(run[q], db')
  BY <1>1 DEF RunsAreSound, Stands
<1> QED
  BY <1>1, <1>2 DEF RunsAreSound, Alone, Connected

\* The steps of the service's and the operator's commands.
LEMMA ProcessKeeps ==
    ASSUME SchemaInv, NEW p \in Processes, ~crossed, ~crossed',
           Open(p) \/ Migrate(p) \/ MigrateDown(p) \/ Stop(p) \/ Write(p)
    PROVE  SchemaInv'
<1> USE DEF SchemaInv
<1>1. CASE Open(p)
  BY <1>1, OpenKeeps, FileFollows DEF Open, Stores
<1>2. CASE ApplyNext(p) /\ ByProcess
  BY <1>2, ApplyKeeps, FileFollows DEF Stores
<1>3. CASE Opened(p) /\ ByProcess
  BY <1>3, OpenedKeeps, FileFollows DEF Stores, Opened
<1>4. CASE Busy(p) /\ ByProcess
  <2>1. Active(run[p]) /\ ~run[p].alone /\ Become(p, "failed") /\ db' = db
    BY <1>4 DEF Busy, Active, RunsAreSound
  <2> QED
    BY <1>4, <2>1, OneFails, FileFollows DEF Stores
<1>5. CASE ReadVersion(p) /\ ByProcess
  BY <1>5, ReadVersionKeeps, FileFollows DEF Stores, ReadVersion
<1>6. CASE Revert(p) /\ ByProcess
  BY <1>6, RevertKeeps, FileFollows DEF Stores
<1>7. CASE Stop(p)
  <2>1. Active(run[p]) /\ End(p) /\ db' = db /\ ByProcess
    BY <1>7 DEF Stop, Close, Kill, Connected, Active
  <2> QED
    BY <2>1, OneEnds, FileFollows DEF Stores
<1>8. CASE Write(p)
  BY <1>8, WriteKeeps, FileFollows DEF Stores, Write
<1> QED
  BY <1>1, <1>2, <1>3, <1>4, <1>5, <1>6, <1>7, <1>8 DEF Migrate, MigrateDown

-----------------------------------------------------------------------------
(* The steps of the backup and of the restore. *)

\* The steps that leave the commands and what they see alone.
LEMMA QuietRuns ==
    ASSUME RunsAreSound, run' = run,
           db' = db \/ \A p \in Processes : ~Active(run[p])
    PROVE  RunsAreSound'
BY DEF RunsAreSound, Alone, Connected

LEMMA ToolKeepsSchema ==
    ASSUME SchemaInv, ToolInv, ~crossed,
           \/ StartBackup \/ Snapshot \/ WriteSnapshot \/ EndBackup
           \/ StartRestore \/ ClearTmp \/ CopyFile \/ Rename \/ KillTool \/ TakeAway
    PROVE  SchemaInv'
<1>0. RunsAreSound /\ Stores
  BY DEF SchemaInv, Stores
<1>1. CASE StartBackup
  <2>1. db' = db \/ \A p \in Processes : ~Active(run[p])
    BY <1>0, <1>1 DEF StartBackup, RunsAreSound, Stands
  <2>2. RunsAreSound'
    BY <1>0, <1>1, <2>1, QuietRuns DEF StartBackup
  <2>3. tool'.seen = Absent
    BY <1>1 DEF StartBackup, NoTool
  <2> QED
    BY <1>0, <1>1, <2>2, <2>3, SoundConstants DEF StartBackup, Stores, SchemaInv
<1>2. CASE Snapshot
  <2>1. RunsAreSound'
    BY <1>0, <1>2, QuietRuns DEF Snapshot, ByTool
  <2>2. tool'.seen = db
    BY <1>2 DEF Snapshot, ToolInv
  <2> QED
    BY <1>0, <1>2, <2>1, <2>2, SoundConstants DEF Snapshot, Stores, SchemaInv
<1>3. CASE WriteSnapshot
  <2>1. RunsAreSound'
    BY <1>0, <1>3, QuietRuns DEF WriteSnapshot, ByTool
  <2>2. tool'.seen = tool.seen /\ copy' \in {Torn, tool.seen}
    BY <1>3 DEF WriteSnapshot, ToolInv
  <2> QED
    BY <1>0, <1>3, <2>1, <2>2, SoundConstants DEF WriteSnapshot, Stores, SchemaInv
<1>4. CASE EndBackup
  <2>1. RunsAreSound'
    BY <1>0, <1>4, QuietRuns DEF EndBackup, ByTool
  <2>2. tool'.seen = Absent /\ base' \in {base, db}
    BY <1>4 DEF EndBackup, NoTool
  <2> QED
    BY <1>0, <1>4, <2>1, <2>2, SoundConstants DEF EndBackup, Stores, SchemaInv
<1>5. CASE StartRestore
  <2>1. RunsAreSound'
    BY <1>0, <1>5, QuietRuns DEF StartRestore
  <2>2. tool'.seen = Absent
    BY <1>5 DEF StartRestore, NoTool
  <2> QED
    BY <1>0, <1>5, <2>1, <2>2, SoundConstants DEF StartRestore, Stores, SchemaInv
<1>6. CASE ClearTmp \/ CopyFile
  <2>1. RunsAreSound'
    BY <1>0, <1>6, QuietRuns DEF ClearTmp, CopyFile, ByTool
  <2>2. tool'.seen = tool.seen
    BY <1>6 DEF ClearTmp, CopyFile, ToolInv
  <2> QED
    BY <1>0, <1>6, <2>1, <2>2, SoundConstants DEF ClearTmp, CopyFile, Stores, SchemaInv
<1>7. CASE Rename
  <2>1. \A p \in Processes : ~Active(run[p])
    BY <1>7 DEF Rename, ToolInv, Connected, Active
  <2>2. RunsAreSound'
    BY <1>0, <1>7, <2>1, QuietRuns DEF Rename, ByTool
  <2>3. tool'.seen = Absent /\ db' \in {tmp, Mixed} /\ base' = tmp
    BY <1>7 DEF Rename, Replaced, NoTool
  <2> QED
    BY <1>0, <1>7, <2>2, <2>3, SoundConstants DEF Rename, Stores, SchemaInv
<1>8. CASE KillTool
  <2>1. RunsAreSound'
    BY <1>0, <1>8, QuietRuns DEF KillTool
  <2>2. tool'.seen = Absent
    BY <1>8 DEF KillTool, NoTool
  <2> QED
    BY <1>0, <1>8, <2>1, <2>2, SoundConstants DEF KillTool, Stores, SchemaInv
<1>9. CASE TakeAway
  <2>1. RunsAreSound'
    BY <1>0, <1>9, QuietRuns DEF TakeAway, ByTool
  <2> QED
    BY <1>0, <1>9, <2>1, SoundConstants DEF TakeAway, Stores, SchemaInv
<1> QED
  BY <1>1, <1>2, <1>3, <1>4, <1>5, <1>6, <1>7, <1>8, <1>9

\* A process moves only while it is connected, or opens the store when no
\* restore is under way; a backup's window takes in every commit.
LEMMA ProcessKeepsTool ==
    ASSUME ToolInv, NEW p \in Processes,
           Open(p) \/ Migrate(p) \/ MigrateDown(p) \/ Stop(p) \/ Write(p)
    PROVE  ToolInv' /\ tool.cmd # "restore"
<1>1. ByProcess
  BY DEF Open, Migrate, MigrateDown, Stop, Write
<1>2. tool.cmd # "restore"
  <2>1. Connected(p) \/ tool.cmd # "restore"
    BY DEF Open, Migrate, ApplyNext, Opened, Busy, MigrateDown, ReadVersion, Revert, Stop,
           Close, Kill, Write, Connected
  <2> QED
    BY <2>1 DEF ToolInv
<1>3. UNCHANGED <<copy, tmp, tool>> /\ (tool.cmd = "backup" => window' = window \cup {db'})
  BY <1>1 DEF ByProcess, Seen
<1> QED
  BY <1>2, <1>3 DEF ToolInv

LEMMA ToolKeeps ==
    ASSUME ToolInv,
           \/ StartBackup \/ Snapshot \/ WriteSnapshot \/ EndBackup
           \/ StartRestore \/ ClearTmp \/ CopyFile \/ Rename \/ KillTool \/ TakeAway
    PROVE  ToolInv'
<1>1. CASE StartBackup
  BY <1>1 DEF StartBackup, ToolInv, NoTool
<1>2. CASE Snapshot
  BY <1>2 DEF Snapshot, ToolInv
<1>3. CASE WriteSnapshot
  <2>1. CASE copy' = Torn /\ UNCHANGED tool
    BY <1>3, <2>1 DEF WriteSnapshot, ToolInv
  <2>2. CASE copy' = tool.seen /\ tool' = [tool EXCEPT !.pc = "check"]
    BY <1>3, <2>2 DEF WriteSnapshot, ToolInv
  <2> QED
    BY <1>3, <2>1, <2>2 DEF WriteSnapshot
<1>4. CASE EndBackup
  BY <1>4 DEF EndBackup, ToolInv, NoTool
<1>5. CASE StartRestore
  BY <1>5 DEF StartRestore, ToolInv, NoTool, Connected
<1>6. CASE ClearTmp
  BY <1>6 DEF ClearTmp, ToolInv, ByTool, Connected
<1>7. CASE CopyFile
  BY <1>7 DEF CopyFile, ToolInv, ByTool, Connected
<1>8. CASE Rename
  BY <1>8 DEF Rename, ToolInv, NoTool
<1>9. CASE KillTool
  BY <1>9 DEF KillTool, ToolInv, NoTool
<1>10. CASE TakeAway
  BY <1>10 DEF TakeAway, ToolInv, Connected
<1> QED
  BY <1>1, <1>2, <1>3, <1>4, <1>5, <1>6, <1>7, <1>8, <1>9, <1>10

LEMMA InvInit == Init => Inv
<1> SUFFICES ASSUME Init  PROVE Inv
  OBVIOUS
<1>1. ToolInv
  BY DEF Init, ToolInv, NoTool
<1>2. Stores
  BY SoundConstants DEF Init, MigrationsInit, Stores, NoTool
<1>3. RunsAreSound
  BY IdleIsACommand DEF Init, MigrationsInit, RunsAreSound
<1> QED
  BY <1>1, <1>2, <1>3 DEF Inv, SchemaInv, Stores

LEMMA InvStep == Inv /\ [Next]_vars => Inv'
<1> SUFFICES ASSUME Inv, [Next]_vars  PROVE Inv'
  OBVIOUS
<1>0. SchemaInv /\ ToolInv
  BY DEF Inv
<1>1. CASE \E p \in Processes : Open(p) \/ Migrate(p) \/ MigrateDown(p) \/ Stop(p) \/ Write(p)
  <2>1. ToolInv'
    BY <1>0, <1>1, ProcessKeepsTool
  <2>2. SchemaInv'
    <3>1. CASE crossed'
      BY <3>1 DEF SchemaInv
    <3>2. CASE ~crossed'
      BY <1>0, <1>1, <3>2, NeverUncrossed, ProcessKeeps
    <3> QED
      BY <3>1, <3>2
  <2> QED
    BY <2>1, <2>2 DEF Inv
<1>2. CASE \/ StartBackup \/ Snapshot \/ WriteSnapshot \/ EndBackup
           \/ StartRestore \/ ClearTmp \/ CopyFile \/ Rename \/ KillTool \/ TakeAway
  <2>1. ToolInv'
    BY <1>0, <1>2, ToolKeeps
  <2>2. SchemaInv'
    <3>1. CASE crossed'
      BY <3>1 DEF SchemaInv
    <3>2. CASE ~crossed'
      BY <1>0, <1>2, <3>2, NeverUncrossed, ToolKeepsSchema
    <3> QED
      BY <3>1, <3>2
  <2> QED
    BY <2>1, <2>2 DEF Inv
<1>3. CASE UNCHANGED vars
  BY <1>0, <1>3 DEF vars, migrationVars, fileVars, Inv, SchemaInv, ToolInv, RunsAreSound,
                    Alone, Connected
<1> QED
  BY <1>1, <1>2, <1>3 DEF Next

LEMMA InvHolds == Spec => []Inv
BY InvInit, InvStep, PTL DEF Spec

-----------------------------------------------------------------------------
(* The theorems. *)

\* However the store is opened, upgraded, reverted, killed, backed up and
\* restored, and by however many processes, it has the schema its recorded
\* versions stand for, the first few of them, and a command alone with it
\* succeeds; unless two migrate down ran together (openStore,
\* applyMigrations, migrateDown).
THEOREM TheSchemaIsSound == Spec => []SchemaIsSound
<1>1. Inv => SchemaIsSound
  <2> SUFFICES ASSUME SchemaInv  PROVE SchemaIsSound
    BY DEF Inv
  <2>1. SchemaMatchesVersions
    BY DEF SchemaInv, Sound, SchemaMatchesVersions
  <2>2. LoneStartSucceeds
    <3> SUFFICES ASSUME NEW p \in Processes, run[p].alone, db.kind = "database", ~crossed
                 PROVE  run[p].pc # "failed" /\ (run[p].pc = "open" => db.versions = Versions)
      BY DEF LoneStartSucceeds
    <3>1. RunsAreSound
      BY DEF SchemaInv
    <3>2. run[p].pc = "open" => Stands(run[p], db)
      BY <3>1 DEF RunsAreSound, Active
    <3> QED
      BY <3>1, <3>2 DEF RunsAreSound, Stands, Versions
  <2> QED
    BY <2>1, <2>2 DEF SchemaIsSound
<1> QED
  BY <1>1, InvHolds, PTL

\* What a backup is about to report is one state that was committed while it
\* ran, whatever wrote, migrated or was killed beside it (BackupSQLite).
THEOREM BackupsAreSnapshots == Spec => []BackupIsASnapshot
<1>1. Inv => BackupIsASnapshot
  BY DEF Inv, ToolInv, BackupIsASnapshot
<1> QED
  BY <1>1, InvHolds, PTL

\* A restore changes the database in one step at its end, to all of its
\* source; killed before that step it changes nothing (RestoreSQLite).
THEOREM RestoresAreAtomic == Spec => RestoreIsAtomic
<1> DEFINE A == tool.cmd = "restore" /\ db' # db =>
                  /\ tool'.cmd = "none"
                  /\ db' = copy \/ (db # base /\ db' = Mixed)
<1>1. Inv /\ [Next]_vars => [A]_vars
  <2> SUFFICES ASSUME ToolInv, Next, tool.cmd = "restore", db' # db
               PROVE  A
    BY DEF Inv
  <2>1. ~\E p \in Processes : Open(p) \/ Migrate(p) \/ MigrateDown(p) \/ Stop(p) \/ Write(p)
    BY ProcessKeepsTool
  <2>2. CASE Rename
    BY <2>2 DEF Rename, Replaced, ToolInv, NoTool
  <2>3. ~StartBackup /\ ~Snapshot /\ ~WriteSnapshot /\ ~EndBackup /\ ~StartRestore
        /\ ~ClearTmp /\ ~CopyFile /\ ~KillTool /\ ~TakeAway
    BY DEF StartBackup, Snapshot, WriteSnapshot, EndBackup, StartRestore, ClearTmp,
           CopyFile, KillTool, TakeAway, ToolInv
  <2> QED
    BY <2>1, <2>2, <2>3 DEF Next
<1> QED
  BY <1>1, InvHolds, PTL DEF Spec, RestoreIsAtomic
=============================================================================

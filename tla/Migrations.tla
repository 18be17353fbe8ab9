------------------------------- MODULE Migrations -------------------------------
(***************************************************************************)
(* Open in internal/store: several ticketd processes (MCP servers, CLI     *)
(* commands) open one database file, and each brings its schema up to date *)
(* one migration per transaction, from the version it read at the start.   *)
(* Processes crash anywhere and Open fails anywhere, which rolls an open   *)
(* transaction back.                                                       *)
(***************************************************************************)
EXTENDS Integers, FiniteSetsExt

CONSTANTS
  Processes,       \* processes that open the database
  NoProcess,
  LegacyProjects,  \* projects with a counter of their own in old databases
  keySequence,     \* counters row of the global key sequence
  MaxKey,          \* bound: keys handed out
  MaxCrashes       \* bound: crashes of processes, and openings that fail at random

ASSUME MigrationConstants ==
  /\ NoProcess \notin Processes
  /\ keySequence \notin LegacyProjects
  /\ MaxKey \in Nat
  /\ MaxCrashes \in Nat

VARIABLES
  db,       \* the committed database file
  writer,   \* holder of the write lock (BEGIN IMMEDIATE)
  work,     \* the writer's uncommitted database
  pc,       \* where each process is in Open
  index,    \* the migration each process is about to apply
  crashes

vars == <<db, writer, work, pc, index, crashes>>

\* The number of migrations the binary has; they are numbered from 0.
NumMigrations == 3

Database == [version : 0..NumMigrations,      \* PRAGMA user_version
             tables : BOOLEAN,                \* the schema of migration 001
             claimColumns : BOOLEAN,          \* the columns of migration 003
             counters : UNION {[rows -> 1..(MaxKey + 1)] :
                                 rows \in SUBSET (LegacyProjects \cup {keySequence})},
             keys : SUBSET (1..MaxKey)]       \* keys of the tickets table

NoRows == [row \in {} |-> 1]

Empty == [version |-> 0, tables |-> FALSE, claimColumns |-> FALSE,
          counters |-> NoRows, keys |-> {}]

-------------------------------------------------------------------------------
(* The migrations *)

\* Variant: the global sequence restarts instead of continuing.
RestartedCounters(d) == [row \in {keySequence} |-> 1]

\* 002: one row is left, one above the highest key.
ReseededCounters(d) == [row \in {keySequence} |-> Max(d.keys \cup {0}) + 1]

\* SQLite runs migration i on d without an error: CREATE TABLE and ADD COLUMN
\* refuse what is there already, statements on a missing table fail.
Applies(i, d) ==
  \/ i = 0 /\ ~d.tables
  \/ i = 1 /\ d.tables
  \/ i = 2 /\ d.tables /\ ~d.claimColumns

Migrated(i, d) ==
  CASE i = 0 -> [d EXCEPT !.tables = TRUE]
    [] i = 1 -> [d EXCEPT !.counters = ReseededCounters(d)]
    [] i = 2 -> [d EXCEPT !.claimColumns = TRUE]

\* Variants: the version is one off, either way, or is set to the last one at once.
BumpsToIndex(i) == i
BumpsPastIndex(i) == i + 2
BumpsToLatest(i) == NumMigrations

BumpsTo(i) == i + 1

-------------------------------------------------------------------------------
(* Databases that Open can meet: a new file, and the files that earlier runs   *)
(* left at each version.  At version 1 counters are per project, and the first  *)
(* project to create a ticket is the only one that can: the others would start  *)
(* at key 1 again.                                                              *)

Init ==
  /\ \E last \in 0..MaxKey :
       db \in {Empty}
         \cup {[Empty EXCEPT !.version = 1, !.tables = TRUE, !.keys = 1..last,
                             !.counters = [row \in {project} |-> last + 1]] :
                  project \in IF last = 0 THEN {} ELSE LegacyProjects}
         \cup {[Empty EXCEPT !.version = 1, !.tables = TRUE]}
         \cup {[version |-> v, tables |-> TRUE, claimColumns |-> v = 3, keys |-> 1..last,
                counters |-> [row \in {keySequence} |-> last + 1]] : v \in {2, 3}}
  /\ writer = NoProcess
  /\ work = Empty
  /\ pc = [p \in Processes |-> "closed"]
  /\ index = [p \in Processes |-> 0]
  /\ crashes = 0

\* The head of migrate's loop: another migration, or the store is ready.
LoopAt(i) == IF i < NumMigrations THEN "migrate" ELSE "open"

\* user_version is read once, outside any transaction.
ReadVersion(p) ==
  /\ pc[p] \in {"closed", "failed"}
  /\ index' = [index EXCEPT ![p] = db.version]
  /\ pc' = [pc EXCEPT ![p] = LoopAt(db.version)]
  /\ UNCHANGED <<db, writer, work, crashes>>

Begin(p) ==
  /\ pc[p] = "migrate"
  /\ writer = NoProcess
  /\ writer' = p
  /\ work' = db
  /\ pc' = [pc EXCEPT ![p] = "begun"]
  /\ UNCHANGED <<db, index, crashes>>

\* The write lock was not free for the busy_timeout; Open returns the error.
BusyTimeout(p) ==
  /\ pc[p] = "migrate"
  /\ writer \notin {NoProcess, p}
  /\ pc' = [pc EXCEPT ![p] = "failed"]
  /\ UNCHANGED <<db, writer, work, index, crashes>>

ExecMigration(p) ==
  /\ pc[p] = "begun"
  /\ \/ /\ Applies(index[p], work)
        /\ work' = Migrated(index[p], work)
        /\ pc' = [pc EXCEPT ![p] = "applied"]
        /\ UNCHANGED writer
     \/ /\ ~Applies(index[p], work)
        /\ writer' = NoProcess                \* Rollback
        /\ work' = Empty
        /\ pc' = [pc EXCEPT ![p] = "failed"]
  /\ UNCHANGED <<db, index, crashes>>

BumpVersion(p) ==
  /\ pc[p] = "applied"
  /\ work' = [work EXCEPT !.version = BumpsTo(index[p])]
  /\ pc' = [pc EXCEPT ![p] = "bumped"]
  /\ UNCHANGED <<db, writer, index, crashes>>

Commit(p) ==
  /\ pc[p] = "bumped"
  /\ db' = work
  /\ work' = Empty
  /\ writer' = NoProcess
  /\ index' = [index EXCEPT ![p] = @ + 1]
  /\ pc' = [pc EXCEPT ![p] = LoopAt(index[p] + 1)]
  /\ UNCHANGED crashes

\* A store that is open creates tickets, each in one transaction, which needs the
\* whole schema and a key that is not taken.
CreateTicket(p) ==
  LET key == IF keySequence \in DOMAIN db.counters THEN db.counters[keySequence] ELSE 1
  IN  /\ pc[p] = "open"
      /\ writer = NoProcess
      /\ db.tables /\ db.claimColumns
      /\ key \in (1..MaxKey) \ db.keys
      /\ db' = [db EXCEPT !.counters = [row \in DOMAIN @ \cup {keySequence} |->
                                         IF row = keySequence THEN key + 1 ELSE @[row]],
                          !.keys = @ \cup {key}]
      /\ UNCHANGED <<writer, work, pc, index, crashes>>

Close(p) ==
  /\ pc[p] = "open"
  /\ pc' = [pc EXCEPT ![p] = "closed"]
  /\ UNCHANGED <<db, writer, work, index, crashes>>

\* p gets no further; SQLite rolls back what it has not committed.
Stops(p, at) ==
  /\ crashes < MaxCrashes
  /\ crashes' = crashes + 1
  /\ pc' = [pc EXCEPT ![p] = at]
  /\ IF writer = p
     THEN writer' = NoProcess /\ work' = Empty
     ELSE UNCHANGED <<writer, work>>
  /\ UNCHANGED <<db, index>>

Crash(p) == pc[p] \notin {"closed", "failed"} /\ Stops(p, "closed")

\* Ping, the read of user_version, a statement or the commit fails, for a reason
\* that is not the schema; Open returns the error.
OpenFails(p) == pc[p] \notin {"failed", "open"} /\ Stops(p, "failed")

\* One more step of Open, which a process that calls it goes on taking.
OpenStep(p) ==
  ReadVersion(p) \/ Begin(p) \/ ExecMigration(p) \/ BumpVersion(p) \/ Commit(p)

Next ==
  \E p \in Processes :
    \/ OpenStep(p) \/ BusyTimeout(p) \/ CreateTicket(p) \/ Close(p)
    \/ Crash(p) \/ OpenFails(p)

Spec == Init /\ [][Next]_vars

FairSpec == Spec /\ \A p \in Processes : WF_vars(OpenStep(p))

-------------------------------------------------------------------------------
(* Properties *)

TypeOK ==
  /\ db \in Database
  /\ work \in Database
  /\ writer \in Processes \cup {NoProcess}
  /\ pc \in [Processes -> {"closed", "failed", "migrate", "begun", "applied", "bumped", "open"}]
  /\ index \in [Processes -> 0..NumMigrations]
  /\ crashes \in 0..MaxCrashes

\* d has had the first v migrations.
UpTo(d, v) ==
  /\ v >= 1 => d.tables
  /\ v >= 2 => DOMAIN d.counters = {keySequence}
  /\ v >= 3 => d.claimColumns

\* Open never returns a store on half a schema: however the openings of other
\* processes interleave, the tables, the claim columns and the global key
\* sequence are there, and the key it hands out next was never used.
OpenMeansReady ==
  (\E p \in Processes : pc[p] = "open") =>
     /\ UpTo(db, NumMigrations)
     /\ \A key \in db.keys : key < db.counters[keySequence]

\* The version never promises a migration the database has not had, although
\* a second process may set it back: whoever trusts it skips nothing it needs.
VersionNotAhead == UpTo(db, db.version)

\* Keys are sequential, and so is the global sequence once there is one.
Numbered(d) ==
  \E n \in 0..MaxKey :
    /\ d.keys = 1..n
    /\ keySequence \in DOMAIN d.counters => d.counters[keySequence] = n + 1

\* e is d after at most one more migration.
Advances(d, e) ==
  /\ e.keys = d.keys
  /\ \A v \in 0..NumMigrations : UpTo(d, v) => UpTo(e, v)

\* What the writer has in hand at each step of its transaction.
WorkInHand(p) ==
  /\ pc[p] \in {"begun", "applied", "bumped"} <=> writer = p
  /\ pc[p] = "begun" => work = db
  /\ pc[p] \in {"applied", "bumped"} => Advances(db, work) /\ UpTo(work, index[p] + 1)
  /\ pc[p] = "bumped" => work.version = index[p] + 1

\* The migrations a process relies on are those the database has had.
Trusts(p) ==
  /\ pc[p] \in {"migrate", "begun", "applied", "bumped"} =>
       index[p] < NumMigrations /\ UpTo(db, index[p])
  /\ pc[p] = "open" => UpTo(db, NumMigrations)

\* What every step of every process preserves.
IInv ==
  /\ TypeOK
  /\ VersionNotAhead
  /\ Numbered(db) /\ Numbered(work)
  /\ \A p \in Processes : WorkInHand(p) /\ Trusts(p)

\* The schema version says which migrations the database has had
\* (internal/store/migrations.go:8): 001 from version 1, 003 from version 3, and
\* from version 2 the one counters row of 002.
VersionMatchesSchema ==
  /\ db.tables <=> db.version >= 1
  /\ db.version >= 2 => DOMAIN db.counters = {keySequence}
  /\ db.claimColumns <=> db.version >= 3

\* No two processes are between reading the version and having the store open.
OpeningsDoNotOverlap ==
  Cardinality({p \in Processes : pc[p] \in {"migrate", "begun", "applied", "bumped"}}) <= 1

\* As long as openings do not overlap, the version tells the schema exactly: no
\* crash, and no store that is open and creates tickets meanwhile, parts the two.
VersionTellsSchema == []OpeningsDoNotOverlap => []VersionMatchesSchema

\* As long as openings do not overlap, a process that wants the database open gets
\* it open, crashes and errors of earlier attempts at any of its steps notwithstanding.
OpenCompletes ==
  []OpeningsDoNotOverlap => \A p \in Processes : pc[p] = "closed" ~> pc[p] = "open"

===============================================================================

--------------------------- MODULE MigrationsProofs ---------------------------
(***************************************************************************)
(* Opening the database is safe for any number of processes, crashes and   *)
(* keys: theorems about Migrations, and their proofs.                      *)
(***************************************************************************)
EXTENDS Migrations, FiniteSetTheorems, TLAPS

-------------------------------------------------------------------------------
(* Facts about single migrations *)

\* Sequential keys have their number as their maximum.
LEMMA MaxOfKeys ==
  ASSUME NEW n \in Nat
  PROVE  Max((1..n) \cup {0}) = n
<1> DEFINE S == (1..n) \cup {0}
<1>1. n \in S /\ \A y \in S : n >= y
  OBVIOUS
<1>2. \A x \in S : (\A y \in S : x >= y) => x = n
  BY <1>1
<1>3. QED
  BY <1>1, <1>2 DEF Max

\* A counters table with one row is of its type.
LEMMA CounterType ==
  ASSUME NEW n \in 0..MaxKey
  PROVE  [row \in {keySequence} |-> n + 1] \in
           UNION {[rows -> 1..(MaxKey + 1)] : rows \in SUBSET (LegacyProjects \cup {keySequence})}
<1>1. n + 1 \in 1..(MaxKey + 1)
  BY MigrationConstants
<1>2. [row \in {keySequence} |-> n + 1] \in [{keySequence} -> 1..(MaxKey + 1)]
  BY <1>1
<1>3. {keySequence} \in SUBSET (LegacyProjects \cup {keySequence})
  OBVIOUS
<1>4. QED
  BY <1>2, <1>3

\* A database has had fewer migrations if it has had more.
LEMMA UpToLess ==
  ASSUME NEW d, NEW v \in 0..NumMigrations, NEW w \in 0..v, UpTo(d, v)
  PROVE  UpTo(d, w)
BY DEF UpTo, NumMigrations

\* A migration that applies brings the database one version further, keeps what
\* earlier ones did, and keeps keys and their sequence in step.
LEMMA MigratedFacts ==
  ASSUME NEW d \in Database, NEW i \in 0..(NumMigrations - 1),
         UpTo(d, i), Numbered(d), Applies(i, d)
  PROVE  /\ Migrated(i, d) \in Database
         /\ Advances(d, Migrated(i, d))
         /\ UpTo(Migrated(i, d), i + 1)
         /\ Numbered(Migrated(i, d))
         /\ Migrated(i, d).version = d.version
<1> DEFINE e == Migrated(i, d)
<1>1. CASE i = 0
  <2>1. e = [d EXCEPT !.tables = TRUE]
    BY <1>1 DEF Migrated
  <2>2. /\ e \in Database /\ e.tables = TRUE /\ e.claimColumns = d.claimColumns
        /\ e.counters = d.counters /\ e.keys = d.keys /\ e.version = d.version
    BY <2>1 DEF Database
  <2>3. QED
    BY <1>1, <2>2 DEF UpTo, Advances, Numbered, NumMigrations
<1>2. CASE i = 1
  <2>1. PICK n \in 0..MaxKey : d.keys = 1..n
    BY DEF Numbered
  <2>2. ReseededCounters(d) = [row \in {keySequence} |-> n + 1]
    <3>1. n \in Nat
      BY <2>1, MigrationConstants
    <3>2. QED
      BY <2>1, <3>1, MaxOfKeys DEF ReseededCounters
  <2>3. e = [d EXCEPT !.counters = [row \in {keySequence} |-> n + 1]]
    BY <1>2, <2>2 DEF Migrated
  <2>4. /\ e \in Database /\ e.tables = d.tables /\ e.claimColumns = d.claimColumns
        /\ e.counters = [row \in {keySequence} |-> n + 1]
        /\ e.keys = d.keys /\ e.version = d.version
    BY <2>3, CounterType DEF Database
  <2>5. Numbered(e)
    BY <2>1, <2>4 DEF Numbered
  <2>6. QED
    BY <1>2, <2>4, <2>5 DEF UpTo, Advances, NumMigrations
<1>3. CASE i = 2
  <2>1. e = [d EXCEPT !.claimColumns = TRUE]
    BY <1>3 DEF Migrated
  <2>2. /\ e \in Database /\ e.tables = d.tables /\ e.claimColumns = TRUE
        /\ e.counters = d.counters /\ e.keys = d.keys /\ e.version = d.version
    BY <2>1 DEF Database
  <2>3. QED
    BY <1>3, <2>2 DEF UpTo, Advances, Numbered, NumMigrations
<1>4. QED
  BY <1>1, <1>2, <1>3 DEF NumMigrations

-------------------------------------------------------------------------------
(* IInv is inductive *)

\* Steps that leave the database, the lock and the work in hand alone: a process
\* outside of its transaction goes somewhere it may trust the database.
LEMMA OutsidePreserves ==
  ASSUME IInv, NEW p \in Processes, NEW at, NEW i \in 0..NumMigrations,
         at \in {"closed", "failed", "migrate", "open"},
         writer # p,
         at = "migrate" => i < NumMigrations /\ UpTo(db, i),
         at = "open" => UpTo(db, NumMigrations),
         pc' = [pc EXCEPT ![p] = at],
         index' = [index EXCEPT ![p] = i],
         crashes' \in 0..MaxCrashes,
         UNCHANGED <<db, writer, work>>
  PROVE  IInv'
<1>1. TypeOK'
  BY DEF IInv, TypeOK
<1>2. VersionNotAhead' /\ Numbered(db)' /\ Numbered(work)'
  BY DEF IInv, VersionNotAhead, Numbered, UpTo
<1>3. ASSUME NEW q \in Processes PROVE WorkInHand(q)' /\ Trusts(q)'
  <2>1. CASE q = p
    <3>1. pc'[q] = at /\ index'[q] = i
      BY <2>1 DEF IInv, TypeOK
    <3>2. QED
      BY <2>1, <3>1 DEF WorkInHand, Trusts, UpTo
  <2>2. CASE q # p
    <3>1. pc'[q] = pc[q] /\ index'[q] = index[q]
      BY <2>2 DEF IInv, TypeOK
    <3>2. WorkInHand(q) /\ Trusts(q)
      BY DEF IInv
    <3>3. QED
      BY <3>1, <3>2 DEF WorkInHand, Trusts, UpTo, Advances
  <2>3. QED
    BY <2>1, <2>2
<1>4. QED
  BY <1>1, <1>2, <1>3 DEF IInv

\* The loop of migrate and its end are places a process may be in.
LEMMA LoopAtFacts ==
  ASSUME NEW i \in 0..NumMigrations, UpTo(db, i)
  PROVE  /\ LoopAt(i) \in {"migrate", "open"}
         /\ LoopAt(i) = "migrate" => i < NumMigrations
         /\ LoopAt(i) = "open" => UpTo(db, NumMigrations)
BY DEF LoopAt, NumMigrations

LEMMA ReadVersionPreserves ==
  ASSUME IInv, NEW p \in Processes, ReadVersion(p)
  PROVE  IInv'
<1>1. db.version \in 0..NumMigrations /\ UpTo(db, db.version)
  BY DEF IInv, TypeOK, Database, VersionNotAhead
<1>2. writer # p
  BY DEF IInv, WorkInHand, ReadVersion
<1>3. crashes' \in 0..MaxCrashes
  BY DEF IInv, TypeOK, ReadVersion
<1>4. QED
  BY <1>1, <1>2, <1>3, LoopAtFacts, OutsidePreserves DEF ReadVersion

LEMMA BusyTimeoutPreserves ==
  ASSUME IInv, NEW p \in Processes, BusyTimeout(p)
  PROVE  IInv'
<1>1. index[p] \in 0..NumMigrations /\ index' = [index EXCEPT ![p] = index[p]]
  BY DEF IInv, TypeOK, BusyTimeout
<1>2. crashes' \in 0..MaxCrashes
  BY DEF IInv, TypeOK, BusyTimeout
<1>3. QED
  BY <1>1, <1>2, OutsidePreserves DEF BusyTimeout

LEMMA ClosePreserves ==
  ASSUME IInv, NEW p \in Processes, Close(p)
  PROVE  IInv'
<1>1. index[p] \in 0..NumMigrations /\ index' = [index EXCEPT ![p] = index[p]]
  BY DEF IInv, TypeOK, Close
<1>2. crashes' \in 0..MaxCrashes /\ writer # p
  BY DEF IInv, TypeOK, Close, WorkInHand
<1>3. QED
  BY <1>1, <1>2, OutsidePreserves DEF Close

\* What the database of a new file is.
LEMMA EmptyFacts == Empty \in Database /\ Numbered(Empty)
<1>1. NoRows \in [{} -> 1..(MaxKey + 1)]
  BY DEF NoRows
<1>2. NoRows \in UNION {[rows -> 1..(MaxKey + 1)] :
                           rows \in SUBSET (LegacyProjects \cup {keySequence})}
  BY <1>1
<1>3. Empty \in Database
  BY <1>2 DEF Empty, Database, NumMigrations
<1>4. Empty.keys = 1..0 /\ keySequence \notin DOMAIN Empty.counters /\ 0 \in 0..MaxKey
  BY MigrationConstants DEF Empty, NoRows
<1>5. QED
  BY <1>3, <1>4 DEF Numbered

\* Steps of p inside of its transaction, which no other process sees.
LEMMA InsidePreserves ==
  ASSUME IInv, NEW p \in Processes, NEW at,
         at \in {"closed", "failed", "begun", "applied", "bumped"},
         writer \in {NoProcess, p}, writer' \in {NoProcess, p},
         pc' = [pc EXCEPT ![p] = at],
         work' \in Database, Numbered(work'),
         WorkInHand(p)', Trusts(p)',
         crashes' \in 0..MaxCrashes,
         UNCHANGED <<db, index>>
  PROVE  IInv'
<1>1. TypeOK'
  BY DEF IInv, TypeOK
<1>2. VersionNotAhead' /\ Numbered(db)' /\ Numbered(work)'
  BY DEF IInv, VersionNotAhead, Numbered, UpTo
<1>3. ASSUME NEW q \in Processes, q # p PROVE WorkInHand(q)' /\ Trusts(q)'
  <2>1. pc'[q] = pc[q] /\ index'[q] = index[q]
    BY <1>3 DEF IInv, TypeOK
  <2>2. writer # q /\ writer' # q
    BY <1>3, MigrationConstants
  <2>3. WorkInHand(q) /\ Trusts(q)
    BY DEF IInv
  <2>4. pc[q] \notin {"begun", "applied", "bumped"}
    BY <2>2, <2>3 DEF WorkInHand
  <2>5. WorkInHand(q)'
    BY <2>1, <2>2, <2>4 DEF WorkInHand
  <2>6. Trusts(q)'
    BY <2>1, <2>3 DEF Trusts, UpTo
  <2>7. QED
    BY <2>5, <2>6
<1>4. QED
  BY <1>1, <1>2, <1>3 DEF IInv

LEMMA BeginPreserves ==
  ASSUME IInv, NEW p \in Processes, Begin(p)
  PROVE  IInv'
<1>1. pc'[p] = "begun" /\ index'[p] = index[p] /\ crashes' \in 0..MaxCrashes
  BY DEF Begin, IInv, TypeOK
<1>2. work' \in Database /\ Numbered(work')
  BY DEF Begin, IInv, TypeOK
<1>3. WorkInHand(p)' /\ Trusts(p)'
  BY <1>1 DEF Begin, IInv, WorkInHand, Trusts, UpTo
<1>4. QED
  BY <1>1, <1>2, <1>3, InsidePreserves DEF Begin

\* A transaction that ends without a commit.
LEMMA RollbackPreserves ==
  ASSUME IInv, NEW p \in Processes, NEW at, at \in {"closed", "failed"},
         writer = p, writer' = NoProcess, work' = Empty,
         pc' = [pc EXCEPT ![p] = at],
         crashes' \in 0..MaxCrashes,
         UNCHANGED <<db, index>>
  PROVE  IInv'
<1>1. pc'[p] = at
  BY DEF IInv, TypeOK
<1>2. WorkInHand(p)' /\ Trusts(p)'
  BY <1>1, MigrationConstants DEF WorkInHand, Trusts
<1>3. QED
  BY <1>2, EmptyFacts, InsidePreserves

LEMMA ExecMigrationPreserves ==
  ASSUME IInv, NEW p \in Processes, ExecMigration(p)
  PROVE  IInv'
<1>1. /\ writer = p /\ work = db /\ db \in Database /\ Numbered(db)
      /\ index[p] \in 0..(NumMigrations - 1) /\ UpTo(db, index[p])
      /\ index'[p] = index[p] /\ crashes' \in 0..MaxCrashes
  BY DEF ExecMigration, IInv, TypeOK, WorkInHand, Trusts, NumMigrations
<1>2. CASE /\ Applies(index[p], work)
           /\ work' = Migrated(index[p], work)
           /\ pc' = [pc EXCEPT ![p] = "applied"]
           /\ UNCHANGED writer
  <2>1. /\ work' \in Database /\ Numbered(work')
        /\ Advances(db, work') /\ UpTo(work', index[p] + 1)
    BY <1>1, <1>2, MigratedFacts
  <2>2. pc'[p] = "applied"
    BY <1>2 DEF IInv, TypeOK
  <2>3. db' = db
    BY DEF ExecMigration
  <2>4. WorkInHand(p)'
    BY <1>1, <1>2, <2>1, <2>2, <2>3 DEF WorkInHand, Advances, UpTo
  <2>5. Trusts(p)'
    BY <1>1, <2>2, <2>3 DEF Trusts, UpTo, NumMigrations
  <2>6. QED
    BY <1>1, <1>2, <2>1, <2>4, <2>5, InsidePreserves DEF ExecMigration
<1>3. CASE /\ writer' = NoProcess
           /\ work' = Empty
           /\ pc' = [pc EXCEPT ![p] = "failed"]
  BY <1>1, <1>3, RollbackPreserves DEF ExecMigration
<1>4. QED
  BY <1>2, <1>3 DEF ExecMigration

LEMMA BumpVersionPreserves ==
  ASSUME IInv, NEW p \in Processes, BumpVersion(p)
  PROVE  IInv'
<1>1. /\ writer = p /\ work \in Database /\ Numbered(work)
      /\ index[p] \in 0..(NumMigrations - 1) /\ UpTo(db, index[p])
      /\ Advances(db, work) /\ UpTo(work, index[p] + 1)
      /\ index'[p] = index[p] /\ crashes' \in 0..MaxCrashes
      /\ pc'[p] = "bumped" /\ db' = db
  BY DEF BumpVersion, IInv, TypeOK, WorkInHand, Trusts, NumMigrations
<1>2. /\ work' \in Database /\ work'.version = index[p] + 1
      /\ work'.tables = work.tables /\ work'.claimColumns = work.claimColumns
      /\ work'.counters = work.counters /\ work'.keys = work.keys
  BY <1>1 DEF BumpVersion, BumpsTo, Database, NumMigrations
<1>3. /\ Numbered(work')
      /\ Advances(db, work') /\ UpTo(work', index[p] + 1)
  BY <1>1, <1>2 DEF Numbered, Advances, UpTo
<1>4. WorkInHand(p)'
  BY <1>1, <1>2, <1>3 DEF WorkInHand, Advances, UpTo, BumpVersion
<1>5. Trusts(p)'
  BY <1>1 DEF Trusts, UpTo, NumMigrations
<1>6. QED
  BY <1>1, <1>2, <1>3, <1>4, <1>5, InsidePreserves DEF BumpVersion

LEMMA StopsPreserves ==
  ASSUME IInv, NEW p \in Processes, NEW at \in {"closed", "failed"}, Stops(p, at)
  PROVE  IInv'
<1>1. crashes' \in 0..MaxCrashes
  BY MigrationConstants DEF Stops, IInv, TypeOK
<1>2. CASE writer = p
  BY <1>1, <1>2, RollbackPreserves DEF Stops
<1>3. CASE writer # p
  <2>1. index[p] \in 0..NumMigrations /\ index' = [index EXCEPT ![p] = index[p]]
    BY DEF Stops, IInv, TypeOK
  <2>2. QED
    BY <1>1, <1>3, <2>1, OutsidePreserves DEF Stops
<1>4. QED
  BY <1>2, <1>3

\* What is committed has had all migrations anybody relies on.
LEMMA CommitPreserves ==
  ASSUME IInv, NEW p \in Processes, Commit(p)
  PROVE  IInv'
<1>1. /\ writer = p /\ work \in Database /\ Numbered(work)
      /\ index[p] \in 0..(NumMigrations - 1)
      /\ Advances(db, work) /\ UpTo(work, index[p] + 1)
      /\ work.version = index[p] + 1
  BY DEF Commit, IInv, TypeOK, WorkInHand, Trusts, NumMigrations
<1>2. /\ pc'[p] = LoopAt(index[p] + 1) /\ index'[p] = index[p] + 1
      /\ index[p] + 1 \in 0..NumMigrations
      /\ db' = work /\ work' = Empty /\ writer' = NoProcess
  BY <1>1 DEF Commit, IInv, TypeOK, NumMigrations
<1>3. TypeOK'
  BY <1>1, <1>2, EmptyFacts DEF Commit, IInv, TypeOK, LoopAt
<1>4. VersionNotAhead' /\ Numbered(db)' /\ Numbered(work)'
  BY <1>1, <1>2, EmptyFacts DEF VersionNotAhead
<1>5. WorkInHand(p)' /\ Trusts(p)'
  BY <1>1, <1>2, MigrationConstants DEF WorkInHand, Trusts, LoopAt, UpTo, NumMigrations
<1>6. ASSUME NEW q \in Processes, q # p PROVE WorkInHand(q)' /\ Trusts(q)'
  <2>1. pc'[q] = pc[q] /\ index'[q] = index[q]
    BY <1>6 DEF Commit, IInv, TypeOK
  <2>2. WorkInHand(q) /\ Trusts(q) /\ index[q] \in 0..NumMigrations
    BY DEF IInv, TypeOK
  <2>3. pc[q] \notin {"begun", "applied", "bumped"}
    BY <1>1, <1>6, <2>2 DEF WorkInHand
  <2>4. WorkInHand(q)'
    BY <1>2, <2>1, <2>3, MigrationConstants DEF WorkInHand
  <2>5. UpTo(db, index[q]) => UpTo(work, index[q])
    BY <1>1, <2>2 DEF Advances
  <2>6. UpTo(db, NumMigrations) => UpTo(work, NumMigrations)
    BY <1>1 DEF Advances, NumMigrations
  <2>7. Trusts(q)'
    BY <1>2, <2>1, <2>2, <2>5, <2>6 DEF Trusts
  <2>8. QED
    BY <2>4, <2>7
<1>7. QED
  BY <1>3, <1>4, <1>5, <1>6 DEF IInv

\* A ticket takes the next key of the sequence.
LEMMA CreateTicketPreserves ==
  ASSUME IInv, NEW p \in Processes, CreateTicket(p)
  PROVE  IInv'
<1>1. /\ db \in Database /\ DOMAIN db.counters = {keySequence} /\ writer = NoProcess
      /\ db.tables /\ db.claimColumns
  BY DEF CreateTicket, IInv, TypeOK, Trusts, UpTo, NumMigrations
<1>2. PICK n \in 0..MaxKey : db.keys = 1..n /\ db.counters[keySequence] = n + 1
  BY <1>1 DEF IInv, Numbered
<1>3. n + 1 \in 0..MaxKey /\ n \in Nat
  BY <1>1, <1>2, MigrationConstants DEF CreateTicket
<1>4. db' = [db EXCEPT !.counters = [row \in {keySequence} |-> (n + 1) + 1],
                      !.keys = 1..(n + 1)]
  <2>1. db' = [db EXCEPT !.counters = [row \in {keySequence} |->
                                         IF row = keySequence THEN (n + 1) + 1
                                         ELSE db.counters[row]],
                         !.keys = db.keys \cup {n + 1}]
    BY <1>1, <1>2 DEF CreateTicket, Database
  <2>2. [row \in {keySequence} |-> IF row = keySequence THEN (n + 1) + 1 ELSE db.counters[row]]
          = [row \in {keySequence} |-> (n + 1) + 1]
    OBVIOUS
  <2>3. db.keys \cup {n + 1} = 1..(n + 1)
    BY <1>2, <1>3
  <2>4. QED
    BY <2>1, <2>2, <2>3
<1>5. /\ db' \in Database
      /\ db'.version = db.version /\ db'.tables /\ db'.claimColumns
      /\ db'.counters = [row \in {keySequence} |-> (n + 1) + 1]
      /\ db'.keys = 1..(n + 1)
  <2>1. 1..(n + 1) \in SUBSET (1..MaxKey)
    BY <1>3, MigrationConstants
  <2>2. QED
    BY <1>1, <1>3, <1>4, <2>1, CounterType DEF Database
<1>6. TypeOK'
  BY <1>5 DEF CreateTicket, IInv, TypeOK
<1>7. Numbered(db)' /\ Numbered(work)' /\ VersionNotAhead'
  <2>1. Numbered(db')
    BY <1>3, <1>5 DEF Numbered
  <2>2. QED
    BY <1>5, <2>1 DEF CreateTicket, IInv, Numbered, VersionNotAhead, UpTo
<1>8. ASSUME NEW q \in Processes PROVE WorkInHand(q)' /\ Trusts(q)'
  <2>1. WorkInHand(q) /\ Trusts(q)
    BY DEF IInv
  <2>2. pc[q] \notin {"begun", "applied", "bumped"} /\ writer # q
    BY <1>1, <2>1, MigrationConstants DEF WorkInHand
  <2>3. QED
    BY <1>5, <2>1, <2>2 DEF CreateTicket, WorkInHand, Trusts, UpTo
<1>9. QED
  BY <1>6, <1>7, <1>8 DEF IInv

\* New files and files of earlier versions.
LEMMA InitEstablishes == Init => IInv
<1> SUFFICES ASSUME Init PROVE IInv
  OBVIOUS
<1> DEFINE CounterTables == UNION {[rows -> 1..(MaxKey + 1)] :
                                     rows \in SUBSET (LegacyProjects \cup {keySequence})}
<1>1. PICK last \in 0..MaxKey :
        \/ db = Empty
        \/ \E project \in LegacyProjects :
             db = [Empty EXCEPT !.version = 1, !.tables = TRUE, !.keys = 1..last,
                                !.counters = [row \in {project} |-> last + 1]]
        \/ db = [Empty EXCEPT !.version = 1, !.tables = TRUE]
        \/ \E v \in {2, 3} :
             db = [version |-> v, tables |-> TRUE, claimColumns |-> v = 3, keys |-> 1..last,
                   counters |-> [row \in {keySequence} |-> last + 1]]
  BY DEF Init
<1>2. 1..last \in SUBSET (1..MaxKey) /\ last \in 0..MaxKey /\ last + 1 \in 1..(MaxKey + 1)
  BY MigrationConstants
<1>3. db \in Database /\ Numbered(db) /\ UpTo(db, db.version)
  <2>1. CASE db = Empty
    BY <2>1, EmptyFacts DEF UpTo, Empty
  <2>2. ASSUME NEW project \in LegacyProjects,
               db = [Empty EXCEPT !.version = 1, !.tables = TRUE, !.keys = 1..last,
                                  !.counters = [row \in {project} |-> last + 1]]
        PROVE  db \in Database /\ Numbered(db) /\ UpTo(db, db.version)
    <3>1. /\ db = [version |-> 1, tables |-> TRUE, claimColumns |-> FALSE,
                   counters |-> [row \in {project} |-> last + 1], keys |-> 1..last]
      BY <2>2 DEF Empty
    <3>2. [row \in {project} |-> last + 1] \in CounterTables
      <4>1. [row \in {project} |-> last + 1] \in [{project} -> 1..(MaxKey + 1)]
        BY <1>2
      <4>2. {project} \in SUBSET (LegacyProjects \cup {keySequence})
        OBVIOUS
      <4>3. QED
        BY <4>1, <4>2
    <3>3. db \in Database
      BY <1>2, <3>1, <3>2 DEF Database, NumMigrations
    <3>4. QED
      BY <1>2, <3>1, <3>3, MigrationConstants DEF Numbered, UpTo
  <2>3. CASE db = [Empty EXCEPT !.version = 1, !.tables = TRUE]
    <3>1. db = [version |-> 1, tables |-> TRUE, claimColumns |-> FALSE,
                counters |-> NoRows, keys |-> {}]
      BY <2>3 DEF Empty
    <3>2. NoRows \in CounterTables
      BY EmptyFacts DEF Empty, Database
    <3>3. db \in Database
      BY <3>1, <3>2 DEF Database, NumMigrations
    <3>4. db.keys = 1..0 /\ keySequence \notin DOMAIN db.counters /\ 0 \in 0..MaxKey
      BY <3>1, MigrationConstants DEF NoRows
    <3>5. QED
      BY <3>1, <3>3, <3>4 DEF Numbered, UpTo
  <2>4. ASSUME NEW v \in {2, 3},
               db = [version |-> v, tables |-> TRUE, claimColumns |-> v = 3, keys |-> 1..last,
                     counters |-> [row \in {keySequence} |-> last + 1]]
        PROVE  db \in Database /\ Numbered(db) /\ UpTo(db, db.version)
    <3>1. PICK columns \in BOOLEAN :
            /\ columns <=> v = 3
            /\ db = [version |-> v, tables |-> TRUE, claimColumns |-> columns, keys |-> 1..last,
                     counters |-> [row \in {keySequence} |-> last + 1]]
      <4>1. CASE v = 2
        <5>1. (v = 3) = FALSE
          BY <4>1
        <5>2. QED
          BY <2>4, <5>1
      <4>2. CASE v = 3
        <5>1. (v = 3) = TRUE
          BY <4>2
        <5>2. QED
          BY <2>4, <5>1
      <4>3. QED
        BY <4>1, <4>2
    <3>2. db \in Database
      BY <1>2, <3>1, CounterType DEF Database, NumMigrations
    <3>3. Numbered(db)
      BY <1>2, <3>1 DEF Numbered
    <3>4. UpTo(db, db.version)
      BY <3>1 DEF UpTo
    <3>5. QED
      BY <3>2, <3>3, <3>4
  <2>5. QED
    BY <1>1, <2>1, <2>2, <2>3, <2>4
<1>4. TypeOK
  <2>1. /\ writer = NoProcess /\ work = Empty /\ crashes = 0
        /\ pc = [p \in Processes |-> "closed"] /\ index = [p \in Processes |-> 0]
    BY Zenon DEF Init
  <2>2. QED
    BY <1>3, <2>1, EmptyFacts, MigrationConstants DEF TypeOK, NumMigrations
<1>5. \A p \in Processes : WorkInHand(p) /\ Trusts(p)
  BY MigrationConstants DEF Init, WorkInHand, Trusts
<1>6. QED
  BY <1>3, <1>4, <1>5, EmptyFacts DEF IInv, VersionNotAhead, Init

LEMMA StepPreserves == IInv /\ [Next]_vars => IInv'
<1> SUFFICES ASSUME IInv, [Next]_vars PROVE IInv'
  OBVIOUS
<1>1. CASE UNCHANGED vars
  BY <1>1 DEF vars, IInv, TypeOK, VersionNotAhead, Numbered, UpTo, WorkInHand, Trusts, Advances
<1>2. ASSUME NEW p \in Processes,
             OpenStep(p) \/ BusyTimeout(p) \/ CreateTicket(p) \/ Close(p)
               \/ Crash(p) \/ OpenFails(p)
      PROVE  IInv'
  BY <1>2, ReadVersionPreserves, BeginPreserves, ExecMigrationPreserves, BumpVersionPreserves,
     CommitPreserves, BusyTimeoutPreserves, CreateTicketPreserves, ClosePreserves, StopsPreserves
     DEF OpenStep, Crash, OpenFails
<1>3. QED
  BY <1>1, <1>2 DEF Next

-------------------------------------------------------------------------------
\* The invariant, for any number of processes and of crashes.
THEOREM Invariance == Spec => []IInv
<1>1. QED
  BY InitEstablishes, StepPreserves, PTL DEF Spec

\* The database, the uncommitted changes and the processes are in states the opening
\* code knows, through every crash, rollback and failed attempt.
THEOREM TypeCorrect == Spec => []TypeOK
<1>1. IInv => TypeOK
  BY DEF IInv
<1>2. QED
  BY <1>1, Invariance, PTL

\* The version never runs ahead of the schema.
THEOREM VersionIsEarned == Spec => []VersionNotAhead
<1>1. IInv => VersionNotAhead
  BY DEF IInv
<1>2. QED
  BY <1>1, Invariance, PTL

\* A store that is open has the whole schema and hands out new keys only.
THEOREM OpenIsReady == Spec => []OpenMeansReady
<1>1. IInv => OpenMeansReady
  <2> SUFFICES ASSUME IInv, NEW p \in Processes, pc[p] = "open"
               PROVE  /\ UpTo(db, NumMigrations)
                      /\ \A key \in db.keys : key < db.counters[keySequence]
    BY DEF OpenMeansReady
  <2>1. UpTo(db, NumMigrations)
    BY DEF IInv, Trusts
  <2>2. keySequence \in DOMAIN db.counters
    BY <2>1 DEF UpTo, NumMigrations
  <2>3. PICK n \in 0..MaxKey : db.keys = 1..n /\ db.counters[keySequence] = n + 1
    BY <2>2 DEF IInv, Numbered
  <2>4. \A key \in db.keys : key < db.counters[keySequence]
    BY <2>3, MigrationConstants
  <2>5. QED
    BY <2>1, <2>4
<1>2. QED
  BY <1>1, Invariance, PTL

-------------------------------------------------------------------------------
(* Openings that do not overlap *)

\* d is what the first v migrations make of a database, no less and no more.
Fits(d, v) ==
  /\ d.tables <=> v >= 1
  /\ v >= 2 => DOMAIN d.counters = {keySequence}
  /\ d.claimColumns <=> v >= 3

Opening == {p \in Processes : pc[p] \in {"migrate", "begun", "applied", "bumped"}}

\* What a process alone in its opening can count on: the version it read is still
\* the version, and what it is about to commit fits the next one.
AloneInv ==
  /\ IsFiniteSet(Opening)
  /\ Fits(db, db.version)
  /\ \A p \in Opening : /\ index[p] = db.version
                        /\ pc[p] \in {"applied", "bumped"} => Fits(work, index[p] + 1)

LEMMA MigratedFits ==
  ASSUME NEW d \in Database, NEW i \in 0..(NumMigrations - 1), Fits(d, i), Applies(i, d)
  PROVE  Fits(Migrated(i, d), i + 1)
<1>1. CASE i = 0
  BY <1>1 DEF Migrated, Fits, Applies, Database
<1>2. CASE i = 1
  <2>1. /\ Migrated(i, d).tables = d.tables /\ Migrated(i, d).claimColumns = d.claimColumns
        /\ Migrated(i, d).counters = ReseededCounters(d)
    BY <1>2 DEF Migrated, Database
  <2>2. DOMAIN ReseededCounters(d) = {keySequence}
    BY DEF ReseededCounters
  <2>3. QED
    BY <1>2, <2>1, <2>2 DEF Fits
<1>3. CASE i = 2
  BY <1>3 DEF Migrated, Fits, Applies, Database
<1>4. QED
  BY <1>1, <1>2, <1>3 DEF NumMigrations

LEMMA OneOpening ==
  ASSUME AloneInv, OpeningsDoNotOverlap, NEW p \in Opening, NEW q \in Opening
  PROVE  p = q
<1> SUFFICES ASSUME p # q PROVE FALSE
  OBVIOUS
<1>1. Cardinality(Opening) <= 1 /\ IsFiniteSet(Opening)
  BY DEF AloneInv, OpeningsDoNotOverlap, Opening
<1>2. IsFiniteSet({p}) /\ Cardinality({p}) = 1
  BY FS_Singleton
<1>3. Cardinality({p} \cup {q}) = 2
  BY <1>2, FS_AddElement
<1>4. {p} \cup {q} \in SUBSET Opening
  OBVIOUS
<1>5. Cardinality({p} \cup {q}) <= Cardinality(Opening) /\ Cardinality(Opening) \in Nat
  BY <1>1, <1>4, FS_Subset, FS_CardinalityType
<1>6. QED
  BY <1>1, <1>3, <1>5

LEMMA InitIsAlone == Init => AloneInv
<1> SUFFICES ASSUME Init PROVE AloneInv
  OBVIOUS
<1>1. Opening = {}
  BY DEF Init, Opening
<1>2. PICK last \in 0..MaxKey :
        \/ db = Empty
        \/ \E project \in IF last = 0 THEN {} ELSE LegacyProjects :
             db = [Empty EXCEPT !.version = 1, !.tables = TRUE, !.keys = 1..last,
                                !.counters = [row \in {project} |-> last + 1]]
        \/ db = [Empty EXCEPT !.version = 1, !.tables = TRUE]
        \/ \E v \in {2, 3} :
             db = [version |-> v, tables |-> TRUE, claimColumns |-> v = 3, keys |-> 1..last,
                   counters |-> [row \in {keySequence} |-> last + 1]]
  BY Zenon DEF Init
<1>3. Fits(db, db.version)
  <2>1. /\ Empty.version = 0 /\ Empty.tables = FALSE /\ Empty.claimColumns = FALSE
        /\ DOMAIN Empty = {"version", "tables", "claimColumns", "counters", "keys"}
    BY DEF Empty
  <2>2. CASE db = Empty
    BY <2>1, <2>2 DEF Fits
  <2>3. CASE \E project \in IF last = 0 THEN {} ELSE LegacyProjects :
               db = [Empty EXCEPT !.version = 1, !.tables = TRUE, !.keys = 1..last,
                                  !.counters = [row \in {project} |-> last + 1]]
    <3>1. db.version = 1 /\ db.tables = TRUE /\ db.claimColumns = FALSE
      BY <2>3 DEF Empty
    <3>2. QED
      BY <3>1 DEF Fits
  <2>4. CASE db = [Empty EXCEPT !.version = 1, !.tables = TRUE]
    <3>1. db.version = 1 /\ db.tables = TRUE /\ db.claimColumns = FALSE
      BY <2>4 DEF Empty
    <3>2. QED
      BY <3>1 DEF Fits
  <2>5. ASSUME NEW v \in {2, 3},
               db = [version |-> v, tables |-> TRUE, claimColumns |-> v = 3, keys |-> 1..last,
                     counters |-> [row \in {keySequence} |-> last + 1]]
        PROVE  Fits(db, db.version)
    <3>1. /\ db.version = v /\ db.tables = TRUE /\ (db.claimColumns <=> v = 3)
          /\ db.counters = [row \in {keySequence} |-> last + 1]
      BY <2>5
    <3>2. DOMAIN db.counters = {keySequence}
      BY <3>1
    <3>3. QED
      BY <3>1, <3>2 DEF Fits
  <2>6. QED
    BY <1>2, <2>2, <2>3, <2>4, <2>5
<1>4. QED
  BY <1>1, <1>3, FS_EmptySet DEF AloneInv

\* A step moves one process, and a transaction belongs to one process.
LEMMA MovesOne ==
  ASSUME IInv, NEW p \in Processes, NEW q \in Processes,
         OpenStep(p) \/ BusyTimeout(p) \/ CreateTicket(p) \/ Close(p)
           \/ Crash(p) \/ OpenFails(p)
  PROVE  q # p => /\ pc'[q] = pc[q] /\ index'[q] = index[q]
                  /\ pc[q] \in {"applied", "bumped"} => work' = work
<1> SUFFICES ASSUME q # p
             PROVE  /\ pc'[q] = pc[q] /\ index'[q] = index[q]
                    /\ pc[q] \in {"applied", "bumped"} => work' = work
  OBVIOUS
<1>1. pc'[q] = pc[q] /\ index'[q] = index[q]
  BY DEF IInv, TypeOK, OpenStep, ReadVersion, Begin, ExecMigration, BumpVersion, Commit,
     BusyTimeout, CreateTicket, Close, Crash, OpenFails, Stops
<1>2. ASSUME pc[q] \in {"applied", "bumped"} PROVE work' = work
  <2>1. writer = q /\ writer # NoProcess
    BY <1>2, MigrationConstants DEF IInv, WorkInHand
  <2>2. pc[p] \notin {"begun", "applied", "bumped"}
    BY <2>1 DEF IInv, WorkInHand
  <2>3. QED
    BY <2>1, <2>2 DEF OpenStep, ReadVersion, Begin, ExecMigration, BumpVersion, Commit,
       BusyTimeout, CreateTicket, Close, Crash, OpenFails, Stops
<1>3. QED
  BY <1>1, <1>2

\* What a step does to the database, and where it leaves the process that takes it.
LEMMA OwnStep ==
  ASSUME IInv, AloneInv, NEW p \in Processes,
         OpenStep(p) \/ BusyTimeout(p) \/ CreateTicket(p) \/ Close(p)
           \/ Crash(p) \/ OpenFails(p)
  PROVE  /\ Fits(db', db'.version)
         /\ ~Commit(p) => db'.version = db.version
         /\ p \in Opening' => /\ index'[p] = db'.version
                              /\ pc'[p] \in {"applied", "bumped"} => Fits(work', index'[p] + 1)
<1> DEFINE Here == p \in Opening' =>
                     /\ index'[p] = db'.version
                     /\ pc'[p] \in {"applied", "bumped"} => Fits(work', index'[p] + 1)
<1>0. /\ db \in Database /\ work \in Database /\ index[p] \in 0..NumMigrations
      /\ Fits(db, db.version)
      /\ p \in Opening => index[p] = db.version
  BY DEF IInv, TypeOK, AloneInv
<1>1. CASE ReadVersion(p)
  BY <1>0, <1>1 DEF ReadVersion, IInv, TypeOK, LoopAt, Commit
<1>2. CASE Begin(p)
  <2>1. p \in Opening /\ pc'[p] = "begun" /\ index' = index /\ db' = db
    BY <1>2 DEF Begin, Opening, IInv, TypeOK
  <2>2. QED
    BY <1>0, <2>1
<1>3. CASE ExecMigration(p)
  <2>1. p \in Opening /\ index' = index /\ db' = db /\ work = db /\ index[p] \in 0..(NumMigrations - 1)
    BY <1>3 DEF ExecMigration, Opening, IInv, TypeOK, WorkInHand, Trusts, NumMigrations
  <2>2. CASE Applies(index[p], work) /\ work' = Migrated(index[p], work)
    BY <1>0, <2>1, <2>2, MigratedFits
  <2>3. CASE pc' = [pc EXCEPT ![p] = "failed"]
    BY <1>0, <2>1, <2>3 DEF IInv, TypeOK, Opening
  <2>4. QED
    BY <1>3, <2>2, <2>3 DEF ExecMigration
<1>4. CASE BumpVersion(p)
  <2>1. p \in Opening /\ index' = index /\ db' = db /\ Fits(work, index[p] + 1)
    BY <1>4 DEF BumpVersion, Opening, AloneInv
  <2>2. /\ work'.tables = work.tables /\ work'.claimColumns = work.claimColumns
        /\ work'.counters = work.counters
    BY <1>0, <1>4 DEF BumpVersion, Database
  <2>3. Fits(work', index[p] + 1)
    BY <2>1, <2>2 DEF Fits
  <2>4. QED
    BY <1>0, <2>1, <2>3
<1>5. CASE Commit(p)
  <2>1. p \in Opening /\ Fits(work, index[p] + 1) /\ work.version = index[p] + 1 /\ db' = work
    BY <1>5 DEF Commit, Opening, AloneInv, IInv, WorkInHand
  <2>2. /\ index'[p] = index[p] + 1 /\ pc'[p] = LoopAt(index[p] + 1)
    BY <1>5 DEF Commit, IInv, TypeOK
  <2>3. pc'[p] \in {"migrate", "open"}
    BY <2>2 DEF LoopAt
  <2>4. QED
    BY <1>5, <2>1, <2>2, <2>3
<1>6. CASE BusyTimeout(p) \/ Close(p) \/ Crash(p) \/ OpenFails(p)
  <2>1. p \notin Opening' /\ db' = db
    BY <1>6 DEF BusyTimeout, Close, Crash, OpenFails, Stops, Opening, IInv, TypeOK
  <2>2. QED
    BY <1>0, <2>1
<1>7. CASE CreateTicket(p)
  <2>1. p \notin Opening' /\ pc[p] = "open"
    BY <1>7 DEF CreateTicket, Opening
  <2>2. DOMAIN db.counters = {keySequence}
    BY <2>1 DEF IInv, Trusts, UpTo, NumMigrations
  <2>3. /\ db'.version = db.version /\ db'.tables = db.tables
        /\ db'.claimColumns = db.claimColumns /\ DOMAIN db'.counters = {keySequence}
    BY <1>0, <1>7, <2>2 DEF CreateTicket, Database
  <2>4. QED
    BY <1>0, <2>1, <2>3 DEF Fits
<1>8. QED
  BY <1>1, <1>2, <1>3, <1>4, <1>5, <1>6, <1>7 DEF OpenStep

LEMMA StepStaysAlone ==
  IInv /\ AloneInv /\ OpeningsDoNotOverlap /\ [Next]_vars => AloneInv'
<1> SUFFICES ASSUME IInv, AloneInv, OpeningsDoNotOverlap, [Next]_vars PROVE AloneInv'
  OBVIOUS
<1>1. CASE UNCHANGED vars
  BY <1>1 DEF vars, AloneInv, Opening, Fits
<1>2. ASSUME NEW p \in Processes,
             OpenStep(p) \/ BusyTimeout(p) \/ CreateTicket(p) \/ Close(p)
               \/ Crash(p) \/ OpenFails(p)
      PROVE  AloneInv'
  <2>1. /\ Fits(db', db'.version)
        /\ ~Commit(p) => db'.version = db.version
        /\ p \in Opening' => /\ index'[p] = db'.version
                             /\ pc'[p] \in {"applied", "bumped"} => Fits(work', index'[p] + 1)
    BY <1>2, OwnStep
  <2>2. ASSUME NEW q \in Opening', q # p
        PROVE  /\ q \in Opening /\ pc'[q] = pc[q] /\ index'[q] = index[q]
               /\ pc[q] \in {"applied", "bumped"} => work' = work
    BY <1>2, <2>2, MovesOne DEF Opening
  <2>3. IsFiniteSet(Opening')
    <3>1. IsFiniteSet(Opening \cup {p})
      BY FS_AddElement DEF AloneInv
    <3>2. Opening' \in SUBSET (Opening \cup {p})
      BY <2>2
    <3>3. QED
      BY <3>1, <3>2, FS_Subset
  <2>4. ASSUME NEW q \in Opening', q # p
        PROVE  /\ index'[q] = db'.version
               /\ pc'[q] \in {"applied", "bumped"} => Fits(work', index'[q] + 1)
    <3>1. q \in Opening /\ pc'[q] = pc[q] /\ index'[q] = index[q]
          /\ (pc[q] \in {"applied", "bumped"} => work' = work)
      BY <2>2, <2>4
    <3>2. ~Commit(p)
      <4>1. Commit(p) => p \in Opening
        BY DEF Commit, Opening
      <4>2. QED
        BY <2>4, <3>1, <4>1, OneOpening
    <3>3. QED
      BY <2>1, <3>1, <3>2 DEF AloneInv
  <2>5. QED
    BY <2>1, <2>3, <2>4 DEF AloneInv
<1>3. QED
  BY <1>1, <1>2 DEF Next

\* As long as openings do not overlap, user_version says exactly which migrations
\* the database has had, for any number of processes, crashes and stores that are
\* open and create tickets: migrate of internal/store/migrations.go.
THEOREM VersionIsExact == Spec => VersionTellsSchema
<1>1. Init => AloneInv
  BY InitIsAlone
<1>2. IInv /\ AloneInv /\ OpeningsDoNotOverlap /\ [Next]_vars => AloneInv'
  BY StepStaysAlone
<1>3. AloneInv => VersionMatchesSchema
  BY DEF AloneInv, Fits, VersionMatchesSchema
<1>4. QED
  BY <1>1, <1>2, <1>3, Invariance, PTL DEF Spec, VersionTellsSchema

===============================================================================

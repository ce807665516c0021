------------------------------ MODULE Migrations ------------------------------
(***************************************************************************)
(* The schema of the database across releases: db/migrate.py, the scripts  *)
(* under migrations/versions and create_all of db/session.py.              *)
(*                                                                         *)
(* A release is named by the newest revision it knows.  Releases up to     *)
(* lastBuilt created missing tables from their models at the start and     *)
(* recorded no revision; later ones run upgrade_database.  The process may *)
(* end between any two statements.                                         *)
(*                                                                         *)
(* Alembic leaves transactions to the caller, engine.begin() leaves them   *)
(* to the driver, and Python's sqlite3 opens one before the first INSERT,  *)
(* UPDATE or DELETE and never before a CREATE or an ALTER: until the first *)
(* revision is written, every statement is committed by itself.            *)
(***************************************************************************)
EXTENDS Integers, Sequences

CONSTANTS Upgrades,   \* by revision, oldest first: what the statements of upgrade() add
          Marker      \* ADOPTION_MARKERS by revision: what shows that it has been reached

\* a statement adds a column to a table, or a table with the columns it has from the start
TheTable == "(table)"
Table(t) == <<t, TheTable>>
IsColumn(x) == x[2] # TheTable
TableOf(x)  == x[1]

Newest     == Len(Upgrades)
Revisions  == 1..Newest
NoRevision == 0

Added(r)    == {Upgrades[r][i] : i \in DOMAIN Upgrades[r]}
SchemaAt(r) == UNION {Added(k) : k \in 1..r}
Everything  == SchemaAt(Newest)

\* the scripts add everything once, a column after its table, and a marker is something
\* its own revision adds
ASSUME UpgradesAssumption ==
    /\ Upgrades \in Seq(Seq(STRING \X STRING))
    /\ \A r, k \in Revisions :
          \A i \in DOMAIN Upgrades[r], j \in DOMAIN Upgrades[k] :
              Upgrades[r][i] = Upgrades[k][j] => r = k /\ i = j
    /\ \A r \in Revisions : \A i \in DOMAIN Upgrades[r] :
          IsColumn(Upgrades[r][i]) =>
              Table(TableOf(Upgrades[r][i])) \in SchemaAt(r - 1) \cup {Upgrades[r][j] : j \in 1..(i-1)}

ASSUME MarkerAssumption == Marker \in [Revisions -> Everything]
                           /\ \A r \in Revisions : Marker[r] \in Added(r)

VARIABLES
    disk,       \* what is committed: the tables and columns, and alembic_version
    tx,         \* the open transaction: what the connection sees, or NoTx
    release,    \* the release deployed
    lastBuilt,  \* the last release that built its tables from the models
    pc,         \* what the process is doing
    next,       \* the statement of the current upgrade() that comes next
    found,      \* history: this start found the database as some release left it
    misread     \* history: a release has adopted a database that was half built

migrations == <<disk, tx, release, lastBuilt, pc, next, found, misread>>

Empty == [schema |-> {}, stamp |-> NoRevision]
NoTx  == [schema |-> {}, stamp |-> -1]
Now   == IF tx = NoTx THEN disk ELSE tx

\* nothing is half done: a revision has all it adds and nothing of the next
Whole(d) == \E r \in 0..Newest : /\ d.schema = SchemaAt(r)
                               /\ d.stamp \in {r, NoRevision}

Migrates == release > lastBuilt

MigrationsInit ==
    /\ disk = Empty
    /\ tx = NoTx
    /\ release = NoRevision
    /\ lastBuilt \in 0..Newest
    /\ pc = "down"
    /\ next = 1
    /\ found = TRUE
    /\ misread = FALSE

-----------------------------------------------------------------------------
(* The deployment, the start and the end of the process. *)

\* an upgrade of the program, or a step back
Deploy(r) ==
    /\ pc \in {"down", "failed"}
    /\ release' = r
    /\ pc' = "down"
    /\ UNCHANGED <<disk, tx, lastBuilt, next, found, misread>>

Start ==
    /\ pc \in {"down", "failed"}
    /\ release # NoRevision
    /\ pc' = IF Migrates THEN "checking" ELSE "building"
    /\ found' = Whole(disk)
    /\ UNCHANGED <<disk, tx, release, lastBuilt, next, misread>>

\* killed, stopped, or a statement fails for a reason outside the schema
End ==
    /\ pc \in {"building", "checking", "upgrading", "up"}
    /\ pc' = "down"
    /\ tx' = NoTx
    /\ UNCHANGED <<disk, release, lastBuilt, next, found, misread>>

-----------------------------------------------------------------------------
(* create_all: the tables that are missing, in an order SQLAlchemy chooses; what a table  *)
(* that is there lacks is not looked at.                                                  *)

HasTable(t) == Table(t) \in disk.schema
ModelTables == {TableOf(x) : x \in SchemaAt(release)}

BuildTable(t) ==
    /\ pc = "building"
    /\ t \in ModelTables /\ ~HasTable(t)
    /\ disk' = [disk EXCEPT !.schema = @ \cup {x \in SchemaAt(release) : TableOf(x) = t}]
    /\ UNCHANGED <<tx, release, lastBuilt, pc, next, found, misread>>

Built ==
    /\ pc = "building"
    /\ \A t \in ModelTables : HasTable(t)
    /\ pc' = "up"
    /\ UNCHANGED <<disk, tx, release, lastBuilt, next, found, misread>>

-----------------------------------------------------------------------------
(* upgrade_database. *)

\* mutant: a table is taken for all of its columns
ShowsTableOnly(schema, x) == Table(TableOf(x)) \in schema

\* the table is there, and the column if the marker names one
Shows(schema, x) == Table(TableOf(x)) \in schema /\ (IsColumn(x) => x \in schema)

\* detect_revision stops at the first marker that does not show: it returns this r and no other
Detected(schema, r) ==
    /\ \A k \in 1..r : Shows(schema, Marker[k])
    /\ r < release => ~Shows(schema, Marker[r + 1])

\* mutant: an unstamped database is upgraded from the beginning
CheckWithoutAdopting ==
    /\ pc = "checking"
    /\ disk.stamp <= release
    /\ pc' = "upgrading"
    /\ next' = 1
    /\ UNCHANGED <<disk, tx, release, lastBuilt, found, misread>>

\* _prepare_and_upgrade before the first script: an unstamped schema is adopted
CheckRevision ==
    /\ pc = "checking"
    /\ disk.stamp <= release
    /\ IF disk.stamp = NoRevision
       THEN \E r \in 0..release : /\ Detected(disk.schema, r)
                                  /\ tx' = IF r = NoRevision THEN tx
                                           ELSE [disk EXCEPT !.stamp = r]
       ELSE UNCHANGED tx
    /\ misread' = (misread \/ (disk.stamp = NoRevision /\ ~found))
    /\ pc' = "upgrading"
    /\ next' = 1
    /\ UNCHANGED <<disk, release, lastBuilt, found>>

\* the database is ahead of the release: Alembic cannot locate its revision
RevisionUnknown ==
    /\ pc = "checking"
    /\ disk.stamp > release
    /\ pc' = "failed"
    /\ UNCHANGED <<disk, tx, release, lastBuilt, next, found, misread>>

Upgrading == pc = "upgrading" /\ Now.stamp < release
Script    == Upgrades[Now.stamp + 1]

\* what CREATE TABLE and ALTER TABLE ADD COLUMN insist on
Possible(schema, x) ==
    /\ x \notin schema
    /\ IsColumn(x) => Table(TableOf(x)) \in schema

With(d, x) == [d EXCEPT !.schema = @ \cup {x}]

\* one create_table or add_column
Statement ==
    /\ Upgrading /\ next <= Len(Script)
    /\ Possible(Now.schema, Script[next])
    /\ IF tx = NoTx THEN disk' = With(disk, Script[next]) /\ UNCHANGED tx
                    ELSE tx' = With(tx, Script[next]) /\ UNCHANGED disk
    /\ next' = next + 1
    /\ UNCHANGED <<release, lastBuilt, pc, found, misread>>

\* mutant: the failed start keeps its transaction
CollideKeepingTransaction ==
    /\ Upgrading /\ next <= Len(Script)
    /\ ~Possible(Now.schema, Script[next])
    /\ pc' = "failed"
    /\ UNCHANGED <<disk, tx, release, lastBuilt, next, found, misread>>

\* "table already exists", "duplicate column name", "no such table"
Collide ==
    /\ Upgrading /\ next <= Len(Script)
    /\ ~Possible(Now.schema, Script[next])
    /\ pc' = "failed"
    /\ tx' = NoTx
    /\ UNCHANGED <<disk, release, lastBuilt, next, found, misread>>

\* Alembic writes the revision after its last statement
Stamp ==
    /\ Upgrading /\ next > Len(Script)
    /\ tx' = [Now EXCEPT !.stamp = @ + 1]
    /\ next' = 1
    /\ UNCHANGED <<disk, release, lastBuilt, pc, found, misread>>

\* mutant: only the newest revision of all is good enough
CommitAtHead ==
    /\ pc = "upgrading" /\ Now.stamp >= Newest
    /\ disk' = Now
    /\ tx' = NoTx
    /\ pc' = "up"
    /\ UNCHANGED <<release, lastBuilt, next, found, misread>>

\* the end of engine.begin()
Commit ==
    /\ pc = "upgrading" /\ Now.stamp >= release
    /\ disk' = Now
    /\ tx' = NoTx
    /\ pc' = "up"
    /\ UNCHANGED <<release, lastBuilt, next, found, misread>>

-----------------------------------------------------------------------------
Starting ==
    \/ \E t \in ModelTables : BuildTable(t)
    \/ Built
    \/ CheckRevision \/ RevisionUnknown
    \/ Statement \/ Collide \/ Stamp \/ Commit

MigrationsNext ==
    \/ \E r \in Revisions : Deploy(r)
    \/ Start \/ End
    \/ Starting

MigrationsSpec == MigrationsInit /\ [][MigrationsNext]_migrations

(***************************************************************************)
(* A start goes on as long as the process is there.  Nobody has to start,  *)
(* end or deploy anything.                                                 *)
(***************************************************************************)
MigrationsFairSpec == MigrationsSpec /\ WF_migrations(Starting)

-----------------------------------------------------------------------------
(* Properties. *)

Database == [schema : SUBSET Everything, stamp : 0..Newest]

(* Every variable stays in its type, and a transaction is open only during an upgrade.    *)
MigrationsTypeOK ==
    /\ disk \in Database
    /\ tx \in Database \cup {NoTx}
    /\ release \in 0..Newest
    /\ lastBuilt \in 0..Newest
    /\ pc \in {"down", "building", "checking", "upgrading", "up", "failed"}
    /\ next \in Nat \ {0}
    /\ found \in BOOLEAN
    /\ misread \in BOOLEAN
    /\ tx # NoTx => pc = "upgrading"
    /\ pc # "down" => release # NoRevision

(* A start fails only if the release is older than the database, or the database was not  *)
(* as a release leaves it: whichever releases came before, with or without a recorded     *)
(* revision, no upgrade collides with what it finds.                                      *)
WholeDatabasesUpgrade == pc = "failed" /\ disk.stamp <= release => ~found

(* A release that is up finds every table and column its models name, whatever was cut    *)
(* short before, unless a half-built database without a revision was taken for more than  *)
(* it was.                                                                                *)
ServingMeansCurrent ==
    pc = "up" /\ Migrates /\ ~misread =>
        disk.stamp = release /\ SchemaAt(release) \subseteq disk.schema

(* A start that finds a whole database no newer than the release ends with the release    *)
(* up, unless the process ends first.                                                     *)
WholeDatabasesAreServed ==
    (pc = "checking" /\ found /\ disk.stamp <= release) ~> pc \in {"up", "down"}

-----------------------------------------------------------------------------
(* What the documents say and the code does not do. *)

(* tests/test_migrations.py:1, "Upgrading an existing database must not need a wipe": no  *)
(* start fails on a database with a revision, unless it is newer than the release.        *)
NoWipeNeeded == pc = "failed" /\ disk.stamp # NoRevision => disk.stamp > release
=============================================================================

--------------------------- MODULE MigrationsProofs ---------------------------
(***************************************************************************)
(* Theorems about Migrations, for every list of scripts and markers that   *)
(* meets the two assumptions.                                              *)
(***************************************************************************)
EXTENDS Migrations, TLAPS

-----------------------------------------------------------------------------
(* The schemas of the revisions. *)

LEMMA RevisionsAreNat == Newest \in Nat /\ Revisions = 1..Newest
BY UpgradesAssumption DEF Newest, Revisions

\* the first revision that is not there yet is all that the next schema adds
LEMMA SchemaGrows ==
    ASSUME NEW r \in 0..Newest, r < Newest
    PROVE  SchemaAt(r + 1) = SchemaAt(r) \cup Added(r + 1)
<1>1. 1..(r + 1) = (1..r) \cup {r + 1}
  OBVIOUS
<1> QED
  BY <1>1 DEF SchemaAt

LEMMA SchemaMonotone ==
    ASSUME NEW r \in 0..Newest, NEW k \in 0..Newest, r <= k
    PROVE  SchemaAt(r) \subseteq SchemaAt(k)
BY DEF SchemaAt

LEMMA NoSchema == SchemaAt(0) = {}
BY DEF SchemaAt

LEMMA SchemaIsPartOfEverything ==
    ASSUME NEW r \in 0..Newest
    PROVE  SchemaAt(r) \subseteq Everything
BY RevisionsAreNat, SchemaMonotone DEF Everything

LEMMA AddedIsPartOfItsSchema ==
    ASSUME NEW r \in Revisions, NEW k \in 0..Newest, r <= k
    PROVE  Added(r) \subseteq SchemaAt(k)
BY RevisionsAreNat DEF SchemaAt

\* nothing is added twice
LEMMA AddedOnce ==
    ASSUME NEW r \in Revisions, NEW k \in 0..Newest, k < r,
           NEW i \in DOMAIN Upgrades[r]
    PROVE  Upgrades[r][i] \notin SchemaAt(k)
<1> SUFFICES ASSUME NEW q \in 1..k, Upgrades[r][i] \in Added(q) PROVE FALSE
  BY DEF SchemaAt
<1>1. q \in Revisions /\ q # r
  BY RevisionsAreNat
<1>2. PICK j \in DOMAIN Upgrades[q] : Upgrades[r][i] = Upgrades[q][j]
  BY DEF Added
<1> QED
  BY <1>1, <1>2, UpgradesAssumption

\* a statement of a script finds what it needs where the statements before it have run
LEMMA StatementIsPossible ==
    ASSUME NEW r \in Revisions, NEW i \in DOMAIN Upgrades[r], NEW schema,
           schema = SchemaAt(r - 1) \cup {Upgrades[r][j] : j \in 1..(i - 1)}
    PROVE  Possible(schema, Upgrades[r][i])
<1> DEFINE x == Upgrades[r][i]
<1>0. r - 1 \in 0..Newest /\ r - 1 < r /\ i \in Nat \ {0}
  BY RevisionsAreNat, UpgradesAssumption DEF Newest
<1>1. x \notin SchemaAt(r - 1)
  BY <1>0, AddedOnce
<1>2. ASSUME NEW j \in 1..(i - 1) PROVE x # Upgrades[r][j]
  <2>1. j \in DOMAIN Upgrades[r] /\ j # i
    <3>1. Upgrades[r] \in Seq(STRING \X STRING)
      BY UpgradesAssumption DEF Newest, Revisions
    <3> QED
      BY <3>1, <1>0
  <2> QED
    BY <2>1, UpgradesAssumption
<1>3. IsColumn(x) => Table(TableOf(x)) \in schema
  BY UpgradesAssumption
<1> QED
  BY <1>1, <1>2, <1>3 DEF Possible

-----------------------------------------------------------------------------
(* The markers. *)

LEMMA MarkersOfASchemaShow ==
    ASSUME NEW r \in 0..Newest, NEW k \in 1..r
    PROVE  Shows(SchemaAt(r), Marker[k])
<1>1. k \in Revisions
  BY RevisionsAreNat
<1>2. PICK i \in DOMAIN Upgrades[k] : Marker[k] = Upgrades[k][i]
  BY <1>1, MarkerAssumption DEF Added
<1>3. Marker[k] \in SchemaAt(r)
  BY <1>1, MarkerAssumption, AddedIsPartOfItsSchema, RevisionsAreNat
<1>4. CASE IsColumn(Marker[k])
  <2>1. Table(TableOf(Marker[k])) \in SchemaAt(k - 1) \cup {Upgrades[k][j] : j \in 1..(i - 1)}
    BY <1>1, <1>2, <1>4, UpgradesAssumption
  <2>2. SchemaAt(k - 1) \subseteq SchemaAt(r)
    BY SchemaMonotone, RevisionsAreNat
  <2>3. {Upgrades[k][j] : j \in 1..(i - 1)} \subseteq Added(k)
    <3>1. Upgrades[k] \in Seq(STRING \X STRING)
      BY <1>1, UpgradesAssumption DEF Newest, Revisions
    <3>2. \A j \in 1..(i - 1) : j \in DOMAIN Upgrades[k]
      BY <3>1
    <3> QED
      BY <3>2 DEF Added
  <2>4. Added(k) \subseteq SchemaAt(r)
    BY <1>1, AddedIsPartOfItsSchema, RevisionsAreNat
  <2> QED
    BY <2>1, <2>2, <2>3, <2>4, <1>3 DEF Shows
<1>5. CASE ~IsColumn(Marker[k])
  <2>1. Marker[k] = Table(TableOf(Marker[k]))
    <3>1. Upgrades[k][i] \in STRING \X STRING
      BY <1>1, UpgradesAssumption DEF Newest, Revisions
    <3> QED
      BY <3>1, <1>2, <1>5 DEF IsColumn, Table, TableOf
  <2> QED
    BY <2>1, <1>3, <1>5 DEF Shows
<1> QED
  BY <1>4, <1>5

LEMMA LaterMarkersDoNot ==
    ASSUME NEW r \in 0..Newest, r < Newest
    PROVE  ~Shows(SchemaAt(r), Marker[r + 1])
<1>1. r + 1 \in Revisions
  BY RevisionsAreNat
<1>2. PICK i \in DOMAIN Upgrades[r + 1] : Marker[r + 1] = Upgrades[r + 1][i]
  BY <1>1, MarkerAssumption DEF Added
<1>3. Marker[r + 1] \notin SchemaAt(r)
  BY <1>1, <1>2, AddedOnce, RevisionsAreNat
<1>4. ~IsColumn(Marker[r + 1]) => Marker[r + 1] = Table(TableOf(Marker[r + 1]))
  <2>1. Upgrades[r + 1][i] \in STRING \X STRING
    BY <1>1, UpgradesAssumption DEF Newest, Revisions
  <2> QED
    BY <2>1, <1>2 DEF IsColumn, Table, TableOf
<1> QED
  BY <1>3, <1>4 DEF Shows

\* The revision guessed for a schema of an earlier release is that release; the schema of a
\* later one is taken for the deployed release.  [detect_revision]
THEOREM AdoptionIsExact ==
    ASSUME NEW q \in 0..Newest, NEW r \in 0..Newest,
           release \in 0..Newest, r <= release, Detected(SchemaAt(q), r)
    PROVE  r = IF q <= release THEN q ELSE release
<1>1. CASE r < q
  <2>1. r + 1 \in 1..q
    BY <1>1, RevisionsAreNat
  <2>2. Shows(SchemaAt(q), Marker[r + 1])
    BY <2>1, MarkersOfASchemaShow
  <2>3. ~(r < release)
    BY <2>2 DEF Detected
  <2> QED
    BY <2>3, <1>1, RevisionsAreNat
<1>2. CASE q < r
  <2>1. q < Newest /\ q + 1 \in 1..r
    BY <1>2, RevisionsAreNat
  <2>2. Shows(SchemaAt(q), Marker[q + 1])
    BY <2>1 DEF Detected
  <2> QED
    BY <2>1, <2>2, LaterMarkersDoNot
<1> QED
  BY <1>1, <1>2, RevisionsAreNat
-----------------------------------------------------------------------------
(* The inductive invariant. *)

\* what the connection sees is a database
LEMMA NowIsADatabase == MigrationsTypeOK => Now \in Database
BY DEF MigrationsTypeOK, Now

LEMMA StampedDatabase ==
    ASSUME NEW d \in Database, NEW stamp \in 0..Newest
    PROVE  /\ [d EXCEPT !.stamp = stamp] \in Database
           /\ [d EXCEPT !.stamp = stamp].stamp = stamp
           /\ [d EXCEPT !.stamp = stamp].schema = d.schema
           /\ [d EXCEPT !.stamp = stamp] # NoTx
           /\ d # NoTx
BY DEF Database, NoTx

\* the statements of the current script that have run
RunSoFar == {Script[i] : i \in {j \in DOMAIN Script : j < next}}

\* the script under way has done what it has passed, and on a database that the start found
\* whole it has nothing but its own statements to meet
UpgradeUnderWay ==
    pc = "upgrading" =>
        /\ Now.stamp < release => RunSoFar \subseteq Now.schema
        /\ found /\ Now.stamp < release => Now.schema = SchemaAt(Now.stamp) \cup RunSoFar

\* a start looks at the database before it touches it
FoundIsTrue == pc = "checking" /\ found => Whole(disk)

\* a revision that is recorded has been reached
StampIsReached ==
    ~misread => /\ SchemaAt(disk.stamp) \subseteq disk.schema
                /\ tx # NoTx => SchemaAt(tx.stamp) \subseteq tx.schema

\* no script beyond the release runs
WithinTheRelease ==
    pc = "upgrading" => Migrates /\ disk.stamp <= release /\ Now.stamp <= release

MigrationsInv ==
    /\ MigrationsTypeOK
    /\ UpgradeUnderWay
    /\ FoundIsTrue
    /\ StampIsReached
    /\ WithinTheRelease
    /\ pc = "checking" => Migrates
    /\ pc = "building" => ~Migrates
    /\ WholeDatabasesUpgrade
    /\ ServingMeansCurrent

LEMMA MigrationsInvInit == MigrationsInit => MigrationsInv
<1> SUFFICES ASSUME MigrationsInit PROVE MigrationsInv
  OBVIOUS
<1>0. Empty \in Database
  <2>1. {} \in SUBSET Everything /\ NoRevision \in 0..Newest
    BY RevisionsAreNat DEF NoRevision
  <2> QED
    BY <2>1 DEF Empty, Database
<1>1. MigrationsTypeOK
  <2>1. 0 \in 0..Newest /\ 1 \in Nat \ {0}
    BY RevisionsAreNat
  <2> QED
    BY <1>0, <2>1 DEF MigrationsInit, MigrationsTypeOK, NoRevision
<1>2. StampIsReached
  BY NoSchema DEF MigrationsInit, StampIsReached, Empty, NoRevision
<1> QED
  BY <1>1, <1>2 DEF MigrationsInit, MigrationsInv, UpgradeUnderWay, FoundIsTrue,
                    WithinTheRelease, WholeDatabasesUpgrade, ServingMeansCurrent

LEMMA DeployKeepsInv ==
    ASSUME MigrationsInv, NEW r \in Revisions, Deploy(r)
    PROVE  MigrationsInv'
<1>1. MigrationsTypeOK'
  BY RevisionsAreNat DEF MigrationsInv, MigrationsTypeOK, Deploy, NoTx, NoRevision
<1> QED
  BY <1>1 DEF MigrationsInv, Deploy, UpgradeUnderWay, FoundIsTrue, StampIsReached,
              WithinTheRelease, WholeDatabasesUpgrade, ServingMeansCurrent

LEMMA StartKeepsInv ==
    ASSUME MigrationsInv, Start
    PROVE  MigrationsInv'
<1>1. MigrationsTypeOK'
  BY DEF MigrationsInv, MigrationsTypeOK, Start, Whole
<1> QED
  BY <1>1 DEF MigrationsInv, Start, Migrates, Whole, UpgradeUnderWay, FoundIsTrue,
              StampIsReached, WithinTheRelease, WholeDatabasesUpgrade, ServingMeansCurrent

LEMMA EndKeepsInv ==
    ASSUME MigrationsInv, End
    PROVE  MigrationsInv'
<1>1. MigrationsTypeOK'
  BY DEF MigrationsInv, MigrationsTypeOK, End
<1> QED
  BY <1>1 DEF MigrationsInv, End, UpgradeUnderWay, FoundIsTrue,
              StampIsReached, WithinTheRelease, WholeDatabasesUpgrade, ServingMeansCurrent

LEMMA BuildTableKeepsInv ==
    ASSUME MigrationsInv, NEW t \in ModelTables, BuildTable(t)
    PROVE  MigrationsInv'
<1>1. /\ disk' = [disk EXCEPT !.schema = @ \cup {x \in SchemaAt(release) : TableOf(x) = t}]
      /\ pc = "building" /\ UNCHANGED <<tx, release, lastBuilt, pc, next, found, misread>>
  BY DEF BuildTable
<1>2. SchemaAt(release) \subseteq Everything
  BY SchemaIsPartOfEverything DEF MigrationsInv, MigrationsTypeOK
<1>3. disk'.stamp = disk.stamp /\ disk.schema \subseteq disk'.schema /\ disk' \in Database
  BY <1>1, <1>2 DEF MigrationsInv, MigrationsTypeOK, Database
<1>4. MigrationsTypeOK'
  BY <1>1, <1>3 DEF MigrationsInv, MigrationsTypeOK
<1>5. StampIsReached'
  BY <1>1, <1>3 DEF MigrationsInv, StampIsReached
<1> QED
  BY <1>1, <1>4, <1>5 DEF MigrationsInv, Migrates, UpgradeUnderWay, FoundIsTrue,
                          WithinTheRelease, WholeDatabasesUpgrade, ServingMeansCurrent

LEMMA BuiltKeepsInv ==
    ASSUME MigrationsInv, Built
    PROVE  MigrationsInv'
<1>1. MigrationsTypeOK'
  BY DEF MigrationsInv, MigrationsTypeOK, Built
<1> QED
  BY <1>1 DEF MigrationsInv, Built, Migrates, UpgradeUnderWay, FoundIsTrue, StampIsReached,
              WithinTheRelease, WholeDatabasesUpgrade, ServingMeansCurrent
LEMMA CheckRevisionKeepsInv ==
    ASSUME MigrationsInv, CheckRevision
    PROVE  MigrationsInv'
<1> USE DEF MigrationsInv
<1>0. /\ pc = "checking" /\ pc' = "upgrading" /\ next' = 1 /\ disk.stamp <= release
      /\ UNCHANGED <<disk, release, lastBuilt, found>>
      /\ misread' = (misread \/ (disk.stamp = NoRevision /\ ~found))
  BY DEF CheckRevision
<1>1. /\ disk \in Database /\ disk.stamp \in 0..Newest /\ release \in 0..Newest
      /\ tx = NoTx /\ Migrates /\ NoTx \notin Database
  BY <1>0 DEF MigrationsTypeOK, Database, NoTx
<1>2. PICK stamp \in 0..release :
         /\ \/ tx' = NoTx /\ stamp = disk.stamp
            \/ tx' = [disk EXCEPT !.stamp = stamp]
         /\ disk.stamp = NoRevision => Detected(disk.schema, stamp)
         /\ disk.stamp # NoRevision => stamp = disk.stamp
  <2>1. CASE disk.stamp = NoRevision
    <3>1. PICK r \in 0..release : /\ Detected(disk.schema, r)
                                  /\ tx' = IF r = NoRevision THEN tx
                                           ELSE [disk EXCEPT !.stamp = r]
      BY <2>1 DEF CheckRevision
    <3> QED
      BY <3>1, <2>1, <1>1
  <2>2. CASE disk.stamp # NoRevision
    <3>1. tx' = tx
      BY <2>2 DEF CheckRevision
    <3> QED
      BY <3>1, <2>2, <1>0, <1>1
  <2> QED
    BY <2>1, <2>2
<1>3. tx' \in Database \cup {NoTx} /\ Now'.stamp = stamp /\ Now'.schema = disk.schema
  <2>1. stamp \in 0..Newest
    BY <1>1, RevisionsAreNat
  <2>2. CASE tx' = NoTx /\ stamp = disk.stamp
    BY <2>2, <1>0, <1>1 DEF Now
  <2>3. CASE tx' = [disk EXCEPT !.stamp = stamp]
    BY <2>1, <2>3, <1>1, StampedDatabase DEF Now
  <2> QED
    BY <1>2, <2>2, <2>3
<1>4. found => /\ stamp < release => disk.schema = SchemaAt(stamp)
               /\ SchemaAt(stamp) \subseteq disk.schema
  <2> SUFFICES ASSUME found PROVE /\ stamp < release => disk.schema = SchemaAt(stamp)
                                  /\ SchemaAt(stamp) \subseteq disk.schema
    OBVIOUS
  <2>1. PICK q \in 0..Newest : disk.schema = SchemaAt(q) /\ disk.stamp \in {q, NoRevision}
    BY <1>0 DEF FoundIsTrue, Whole
  <2>2. CASE disk.stamp # NoRevision
    BY <2>1, <2>2, <1>2
  <2>3. CASE disk.stamp = NoRevision
    <3>1. stamp = IF q <= release THEN q ELSE release
      <4>1. Detected(SchemaAt(q), stamp) /\ stamp \in 0..Newest /\ stamp <= release
        BY <2>1, <2>3, <1>1, <1>2, RevisionsAreNat
      <4> QED
        BY <4>1, <1>1, AdoptionIsExact
    <3>2. SchemaAt(stamp) \subseteq SchemaAt(q)
      BY <3>1, <1>1, SchemaMonotone
    <3> QED
      BY <3>1, <3>2, <2>1, <1>1
  <2> QED
    BY <2>2, <2>3
<1>5. ~misread' => SchemaAt(stamp) \subseteq disk.schema
  BY <1>0, <1>1, <1>2, <1>4 DEF StampIsReached
<1>6. MigrationsTypeOK'
  BY <1>0, <1>1, <1>3 DEF MigrationsTypeOK
<1>7. UpgradeUnderWay'
  <2>1. stamp < release => RunSoFar' = {}
    <3> SUFFICES ASSUME stamp < release PROVE RunSoFar' = {}
      OBVIOUS
    <3>1. Script' = Upgrades[stamp + 1]
      BY <1>3 DEF Script
    <3>2. Script' \in Seq(STRING \X STRING)
      BY <3>1, <1>1, UpgradesAssumption DEF Newest
    <3>3. \A j \in DOMAIN Script' : ~(j < next')
      BY <3>2, <1>0
    <3> QED
      BY <3>3 DEF RunSoFar
  <2> QED
    BY <2>1, <1>0, <1>3, <1>4 DEF UpgradeUnderWay
<1>8. StampIsReached'
  <2>1. ~misread' => SchemaAt(disk.stamp) \subseteq disk.schema
    BY <1>0 DEF StampIsReached
  <2>2. tx' # NoTx => tx'.stamp = stamp /\ tx'.schema = disk.schema
    BY <1>3 DEF Now
  <2>3. ~misread' => (tx' # NoTx => SchemaAt(tx'.stamp) \subseteq tx'.schema)
    BY <2>2, <1>5
  <2> QED
    BY <2>1, <2>3, <1>0 DEF StampIsReached, NoTx
<1>9. WithinTheRelease'
  BY <1>0, <1>1, <1>3 DEF WithinTheRelease, Migrates
<1> QED
  BY <1>0, <1>6, <1>7, <1>8, <1>9 DEF FoundIsTrue, WholeDatabasesUpgrade, ServingMeansCurrent

LEMMA RevisionUnknownKeepsInv ==
    ASSUME MigrationsInv, RevisionUnknown
    PROVE  MigrationsInv'
<1>1. MigrationsTypeOK'
  BY DEF MigrationsInv, MigrationsTypeOK, RevisionUnknown, NoTx
<1>2. disk.stamp \in Int /\ release \in Int
  BY DEF MigrationsInv, MigrationsTypeOK, Database
<1> QED
  BY <1>1, <1>2 DEF MigrationsInv, RevisionUnknown, UpgradeUnderWay, FoundIsTrue,
                    StampIsReached, WithinTheRelease, WholeDatabasesUpgrade,
                    ServingMeansCurrent

\* facts about a script under way
LEMMA ScriptUnderWay ==
    ASSUME MigrationsInv, Upgrading
    PROVE  /\ Now \in Database /\ Now.stamp \in 0..Newest /\ Now.stamp < release
           /\ release \in 0..Newest
           /\ Now.stamp + 1 \in Revisions /\ Script = Upgrades[Now.stamp + 1]
           /\ Script \in Seq(STRING \X STRING)
           /\ Added(Now.stamp + 1) = {Script[i] : i \in DOMAIN Script}
<1>1. Now \in Database /\ release \in 0..Newest
  BY NowIsADatabase DEF MigrationsInv, MigrationsTypeOK
<1>2. Now.stamp \in 0..Newest /\ Now.stamp < release /\ Now.stamp + 1 \in Revisions
  BY <1>1, RevisionsAreNat DEF Upgrading, Database
<1>3. Upgrades[Now.stamp + 1] \in Seq(STRING \X STRING)
  BY <1>2, UpgradesAssumption DEF Revisions, Newest
<1> QED
  BY <1>1, <1>2, <1>3 DEF Script, Added

LEMMA StatementKeepsInv ==
    ASSUME MigrationsInv, Statement
    PROVE  MigrationsInv'
<1> DEFINE x == Script[next]
<1>0. /\ Upgrading /\ pc = "upgrading" /\ next <= Len(Script) /\ next' = next + 1
      /\ UNCHANGED <<release, lastBuilt, pc, found, misread>>
  BY DEF Statement, Upgrading
<1>1. /\ Now \in Database /\ Now.stamp \in 0..Newest /\ Now.stamp + 1 \in Revisions
      /\ Script \in Seq(STRING \X STRING) /\ next \in DOMAIN Script /\ next \in Nat \ {0}
  BY <1>0, ScriptUnderWay DEF MigrationsInv, MigrationsTypeOK
<1>2. x \in Everything
  <2>1. x \in Added(Now.stamp + 1)
    BY <1>0, <1>1, ScriptUnderWay
  <2> QED
    BY <2>1, <1>1, AddedIsPartOfItsSchema, RevisionsAreNat DEF Everything
<1>3. NoTx \notin Database
  BY DEF NoTx, Database
<1>4. With(Now, x) \in Database /\ With(Now, x).stamp = Now.stamp
      /\ With(Now, x).schema = Now.schema \cup {x}
  BY <1>1, <1>2 DEF With, Database
<1>5. /\ disk \in Database /\ tx \in Database \cup {NoTx}
      /\ \/ tx = NoTx /\ tx' = NoTx /\ disk' = With(Now, x)
         \/ tx # NoTx /\ disk' = disk /\ tx' = With(Now, x)
  BY DEF MigrationsInv, MigrationsTypeOK, Statement, Now
<1>6. Now' = With(Now, x)
  BY <1>3, <1>4, <1>5 DEF Now
<1>7. /\ disk' \in Database /\ tx' \in Database \cup {NoTx}
      /\ disk'.stamp = disk.stamp /\ disk.schema \subseteq disk'.schema
      /\ tx' # NoTx => tx # NoTx /\ tx'.stamp = tx.stamp /\ tx.schema \subseteq tx'.schema
  BY <1>3, <1>4, <1>5 DEF Now
<1>8. MigrationsTypeOK'
  BY <1>0, <1>7, <1>1 DEF MigrationsInv, MigrationsTypeOK
<1>9. StampIsReached'
  BY <1>0, <1>7 DEF MigrationsInv, StampIsReached
<1>10. WithinTheRelease'
  BY <1>0, <1>4, <1>6, <1>7 DEF MigrationsInv, WithinTheRelease, Migrates
<1>11. UpgradeUnderWay'
  <2>1. Script' = Script
    BY <1>0, <1>4, <1>6 DEF Script
  <2>2. {j \in DOMAIN Script : j < next'} = {j \in DOMAIN Script : j < next} \cup {next}
    BY <1>0, <1>1
  <2>3. RunSoFar' = RunSoFar \cup {x}
    BY <2>1, <2>2 DEF RunSoFar
  <2> QED
    BY <2>3, <1>0, <1>4, <1>6 DEF MigrationsInv, UpgradeUnderWay
<1> QED
  BY <1>0, <1>8, <1>9, <1>10, <1>11 DEF MigrationsInv, FoundIsTrue, WholeDatabasesUpgrade,
                                        ServingMeansCurrent

LEMMA CollideKeepsInv ==
    ASSUME MigrationsInv, Collide
    PROVE  MigrationsInv'
<1>0. /\ Upgrading /\ pc = "upgrading" /\ next <= Len(Script) /\ pc' = "failed"
      /\ ~Possible(Now.schema, Script[next]) /\ tx' = NoTx
      /\ UNCHANGED <<disk, release, lastBuilt, next, found, misread>>
  BY DEF Collide, Upgrading
<1>1. ~found
  <2> SUFFICES ASSUME found PROVE FALSE
    BY DEF MigrationsInv, MigrationsTypeOK
  <2>1. Now.schema = SchemaAt(Now.stamp) \cup RunSoFar /\ next \in DOMAIN Script
    BY <1>0, ScriptUnderWay DEF MigrationsInv, MigrationsTypeOK, UpgradeUnderWay
  <2>2. Now.stamp = (Now.stamp + 1) - 1
    BY <1>0, ScriptUnderWay
  <2>3. RunSoFar = {Upgrades[Now.stamp + 1][j] : j \in 1..(next - 1)}
    <3>1. {j \in DOMAIN Script : j < next} = 1..(next - 1)
      BY <2>1, <1>0, ScriptUnderWay
    <3> QED
      BY <3>1 DEF RunSoFar, Script
  <2>4. Possible(Now.schema, Upgrades[Now.stamp + 1][next])
    BY <2>1, <2>2, <2>3, <1>0, ScriptUnderWay, StatementIsPossible
  <2> QED
    BY <2>4, <1>0 DEF Script
<1>2. MigrationsTypeOK'
  BY <1>0 DEF MigrationsInv, MigrationsTypeOK
<1> QED
  BY <1>0, <1>1, <1>2 DEF MigrationsInv, UpgradeUnderWay, FoundIsTrue, StampIsReached,
                          WithinTheRelease, WholeDatabasesUpgrade, ServingMeansCurrent

LEMMA StampKeepsInv ==
    ASSUME MigrationsInv, Stamp
    PROVE  MigrationsInv'
<1>0. /\ Upgrading /\ pc = "upgrading" /\ next > Len(Script) /\ next' = 1
      /\ tx' = [Now EXCEPT !.stamp = @ + 1]
      /\ UNCHANGED <<disk, release, lastBuilt, pc, found, misread>>
  BY DEF Stamp, Upgrading
<1>1. /\ Now \in Database /\ Now.stamp \in 0..Newest /\ Now.stamp < release
      /\ release \in 0..Newest /\ next \in Nat \ {0}
  BY <1>0, ScriptUnderWay DEF MigrationsInv, MigrationsTypeOK
<1>2. NoTx \notin Database
  BY DEF NoTx, Database
<1>3. tx' \in Database /\ tx'.stamp = Now.stamp + 1 /\ tx'.schema = Now.schema /\ Now' = tx'
  <2>1. Now.stamp + 1 \in 0..Newest
    BY <1>1, RevisionsAreNat
  <2>2. tx' = [Now EXCEPT !.stamp = Now.stamp + 1]
    BY <1>0
  <2>3. tx' \in Database /\ tx'.stamp = Now.stamp + 1 /\ tx'.schema = Now.schema /\ tx' # NoTx
    BY <1>1, <2>1, <2>2, StampedDatabase
  <2>4. Now' = tx'
    BY <2>3 DEF Now, NoTx
  <2> QED
    BY <2>3, <2>4
<1>4. SchemaAt(Now.stamp + 1) = SchemaAt(Now.stamp) \cup Added(Now.stamp + 1)
  BY <1>1, SchemaGrows, RevisionsAreNat
<1>5. RunSoFar = Added(Now.stamp + 1)
  <2>1. {j \in DOMAIN Script : j < next} = DOMAIN Script
    <3>1. Script \in Seq(STRING \X STRING)
      BY <1>0, ScriptUnderWay
    <3>2. \A j \in DOMAIN Script : j < next
      BY <3>1, <1>0, <1>1
    <3> QED
      BY <3>2
  <2> QED
    BY <2>1, <1>0, ScriptUnderWay DEF RunSoFar
<1>6. /\ Added(Now.stamp + 1) \subseteq Now.schema
      /\ found => Now.schema = SchemaAt(Now.stamp + 1)
  BY <1>0, <1>1, <1>4, <1>5 DEF MigrationsInv, UpgradeUnderWay
<1>7. MigrationsTypeOK'
  BY <1>0, <1>1, <1>3 DEF MigrationsInv, MigrationsTypeOK
<1>8. WithinTheRelease'
  BY <1>0, <1>1, <1>3 DEF MigrationsInv, WithinTheRelease, Migrates
<1>9. StampIsReached'
  <2>1. ~misread => SchemaAt(Now.stamp) \subseteq Now.schema
    BY DEF MigrationsInv, StampIsReached, Now
  <2>2. ~misread => SchemaAt(tx'.stamp) \subseteq tx'.schema
    BY <2>1, <1>3, <1>4, <1>6
  <2> QED
    BY <2>2, <1>0 DEF MigrationsInv, StampIsReached
<1>10. UpgradeUnderWay'
  <2>1. Now'.stamp < release => RunSoFar' = {}
    <3> SUFFICES ASSUME Now'.stamp < release PROVE RunSoFar' = {}
      OBVIOUS
    <3>1. Script' = Upgrades[Now.stamp + 2]
      BY <1>1, <1>3 DEF Script
    <3>2. Script' \in Seq(STRING \X STRING)
      BY <3>1, <1>1, <1>3, UpgradesAssumption DEF Newest
    <3>3. \A j \in DOMAIN Script' : ~(j < next')
      BY <3>2, <1>0
    <3> QED
      BY <3>3 DEF RunSoFar
  <2> QED
    BY <2>1, <1>0, <1>3, <1>6 DEF UpgradeUnderWay
<1> QED
  BY <1>0, <1>7, <1>8, <1>9, <1>10 DEF MigrationsInv, FoundIsTrue, WholeDatabasesUpgrade,
                                       ServingMeansCurrent

LEMMA CommitKeepsInv ==
    ASSUME MigrationsInv, Commit
    PROVE  MigrationsInv'
<1>0. /\ pc = "upgrading" /\ Now.stamp >= release /\ disk' = Now /\ tx' = NoTx /\ pc' = "up"
      /\ UNCHANGED <<release, lastBuilt, next, found, misread>>
  BY DEF Commit
<1>1. Now \in Database /\ Now.stamp = release
  BY <1>0, NowIsADatabase DEF MigrationsInv, MigrationsTypeOK, WithinTheRelease, Database
<1>2. ~misread => SchemaAt(Now.stamp) \subseteq Now.schema
  BY DEF MigrationsInv, StampIsReached, Now
<1>3. MigrationsTypeOK'
  BY <1>0, <1>1 DEF MigrationsInv, MigrationsTypeOK
<1>4. StampIsReached'
  BY <1>0, <1>2 DEF StampIsReached
<1>5. ServingMeansCurrent'
  BY <1>0, <1>1, <1>2 DEF ServingMeansCurrent, Migrates
<1> QED
  BY <1>0, <1>3, <1>4, <1>5 DEF MigrationsInv, UpgradeUnderWay, FoundIsTrue,
                                WithinTheRelease, WholeDatabasesUpgrade

-----------------------------------------------------------------------------
LEMMA MigrationsInvNext == MigrationsInv /\ [MigrationsNext]_migrations => MigrationsInv'
<1> SUFFICES ASSUME MigrationsInv, [MigrationsNext]_migrations PROVE MigrationsInv'
  OBVIOUS
<1>1. ASSUME NEW r \in Revisions, Deploy(r) PROVE MigrationsInv'
  BY <1>1, DeployKeepsInv
<1>2. CASE Start
  BY <1>2, StartKeepsInv
<1>3. CASE End
  BY <1>3, EndKeepsInv
<1>4. ASSUME NEW t \in ModelTables, BuildTable(t) PROVE MigrationsInv'
  BY <1>4, BuildTableKeepsInv
<1>5. CASE Built
  BY <1>5, BuiltKeepsInv
<1>6. CASE CheckRevision
  BY <1>6, CheckRevisionKeepsInv
<1>7. CASE RevisionUnknown
  BY <1>7, RevisionUnknownKeepsInv
<1>8. CASE Statement
  BY <1>8, StatementKeepsInv
<1>9. CASE Collide
  BY <1>9, CollideKeepsInv
<1>10. CASE Stamp
  BY <1>10, StampKeepsInv
<1>11. CASE Commit
  BY <1>11, CommitKeepsInv
<1>12. CASE UNCHANGED migrations
  BY <1>12 DEF migrations, MigrationsInv, MigrationsTypeOK, UpgradeUnderWay, RunSoFar, Script,
               Now, FoundIsTrue, Whole, StampIsReached, WithinTheRelease, Migrates,
               WholeDatabasesUpgrade, ServingMeansCurrent
<1> QED
  BY <1>1, <1>2, <1>3, <1>4, <1>5, <1>6, <1>7, <1>8, <1>9, <1>10, <1>11, <1>12
     DEF MigrationsNext, Starting

LEMMA MigrationsInvAlways == MigrationsSpec => []MigrationsInv
BY MigrationsInvInit, MigrationsInvNext, PTL DEF MigrationsSpec

\* Every variable keeps its type, and a transaction is open only during an upgrade.
\* [upgrade_database]
THEOREM MigrationsTypeCorrect == MigrationsSpec => []MigrationsTypeOK
<1>1. MigrationsInv => MigrationsTypeOK
  BY DEF MigrationsInv
<1> QED
  BY <1>1, MigrationsInvAlways, PTL

\* No start on a whole database that is not newer than the release collides with it, for
\* every history of releases.  [_prepare_and_upgrade]
THEOREM WholeDatabasesAlwaysUpgrade == MigrationsSpec => []WholeDatabasesUpgrade
<1>1. MigrationsInv => WholeDatabasesUpgrade
  BY DEF MigrationsInv
<1> QED
  BY <1>1, MigrationsInvAlways, PTL

\* A release that is up finds all its models name, unless a half-built database was taken
\* for more than it was.  [detect_revision, _prepare_and_upgrade]
THEOREM ServingAlwaysMeansCurrent == MigrationsSpec => []ServingMeansCurrent
<1>1. MigrationsInv => ServingMeansCurrent
  BY DEF MigrationsInv
<1> QED
  BY <1>1, MigrationsInvAlways, PTL
=============================================================================

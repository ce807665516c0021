---------------------------- MODULE WorkflowProofs ----------------------------
(***************************************************************************)
(* The whole write side is an implementation of JobRunner, so what is      *)
(* proved of JobRunner for every body a job might have is true of the      *)
(* bodies, handlers and failures of Workflow.                              *)
(*                                                                         *)
(* Beyond that, WorkflowInvariant is inductive (with that of JobRunner),   *)
(* and the properties of Workflow follow from it: what is published, what  *)
(* a row says, and what a job has done when it says that it succeeded.     *)
(***************************************************************************)
EXTENDS WorkflowInvariants, JobRunnerProofs, FiniteSetTheorems

-----------------------------------------------------------------------------
(* The bodies within what JobRunner leaves open. *)

\* a handler enqueues a job, or leaves the queue and the worker alone
LEMMA RequestsKeep == Requests => [Next]_vars
<1>1. ASSUME NEW q, Enqueue(q) PROVE Next
  BY <1>1 DEF Enqueue, Next
<1> QED
  BY <1>1 DEF Requests, Browse, SetUpdate, SetCreateMissing, SetForget, NewSetEnqueue, SetSwitch,
              DiscardSetSubmit, SetDeleteRead, SetDelete, DiscardSubmit, MirrorDelete, AdoptSubmit, NewSetSubmit, AddSet

\* what aptly is asked, answers, refuses or forgets is not seen by the rows of a job
LEMMA CallsKeep ==
    CallSucceeds \/ CallIsAccepted \/ CallFails \/ CallIsNotAnswered \/ ListFails
    \/ GiveUp \/ SomeTaskEnds \/ AptlyRestarts => UNCHANGED vars
<1>1. ASSUME NEW place, Move(place) PROVE UNCHANGED vars
  BY <1>1 DEF Move
<1>2. ASSUME NEW t, TaskEnds(t) PROVE UNCHANGED vars
  BY <1>1, <1>2 DEF TaskEnds
<1> QED
  BY <1>1, <1>2 DEF CallSucceeds, CallIsAccepted, CallFails, CallIsNotAnswered, ListFails,
                    GiveUp, SomeTaskEnds, AptlyRestarts

\* nor what a body reads or writes between two steps
LEMMA RowsKeep ==
    ListMirrors \/ RecordSnapshotSet \/ CompleteSnapshotSet \/ ReadTarget \/ EraseRow => UNCHANGED vars
BY DEF ListMirrors, RecordSnapshotSet, CompleteSnapshotSet, ReadTarget, EraseRow

\* a step of a body is a step that JobRunner allows every body
LEMMA StepsKeep ==
    DropJob \/ BeginJob \/ NextStep \/ StepDone \/ StepSkipped \/ StepRefused
    \/ CommitFails \/ BodyReturns \/ BodyRaises => Next
BY DEF DropJob, BeginJob, NextStep, StepDone, StepSkipped, StepRefused, CommitFails, BodyReturns,
       BodyRaises, Next, Worker, Body

LEMMA BackgroundKeeps == Background \/ Enqueued \/ Ending => [Next]_vars
<1>1. Server => [Next]_vars
  BY CallsKeep, RowsKeep, StepsKeep DEF Server, Next, Worker
<1>2. Background => [Next]_vars
  BY <1>1, CallsKeep DEF Background, Next
<1>3. Enqueued => Next
  BY DEF Enqueued, Next
<1>4. Ending => Next
  BY DEF Ending, ProcessEnds, Next
<1> QED
  BY <1>2, <1>3, <1>4

\* so whatever happens to the program, JobRunner allows it
LEMMA StepsAreOfJobRunner == [WorkflowNext]_everything => [Next]_vars
<1>1. WorkflowNext => [Next]_vars
  BY RequestsKeep, BackgroundKeeps DEF WorkflowNext
<1>2. UNCHANGED everything => UNCHANGED vars
  BY DEF everything
<1> QED
  BY <1>1, <1>2

-----------------------------------------------------------------------------
(* Sorting: what is before what is counted, and every place is some element's. *)

Triples == Int \X Int \X Int

LEMMA PrecedesIsAnOrder ==
    /\ \A k \in Triples : ~Precedes(k, k)
    /\ \A k, l, m \in Triples : Precedes(k, l) /\ Precedes(l, m) => Precedes(k, m)
    /\ \A k, l \in Triples : k = l \/ Precedes(k, l) \/ Precedes(l, k)
<1>1. \A k \in Triples : k[1] \in Int /\ k[2] \in Int /\ k[3] \in Int /\ k = <<k[1], k[2], k[3]>>
  BY DEF Triples
<1>2. \A k, l \in Triples : k[1] = l[1] /\ k[2] = l[2] /\ k[3] = l[3] => k = l
  BY <1>1
<1> QED
  BY <1>1, <1>2 DEF Precedes

LEMMA RankedInOrder ==
    ASSUME NEW key, IsFiniteSet(DOMAIN key),
           \A x \in DOMAIN key : key[x] \in Triples,
           \A x, y \in DOMAIN key : key[x] = key[y] => x = y
    PROVE  /\ \A x \in DOMAIN key : Cardinality(Before(key, x)) \in 0..(Cardinality(DOMAIN key) - 1)
           /\ \A x, y \in DOMAIN key : Precedes(key[x], key[y])
                                   <=> Cardinality(Before(key, x)) < Cardinality(Before(key, y))
<1> DEFINE S == DOMAIN key
           rank(x) == Cardinality(Before(key, x))
<1>1. \A x \in S : Before(key, x) \subseteq S /\ x \notin Before(key, x)
  BY PrecedesIsAnOrder DEF Before
<1>2. \A x \in S : IsFiniteSet(Before(key, x)) /\ rank(x) \in Nat
  BY <1>1, FS_Subset, FS_CardinalityType
<1>3. Cardinality(S) \in Nat
  BY FS_CardinalityType
<1>4. \A x \in S : rank(x) + 1 <= Cardinality(S)
  <2>1. ASSUME NEW x \in S PROVE rank(x) + 1 <= Cardinality(S)
    <3>1. Before(key, x) \cup {x} \subseteq S /\ x \notin Before(key, x)
      BY <1>1
    <3>2. Cardinality(Before(key, x) \cup {x}) = rank(x) + 1
      BY <1>2, <3>1, FS_AddElement
    <3> QED
      BY <3>1, <3>2, FS_Subset
  <2> QED
    BY <2>1
<1>5. ASSUME NEW x \in S, NEW y \in S, Precedes(key[x], key[y]) PROVE rank(x) < rank(y)
  <2>1. Before(key, x) \cup {x} \subseteq Before(key, y) /\ x \notin Before(key, x)
    BY <1>1, <1>5, PrecedesIsAnOrder DEF Before
  <2>2. Cardinality(Before(key, x) \cup {x}) = rank(x) + 1
    BY <1>2, <2>1, FS_AddElement
  <2>3. rank(x) + 1 <= rank(y)
    BY <1>2, <2>1, <2>2, FS_Subset
  <2> QED
    BY <1>2, <2>3
<1>6. ASSUME NEW x \in S, NEW y \in S, rank(x) < rank(y) PROVE Precedes(key[x], key[y])
  <2>1. x # y /\ ~Precedes(key[y], key[x])
    BY <1>2, <1>5, <1>6
  <2> QED
    BY <2>1, PrecedesIsAnOrder
<1> QED
  BY <1>2, <1>3, <1>4, <1>5, <1>6

LEMMA SortedByProperties ==
    ASSUME NEW key, IsFiniteSet(DOMAIN key),
           \A x \in DOMAIN key : key[x] \in Triples,
           \A x, y \in DOMAIN key : key[x] = key[y] => x = y
    PROVE  /\ Cardinality(DOMAIN key) \in Nat
           /\ SortedBy(key) \in [1..Cardinality(DOMAIN key) -> DOMAIN key]
           /\ \A x \in DOMAIN key : \E i \in 1..Cardinality(DOMAIN key) : SortedBy(key)[i] = x
           /\ \A i, j \in 1..Cardinality(DOMAIN key) :
                 i < j => Precedes(key[SortedBy(key)[i]], key[SortedBy(key)[j]])
<1> DEFINE S == DOMAIN key
           n == Cardinality(S)
           rank(x) == Cardinality(Before(key, x))
           place == [x \in S |-> rank(x) + 1]
           s == SortedBy(key)
<1>1. n \in Nat /\ IsFiniteSet(1..n) /\ Cardinality(1..n) = n
  BY FS_CardinalityType, FS_Interval
<1>2. /\ \A x \in S : rank(x) \in 0..(n - 1)
      /\ \A x, y \in S : Precedes(key[x], key[y]) <=> rank(x) < rank(y)
  BY RankedInOrder
<1>3. \A x, y \in S : rank(x) = rank(y) => x = y
  BY <1>1, <1>2, PrecedesIsAnOrder
<1> HIDE DEF n, rank
<1>4. place \in Injection(S, 1..n)
  <2>1. place \in [S -> 1..n]
    BY <1>1, <1>2
  <2>2. \A x, y \in S : place[x] = place[y] => x = y
    BY <1>1, <1>2, <1>3
  <2> QED
    BY <2>1, <2>2 DEF Injection, IsInjective
<1>5. place \in Surjection(S, 1..n)
  BY <1>1, <1>4, FS_Injection DEF n
<1>6. \A i \in 1..n : \E x \in S : rank(x) = i - 1
  <2>1. ASSUME NEW i \in 1..n PROVE \E x \in S : rank(x) = i - 1
    <3>1. PICK x \in S : place[x] = i
      BY <1>5 DEF Surjection
    <3>2. rank(x) + 1 = i /\ rank(x) \in Int
      BY <1>1, <1>2, <3>1
    <3> QED
      BY <3>2
  <2> QED
    BY <2>1
<1>7. s = [i \in 1..n |-> CHOOSE x \in S : rank(x) = i - 1]
  BY DEF SortedBy, n, rank
<1>8. \A i \in 1..n : s[i] \in S /\ rank(s[i]) = i - 1
  BY <1>6, <1>7
<1>9. \A x \in S : \E i \in 1..n : s[i] = x
  <2>1. ASSUME NEW x \in S PROVE rank(x) + 1 \in 1..n /\ s[rank(x) + 1] = x
    BY <1>1, <1>2, <1>3, <1>8
  <2> QED
    BY <2>1
<1>10. \A i, j \in 1..n : i < j => Precedes(key[s[i]], key[s[j]])
  BY <1>1, <1>2, <1>8
<1> QED
  BY <1>1, <1>7, <1>8, <1>9, <1>10 DEF n

\* order_suites returns a permutation of the list it is given, in which the ranks do not go
\* down, whatever the operator typed, duplicates included.  [order_suites]
THEOREM SuitesInOrder ==
    /\ Len(SuiteList) \in Nat
    /\ InOrder \in [1..Len(SuiteList) -> Suites]
    /\ \A i \in 1..Len(SuiteList) : InOrder[i] \in ToSet(SuiteList)
    /\ \A u \in ToSet(SuiteList) : \E i \in 1..Len(SuiteList) : InOrder[i] = u
    /\ \A i, j \in 1..Len(SuiteList) : i < j => InOrder[i][1] <= InOrder[j][1]
<1> DEFINE n == Len(SuiteList)
           key == [i \in DOMAIN SuiteList |-> <<SuiteList[i][1], SuiteList[i][2], i>>]
           place == SortedBy(key)
<1>1. n \in Nat /\ DOMAIN SuiteList = 1..n /\ \A i \in 1..n : SuiteList[i] \in Suites
  BY SuiteListAssumption, LenProperties, ElementOfSeq
<1>2. \A i \in 1..n : SuiteList[i][1] \in Int /\ SuiteList[i][2] \in Int
  BY <1>1, SuitesAssumption
<1>3. DOMAIN key = 1..n /\ IsFiniteSet(1..n) /\ Cardinality(1..n) = n
  BY <1>1, FS_Interval
<1>4. /\ \A i \in 1..n : key[i] \in Triples
      /\ \A i, j \in 1..n : key[i] = key[j] => i = j
  BY <1>1, <1>2 DEF Triples
<1>5. \A i \in 1..n : key[i][1] = SuiteList[i][1]
  BY <1>1
<1> HIDE DEF key, n
<1>6. /\ place \in [1..n -> 1..n]
      /\ \A x \in 1..n : \E i \in 1..n : place[i] = x
      /\ \A i, j \in 1..n : i < j => Precedes(key[place[i]], key[place[j]])
  BY <1>3, <1>4, SortedByProperties
<1> HIDE DEF place
<1>7. InOrder = [i \in 1..n |-> SuiteList[place[i]]]
  BY <1>1 DEF InOrder, OrderSuites, place, key
<1>8. ToSet(SuiteList) = {SuiteList[i] : i \in 1..n}
  BY <1>1 DEF ToSet
<1>9. \A i, j \in 1..n : i < j => InOrder[i][1] <= InOrder[j][1]
  <2>1. ASSUME NEW i \in 1..n, NEW j \in 1..n, i < j PROVE InOrder[i][1] <= InOrder[j][1]
    <3>0. place[i] \in 1..n /\ place[j] \in 1..n /\ Precedes(key[place[i]], key[place[j]])
      BY <1>6, <2>1
    <3>1. key[place[i]][1] <= key[place[j]][1]
      BY <1>2, <1>5, <3>0 DEF Precedes
    <3> QED
      BY <1>5, <1>6, <1>7, <3>1
  <2> QED
    BY <2>1
<1>10. ASSUME NEW u \in ToSet(SuiteList) PROVE \E i \in 1..n : InOrder[i] = u
  <2>1. PICK k \in 1..n : SuiteList[k] = u
    BY <1>8
  <2>2. PICK i \in 1..n : place[i] = k
    BY <1>6
  <2> QED
    BY <1>7, <2>1, <2>2
<1> QED
  BY <1>1, <1>6, <1>7, <1>8, <1>9, <1>10 DEF n

\* sorted: the names of a set no two of which are of one suite, each once
LEMMA NamesInOrder ==
    ASSUME NEW names, IsFiniteSet(names), \A m \in names : m[2] \in Suites,
           \A m, k \in names : m[2] = k[2] => m = k
    PROVE  InNameOrder(names) \in Seq(names) /\ ToSet(InNameOrder(names)) = names
<1> DEFINE key == [m \in names |-> <<m[2][1], m[2][2], 0>>]
           n == Cardinality(names)
<1>1. \A m \in names : m[2] = <<m[2][1], m[2][2]>> /\ m[2][1] \in Int /\ m[2][2] \in Int
  BY SuitesAssumption
<1>2. DOMAIN key = names /\ \A m \in names : key[m] \in Triples
  BY <1>1 DEF Triples
<1>3. \A m, k \in names : key[m] = key[k] => m = k
  BY <1>1
<1>4. InNameOrder(names) = SortedBy(key)
  BY DEF InNameOrder
<1> HIDE DEF key
<1>5. /\ n \in Nat
      /\ SortedBy(key) \in [1..n -> names]
      /\ \A x \in names : \E i \in 1..n : SortedBy(key)[i] = x
  BY <1>2, <1>3, SortedByProperties
<1>6. InNameOrder(names) \in Seq(names)
  BY <1>4, <1>5, SeqDef
<1> QED
  BY <1>4, <1>5, <1>6 DEF ToSet

-----------------------------------------------------------------------------
(* What is left of a plan. *)

LEMMA EndsWhole == ASSUME NEW whole \in Seq(Operation) PROVE Ends(whole, whole)
BY LenProperties DEF Ends

LEMMA EndsNext ==
    ASSUME NEW whole \in Seq(Operation), NEW plan \in Seq(Operation), Ends(plan, whole), plan # <<>>
    PROVE  /\ Len(whole) \in Nat /\ Len(plan) \in 1..Len(whole)
           /\ Head(plan) = whole[Len(whole) - Len(plan) + 1]
           /\ Tail(plan) \in Seq(Operation) /\ Ends(Tail(plan), whole)
           /\ Len(Tail(plan)) = Len(plan) - 1
<1>1. Len(whole) \in Nat /\ Len(plan) \in 1..Len(whole)
  BY LenProperties, EmptySeq DEF Ends
<1>2. /\ Tail(plan) \in Seq(Operation) /\ Len(Tail(plan)) = Len(plan) - 1
      /\ \A i \in 1..Len(Tail(plan)) : Tail(plan)[i] = plan[i + 1]
  BY HeadTailProperties
<1>3. Head(plan) = plan[1]
  BY <1>1
<1>4. Head(plan) = whole[Len(whole) - Len(plan) + 1]
  BY <1>1, <1>3 DEF Ends
<1>5. \A i \in 1..(Len(plan) - 1) : plan[i + 1] = whole[Len(whole) - (Len(plan) - 1) + i]
  BY <1>1 DEF Ends
<1>6. Ends(Tail(plan), whole)
  BY <1>1, <1>2, <1>5 DEF Ends
<1> QED
  BY <1>1, <1>2, <1>4, <1>6

LEMMA EmptyPlan ==
    ASSUME NEW plan \in Seq(Operation)
    PROVE  Len(plan) \in Nat /\ (plan = <<>> <=> Len(plan) = 0)
BY LenProperties, EmptySeq

-----------------------------------------------------------------------------
(* The plans, operation by operation. *)

LEMMA FunctionIsSeq ==
    ASSUME NEW S, NEW n \in Nat, NEW f \in [1..n -> S]
    PROVE  f \in Seq(S) /\ Len(f) = n
<1>1. f \in Seq(S)
  BY SeqDef
<1>2. DOMAIN f = 1..Len(f) /\ DOMAIN f = 1..n /\ Len(f) \in Nat
  BY <1>1, LenProperties
<1> QED
  BY <1>1, <1>2

LEMMA OneAfterAnother ==
    ASSUME NEW S, NEW s \in Seq(S), NEW t \in Seq(S)
    PROVE  /\ s \o t \in Seq(S)
           /\ Len(s) \in Nat /\ Len(t) \in Nat /\ Len(s \o t) = Len(s) + Len(t)
           /\ \A i \in 1..Len(s) : (s \o t)[i] = s[i]
           /\ \A i \in 1..Len(t) : (s \o t)[Len(s) + i] = t[i]
           /\ Len(t) >= 1 => (s \o t)[Len(s) + 1] = t[1]
           /\ Len(t) >= 2 => (s \o t)[Len(s) + 2] = t[2]
<1>1. Len(s) \in Nat /\ Len(t) \in Nat
  BY LenProperties
<1>2. /\ s \o t \in Seq(S) /\ Len(s \o t) = Len(s) + Len(t)
      /\ \A i \in 1..Len(s) : (s \o t)[i] = s[i]
      /\ \A i \in 1..Len(t) : (s \o t)[Len(s) + i] = t[i]
  BY <1>1, ConcatProperties
<1>3. (Len(t) >= 1 => 1 \in 1..Len(t)) /\ (Len(t) >= 2 => 2 \in 1..Len(t))
  BY <1>1
<1> QED
  BY <1>1, <1>2, <1>3

LEMMA OpFields == \A x, y : Op(x, y).op = x /\ Op(x, y).arg = y
BY DEF Op

LEMMA OneOperation ==
    ASSUME NEW op \in BareOps
    PROVE  /\ <<Op(op, <<>>)>> \in Seq(Operation)
           /\ Len(<<Op(op, <<>>)>>) = 1
           /\ Head(<<Op(op, <<>>)>>) = Op(op, <<>>)
<1>1. Op(op, <<>>) \in Operation
  BY DEF Op, Operation
<1> QED
  BY <1>1

LEMMA CreateCourse ==
    ASSUME NEW name \in Names
    PROVE  /\ CreatePlan(name) \in Seq(Operation)
           /\ Len(CreatePlan(name)) = Len(SuiteList)
           /\ \A i \in 1..Len(SuiteList) :
                 /\ CreatePlan(name)[i] = Op("create", <<name, InOrder[i]>>)
                 /\ <<name, InOrder[i]>> \in Mirrors
<1> DEFINE n == Len(SuiteList)
<1>1. DOMAIN InOrder = 1..n /\ n \in Nat
  BY SuitesInOrder
<1>2. \A i \in 1..n : <<name, InOrder[i]>> \in Mirrors
  BY SuitesInOrder DEF Mirrors
<1>3. CreatePlan(name) = [i \in 1..n |-> Op("create", <<name, InOrder[i]>>)]
  BY <1>1 DEF CreatePlan, ForEachSuite
<1>4. \A i \in 1..n : Op("create", <<name, InOrder[i]>>) \in Operation
  BY <1>2 DEF Op, Operation, MirrorOps, SnapshotOps
<1>5. CreatePlan(name) \in [1..n -> Operation]
  BY <1>3, <1>4
<1>6. CreatePlan(name) \in Seq(Operation)
  BY <1>1, <1>5, SeqDef
<1> QED
  BY <1>1, <1>2, <1>3, <1>5, <1>6, LenProperties

LEMMA UpdateCourse ==
    ASSUME NEW name \in Names, NEW stamp \in Minutes
    PROVE  LET n == Len(SuiteList)
               whole == UpdatePlan(name, stamp)
           IN  /\ whole \in Seq(Operation) /\ Len(whole) = 2 * n + 1
               /\ \A i \in 1..n : whole[i] = Op("sync", <<name, InOrder[i]>>)
               /\ \A i \in 1..n : whole[n + i] = Op("snapshot", <<name, InOrder[i], stamp>>)
               /\ whole[2 * n + 1] = Op("complete", <<>>)
               /\ \A i \in 1..n : /\ <<name, InOrder[i]>> \in Mirrors
                                  /\ <<name, InOrder[i], stamp>> \in Snapshots
<1> DEFINE n == Len(SuiteList)
           a == ForEachSuite(LAMBDA u : Op("sync", <<name, u>>))
           b == ForEachSuite(LAMBDA u : Op("snapshot", <<name, u, stamp>>))
           c == <<Op("complete", <<>>)>>
<1>1. DOMAIN InOrder = 1..n /\ n \in Nat /\ Len(SuiteList) = n
  BY SuitesInOrder
<1> HIDE DEF n
<1>2. \A i \in 1..n : <<name, InOrder[i]>> \in Mirrors /\ <<name, InOrder[i], stamp>> \in Snapshots
  BY <1>1, SuitesInOrder DEF Mirrors, Snapshots
<1>3. /\ a = [i \in 1..n |-> Op("sync", <<name, InOrder[i]>>)]
      /\ b = [i \in 1..n |-> Op("snapshot", <<name, InOrder[i], stamp>>)]
  BY <1>1 DEF ForEachSuite
<1>4. \A i \in 1..n : /\ Op("sync", <<name, InOrder[i]>>) \in Operation
                      /\ Op("snapshot", <<name, InOrder[i], stamp>>) \in Operation
  BY <1>2 DEF Op, Operation, MirrorOps, SnapshotOps
<1>5. a \in [1..n -> Operation] /\ b \in [1..n -> Operation]
  BY <1>3, <1>4
<1>6. a \in Seq(Operation) /\ b \in Seq(Operation) /\ Len(a) = n /\ Len(b) = n
  BY <1>1, <1>5, FunctionIsSeq
<1>7. c \in Seq(Operation) /\ Len(c) = 1 /\ c[1] = Op("complete", <<>>)
  <2>1. Op("complete", <<>>) \in Operation
    BY DEF Op, Operation, BareOps, Stepless
  <2> QED
    BY <2>1
<1>9. UpdatePlan(name, stamp) = (a \o b) \o c
  BY DEF UpdatePlan
<1> HIDE DEF a, b, c
<1>8. /\ a \o b \in Seq(Operation) /\ Len(a \o b) = n + n
      /\ \A i \in 1..n : (a \o b)[i] = a[i] /\ (a \o b)[n + i] = b[i]
  <2>1. /\ a \o b \in Seq(Operation) /\ Len(a \o b) = Len(a) + Len(b)
        /\ \A i \in 1..Len(a) : (a \o b)[i] = a[i]
        /\ \A i \in 1..Len(b) : (a \o b)[Len(a) + i] = b[i]
    <3>1. a \in Seq(Operation) /\ b \in Seq(Operation)
      BY <1>6
    <3> QED
      BY <3>1, LenProperties, ConcatProperties
  <2> QED
    BY <1>6, <2>1
<1>10. /\ (a \o b) \o c \in Seq(Operation) /\ Len((a \o b) \o c) = n + n + 1
       /\ \A i \in 1..(n + n) : ((a \o b) \o c)[i] = (a \o b)[i]
       /\ ((a \o b) \o c)[n + n + 1] = c[1]
  <2> DEFINE ab == a \o b
  <2>0. ab \in Seq(Operation) /\ Len(ab) = n + n
    BY <1>8
  <2> HIDE DEF ab
  <2>1. /\ ab \o c \in Seq(Operation) /\ Len(ab \o c) = Len(ab) + Len(c)
        /\ \A i \in 1..Len(ab) : (ab \o c)[i] = ab[i]
        /\ Len(c) >= 1 => (ab \o c)[Len(ab) + 1] = c[1]
    BY <1>7, <2>0, OneAfterAnother
  <2>2. /\ ab \o c \in Seq(Operation) /\ Len(ab \o c) = n + n + 1
        /\ \A i \in 1..(n + n) : (ab \o c)[i] = ab[i]
        /\ (ab \o c)[n + n + 1] = c[1]
    BY <1>7, <2>0, <2>1
  <2> QED
    BY <2>2 DEF ab
<1>11. \A i \in 1..n : UpdatePlan(name, stamp)[i] = a[i] /\ UpdatePlan(name, stamp)[n + i] = b[i]
  <2>1. ASSUME NEW i \in 1..n PROVE i \in 1..(n + n) /\ n + i \in 1..(n + n)
    BY <1>1
  <2> QED
    BY <1>8, <1>9, <1>10, <2>1
<1>12. /\ UpdatePlan(name, stamp)[2 * n + 1] = c[1]
       /\ Len(UpdatePlan(name, stamp)) = 2 * n + 1 /\ UpdatePlan(name, stamp) \in Seq(Operation)
  <2>1. 2 * n + 1 = n + n + 1
    BY <1>1
  <2> QED
    BY <1>9, <1>10, <2>1
<1> QED
  BY <1>1, <1>2, <1>3, <1>7, <1>11, <1>12

LEMMA UpdateOperations ==
    ASSUME NEW name \in Names, NEW stamp \in Minutes
    PROVE  /\ UpdatePlan(name, stamp) \in Seq(Operation)
           /\ \A i \in 1..Len(UpdatePlan(name, stamp)) :
                 UpdatePlan(name, stamp)[i].op \in {"sync", "snapshot", "complete"}
<1> DEFINE whole == UpdatePlan(name, stamp)
           n == Len(SuiteList)
<1>1. /\ n \in Nat /\ whole \in Seq(Operation) /\ Len(whole) = 2 * n + 1
      /\ \A i \in 1..n : whole[i] = Op("sync", <<name, InOrder[i]>>)
      /\ \A i \in 1..n : whole[n + i] = Op("snapshot", <<name, InOrder[i], stamp>>)
      /\ whole[2 * n + 1] = Op("complete", <<>>)
  BY UpdateCourse, SuitesInOrder
<1> HIDE DEF whole, n
<1>2. ASSUME NEW i \in 1..n
      PROVE  whole[i].op = "sync" /\ whole[n + i].op = "snapshot"
  <2>1. /\ whole[i] = Op("sync", <<name, InOrder[i]>>)
        /\ whole[n + i] = Op("snapshot", <<name, InOrder[i], stamp>>)
    BY <1>1
  <2> QED
    BY <2>1, OpFields
<1>3. whole[2 * n + 1].op = "complete"
  BY <1>1, OpFields
<1>4. ASSUME NEW i \in 1..Len(whole) PROVE whole[i].op \in {"sync", "snapshot", "complete"}
  <2>1. CASE i \in 1..n
    BY <1>2, <2>1
  <2>2. CASE i - n \in 1..n
    <3>1. n + (i - n) = i
      BY <1>1
    <3>2. whole[n + (i - n)].op = "snapshot"
      BY <1>2, <2>2
    <3> QED
      BY <3>1, <3>2
  <2>3. CASE i = 2 * n + 1
    BY <1>3, <2>3
  <2> QED
    BY <1>1, <2>1, <2>2, <2>3
<1> QED
  BY <1>1, <1>4 DEF whole

LEMMA SwitchCourse ==
    ASSUME NEW name \in Names, NEW taken \in SUBSET Snapshots, Covers(taken, name)
    PROVE  LET n == Len(SuiteList)
               whole == SwitchPlan(name, taken)
           IN  /\ whole \in Seq(Operation)
               /\ Len(whole) = n + (IF name \in Checked THEN 2 ELSE 1)
               /\ \A i \in 1..n : /\ whole[i].op = "publish"
                                  /\ whole[i].arg \in taken
                                  /\ MirrorOf(whole[i].arg) = <<name, InOrder[i]>>
               /\ \A i \in (n + 1)..Len(whole) : /\ whole[i].op \in {"verify", "client"}
                                                 /\ whole[i].arg = <<>>
               /\ \A i, k \in 1..n : InOrder[i] = InOrder[k] => whole[i].arg = whole[k].arg
<1> DEFINE n == Len(SuiteList)
           pick(u) == SnapshotFor(taken, <<name, u>>)
           a == ForEachSuite(LAMBDA u : Op("publish", SnapshotFor(taken, <<name, u>>)))
           b == <<Op("verify", <<>>)>>
           c == IF name \in Checked THEN <<Op("client", <<>>)>> ELSE <<>>
           k == IF name \in Checked THEN 1 ELSE 0
<1>1. DOMAIN InOrder = 1..n /\ n \in Nat /\ Len(SuiteList) = n
  BY SuitesInOrder
<1> HIDE DEF n
<1>2. \A i \in 1..n : pick(InOrder[i]) \in taken /\ MirrorOf(pick(InOrder[i])) = <<name, InOrder[i]>>
  <2>1. ASSUME NEW i \in 1..n PROVE \E s \in taken : MirrorOf(s) = <<name, InOrder[i]>>
    BY <1>1, SuitesInOrder DEF Covers
  <2> QED
    BY <2>1 DEF SnapshotFor
<1>3. a = [i \in 1..n |-> Op("publish", pick(InOrder[i]))]
  BY <1>1 DEF ForEachSuite
<1> HIDE DEF pick
<1>4. \A i \in 1..n : Op("publish", pick(InOrder[i])) \in Operation
  BY <1>2 DEF Op, Operation, MirrorOps, SnapshotOps
<1>5. a \in [1..n -> Operation]
  BY <1>3, <1>4
<1>6. a \in Seq(Operation) /\ Len(a) = n
  BY <1>1, <1>5, FunctionIsSeq
<1>7. b \in Seq(Operation) /\ Len(b) = 1 /\ b[1] = Op("verify", <<>>)
  <2>1. Op("verify", <<>>) \in Operation
    BY DEF Op, Operation, BareOps
  <2> QED
    BY <2>1
<1>8. c \in Seq(Operation) /\ Len(c) = k /\ k \in {0, 1} /\ (k = 1 => c[1] = Op("client", <<>>))
  <2>1. Op("client", <<>>) \in Operation
    BY DEF Op, Operation, BareOps
  <2> QED
    BY <2>1
<1>9. SwitchPlan(name, taken) = a \o b \o c
  BY DEF SwitchPlan
<1> HIDE DEF a, b, c, k
<1>10. /\ a \o b \in Seq(Operation) /\ Len(a \o b) = n + 1
       /\ \A i \in 1..n : (a \o b)[i] = a[i]
       /\ (a \o b)[n + 1] = b[1]
  <2>1. /\ a \o b \in Seq(Operation) /\ Len(a \o b) = Len(a) + Len(b)
        /\ \A i \in 1..Len(a) : (a \o b)[i] = a[i]
        /\ Len(b) >= 1 => (a \o b)[Len(a) + 1] = b[1]
    BY <1>6, <1>7, OneAfterAnother
  <2> QED
    BY <1>6, <1>7, <2>1
<1>11. /\ a \o b \o c \in Seq(Operation) /\ Len(a \o b \o c) = n + 1 + k
       /\ \A i \in 1..(n + 1) : (a \o b \o c)[i] = (a \o b)[i]
       /\ k = 1 => (a \o b \o c)[n + 1 + 1] = c[1]
  <2> DEFINE ab == a \o b
  <2>0. ab \in Seq(Operation) /\ Len(ab) = n + 1
    BY <1>10
  <2> HIDE DEF ab
  <2>1. /\ ab \o c \in Seq(Operation) /\ Len(ab \o c) = Len(ab) + Len(c)
        /\ \A i \in 1..Len(ab) : (ab \o c)[i] = ab[i]
        /\ Len(c) >= 1 => (ab \o c)[Len(ab) + 1] = c[1]
    BY <1>8, <2>0, OneAfterAnother
  <2>2. /\ ab \o c \in Seq(Operation) /\ Len(ab \o c) = n + 1 + k
        /\ \A i \in 1..(n + 1) : (ab \o c)[i] = ab[i]
        /\ k = 1 => (ab \o c)[n + 1 + 1] = c[1]
    BY <1>8, <2>0, <2>1
  <2> QED
    BY <2>2 DEF ab
<1>12. \A i \in 1..n : SwitchPlan(name, taken)[i] = Op("publish", pick(InOrder[i]))
  <2>1. \A i \in 1..n : i \in 1..(n + 1)
    BY <1>1
  <2> QED
    BY <1>3, <1>9, <1>10, <1>11, <2>1
<1>13. \A i \in (n + 1)..(n + 1 + k) : SwitchPlan(name, taken)[i] \in {Op("verify", <<>>), Op("client", <<>>)}
  <2>1. ASSUME NEW i \in (n + 1)..(n + 1 + k)
        PROVE  SwitchPlan(name, taken)[i] \in {Op("verify", <<>>), Op("client", <<>>)}
    <3>1. CASE i = n + 1
      <4>1. n + 1 \in 1..(n + 1)
        BY <1>1
      <4> QED
        BY <1>7, <1>9, <1>10, <1>11, <3>1, <4>1
    <3>2. CASE i # n + 1
      <4>1. k = 1 /\ i = n + 1 + 1
        BY <1>1, <1>8, <3>2
      <4> QED
        BY <1>8, <1>9, <1>11, <4>1
    <3> QED
      BY <3>1, <3>2
  <2> QED
    BY <2>1
<1>14. n + 1 + k = n + (IF name \in Checked THEN 2 ELSE 1)
  BY <1>1 DEF k
<1>15. /\ SwitchPlan(name, taken) \in Seq(Operation)
       /\ Len(SwitchPlan(name, taken)) = n + 1 + k
  BY <1>9, <1>11
<1>16. \A i, j \in 1..n : InOrder[i] = InOrder[j] => pick(InOrder[i]) = pick(InOrder[j])
  OBVIOUS
<1>17. \A i \in 1..n : /\ SwitchPlan(name, taken)[i].op = "publish"
                        /\ SwitchPlan(name, taken)[i].arg = pick(InOrder[i])
  BY <1>12, OpFields
<1>18. \A i \in (n + 1)..(n + 1 + k) : /\ SwitchPlan(name, taken)[i].op \in {"verify", "client"}
                                        /\ SwitchPlan(name, taken)[i].arg = <<>>
  BY <1>13, OpFields
<1> QED
  BY <1>1, <1>2, <1>14, <1>15, <1>16, <1>17, <1>18

LEMMA DeleteCourse ==
    ASSUME NEW q, NEW name, NEW op,
           \/ op = "delete" /\ q.names \in Seq(Snapshots)
           \/ op = "dropMirror" /\ q.names \in Seq(Mirrors),
           Plan(q, name) = ForEach(q.names, op) \o <<Op("cleanup", <<>>), Op("erase", <<>>)>>
    PROVE  LET m == Len(q.names)
               whole == Plan(q, name)
           IN  /\ m \in Nat
               /\ whole \in Seq(Operation) /\ Len(whole) = m + 2
               /\ \A i \in 1..m : whole[i] = Op(op, q.names[i])
               /\ whole[m + 1] = Op("cleanup", <<>>)
               /\ whole[m + 2] = Op("erase", <<>>)
<1> DEFINE m == Len(q.names)
           a == ForEach(q.names, op)
           b == <<Op("cleanup", <<>>), Op("erase", <<>>)>>
<1>1. /\ m \in Nat /\ DOMAIN q.names = 1..m
      /\ \/ op = "delete" /\ \A i \in 1..m : q.names[i] \in Snapshots
         \/ op = "dropMirror" /\ \A i \in 1..m : q.names[i] \in Mirrors
  BY LenProperties, ElementOfSeq
<1> HIDE DEF m
<1>2. a = [i \in 1..m |-> Op(op, q.names[i])]
  BY <1>1 DEF ForEach
<1>3. \A i \in 1..m : Op(op, q.names[i]) \in Operation
  BY <1>1 DEF Op, Operation, MirrorOps, SnapshotOps
<1>4. a \in [1..m -> Operation]
  BY <1>2, <1>3
<1>5. a \in Seq(Operation) /\ Len(a) = m
  BY <1>1, <1>4, FunctionIsSeq
<1>6. /\ b \in Seq(Operation) /\ Len(b) = 2
      /\ b[1] = Op("cleanup", <<>>) /\ b[2] = Op("erase", <<>>)
  <2>1. Op("cleanup", <<>>) \in Operation /\ Op("erase", <<>>) \in Operation
    BY DEF Op, Operation, BareOps, Stepless
  <2> QED
    BY <2>1
<1> HIDE DEF a, b
<1>7. /\ a \o b \in Seq(Operation) /\ Len(a \o b) = m + 2
      /\ \A i \in 1..m : (a \o b)[i] = a[i]
      /\ (a \o b)[m + 1] = b[1] /\ (a \o b)[m + 2] = b[2]
  <2>1. /\ a \o b \in Seq(Operation) /\ Len(a \o b) = Len(a) + Len(b)
        /\ \A i \in 1..Len(a) : (a \o b)[i] = a[i]
        /\ Len(b) >= 1 => (a \o b)[Len(a) + 1] = b[1]
        /\ Len(b) >= 2 => (a \o b)[Len(a) + 2] = b[2]
    <3>1. a \in Seq(Operation) /\ b \in Seq(Operation)
      BY <1>5, <1>6
    <3> QED
      BY <3>1, LenProperties, ConcatProperties
  <2> QED
    BY <1>5, <1>6, <2>1
<1>8. Plan(q, name) = a \o b
  BY DEF a, b
<1> QED
  BY <1>1, <1>2, <1>6, <1>7, <1>8 DEF m

-----------------------------------------------------------------------------
(* Requests. *)

\* what the worker has in hand, as JobRunner keeps it
LEMMA InHand ==
    ASSUME IInv
    PROVE  /\ pc \in {"load", "body"} => current \in JobIds
           /\ pc = "body" => state[current] = "running"
           /\ pc = "load" => state[current] = "queued" /\ steps[current] = <<>>
           /\ state \in [JobIds -> JobState \cup {"absent"}]
           /\ steps \in [JobIds -> Seq(StepState)]
<1>1. TypeOK /\ ProcessInv /\ HandInv /\ StepsMatchOutcome
  BY DEF IInv, TypeInv, PlaceInv, OnePlacePerJob
<1>2. pc \in {"load", "body"} => current \in JobIds
  BY <1>1 DEF TypeOK, ProcessInv
<1> QED
  BY <1>1, <1>2 DEF TypeOK, HandInv, StepsMatchOutcome

\* a mirror is a pair, a snapshot a triple
LEMMA MirrorsAreNoSnapshots == Mirrors \cap Snapshots = {}
BY DEF Mirrors, Snapshots

(* What a request may do to a job: submit one. *)
Submits ==
    \E j \in JobIds, q \in RequestType :
        /\ state[j] = "absent" /\ state' = [state EXCEPT ![j] = "queued"]
        /\ q.kind \in Kinds /\ WellFormed(q)
        /\ request' = [request EXCEPT ![j] = q]

(* A request leaves the body in hand alone; a row it deletes is the worst it may do to it. *)
RequestFrame ==
    /\ UNCHANGED <<aptly, expected, minute, body, history, steps, current, pc>>
    /\ records' \in [RecordIds -> Record]
    /\ \A r \in RecordIds : records'[r] \in {records[r], NoRecord}
    /\ UNCHANGED <<state, request>> \/ Submits
    /\ sets' \in [SetIds -> Names \cup {NoName}]
    /\ cached' \in View
    /\ \A q \in halfway' : Submittable(q)

LEMMA ViewsAreTyped ==
    ASSUME TypeInvariant PROVE \A view \in {cached, Now} : view \in View
<1>1. Now \in View
  BY DEF TypeInvariant, AptlyTypeOK, Now, View
<1> QED
  BY <1>1 DEF TypeInvariant

LEMMA EnqueueSubmits ==
    ASSUME NEW q \in RequestType, q.kind \in Kinds, WellFormed(q), Enqueue(q)
    PROVE  Submits /\ UNCHANGED <<steps, current, pc>>
BY DEF Enqueue, Insert, Submits

LEMMA TakenInOrder ==
    ASSUME TypeInvariant, RecordsInvariant, NEW r \in RecordIds
    PROVE  InNameOrder(records[r].taken) \in Seq(Snapshots)
<1> DEFINE taken == records[r].taken
           suite == [s \in taken |-> s[2]]
<1>1. taken \subseteq Snapshots
  BY DEF TypeInvariant, Record
<1>2. \A s, t \in taken : s[1] = t[1] /\ s[3] = t[3] /\ s[2] \in ToSet(SuiteList)
  BY DEF RecordsInvariant
<1>3. \A s, t \in taken : s[2] = t[2] => s = t
  BY <1>1, <1>2 DEF Snapshots
<1>4. IsFiniteSet(ToSet(SuiteList))
  <2>1. Len(SuiteList) \in Nat /\ SuiteList \in [1..Len(SuiteList) -> ToSet(SuiteList)]
    BY SuiteListAssumption, LenProperties DEF ToSet
  <2>2. SuiteList \in Surjection(1..Len(SuiteList), ToSet(SuiteList))
    BY <2>1 DEF Surjection, ToSet
  <2> QED
    BY <2>1, <2>2, FS_Interval, FS_Surjection
<1>5. suite \in Injection(taken, ToSet(SuiteList))
  BY <1>2, <1>3 DEF Injection, IsInjective
<1>6. IsFiniteSet(taken)
  BY <1>4, <1>5, FS_Injection
<1>7. \A s \in taken : s[2] \in Suites
  BY <1>1 DEF Snapshots
<1> HIDE DEF taken
<1>8. InNameOrder(taken) \in Seq(taken)
  BY <1>3, <1>6, <1>7, NamesInOrder
<1> QED
  BY <1>1, <1>8, SeqDef DEF taken

\* what is kept of a list of mirrors is a list of mirrors
LEMMA KeptInOrder ==
    ASSUME NEW list \in Seq(Mirrors), NEW some
    PROVE  Kept(list, some) \in Seq(Mirrors)
<1> DEFINE those == {k \in DOMAIN list : list[k] \in some}
           key == [i \in those |-> <<i, 0, 0>>]
           n == Cardinality(those)
<1>1. /\ Len(list) \in Nat /\ DOMAIN list = 1..Len(list)
      /\ \A i \in 1..Len(list) : list[i] \in Mirrors
  BY LenProperties, ElementOfSeq
<1>2. IsFiniteSet(those) /\ those \subseteq 1..Len(list)
  <2>1. IsFiniteSet(1..Len(list))
    BY <1>1, FS_Interval
  <2>2. those \subseteq 1..Len(list)
    BY <1>1
  <2> HIDE DEF those
  <2> QED
    BY <2>1, <2>2, FS_Subset
<1>3. DOMAIN key = those /\ \A i \in those : key[i] \in Triples
  BY <1>1 DEF Triples
<1>4. \A i, k \in those : key[i] = key[k] => i = k
  OBVIOUS
<1> HIDE DEF key, those
<1>5. n \in Nat /\ SortedBy(key) \in [1..n -> those]
  BY <1>2, <1>3, <1>4, SortedByProperties
<1>6. Kept(list, some) = [k \in 1..n |-> list[SortedBy(key)[k]]]
  BY <1>5 DEF Kept, key, those
<1>7. Kept(list, some) \in [1..n -> Mirrors]
  BY <1>1, <1>2, <1>5, <1>6
<1> QED
  BY <1>5, <1>7, SeqDef

LEMMA MirrorsExpected ==
    ASSUME NEW name \in Names PROVE ExpectedMirrors(name) \in Seq(Mirrors)
<1>1. /\ Len(SuiteList) \in Nat /\ DOMAIN SuiteList = 1..Len(SuiteList)
      /\ \A i \in 1..Len(SuiteList) : SuiteList[i] \in Suites
  BY SuiteListAssumption, LenProperties, ElementOfSeq
<1>2. ExpectedMirrors(name) \in [1..Len(SuiteList) -> Mirrors]
  BY <1>1 DEF ExpectedMirrors, Mirrors
<1> QED
  BY <1>1, <1>2, SeqDef

LEMMA RequestsStayInFrame ==
    ASSUME TypeInvariant, RecordsInvariant, Requests PROVE RequestFrame
<1>a. /\ records \in [RecordIds -> Record] /\ sets \in [SetIds -> Names \cup {NoName}]
      /\ cached \in View /\ \A q \in halfway : Submittable(q)
  BY DEF TypeInvariant
<1>b. ASSUME UNCHANGED <<aptly, rows, expected, minute, body, history>>, UNCHANGED <<steps, current, pc>>,
             UNCHANGED <<state, request>> \/ Submits, cached' \in View, \A q \in halfway' : Submittable(q)
      PROVE  RequestFrame
  BY <1>a, <1>b DEF RequestFrame, rows
<1>c. ASSUME NEW kind \in Kinds, NEW id \in SetIds
      PROVE  /\ Request(kind, id) \in RequestType /\ Request(kind, id).kind = kind
             /\ Request(kind, id).set = id /\ id # NoRow
             /\ kind \in {"create", "update"} => WellFormed(Request(kind, id))
  <2>1. id # NoRow /\ <<>> \in Seq(Mirrors)
    BY EmptySeq DEF SetIds, NoRow
  <2>2. /\ Request(kind, id) \in RequestType /\ Request(kind, id).kind = kind
        /\ Request(kind, id).set = id
    BY <1>c, <2>1 DEF Request, NoRequest, RequestType
  <2> QED
    BY <2>1, <2>2 DEF WellFormed
<1>1. CASE Browse
  BY <1>1, <1>a, <1>b, ViewsAreTyped DEF Browse, Unserved, vars
<1>2. ASSUME NEW id \in SetIds, SetUpdate(id) PROVE RequestFrame
  <2>1. Enqueue(Request("update", id)) /\ Request("update", id) \in RequestType
        /\ Request("update", id).kind \in Kinds /\ WellFormed(Request("update", id))
    BY <1>2, <1>c DEF SetUpdate, Kinds
  <2> QED
    BY <1>2, <1>a, <1>b, <2>1, EnqueueSubmits DEF SetUpdate, Unserved
<1>3. ASSUME NEW id \in SetIds, SetCreateMissing(id) PROVE RequestFrame
  <2>1. Enqueue(Request("create", id)) /\ Request("create", id) \in RequestType
        /\ Request("create", id).kind \in Kinds /\ WellFormed(Request("create", id))
    BY <1>3, <1>c DEF SetCreateMissing, Kinds
  <2> QED
    BY <1>3, <1>a, <1>b, <2>1, EnqueueSubmits DEF SetCreateMissing, Unserved
<1>4. ASSUME NEW id \in SetIds, NEW r \in RecordIds, SetSwitch(id, r) PROVE RequestFrame
  <2> DEFINE q == [Request("switch", id) EXCEPT !.record = r, !.seen = records[r].taken]
  <2>1. /\ q \in RequestType /\ q.kind = "switch" /\ q.set = id /\ q.record = r
    BY <1>a, <1>c, EmptySeq DEF Record, Request, NoRequest, RequestType, Kinds
  <2>2. r # NoRow /\ id # NoRow
    BY DEF RecordIds, SetIds, NoRow
  <2>3. Enqueue(q)
    BY <1>4 DEF SetSwitch
  <2> HIDE DEF q
  <2>4. WellFormed(q) /\ q.kind \in Kinds
    BY <2>1, <2>2 DEF WellFormed, Kinds
  <2> QED
    BY <1>4, <1>a, <1>b, <2>1, <2>3, <2>4, EnqueueSubmits DEF SetSwitch, Unserved
<1>5. ASSUME NEW id \in SetIds, NEW r \in RecordIds, NEW view \in {cached, Now},
             DiscardSetSubmit(id, r, view)
      PROVE  RequestFrame
  <2> DEFINE q == [Request("discard", id) EXCEPT !.record = r, !.names = InNameOrder(records[r].taken)]
  <2>1. q \in RequestType /\ q.kind = "discard" /\ q.names \in Seq(Snapshots)
    BY <1>a, <1>c, TakenInOrder DEF Request, NoRequest, RequestType, Kinds
  <2>2. Enqueue(q)
    BY <1>5 DEF DiscardSetSubmit
  <2> HIDE DEF q
  <2>3. WellFormed(q) /\ q.kind \in Kinds
    BY <2>1 DEF WellFormed, Kinds
  <2> QED
    BY <1>5, <1>a, <1>b, <2>1, <2>2, <2>3, EnqueueSubmits, ViewsAreTyped DEF DiscardSetSubmit, Unserved
<1>6. ASSUME NEW s \in Snapshots, NEW view \in {cached, Now}, DiscardSubmit(s, view)
      PROVE  RequestFrame
  <2> DEFINE q == [NoRequest EXCEPT !.kind = "discard", !.names = <<s>>]
  <2>0. <<s>> \in Seq(Snapshots)
    OBVIOUS
  <2>1. q \in RequestType /\ q.kind = "discard" /\ q.names \in Seq(Snapshots)
    BY <2>0 DEF NoRequest, RequestType, Kinds
  <2>2. Enqueue(q)
    BY <1>6 DEF DiscardSubmit
  <2> HIDE DEF q
  <2>3. WellFormed(q) /\ q.kind \in Kinds
    BY <2>1 DEF WellFormed, Kinds
  <2> QED
    BY <1>6, <1>a, <1>b, <2>1, <2>2, <2>3, EnqueueSubmits, ViewsAreTyped DEF DiscardSubmit, Unserved
<1>7. ASSUME NEW id \in SetIds, SetDeleteRead(id) PROVE RequestFrame
  <2> DEFINE q == [Request("remove", id) EXCEPT !.names = ExpectedMirrors(sets[id])]
  <2>0. sets[id] \in Names
    BY <1>7, <1>a DEF SetDeleteRead
  <2>1. q \in RequestType /\ q.kind = "remove" /\ q.names \in Seq(Mirrors)
    BY <2>0, <1>c, MirrorsExpected DEF Request, NoRequest, RequestType, Kinds
  <2>2. halfway' = halfway \cup {q}
    BY <1>7 DEF SetDeleteRead
  <2> HIDE DEF q
  <2>3. Submittable(q)
    BY <2>1 DEF Submittable, WellFormed, Kinds
  <2> QED
    BY <1>7, <1>a, <1>b, <2>2, <2>3 DEF SetDeleteRead, vars
<1>13. ASSUME NEW p \in halfway, NEW view \in {cached, Now}, SetDelete(p, view)
      PROVE  RequestFrame
  <2> DEFINE q == [p EXCEPT !.names = Kept(p.names, view.mirrors)]
  <2>0. p \in RequestType /\ p.kind = "remove" /\ p.names \in Seq(Mirrors)
    BY <1>13, <1>a DEF SetDelete, Submittable, WellFormed
  <2>1. q \in RequestType /\ q.kind = "remove" /\ q.names \in Seq(Mirrors)
    BY <2>0, KeptInOrder DEF RequestType
  <2>2. Enqueue(q) \/ UNCHANGED <<vars, request>>
    BY <1>13 DEF SetDelete
  <2> HIDE DEF q
  <2>3. WellFormed(q) /\ q.kind \in Kinds
    BY <2>1 DEF WellFormed, Kinds
  <2>4. (UNCHANGED <<state, request>> \/ Submits) /\ UNCHANGED <<steps, current, pc>>
    BY <2>1, <2>2, <2>3, EnqueueSubmits DEF vars
  <2> QED
    BY <1>13, <1>a, <1>b, <2>4, ViewsAreTyped DEF SetDelete
<1>8. ASSUME NEW m \in Mirrors, NEW view \in {cached, Now}, MirrorDelete(m, view)
      PROVE  RequestFrame
  <2> DEFINE q == [NoRequest EXCEPT !.kind = "remove", !.names = <<m>>]
  <2>0. <<m>> \in Seq(Mirrors)
    OBVIOUS
  <2>1. q \in RequestType /\ q.kind = "remove" /\ q.names \in Seq(Mirrors)
    BY <2>0 DEF NoRequest, RequestType, Kinds
  <2>2. Enqueue(q)
    BY <1>8 DEF MirrorDelete
  <2> HIDE DEF q
  <2>3. WellFormed(q) /\ q.kind \in Kinds
    BY <2>1 DEF WellFormed, Kinds
  <2> QED
    BY <1>8, <1>a, <1>b, <2>1, <2>2, <2>3, EnqueueSubmits, ViewsAreTyped DEF MirrorDelete, Unserved
<1>9. ASSUME NEW id \in SetIds, SetForget(id) PROVE RequestFrame
  <2>1. NoRecord \in Record
    BY DEF NoRecord, Record
  <2> QED
    BY <1>9, <1>a, <2>1 DEF SetForget, WithoutSet, RequestFrame, vars
<1>10. ASSUME NEW name \in Names, AddSet(name), \A q \in halfway' : Submittable(q) PROVE RequestFrame
  BY <1>10, <1>a DEF AddSet, RequestFrame, vars
<1>11. ASSUME NEW name \in Names, AdoptSubmit(name) PROVE RequestFrame
  BY <1>10, <1>11, <1>a DEF AdoptSubmit
<1>14. ASSUME NEW name \in Names, NewSetSubmit(name) PROVE RequestFrame
  <2>1. NextSetId \in SetIds /\ "create" \in Kinds
    BY <1>14 DEF NewSetSubmit, AddSet, Kinds
  <2>2. Submittable(Request("create", NextSetId))
    BY <1>c, <2>1 DEF Submittable
  <2>3. \A q \in halfway' : Submittable(q)
    BY <1>14, <1>a, <2>2 DEF NewSetSubmit
  <2> QED
    BY <1>10, <1>14, <2>3 DEF NewSetSubmit
<1>12. ASSUME NEW q \in halfway, NewSetEnqueue(q) PROVE RequestFrame
  <2>1. Enqueue(q) /\ q \in RequestType /\ q.kind \in Kinds /\ WellFormed(q)
    BY <1>12, <1>a DEF NewSetEnqueue, Submittable
  <2> QED
    BY <1>12, <1>a, <1>b, <2>1, EnqueueSubmits DEF NewSetEnqueue
<1> QED
  BY <1>1, <1>2, <1>3, <1>4, <1>5, <1>6, <1>7, <1>8, <1>9, <1>11, <1>12, <1>13, <1>14 DEF Requests

-----------------------------------------------------------------------------
(* The types. *)

LEMMA RequestsKeepTypes ==
    ASSUME IInv, TypeInvariant, RequestFrame PROVE TypeInvariant'
<1>1. ASSUME UNCHANGED <<state, request>> PROVE TypeInvariant'
  BY <1>1 DEF RequestFrame, TypeInvariant, AptlyTypeOK, aptly, history, NoRecord, NoRow, WellFormed
<1>2. CASE Submits
  <2>1. PICK j \in JobIds, q \in RequestType :
          /\ state[j] = "absent" /\ state' = [state EXCEPT ![j] = "queued"]
          /\ q.kind \in Kinds /\ WellFormed(q)
          /\ request' = [request EXCEPT ![j] = q]
    BY <1>2 DEF Submits
  <2>2. request' \in [JobIds -> RequestType]
    BY <2>1 DEF TypeInvariant
  <2>3. \A k \in JobIds : /\ state'[k] # "absent" <=> request'[k].kind \in Kinds
                          /\ WellFormed(request'[k])
    BY <2>1, InHand DEF TypeInvariant
  <2> QED
    BY <2>2, <2>3 DEF RequestFrame, TypeInvariant, AptlyTypeOK, aptly, history, NoRecord, NoRow, WellFormed
<1> QED
  BY <1>1, <1>2 DEF RequestFrame

\* the plans the bodies are given are made of operations
LEMMA PlanTyped ==
    ASSUME NEW q \in RequestType, q.kind \in Kinds, WellFormed(q), NEW name
    PROVE  Plan(q, name) \in Seq(Operation)
<1>1. CASE q.kind = "create"
  BY <1>1, OneOperation DEF Plan, BareOps, Stepless
<1>2. CASE q.kind = "update"
  <2>1. Op("preflight", <<>>) \in Operation /\ Op("record", <<>>) \in Operation
    BY DEF Op, Operation, BareOps, Stepless
  <2> QED
    BY <1>2, <2>1 DEF Plan
<1>3. CASE q.kind = "switch"
  BY <1>3, OneOperation DEF Plan, BareOps, Stepless
<1>4. CASE q.kind = "discard"
  <2>1. Plan(q, name) = ForEach(q.names, "delete") \o <<Op("cleanup", <<>>), Op("erase", <<>>)>>
    BY <1>4 DEF Plan
  <2>2. q.names \in Seq(Snapshots)
    BY <1>4 DEF WellFormed
  <2> QED
    BY <2>1, <2>2, DeleteCourse
<1>5. CASE q.kind = "remove"
  <2>1. Plan(q, name) = ForEach(q.names, "dropMirror") \o <<Op("cleanup", <<>>), Op("erase", <<>>)>>
    BY <1>5 DEF Plan
  <2>2. q.names \in Seq(Mirrors)
    BY <1>5 DEF WellFormed
  <2> QED
    BY <2>1, <2>2, DeleteCourse
<1> QED
  BY <1>1, <1>2, <1>3, <1>4, <1>5 DEF Kinds

LEMMA Foreseen ==
    ASSUME NEW q \in RequestType, q.kind \in Kinds, NEW name
    PROVE  ExpectedSteps(q, name) \in Nat
<1>1. Len(SuiteList) \in Nat
  BY SuiteListAssumption, LenProperties
<1>2. Len(q.names) \in Nat
  BY LenProperties DEF RequestType
<1> QED
  BY <1>1, <1>2 DEF ExpectedSteps, Kinds

\* what only the worker, the process or a task may do leaves these alone
Aside == UNCHANGED <<sets, records, request, expected, minute, remade, cached, halfway>>

LEMMA TypesOfTheRest ==
    ASSUME IInv, TypeInvariant, Aside, AptlyTypeOK', strayed' \in BOOLEAN,
           \A j \in JobIds : state'[j] # "absent" <=> state[j] # "absent",
           body' \in BodyType, body' # NoBody => pc' = "body"
    PROVE  TypeInvariant'
BY DEF TypeInvariant, Aside, WellFormed

LEMMA NothingInHand == NoBody \in BodyType
<1>1. <<>> \in Seq(Operation)
  BY EmptySeq
<1> QED
  BY <1>1 DEF NoBody, BodyType, NoRow

LEMMA MovesKeepTypes ==
    ASSUME TypeInvariant, NEW place \in {"ready", "call", "wait", "done", "exists", "refused", "raise"}, Move(place),
           pc = "body" \/ place = body.at
    PROVE  /\ body' \in BodyType /\ (body' # NoBody => pc' = "body")
           /\ UNCHANGED <<state, steps, current, pc>>
           /\ UNCHANGED <<sets, records, request, expected, minute>>
<1>1. UNCHANGED vars /\ body' = [body EXCEPT !.at = place]
  BY DEF Move
<1>2. body' \in BodyType
  BY <1>1 DEF TypeInvariant, BodyType
<1>3. place = body.at => body' = body
  BY <1>1 DEF TypeInvariant, BodyType
<1> QED
  BY <1>1, <1>2, <1>3 DEF TypeInvariant, Move, vars, rows, Unchanged

LEMMA NextTyped ==
    ASSUME TypeInvariant, body.plan # <<>>
    PROVE  /\ Doing \in Operation
           /\ Doing.op \in MirrorOps => Doing.arg \in Mirrors
           /\ Doing.op \in SnapshotOps => Doing.arg \in Snapshots
           /\ Doing.arg \in Mirrors \cup Snapshots \cup {<<>>}
           /\ body.plan \in Seq(Operation) /\ Tail(body.plan) \in Seq(Operation)
<1>1. body.plan \in Seq(Operation)
  BY DEF TypeInvariant, BodyType
<1>2. Head(body.plan) \in Operation /\ Tail(body.plan) \in Seq(Operation)
  BY <1>1, HeadTailProperties
<1> QED
  BY <1>1, <1>2 DEF Doing, Operation, MirrorOps, SnapshotOps, BareOps, Stepless

LEMMA AptlyKeepsTypes ==
    ASSUME TypeInvariant
    PROVE  /\ \A m \in Mirrors : CreateMirror(m) => AptlyTypeOK'
           /\ \A s \in Snapshots : CreateSnapshot(s) \/ DeleteSnapshot(s) => AptlyTypeOK'
           /\ \A j, a : \A op \in Ops : a \in Mirrors \cup Snapshots \cup {<<>>} /\ Post(j, op, a) => AptlyTypeOK'
           /\ \A t \in tasks : EndWell(t) \/ EndBadly(t) => AptlyTypeOK'
           /\ LoseTasks => AptlyTypeOK'
<1> USE DEF TypeInvariant, AptlyTypeOK
<1>1. \A m \in Mirrors : CreateMirror(m) => AptlyTypeOK'
  BY DEF CreateMirror
<1>2. \A s \in Snapshots : CreateSnapshot(s) \/ DeleteSnapshot(s) => AptlyTypeOK'
  BY DEF CreateSnapshot, DeleteSnapshot
<1>3. \A j, a : \A op \in Ops : a \in Mirrors \cup Snapshots \cup {<<>>} /\ Post(j, op, a) => AptlyTypeOK'
  BY DEF Post
<1>4. ASSUME NEW t \in tasks, EndWell(t) PROVE AptlyTypeOK'
  <2>1. t.op = "publish" => t.arg \in Snapshots
    BY <1>4 DEF EndWell, Accepts
  <2> QED
    BY <1>4, <2>1 DEF EndWell, Mirrors, Snapshots, MirrorOf
<1>5. \A t \in tasks : EndBadly(t) => AptlyTypeOK'
  BY DEF EndBadly
<1>6. LoseTasks => AptlyTypeOK'
  BY DEF LoseTasks
<1> QED
  BY <1>1, <1>2, <1>3, <1>4, <1>5, <1>6

\* the steps of a body
LEMMA StepsKeepTypes ==
    ASSUME IInv, TypeInvariant, BodyInvariant, UNCHANGED <<cached, halfway>>,
           NextStep \/ StepDone \/ StepSkipped \/ StepRefused
    PROVE  TypeInvariant'
<1>a. /\ body \in BodyType /\ AptlyTypeOK /\ strayed \in BOOLEAN
      /\ body.plan # <<>> => Tail(body.plan) \in Seq(Operation)
  BY NextTyped DEF TypeInvariant
<1>b. At("done") \/ At("exists") => body.plan # <<>>
  BY DEF BodyInvariant, Working, InStep, At
<1>1. CASE NextStep
  <2>1. body' \in BodyType /\ pc = "body" /\ pc' = "body" /\ UNCHANGED state
    BY <1>1, <1>a DEF NextStep, At, AddStep, BodyType, process
  <2> QED
    BY <1>1, <1>a, <2>1, TypesOfTheRest DEF NextStep, Aside, Unchanged, rows, history, aptly, AptlyTypeOK
<1>2. CASE StepSkipped
  <2>1. body' \in BodyType /\ pc = "body" /\ pc' = "body" /\ UNCHANGED state
    BY <1>2, <1>a, <1>b DEF StepSkipped, At, FinishStep, BodyType, process
  <2> QED
    BY <1>2, <1>a, <2>1, TypesOfTheRest DEF StepSkipped, Aside, Unchanged, rows, history, aptly, AptlyTypeOK
<1>3. CASE StepRefused
  <2>1. body' \in BodyType /\ pc = "body" /\ pc' = "body" /\ UNCHANGED state
    BY <1>3, <1>a DEF StepRefused, At, FinishStep, BodyType, process
  <2> QED
    BY <1>3, <1>a, <2>1, TypesOfTheRest DEF StepRefused, Aside, Unchanged, rows, history, aptly, AptlyTypeOK
<1>4. CASE StepDone /\ Doing.op # "snapshot"
  <2>1. body' \in BodyType /\ pc = "body" /\ pc' = "body" /\ UNCHANGED state
    BY <1>4, <1>a, <1>b DEF StepDone, At, FinishStep, BodyType, process
  <2> QED
    BY <1>4, <1>a, <2>1, TypesOfTheRest DEF StepDone, Aside, Unchanged, rows, history, aptly, AptlyTypeOK
<1>5. CASE StepDone /\ Doing.op = "snapshot"
  <2>1. Doing.arg \in Snapshots
    BY <1>5, <1>b, NextTyped DEF StepDone, SnapshotOps
  <2> DEFINE more == body.taken \cup {Doing.arg}
  <2>2. more \subseteq Snapshots
    BY <1>a, <2>1 DEF BodyType
  <2>3. /\ body' = [body EXCEPT !.at = "ready", !.plan = Tail(body.plan), !.taken = more]
        /\ records' = [records EXCEPT ![body.record].taken = more]
        /\ ~RecordGone
    BY <1>5 DEF StepDone
  <2> HIDE DEF more
  <2>4. body' \in BodyType
    BY <1>5, <1>a, <1>b, <2>2, <2>3 DEF StepDone, BodyType
  <2>5. records' \in [RecordIds -> Record]
    BY <2>2, <2>3 DEF TypeInvariant, Record
  <2>6. \A r \in RecordIds : records'[r] # NoRecord => records'[r].set # NoRow
    BY <1>a, <2>3 DEF TypeInvariant, BodyType, Record, RecordGone, NoRow, RecordIds
  <2>7. pc = "body" /\ pc' = "body" /\ UNCHANGED state
    BY <1>5 DEF StepDone, At, FinishStep, process
  <2> QED
    BY <1>5, <2>4, <2>5, <2>6, <2>7 DEF StepDone, TypeInvariant, Unchanged, history, aptly, AptlyTypeOK, WellFormed
<1> QED
  BY <1>1, <1>2, <1>3, <1>4, <1>5

LEMMA CallsKeepTypes ==
    ASSUME IInv, TypeInvariant, BodyInvariant, UNCHANGED <<cached, halfway>>,
           \/ CallSucceeds \/ CallIsAccepted \/ CallFails \/ CallIsNotAnswered \/ ListFails
           \/ GiveUp \/ SomeTaskEnds \/ AptlyRestarts
    PROVE  TypeInvariant'
<1>a. AptlyTypeOK /\ strayed \in BOOLEAN /\ remade \subseteq Snapshots
      /\ body.at \in {"ready", "call", "wait", "done", "exists", "refused", "raise"}
  BY DEF TypeInvariant, BodyType
<1>b. At("call") => /\ Doing.op \in MirrorOps => Doing.arg \in Mirrors
                    /\ Doing.op \in SnapshotOps => Doing.arg \in Snapshots
                    /\ Doing.arg \in Mirrors \cup Snapshots \cup {<<>>}
  BY NextTyped DEF BodyInvariant, Working, InStep, At
<1>c. At("call") /\ Doing.op = "snapshot" => RemadeNow \subseteq Snapshots
  BY <1>a, <1>b DEF RemadeNow, SnapshotOps
<1>d. At("call") => RemadeNow \subseteq Snapshots
  BY <1>a, <1>c DEF RemadeNow
<1>e. ASSUME NEW place \in {"ready", "call", "wait", "done", "exists", "refused", "raise"}, Move(place),
             pc = "body" \/ place = body.at, AptlyTypeOK', strayed' \in BOOLEAN, remade' \subseteq Snapshots
      PROVE  TypeInvariant'
  <2>1. /\ body' \in BodyType /\ (body' # NoBody => pc' = "body")
        /\ UNCHANGED <<state, sets, records, request, expected, minute>>
    BY <1>e, MovesKeepTypes
  <2> QED
    BY <1>e, <2>1 DEF TypeInvariant, WellFormed
<1>f. UNCHANGED aptly => AptlyTypeOK'
  BY <1>a DEF AptlyTypeOK, aptly
<1>1. CASE CallSucceeds
  <2>1. AptlyTypeOK'
    BY <1>1, <1>b, <1>f, AptlyKeepsTypes DEF CallSucceeds, MirrorOps, SnapshotOps
  <2> QED
    BY <1>1, <1>a, <1>d, <1>e, <2>1 DEF CallSucceeds, At
<1>2. CASE CallIsAccepted
  <2>1. AptlyTypeOK'
    BY <1>2, <1>b, AptlyKeepsTypes DEF CallIsAccepted
  <2> QED
    BY <1>2, <1>a, <1>e, <2>1 DEF CallIsAccepted, At, history
<1>3. CASE CallFails
  BY <1>3, <1>a, <1>e, <1>f DEF CallFails, At, history, Failures
<1>4. CASE CallIsNotAnswered
  <2>1. AptlyTypeOK'
    BY <1>4, <1>b, AptlyKeepsTypes DEF CallIsNotAnswered, MirrorOps, SnapshotOps
  <2>2. strayed' \in BOOLEAN /\ remade' \subseteq Snapshots
    BY <1>4, <1>a, <1>d DEF CallIsNotAnswered, history
  <2> QED
    BY <1>4, <1>e, <2>1, <2>2 DEF CallIsNotAnswered, At, Failures
<1>5. CASE ListFails
  BY <1>5, <1>a, <1>e, <1>f DEF ListFails, At, history
<1>6. CASE GiveUp
  BY <1>6, <1>a, <1>e, <1>f DEF GiveUp, At
<1>7. ASSUME NEW t \in tasks, TaskEnds(t) PROVE TypeInvariant'
  <2>1. AptlyTypeOK'
    BY <1>7, AptlyKeepsTypes DEF TaskEnds
  <2> QED
    BY <1>7, <1>a, <1>e, <2>1 DEF TaskEnds, Awaited, At, history
<1>8. CASE AptlyRestarts
  <2>1. AptlyTypeOK'
    BY <1>8, AptlyKeepsTypes DEF AptlyRestarts
  <2> QED
    BY <1>8, <1>a, <1>e, <2>1 DEF AptlyRestarts, At, history
<1> QED
  BY <1>1, <1>2, <1>3, <1>4, <1>5, <1>6, <1>7, <1>8 DEF SomeTaskEnds

-----------------------------------------------------------------------------
(* Where a body is in its course: the next operation, and what is left after it. *)

LEMMA InCourse ==
    ASSUME NEW whole \in Seq(Operation), body.plan \in Seq(Operation), Ends(body.plan, whole)
    PROVE  /\ Len(whole) \in Nat /\ Finished(whole) \in 0..Len(whole)
           /\ body.plan = <<>> <=> Finished(whole) = Len(whole)
           /\ body.plan # <<>> =>
                 /\ Finished(whole) + 1 \in 1..Len(whole)
                 /\ Doing = whole[Finished(whole) + 1]
                 /\ Ends(Tail(body.plan), whole)
                 /\ Len(whole) - Len(Tail(body.plan)) = Finished(whole) + 1
                 /\ Finished(whole) + 1 = Len(whole) <=> Tail(body.plan) = <<>>
<1>1. Len(whole) \in Nat /\ Len(body.plan) \in Nat /\ Len(body.plan) <= Len(whole)
  BY LenProperties DEF Ends
<1>2. body.plan = <<>> <=> Len(body.plan) = 0
  BY EmptyPlan
<1>3. ASSUME body.plan # <<>>
      PROVE  /\ Len(body.plan) \in 1..Len(whole)
             /\ Head(body.plan) = whole[Len(whole) - Len(body.plan) + 1]
             /\ Tail(body.plan) \in Seq(Operation) /\ Ends(Tail(body.plan), whole)
             /\ Len(Tail(body.plan)) = Len(body.plan) - 1
  BY <1>3, EndsNext
<1>4. ASSUME body.plan # <<>> PROVE Tail(body.plan) = <<>> <=> Len(body.plan) = 1
  <2>1. Tail(body.plan) = <<>> <=> Len(Tail(body.plan)) = 0
    BY <1>3, <1>4, EmptyPlan
  <2> QED
    BY <1>1, <1>3, <1>4, <2>1
<1>5. Finished(whole) = Len(whole) - Len(body.plan)
  BY DEF Finished
<1> HIDE DEF Finished
<1>6. Finished(whole) \in 0..Len(whole) /\ (body.plan = <<>> <=> Finished(whole) = Len(whole))
  BY <1>1, <1>2, <1>5
<1>7. ASSUME body.plan # <<>>
      PROVE  /\ Finished(whole) + 1 \in 1..Len(whole)
             /\ Doing = whole[Finished(whole) + 1]
             /\ Len(whole) - Len(Tail(body.plan)) = Finished(whole) + 1
             /\ Finished(whole) + 1 = Len(whole) <=> Tail(body.plan) = <<>>
  <2>1. Finished(whole) + 1 = Len(whole) - Len(body.plan) + 1
    BY <1>1, <1>5
  <2>2. Doing = whole[Finished(whole) + 1]
    BY <1>3, <1>7, <2>1 DEF Doing
  <2> DEFINE w == Len(whole)
             p == Len(body.plan)
             r == Len(Tail(body.plan))
             f == Finished(whole)
  <2>3. w \in Nat /\ p \in 1..w /\ r = p - 1 /\ f = w - p
    BY <1>1, <1>3, <1>5, <1>7
  <2>4. Tail(body.plan) = <<>> <=> p = 1
    BY <1>4, <1>7
  <2> HIDE DEF w, p, r, f
  <2>5. f + 1 \in 1..w /\ w - r = f + 1 /\ (f + 1 = w <=> p = 1)
    BY <2>3
  <2> QED
    BY <2>2, <2>4, <2>5 DEF w, r, f
<1> QED
  BY <1>1, <1>3, <1>6, <1>7

\* the five courses, seen from the operation in hand
LEMMA CreateInCourse ==
    ASSUME TypeInvariant, body.name \in Names, Ends(body.plan, CreatePlan(body.name))
    PROVE  LET whole == CreatePlan(body.name)
               f == Finished(whole)
           IN  /\ whole \in Seq(Operation) /\ Len(whole) = Len(SuiteList) /\ f \in Nat
               /\ body.plan # <<>> => /\ f + 1 \in 1..Len(whole) /\ Doing = whole[f + 1]
                                      /\ Doing.op = "create"
<1> DEFINE whole == CreatePlan(body.name)
<1>1. /\ whole \in Seq(Operation) /\ Len(whole) = Len(SuiteList)
      /\ \A i \in 1..Len(SuiteList) : whole[i] = Op("create", <<body.name, InOrder[i]>>)
  BY CreateCourse
<1> HIDE DEF whole
<1>2. /\ Finished(whole) \in Nat
      /\ body.plan # <<>> => Finished(whole) + 1 \in 1..Len(whole) /\ Doing = whole[Finished(whole) + 1]
  BY <1>1, InCourse DEF TypeInvariant, BodyType, whole
<1>3. body.plan # <<>> => Doing = Op("create", <<body.name, InOrder[Finished(whole) + 1]>>)
  BY <1>1, <1>2
<1>4. body.plan # <<>> => Doing.op = "create"
  BY <1>3, OpFields
<1> QED
  BY <1>1, <1>2, <1>4 DEF whole

LEMMA UpdateInCourse ==
    ASSUME TypeInvariant, body.name \in Names, NEW stamp \in Minutes,
           Ends(body.plan, UpdatePlan(body.name, stamp)), body.plan # <<>>
    PROVE  LET whole == UpdatePlan(body.name, stamp)
               n == Len(SuiteList)
               i == Finished(whole) + 1
           IN  /\ whole \in Seq(Operation) /\ n \in Nat /\ Len(whole) = 2 * n + 1
               /\ Finished(whole) \in Nat
               /\ i \in 1..(2 * n + 1) /\ Doing = whole[i]
               /\ \/ i \in 1..n /\ Doing.op = "sync"
                  \/ /\ i - n \in 1..n /\ Doing.op = "snapshot"
                     /\ Doing.arg = <<body.name, InOrder[i - n], stamp>>
                  \/ i = 2 * n + 1 /\ Doing.op = "complete"
<1> DEFINE whole == UpdatePlan(body.name, stamp)
           n == Len(SuiteList)
           i == Finished(whole) + 1
<1>0. n \in Nat
  BY SuitesInOrder
<1>1. /\ whole \in Seq(Operation) /\ Len(whole) = 2 * n + 1
      /\ \A k \in 1..n : whole[k] = Op("sync", <<body.name, InOrder[k]>>)
      /\ \A k \in 1..n : whole[n + k] = Op("snapshot", <<body.name, InOrder[k], stamp>>)
      /\ whole[2 * n + 1] = Op("complete", <<>>)
  BY UpdateCourse
<1> HIDE DEF whole, n
<1>2. i \in 1..Len(whole) /\ Doing = whole[i] /\ Finished(whole) \in Nat
  BY <1>1, InCourse DEF TypeInvariant, BodyType, whole
<1> HIDE DEF i
<1>3. i \in 1..n \/ (i - n \in 1..n /\ i = n + (i - n)) \/ i = 2 * n + 1
  BY <1>0, <1>1, <1>2
<1>4. \/ i \in 1..n /\ Doing = Op("sync", <<body.name, InOrder[i]>>)
      \/ i - n \in 1..n /\ Doing = Op("snapshot", <<body.name, InOrder[i - n], stamp>>)
      \/ i = 2 * n + 1 /\ Doing = Op("complete", <<>>)
  BY <1>1, <1>2, <1>3
<1>5. \/ i \in 1..n /\ Doing.op = "sync"
      \/ /\ i - n \in 1..n /\ Doing.op = "snapshot"
         /\ Doing.arg = <<body.name, InOrder[i - n], stamp>>
      \/ i = 2 * n + 1 /\ Doing.op = "complete"
  BY <1>4, OpFields
<1> QED
  BY <1>0, <1>1, <1>2, <1>5 DEF whole, n, i

LEMMA SwitchInCourse ==
    ASSUME TypeInvariant, body.name \in Names, Covers(body.taken, body.name),
           Ends(body.plan, SwitchPlan(body.name, body.taken)), body.plan # <<>>
    PROVE  LET whole == SwitchPlan(body.name, body.taken)
               n == Len(SuiteList)
               i == Finished(whole) + 1
           IN  /\ whole \in Seq(Operation) /\ n \in Nat
               /\ Finished(whole) \in Nat /\ Len(whole) \in Nat
               /\ i \in 1..Len(whole) /\ Doing = whole[i]
               /\ \/ /\ i \in 1..n /\ Doing.op = "publish" /\ Doing.arg \in body.taken
                     /\ MirrorOf(Doing.arg) = <<body.name, InOrder[i]>>
                  \/ i > n /\ Doing.op \in {"verify", "client"}
<1> DEFINE whole == SwitchPlan(body.name, body.taken)
           n == Len(SuiteList)
           i == Finished(whole) + 1
<1>0. n \in Nat /\ body.taken \in SUBSET Snapshots
  BY SuitesInOrder DEF TypeInvariant, BodyType
<1>1. /\ whole \in Seq(Operation)
      /\ \A k \in 1..n : /\ whole[k].op = "publish"
                         /\ whole[k].arg \in body.taken
                         /\ MirrorOf(whole[k].arg) = <<body.name, InOrder[k]>>
      /\ \A k \in (n + 1)..Len(whole) : whole[k].op \in {"verify", "client"}
  BY <1>0, SwitchCourse
<1> HIDE DEF whole, n
<1>2. i \in 1..Len(whole) /\ Doing = whole[i] /\ Len(whole) \in Nat /\ Finished(whole) \in Nat
  BY <1>1, InCourse DEF TypeInvariant, BodyType, whole
<1> HIDE DEF i
<1>3. i \in 1..n \/ (i \in (n + 1)..Len(whole) /\ i > n)
  BY <1>0, <1>2
<1> QED
  BY <1>0, <1>1, <1>2, <1>3 DEF whole, n, i

LEMMA DeleteInCourse ==
    ASSUME TypeInvariant, Kind \in {"discard", "remove"}, current \in JobIds,
           Ends(body.plan, Plan(request[current], body.name)), body.plan # <<>>
    PROVE  LET whole == Plan(request[current], body.name)
               names == request[current].names
               m == Len(names)
               i == Finished(whole) + 1
           IN  /\ whole \in Seq(Operation) /\ m \in Nat /\ Len(whole) = m + 2
               /\ Finished(whole) \in Nat
               /\ i \in 1..(m + 2) /\ Doing = whole[i]
               /\ \A k \in 1..m : /\ whole[k].op = IF Kind = "discard" THEN "delete" ELSE "dropMirror"
                                  /\ whole[k].arg = names[k]
               /\ \/ i \in 1..m
                  \/ i = m + 1 /\ Doing.op = "cleanup"
                  \/ i = m + 2 /\ Doing.op = "erase"
<1> DEFINE q == request[current]
           whole == Plan(q, body.name)
           m == Len(q.names)
           i == Finished(whole) + 1
           op == IF Kind = "discard" THEN "delete" ELSE "dropMirror"
<1>0. /\ \/ op = "delete" /\ q.names \in Seq(Snapshots)
         \/ op = "dropMirror" /\ q.names \in Seq(Mirrors)
      /\ whole = ForEach(q.names, op) \o <<Op("cleanup", <<>>), Op("erase", <<>>)>>
  BY DEF TypeInvariant, WellFormed, Kind, Plan
<1> HIDE DEF op
<1>1. /\ m \in Nat
      /\ whole \in Seq(Operation) /\ Len(whole) = m + 2
      /\ \A k \in 1..m : whole[k] = Op(op, q.names[k])
      /\ whole[m + 1] = Op("cleanup", <<>>)
      /\ whole[m + 2] = Op("erase", <<>>)
  BY <1>0, DeleteCourse
<1> HIDE DEF whole, m
<1>2. i \in 1..Len(whole) /\ Doing = whole[i] /\ Finished(whole) \in Nat
  BY <1>1, InCourse DEF TypeInvariant, BodyType, whole
<1> HIDE DEF i
<1>3. i \in 1..m \/ i = m + 1 \/ i = m + 2
  BY <1>1, <1>2
<1>4. i = m + 1 => Doing.op = "cleanup"
  BY <1>1, <1>2, OpFields
<1>5. i = m + 2 => Doing.op = "erase"
  BY <1>1, <1>2, OpFields
<1>6. \A k \in 1..m : whole[k].op = op /\ whole[k].arg = q.names[k]
  BY <1>1, OpFields
<1> QED
  BY <1>1, <1>2, <1>3, <1>4, <1>5, <1>6 DEF whole, m, i, op

\* the plan of each kind of job, as it begins, and the operations it is made of
LEMMA Beginnings ==
    /\ \A op \in BareOps : body.plan = <<Op(op, <<>>)>> => Doing.op = op /\ Tail(body.plan) = <<>>
    /\ body.plan = <<Op("preflight", <<>>), Op("record", <<>>)>> =>
          Doing.op = "preflight" /\ Tail(body.plan) = <<Op("record", <<>>)>>
<1>1. ASSUME NEW op \in BareOps, body.plan = <<Op(op, <<>>)>>
      PROVE  Doing.op = op /\ Tail(body.plan) = <<>>
  <2>1. Doing = Op(op, <<>>) /\ Tail(body.plan) = <<>>
    BY <1>1 DEF Doing
  <2> QED
    BY <2>1, OpFields
<1>2. ASSUME body.plan = <<Op("preflight", <<>>), Op("record", <<>>)>>
      PROVE  Doing.op = "preflight" /\ Tail(body.plan) = <<Op("record", <<>>)>>
  <2>1. Doing = Op("preflight", <<>>) /\ Tail(body.plan) = <<Op("record", <<>>)>>
    BY <1>2 DEF Doing
  <2> QED
    BY <2>1, OpFields
<1> QED
  BY <1>1, <1>2

LEMMA WhoseOperation ==
    ASSUME IInv, TypeInvariant, BodyInvariant, Working, body.plan # <<>>
    PROVE  /\ current \in JobIds /\ state[current] = "running" /\ Kind \in Kinds
           /\ Kind = "create" => body.name \in Names /\ Doing.op \in {"list", "create"}
           /\ Kind = "update" => /\ body.name \in Names
                                 /\ Doing.op \in {"preflight", "record", "sync", "snapshot", "complete"}
           /\ Kind = "switch" => /\ body.name \in Names
                                 /\ Doing.op \in {"target", "publish", "verify", "client"}
           /\ Kind = "discard" => Doing.op \in {"delete", "cleanup", "erase"}
           /\ Kind = "remove" => Doing.op \in {"dropMirror", "cleanup", "erase"}
<1>1. current \in JobIds /\ state[current] = "running"
  BY InHand DEF Working
<1>2. Kind \in Kinds
  BY <1>1 DEF TypeInvariant, Kind
<1>3. CASE Kind = "create"
  <2>1. body.name \in Names /\ (\/ body.plan = <<Op("list", <<>>)>>
                               \/ Ends(body.plan, CreatePlan(body.name)))
    BY <1>3 DEF BodyInvariant, CreateBody, CreateAt
  <2>2. "list" \in BareOps
    BY DEF BareOps, Stepless
  <2> QED
    BY <1>1, <1>2, <1>3, <2>1, <2>2, Beginnings, CreateInCourse
<1>4. CASE Kind = "update"
  <2>1. /\ body.name \in Names
        /\ \/ body.plan = <<Op("preflight", <<>>), Op("record", <<>>)>>
           \/ body.plan = <<Op("record", <<>>)>>
           \/ \E stamp \in Minutes : Ends(body.plan, UpdatePlan(body.name, stamp))
    BY <1>4 DEF BodyInvariant, UpdateBody, UpdateAt
  <2>2. "record" \in BareOps
    BY DEF BareOps, Stepless
  <2>3. ASSUME NEW stamp \in Minutes, Ends(body.plan, UpdatePlan(body.name, stamp))
        PROVE  Doing.op \in {"sync", "snapshot", "complete"}
    BY <2>1, <2>3, UpdateInCourse
  <2> QED
    BY <1>1, <1>2, <1>4, <2>1, <2>2, <2>3, Beginnings
<1>5. CASE Kind = "switch"
  <2>1. /\ body.name \in Names
        /\ \/ body.plan = <<Op("target", <<>>)>>
           \/ Ends(body.plan, SwitchPlan(body.name, body.taken)) /\ Covers(body.taken, body.name)
    BY <1>5 DEF BodyInvariant, SwitchBody, SwitchAt
  <2>2. "target" \in BareOps
    BY DEF BareOps, Stepless
  <2> QED
    BY <1>1, <1>2, <1>5, <2>1, <2>2, Beginnings, SwitchInCourse
<1>6. CASE Kind \in {"discard", "remove"}
  <2>1. Ends(body.plan, Plan(request[current], body.name))
    BY <1>6 DEF BodyInvariant, DeleteBody
  <2> QED
    BY <1>1, <1>2, <1>6, <2>1, DeleteInCourse
<1> QED
  BY <1>1, <1>2, <1>3, <1>4, <1>5, <1>6 DEF Kinds

\* what it does to rows
LEMMA RowsKeepTypes ==
    ASSUME IInv, TypeInvariant, BodyInvariant, UNCHANGED <<cached, halfway>>,
           ListMirrors \/ RecordSnapshotSet \/ CompleteSnapshotSet \/ ReadTarget \/ EraseRow
    PROVE  TypeInvariant'
<1>a. /\ body \in BodyType /\ AptlyTypeOK /\ NoRecord \in Record
      /\ records \in [RecordIds -> Record] /\ sets \in [SetIds -> Names \cup {NoName}]
      /\ \A r \in RecordIds : records[r] # NoRecord => records[r].set # NoRow
      /\ current \in JobIds => request[current] \in RequestType
      /\ body.plan # <<>> => Tail(body.plan) \in Seq(Operation)
  BY NextTyped DEF TypeInvariant, NoRecord, Record
<1>b. At("ready") => Working
  BY DEF At, Working
<1>c. ASSUME body' \in BodyType, pc = "body", UNCHANGED <<vars, aptly, request, expected, history>>,
             minute' \in Minutes, sets' \in [SetIds -> Names \cup {NoName}],
             records' \in [RecordIds -> Record],
             \A r \in RecordIds : records'[r] # NoRecord => records'[r].set # NoRow
      PROVE  TypeInvariant'
  BY <1>c DEF TypeInvariant, AptlyTypeOK, aptly, vars, history, WellFormed
<1>1. CASE ListMirrors
  <2>1. Working /\ body.plan # <<>> /\ Doing.op = "list"
    BY <1>1, <1>b DEF ListMirrors
  <2>2. body.name \in Names
    BY <2>1, WhoseOperation DEF Kinds
  <2>3. CreatePlan(body.name) \in Seq(Operation) /\ mirrors \subseteq Mirrors
    BY <2>2, CreateCourse DEF TypeInvariant, AptlyTypeOK
  <2>4. body' \in BodyType
    BY <1>1, <1>a, <2>3 DEF ListMirrors, BodyType
  <2> QED
    BY <1>1, <1>a, <1>c, <2>4 DEF ListMirrors, At, rows, Unchanged, TypeInvariant
<1>2. CASE RecordSnapshotSet
  <2>1. Working /\ body.plan # <<>> /\ Doing.op = "record"
    BY <1>2, <1>b DEF RecordSnapshotSet
  <2>2. body.name \in Names /\ Kind = "update" /\ current \in JobIds
    BY <2>1, WhoseOperation DEF Kinds
  <2>3. minute' \in Minutes /\ UpdatePlan(body.name, minute') \in Seq(Operation)
    BY <1>2, <2>2, UpdateCourse DEF RecordSnapshotSet
  <2>4. body' \in BodyType
    BY <1>2, <1>a, <2>3 DEF RecordSnapshotSet, BodyType
  <2>5. [set |-> request[current].set, taken |-> {}, complete |-> FALSE] \in Record
        /\ request[current].set # NoRow
    BY <1>a, <2>2 DEF RequestType, Record, TypeInvariant, WellFormed, Kind
  <2> QED
    BY <1>2, <1>a, <1>c, <2>3, <2>4, <2>5 DEF RecordSnapshotSet, At, rows
<1>3. CASE CompleteSnapshotSet
  <2>1. body' \in BodyType
    BY <1>3, <1>a DEF CompleteSnapshotSet, BodyType
  <2>2. records' = [records EXCEPT ![body.record].complete = TRUE] /\ ~RecordGone
    BY <1>3 DEF CompleteSnapshotSet
  <2>3. records' \in [RecordIds -> Record]
    BY <1>a, <2>2 DEF Record
  <2>4. \A r \in RecordIds : records'[r] # NoRecord => records'[r].set # NoRow
    BY <1>a, <2>2 DEF BodyType, Record, RecordGone, NoRow, RecordIds
  <2> QED
    BY <1>3, <1>a, <1>c, <2>1, <2>3, <2>4 DEF CompleteSnapshotSet, At, Unchanged, TypeInvariant
<1>4. CASE ReadTarget
  <2>1. Working /\ body.plan # <<>> /\ Doing.op = "target"
    BY <1>4, <1>b DEF ReadTarget
  <2>2. body.name \in Names /\ Kind = "switch" /\ current \in JobIds
    BY <2>1, WhoseOperation DEF Kinds
  <2>3. request[current].record \in RecordIds
    BY <1>a, <2>2 DEF RequestType, TypeInvariant, WellFormed, Kind
  <2>4. CASE Publishable(records[request[current].record], request[current], body.name)
    <3> DEFINE taken == records[request[current].record].taken
    <3>1. taken \in SUBSET Snapshots
      BY <1>a, <2>3 DEF Record
    <3>2. Covers(taken, body.name)
      BY <2>4 DEF Publishable, Covers
    <3>3. body' = [body EXCEPT !.taken = taken, !.plan = SwitchPlan(body.name, taken)]
      BY <1>4, <2>4 DEF ReadTarget
    <3> HIDE DEF taken
    <3>4. SwitchPlan(body.name, taken) \in Seq(Operation)
      BY <2>2, <3>1, <3>2, SwitchCourse
    <3>5. body' \in BodyType
      BY <1>a, <3>1, <3>3, <3>4 DEF BodyType
    <3> QED
      BY <1>4, <1>a, <1>c, <3>5 DEF ReadTarget, At, rows, Unchanged, TypeInvariant
  <2>5. CASE ~Publishable(records[request[current].record], request[current], body.name)
    <3>1. body' \in BodyType
      BY <1>4, <1>a, <2>5 DEF ReadTarget, BodyType
    <3> QED
      BY <1>4, <1>a, <1>c, <3>1 DEF ReadTarget, At, rows, Unchanged, TypeInvariant
  <2> QED
    BY <2>4, <2>5
<1>5. CASE EraseRow
  <2>1. body' \in BodyType
    BY <1>5, <1>a DEF EraseRow, BodyType
  <2>2. /\ records' \in [RecordIds -> Record] /\ sets' \in [SetIds -> Names \cup {NoName}]
        /\ \A r \in RecordIds : records'[r] # NoRecord => records'[r].set # NoRow
    BY <1>5, <1>a DEF EraseRow, WithoutSet, rows
  <2> QED
    BY <1>5, <1>a, <1>c, <2>1, <2>2 DEF EraseRow, At, Unchanged, TypeInvariant
<1> QED
  BY <1>1, <1>2, <1>3, <1>4, <1>5

LEMMA WorkerKeepsTypes ==
    ASSUME IInv, TypeInvariant, UNCHANGED <<cached, halfway>>,
           \/ DropJob \/ BeginJob \/ Enqueued
           \/ (Get \/ FailRunningSteps \/ Close \/ Start) /\ Elsewhere
    PROVE  TypeInvariant'
<1>a. /\ AptlyTypeOK /\ strayed \in BOOLEAN /\ body \in BodyType
      /\ body # NoBody => pc = "body"
      /\ state \in [JobIds -> JobState \cup {"absent"}]
  BY InHand DEF TypeInvariant
<1>1. CASE DropJob
  <2>1. UNCHANGED state /\ body' = body /\ body = NoBody
    BY <1>1, <1>a DEF DropJob, Drop, database
  <2> QED
    BY <1>1, <1>a, <2>1, TypesOfTheRest DEF DropJob, Aside, Unchanged, rows, history, aptly, AptlyTypeOK
<1>2. CASE BeginJob
  <2> DEFINE q == request[current]
             name == SetName(q.set)
  <2>1. current \in JobIds /\ state[current] = "queued" /\ q \in RequestType
        /\ q.kind \in Kinds /\ WellFormed(q)
    BY <1>2, InHand DEF BeginJob, TypeInvariant
  <2>2. name \in Names \cup {NoName} /\ Plan(q, name) \in Seq(Operation) /\ ExpectedSteps(q, name) \in Nat
    BY <2>1, PlanTyped, Foreseen DEF SetName, TypeInvariant, RequestType
  <2>3. body' \in BodyType /\ pc' = "body"
    BY <1>2, <2>2, NothingInHand DEF BeginJob, Begin, BodyType
  <2>4. \A j \in JobIds : state'[j] # "absent" <=> state[j] # "absent"
    BY <1>2, <1>a, <2>1 DEF BeginJob, Begin
  <2>5. expected' \in [JobIds -> Nat]
    BY <1>2, <2>2 DEF BeginJob, TypeInvariant
  <2> QED
    BY <1>2, <2>3, <2>4, <2>5 DEF BeginJob, TypeInvariant, Unchanged, rows, history, aptly, AptlyTypeOK, WellFormed
<1>3. CASE Enqueued
  <2>1. UNCHANGED <<state, pc>> /\ Elsewhere
    BY <1>3 DEF Enqueued, Put, RefreshFails, database
  <2> QED
    BY <1>a, <2>1, TypesOfTheRest DEF Elsewhere, Aside, Unchanged, rows, history, aptly, AptlyTypeOK
<1>4. CASE (Get \/ FailRunningSteps \/ Close \/ Start) /\ Elsewhere
  <2>1. \A j \in JobIds : state'[j] # "absent" <=> state[j] # "absent"
    <3>1. pc = "failing" => state[current] = "running"
      BY DEF IInv, TypeInv
    <3> QED
      BY <1>4, <1>a, <3>1 DEF Get, FailRunningSteps, Close, Start, database
  <2>2. body' # NoBody => pc' = "body"
    <3>1. pc # "body"
      <4>1. CASE Start
        <5>1. ~up /\ TypeInv
          BY <4>1 DEF Start, IInv
        <5> QED
          BY <5>1 DEF TypeInv, ProcessInv
      <4> QED
        BY <1>4, <4>1 DEF Get, FailRunningSteps, Close
    <3> QED
      BY <1>4, <1>a, <3>1 DEF Elsewhere
  <2> QED
    BY <1>4, <1>a, <2>1, <2>2, TypesOfTheRest DEF Elsewhere, Aside, Unchanged, rows, history, aptly, AptlyTypeOK
<1> QED
  BY <1>1, <1>2, <1>3, <1>4

LEMMA EndsKeepTypes ==
    ASSUME IInv, TypeInvariant,
           \/ (CommitFails \/ BodyReturns \/ BodyRaises) /\ UNCHANGED <<cached, halfway>>
           \/ Ending
    PROVE  TypeInvariant'
<1>a. AptlyTypeOK /\ strayed \in BOOLEAN /\ state \in [JobIds -> JobState \cup {"absent"}]
  BY InHand DEF TypeInvariant
<1>b. AptlyTypeOK' /\ body' = NoBody
  BY <1>a DEF CommitFails, BodyReturns, BodyRaises, Ending, ProcessEnds, aptly, AptlyTypeOK
<1>c. \A j \in JobIds : state'[j] # "absent" <=> state[j] # "absent"
  <2>1. CASE BodyReturns
    BY <2>1, <1>a, InHand DEF BodyReturns, Succeed
  <2>2. CASE ~BodyReturns
    BY <2>2 DEF CommitFails, BodyRaises, Ending, ProcessEnds, Abandon, Raise, Crash, Cancel, database
  <2> QED
    BY <2>1, <2>2
<1>1. CASE (CommitFails \/ BodyReturns \/ BodyRaises) /\ UNCHANGED <<cached, halfway>>
  <2>1. Aside /\ UNCHANGED strayed
    BY <1>1 DEF CommitFails, BodyReturns, BodyRaises, Aside, Unchanged, rows, history
  <2> QED
    BY <1>a, <1>b, <1>c, <2>1, NothingInHand, TypesOfTheRest
<1>2. CASE Ending
  <2>1. EmptyView \in View
    BY DEF EmptyView, View
  <2>2. UNCHANGED <<sets, records, request, expected, minute, remade>> /\ strayed' \in BOOLEAN
        /\ cached' = EmptyView /\ halfway' = {}
    BY <1>2, <1>a DEF Ending, ProcessEnds, rows, Unchanged
  <2> QED
    BY <1>b, <1>c, <2>1, <2>2, NothingInHand DEF TypeInvariant, WellFormed
<1> QED
  BY <1>1, <1>2

LEMMA TypesAreKept ==
    ASSUME IInv, TypeInvariant, BodyInvariant, RecordsInvariant, [WorkflowNext]_everything
    PROVE  TypeInvariant'
<1>1. CASE Requests
  BY <1>1, RequestsStayInFrame, RequestsKeepTypes
<1>2. CASE Enqueued
  BY <1>2, WorkerKeepsTypes DEF Enqueued
<1>3. CASE Background
  BY <1>3, WorkerKeepsTypes, StepsKeepTypes, CallsKeepTypes, RowsKeepTypes, EndsKeepTypes
     DEF Background, Server
<1>4. CASE Ending
  BY <1>4, EndsKeepTypes
<1>5. CASE UNCHANGED everything
  BY <1>5 DEF TypeInvariant, AptlyTypeOK, everything, aptly, rows, history, vars, WellFormed
<1> QED
  BY <1>1, <1>2, <1>3, <1>4, <1>5 DEF WorkflowNext

-----------------------------------------------------------------------------
(* The tasks. *)

\* a job that has begun is never again one that has not
GoesOn == \A j \in JobIds : state[j] \notin {"absent", "queued"} => state'[j] \notin {"absent", "queued"}

LEMMA JobsGoOn ==
    ASSUME IInv, [Next]_vars PROVE GoesOn
<1> USE InHand DEF GoesOn
<1>a. pc \in {"body", "failing"} => state[current] = "running"
  BY DEF IInv, TypeInv
<1>1. ASSUME NEW j \in JobIds, Insert(j) PROVE GoesOn
  BY <1>1 DEF Insert
<1>2. ASSUME NEW j \in JobIds, Put(j) PROVE GoesOn
  BY <1>2 DEF Put, database
<1>6. ASSUME NEW j \in JobIds, RefreshFails(j) PROVE GoesOn
  BY <1>6 DEF RefreshFails, database
<1>3. CASE Worker
  BY <1>3, <1>a DEF Worker, Body, Get, Drop, Begin, AddStep, FinishStep, Succeed, Raise, Abandon,
               FailRunningSteps, Close, Release, database
<1>4. CASE Crash \/ Cancel \/ Start
  BY <1>4 DEF Crash, Cancel, Start, Die, database
<1>5. CASE UNCHANGED vars
  BY <1>5 DEF vars
<1> QED
  BY <1>1, <1>2, <1>3, <1>4, <1>5, <1>6 DEF Next

LEMMA WhoseTasks ==
    ASSUME IInv, TaskInvariant
    PROVE  /\ Working /\ body.at # "wait" => \A t \in tasks : t.job # current
           /\ ~strayed /\ ~(Working /\ body.at = "wait") => tasks = {}
           /\ At("wait") => \A t \in tasks : t.job = current =>
                               t = [job |-> current, op |-> Doing.op, arg |-> Doing.arg]
<1>1. At("wait") => Working
  BY DEF At, Working
<1>2. ASSUME At("wait"), NEW t \in tasks, t.job = current
      PROVE  t = [job |-> current, op |-> Doing.op, arg |-> Doing.arg]
  <2>1. t.op = Doing.op /\ t.arg = Doing.arg /\ t \in Task
    BY <1>1, <1>2 DEF TaskInvariant
  <2> QED
    BY <1>2, <2>1 DEF Task
<1>3. Working /\ body.at # "wait" => \A t \in tasks : t.job # current
  BY DEF TaskInvariant
<1>4. ~strayed /\ ~(Working /\ body.at = "wait") => tasks = {}
  BY <1>3 DEF TaskInvariant
<1> QED
  BY <1>2, <1>3, <1>4

\* nobody asks aptly for anything
LEMMA NoTaskIsMade ==
    ASSUME TaskInvariant, GoesOn, tasks' \subseteq tasks,
           Working' => \A t \in tasks' : t.job # current',
           strayed' \/ tasks' = {}
    PROVE  TaskInvariant'
BY DEF TaskInvariant, GoesOn, Task

LEMMA TasksAreKept ==
    ASSUME IInv, TypeInvariant, BodyInvariant, TaskInvariant, [WorkflowNext]_everything, [Next]_vars,
           RecordsInvariant
    PROVE  TaskInvariant'
<1>a. GoesOn /\ strayed \in BOOLEAN
  BY JobsGoOn DEF TypeInvariant
<1>b. /\ Working /\ body.at # "wait" => \A t \in tasks : t.job # current
      /\ ~strayed /\ ~(Working /\ body.at = "wait") => tasks = {}
      /\ At("wait") => \A t \in tasks : t.job = current =>
                          t = [job |-> current, op |-> Doing.op, arg |-> Doing.arg]
  BY WhoseTasks
<1>c. ASSUME UNCHANGED <<tasks, strayed, body, current, pc>> PROVE TaskInvariant'
  BY <1>a, <1>c DEF TaskInvariant, GoesOn, Task, Working, Doing
<1>1. CASE Requests
  <2>1. UNCHANGED <<tasks, strayed, body, current, pc>>
    BY <1>1, RequestsStayInFrame DEF RequestFrame, aptly, history
  <2> QED
    BY <1>c, <2>1
<1>2. CASE Enqueued
  BY <1>2, <1>c DEF Enqueued, Put, RefreshFails, Elsewhere, aptly, history
\* the worker is at no wait before, and has no task after
<1>d. ASSUME UNCHANGED <<tasks, strayed>>, ~(Working /\ body.at = "wait"),
             Working' => current' = current /\ (Working \/ \A t \in tasks : t.job # current)
      PROVE  TaskInvariant'
  <2>1. Working' => \A t \in tasks' : t.job # current'
    BY <1>b, <1>d
  <2> QED
    BY <1>a, <1>b, <1>d, <2>1, NoTaskIsMade
<1>3. CASE DropJob \/ ((Get \/ FailRunningSteps \/ Close \/ Start) /\ Elsewhere)
  <2>1. UNCHANGED <<tasks, strayed>> /\ ~Working'
    BY <1>3 DEF DropJob, Drop, Release, Get, FailRunningSteps, Close, Start, Elsewhere, aptly, history, Working
  <2>2. ~Working
    <3>1. pc # "body"
      <4>1. CASE Start
        <5>1. ~up /\ TypeInv
          BY <4>1 DEF Start, IInv
        <5> QED
          BY <5>1 DEF TypeInv, ProcessInv
      <4> QED
        BY <1>3, <4>1 DEF DropJob, Get, FailRunningSteps, Close
    <3> QED
      BY <3>1 DEF Working
  <2> QED
    BY <1>d, <2>1, <2>2
<1>4. CASE BeginJob
  <2>1. UNCHANGED <<tasks, strayed, current>> /\ ~Working
    BY <1>4 DEF BeginJob, Begin, aptly, history, Working
  <2>2. state[current] = "queued"
    BY <1>4, InHand DEF BeginJob
  <2>3. \A t \in tasks : t.job # current
    BY <2>2 DEF TaskInvariant
  <2> QED
    BY <1>d, <2>1, <2>3
<1>5. CASE \/ NextStep \/ ListMirrors \/ ListFails \/ CallFails \/ StepDone \/ StepSkipped
           \/ RecordSnapshotSet \/ CompleteSnapshotSet \/ ReadTarget \/ EraseRow
  <2>1. Working /\ body.at # "wait" /\ UNCHANGED <<tasks, strayed, current>>
    BY <1>5 DEF NextStep, ListMirrors, ListFails, CallFails, StepDone, StepSkipped, RecordSnapshotSet,
                CompleteSnapshotSet, ReadTarget, EraseRow, AddStep, FinishStep, Move, At, Working,
                aptly, history, process, vars
  <2> QED
    BY <1>d, <2>1
<1>6. CASE StepRefused
  <2>1. ~Working /\ ~Working' /\ UNCHANGED <<tasks, strayed, current>>
    BY <1>6 DEF StepRefused, FinishStep, At, Working, aptly, history, process, TypeInvariant, BodyType
  <2> QED
    BY <1>d, <2>1
<1>7. CASE CommitFails \/ BodyReturns \/ BodyRaises
  <2>1. body.at # "wait" /\ ~Working' /\ UNCHANGED <<tasks, strayed>>
    BY <1>7 DEF CommitFails, BodyReturns, BodyRaises, Abandon, Succeed, Raise, Release, At, Working,
                aptly, history
  <2> QED
    BY <1>d, <2>1
<1>8. CASE Ending
  <2>1. UNCHANGED tasks /\ ~Working' /\ strayed' = (strayed \/ tasks # {})
    BY <1>8 DEF Ending, ProcessEnds, Crash, Cancel, Die, Working, aptly
  <2> QED
    BY <1>a, <2>1, NoTaskIsMade
<1>9. CASE CallSucceeds
  <2>1. Working /\ body.at = "call" /\ UNCHANGED <<tasks, strayed, current>>
    BY <1>9 DEF CallSucceeds, CreateMirror, CreateSnapshot, DeleteSnapshot, Move, At, Working, aptly, vars
  <2> QED
    BY <1>d, <2>1
<1>10. CASE CallIsAccepted
  <2> DEFINE t == [job |-> current, op |-> Doing.op, arg |-> Doing.arg]
  <2>1. /\ Working /\ body.at = "call" /\ UNCHANGED <<strayed, current, pc, state>>
        /\ tasks' = tasks \cup {t} /\ Doing.op \in Ops
        /\ body' = [body EXCEPT !.at = "wait"]
    BY <1>10 DEF CallIsAccepted, Post, Move, At, Working, history, vars
  <2>2. current \in JobIds /\ state[current] = "running"
    BY <2>1, InHand DEF Working
  <2>3. body.plan # <<>> /\ body \in BodyType
    BY <2>1 DEF BodyInvariant, InStep, TypeInvariant
  <2>4. t \in Task
    BY <2>1, <2>2, <2>3, NextTyped DEF Task
  <2>5. Working' /\ body'.at = "wait" /\ Doing' = Doing
    BY <2>1, <2>3 DEF Working, BodyType, Doing
  <2>6. \A x \in tasks' : x.job = current' => x = t
    BY <1>b, <2>1
  <2>7. ~strayed' => \A x \in tasks' : x = t
    BY <1>b, <2>1
  <2> QED
    BY <2>1, <2>2, <2>4, <2>5, <2>6, <2>7 DEF TaskInvariant
<1>11. CASE CallIsNotAnswered
  <2>1. Working /\ body.at = "call" /\ ~Working' /\ UNCHANGED <<current, pc, state>>
    BY <1>11 DEF CallIsNotAnswered, Failures, Move, At, Working, vars, TypeInvariant, BodyType
  <2>2. CASE UNCHANGED <<tasks, strayed>>
    BY <1>d, <2>1, <2>2
  <2>3. CASE ~UNCHANGED <<tasks, strayed>>
    <3> DEFINE t == [job |-> current, op |-> Doing.op, arg |-> Doing.arg]
    <3>1. tasks' = tasks \cup {t} /\ Doing.op \in Ops /\ strayed' = TRUE
      BY <1>11, <2>3 DEF CallIsNotAnswered, CreateMirror, CreateSnapshot, DeleteSnapshot, Post, history
    <3>2. current \in JobIds /\ state[current] = "running"
      BY <2>1, InHand DEF Working
    <3>3. body.plan # <<>>
      BY <2>1 DEF BodyInvariant, InStep
    <3>4. t \in Task
      BY <3>1, <3>2, <3>3, NextTyped DEF Task
    <3> QED
      BY <2>1, <3>1, <3>2, <3>4 DEF TaskInvariant
  <2> QED
    BY <2>2, <2>3
<1>12. CASE GiveUp
  <2>1. ~Working' /\ UNCHANGED tasks /\ strayed' = TRUE
    BY <1>12 DEF GiveUp, Move, Working, aptly, TypeInvariant, BodyType
  <2> QED
    BY <1>a, <2>1, NoTaskIsMade
<1>13. CASE AptlyRestarts
  <2>1. tasks' = {}
    BY <1>13 DEF AptlyRestarts, LoseTasks
  <2> QED
    BY <1>a, <2>1, NoTaskIsMade
<1>14. ASSUME NEW t \in tasks, TaskEnds(t) PROVE TaskInvariant'
  <2>1. tasks' = tasks \ {t} /\ UNCHANGED <<strayed, current, pc>>
    BY <1>14 DEF TaskEnds, EndWell, EndBadly, Move, history, vars
  <2>2. CASE Awaited(t)
    <3>1. At("wait") /\ t.job = current
      BY <2>2 DEF Awaited
    <3>2. \A x \in tasks' : x.job # current
      BY <1>b, <2>1, <3>1
    <3>3. strayed' \/ tasks' = {}
      BY <1>a, <2>1, <3>2 DEF TaskInvariant
    <3> QED
      BY <1>a, <2>1, <3>2, <3>3, NoTaskIsMade
  <2>3. CASE ~Awaited(t)
    <3>1. body' = body
      BY <1>14, <2>3 DEF TaskEnds, Move, TypeInvariant, BodyType
    <3>2. strayed
      BY <2>3 DEF TaskInvariant, Awaited, At, Working
    <3> QED
      BY <1>a, <2>1, <3>1, <3>2 DEF TaskInvariant, GoesOn, Task, Working, Doing
  <2> QED
    BY <2>2, <2>3
<1>15. CASE UNCHANGED everything
  BY <1>15, <1>c DEF everything, aptly, history, vars
<1>16. CASE Background
  <2>1. CASE Server
    BY <2>1, <1>3, <1>4, <1>5, <1>6, <1>7, <1>9, <1>10, <1>11 DEF Server
  <2>2. CASE SomeTaskEnds
    BY <2>2, <1>14 DEF SomeTaskEnds
  <2> QED
    BY <1>16, <2>1, <2>2, <1>3, <1>12, <1>13 DEF Background
<1> QED
  BY <1>1, <1>2, <1>8, <1>15, <1>16 DEF WorkflowNext

LEMMA UpdateHasItsRow ==
    ASSUME IInv, TypeInvariant, BodyInvariant, Working, body.plan # <<>>,
           Doing.op \in {"sync", "snapshot", "complete"}
    PROVE  /\ Kind = "update" /\ body.name \in Names /\ request[current].set # NoRow
           /\ \E stamp \in Minutes : UpdateAt(stamp)
<1>1. Kind = "update" /\ body.name \in Names
  BY WhoseOperation DEF Kinds
<1>2. "record" \in BareOps
  BY DEF BareOps, Stepless
<1>3. /\ body.plan # <<Op("preflight", <<>>), Op("record", <<>>)>>
      /\ body.plan # <<Op("record", <<>>)>>
  BY <1>2, Beginnings
<1>4. UpdateBody
  BY <1>1 DEF BodyInvariant
<1>5. request[current].set # NoRow /\ \E stamp \in Minutes : UpdateAt(stamp)
  BY <1>3, <1>4 DEF UpdateBody, UpdateAt
<1> QED
  BY <1>1, <1>5

\* a discard that is at one of its snapshots
LEMMA DiscardHasBegun ==
    ASSUME IInv, TypeInvariant, BodyInvariant, Working, body.plan # <<>>, Doing.op = "delete"
    PROVE  Discarded(Doing.arg)
<1>1. Kind = "discard" /\ current \in JobIds /\ state[current] = "running"
  BY WhoseOperation DEF Kinds
<1> DEFINE names == request[current].names
           i == Finished(Plan(request[current], body.name)) + 1
<1>2. Ends(body.plan, Plan(request[current], body.name))
  BY <1>1 DEF BodyInvariant, DeleteBody
<1>3. i \in 1..Len(names) /\ Doing.arg = names[i]
  BY <1>1, <1>2, DeleteInCourse
<1>4. names \in Seq(Snapshots)
  BY <1>1 DEF TypeInvariant, WellFormed, Kind
<1>5. Doing.arg \in ToSet(names)
  BY <1>3, <1>4, LenProperties DEF ToSet
<1> QED
  BY <1>1, <1>5 DEF Discarded, Asked, Kind

-----------------------------------------------------------------------------
(* The records. *)

\* a request that was made is not changed
Stands == \A j \in JobIds : state[j] # "absent" => request'[j] = request[j]

LEMMA RequestsStand ==
    ASSUME TypeInvariant, RecordsInvariant, [WorkflowNext]_everything PROVE Stands
<1>1. CASE Requests
  BY <1>1, RequestsStayInFrame DEF RequestFrame, Submits, Stands, TypeInvariant
<1>2. ASSUME NEW place, Move(place) PROVE UNCHANGED request
  BY <1>2 DEF Move, Unchanged
<1>3. CASE Server
  BY <1>2, <1>3 DEF Server, Stands, DropJob, BeginJob, NextStep, ListFails, ListMirrors, CallSucceeds, CallIsAccepted, CallFails, CallIsNotAnswered,
     StepDone, StepSkipped, StepRefused, RecordSnapshotSet, CompleteSnapshotSet, ReadTarget, EraseRow,
     CommitFails, BodyReturns, BodyRaises, Elsewhere, Unchanged
<1>4. CASE SomeTaskEnds \/ GiveUp \/ AptlyRestarts \/ (Start /\ Elsewhere)
  BY <1>2, <1>4 DEF SomeTaskEnds, TaskEnds, GiveUp, AptlyRestarts, Elsewhere, Unchanged, Stands
<1>5. CASE Enqueued \/ Ending \/ UNCHANGED everything
  BY <1>5 DEF Enqueued, Ending, ProcessEnds, Elsewhere, Unchanged, Stands, everything
<1> QED
  BY <1>1, <1>3, <1>4, <1>5 DEF WorkflowNext, Background

LEMMA DiscardsGoOn ==
    ASSUME GoesOn, Stands PROVE \A s : Discarded(s) => Discarded(s)'
BY DEF GoesOn, Stands, Discarded, Asked

\* aptly loses no snapshot and the rows say nothing new
LEMMA NothingIsTaken ==
    ASSUME TypeInvariant, RecordsInvariant, GoesOn, Stands, snapshots \subseteq snapshots', remade \subseteq remade',
           \A r \in RecordIds : records'[r] \in {records[r], NoRecord}
    PROVE  RecordsInvariant'
<1>1. \A s : Discarded(s) => Discarded(s)'
  BY DiscardsGoOn
<1>2. NoRecord.taken = {} /\ NoRecord.complete = FALSE
  BY DEF NoRecord
<1>3. \A r \in RecordIds : \A s, t \in records'[r].taken :
          s[1] = t[1] /\ s[3] = t[3] /\ s[2] \in ToSet(SuiteList)
  BY <1>2 DEF RecordsInvariant
<1>4. \A r \in RecordIds : records'[r].complete => {s[2] : s \in records'[r].taken} = ToSet(SuiteList)
  <2>1. ASSUME NEW r \in RecordIds, records'[r].complete
        PROVE  {s[2] : s \in records'[r].taken} = ToSet(SuiteList)
    <3>1. records'[r] = records[r]
      BY <1>2, <2>1
    <3> QED
      BY <2>1, <3>1 DEF RecordsInvariant
  <2> QED
    BY <2>1
<1>5. \A r \in RecordIds : \A s \in records'[r].taken : s \in snapshots' \/ Discarded(s)'
  BY <1>1, <1>2 DEF RecordsInvariant
<1>6. \A r, q \in RecordIds : \A s \in records'[r].taken \cap records'[q].taken : r = q \/ s \in remade'
  BY <1>2 DEF RecordsInvariant
<1> QED
  BY <1>3, <1>4, <1>5, <1>6 DEF RecordsInvariant

\* a discard that deletes a snapshot was asked for
LEMMA SnapshotIsDeleted ==
    ASSUME IInv, TypeInvariant, BodyInvariant, RecordsInvariant, GoesOn, Stands,
           At("call"), Doing.op = "delete", DeleteSnapshot(Doing.arg), UNCHANGED <<records, remade>>
    PROVE  RecordsInvariant'
<1>1. Working /\ body.plan # <<>>
  BY DEF At, Working, BodyInvariant, InStep
<1>2. Discarded(Doing.arg)
  BY <1>1, DiscardHasBegun
<1>3. \A s : Discarded(s) => Discarded(s)'
  BY DiscardsGoOn
<1>4. snapshots' = snapshots \ {Doing.arg}
  BY DEF DeleteSnapshot
<1>5. \A r \in RecordIds : \A s \in records'[r].taken : s \in snapshots' \/ Discarded(s)'
  BY <1>2, <1>3, <1>4 DEF RecordsInvariant
<1> QED
  BY <1>5 DEF RecordsInvariant

LEMMA SnapshotIsTaken ==
    ASSUME IInv, TypeInvariant, BodyInvariant, RecordsInvariant, GoesOn, Stands,
           StepDone, Doing.op = "snapshot"
    PROVE  RecordsInvariant'
<1>1. Working /\ body.at = "done" /\ body.plan # <<>> /\ ~RecordGone
  BY DEF StepDone, At, Working, BodyInvariant, InStep
<1>2. PICK stamp \in Minutes : UpdateAt(stamp)
  BY <1>1, UpdateHasItsRow
<1>3. body.name \in Names
  BY <1>1, UpdateHasItsRow
<1> DEFINE whole == UpdatePlan(body.name, stamp)
           k == body.record
           arg == Doing.arg
           more == body.taken \cup {arg}
<1>4. /\ k \in RecordIds /\ JustMade(arg) /\ body.taken \subseteq SnapshotsAt(body.name, stamp)
      /\ records[k] = [set |-> request[current].set, taken |-> body.taken, complete |-> FALSE]
      /\ Ends(body.plan, whole)
  BY <1>1, <1>2 DEF UpdateAt
<1>5. arg \in SnapshotsAt(body.name, stamp)
  <2>1. \E i \in 1..Len(SuiteList) : arg = <<body.name, InOrder[i], stamp>>
    BY <1>1, <1>3, <1>4, UpdateInCourse
  <2> QED
    BY <2>1, SuitesInOrder DEF SnapshotsAt
<1>6. /\ records' = [records EXCEPT ![k].taken = more]
      /\ UNCHANGED <<snapshots, remade>>
  BY DEF StepDone, aptly, history
<1> HIDE DEF more, k, arg
<1>7. /\ records'[k].taken = more /\ ~records'[k].complete
      /\ \A r \in RecordIds \ {k} : records'[r] = records[r]
  BY <1>4, <1>6 DEF TypeInvariant, Record
<1>8. \A s, t \in more : s[1] = t[1] /\ s[3] = t[3] /\ s[2] \in ToSet(SuiteList)
  BY <1>4, <1>5 DEF SnapshotsAt, more
<1>9. \A s : Discarded(s) => Discarded(s)'
  BY DiscardsGoOn
<1>10. records[k].taken = body.taken
  BY <1>4
<1>11. \A r \in RecordIds : \A s, t \in records'[r].taken :
          s[1] = t[1] /\ s[3] = t[3] /\ s[2] \in ToSet(SuiteList)
  BY <1>7, <1>8 DEF RecordsInvariant
<1>12. \A r \in RecordIds : records'[r].complete => {s[2] : s \in records'[r].taken} = ToSet(SuiteList)
  <2>1. ASSUME NEW r \in RecordIds, records'[r].complete
        PROVE  {s[2] : s \in records'[r].taken} = ToSet(SuiteList)
    <3>1. records'[r] = records[r]
      BY <1>7, <2>1
    <3> QED
      BY <2>1, <3>1 DEF RecordsInvariant
  <2> QED
    BY <2>1
<1>13. \A r \in RecordIds : \A s \in records'[r].taken : s \in snapshots' \/ Discarded(s)'
  <2>1. arg \in snapshots
    BY <1>4 DEF JustMade
  <2>2. \A s \in more : s \in snapshots \/ Discarded(s)
    BY <1>4, <1>10, <2>1 DEF more, RecordsInvariant
  <2> QED
    BY <1>6, <1>7, <1>9, <2>2 DEF RecordsInvariant
<1>14. \A r, q \in RecordIds : \A s \in records'[r].taken \cap records'[q].taken : r = q \/ s \in remade'
  <2>1. \A r \in RecordIds : arg \in records[r].taken => arg \in remade
    BY <1>4 DEF JustMade, Listed
  <2>2. ASSUME NEW r \in RecordIds \ {k}, NEW s \in records[r].taken, s \in more PROVE s \in remade
    BY <1>4, <1>10, <2>1, <2>2 DEF more, RecordsInvariant
  <2> QED
    BY <1>4, <1>6, <1>7, <2>2 DEF RecordsInvariant
<1> QED
  BY <1>11, <1>12, <1>13, <1>14 DEF RecordsInvariant

LEMMA SetIsComplete ==
    ASSUME IInv, TypeInvariant, BodyInvariant, RecordsInvariant, GoesOn, Stands, CompleteSnapshotSet
    PROVE  RecordsInvariant'
<1>1. Working /\ body.at = "ready" /\ body.plan # <<>> /\ ~RecordGone /\ Doing.op = "complete"
  BY DEF CompleteSnapshotSet, At, Working
<1>2. PICK stamp \in Minutes : UpdateAt(stamp)
  BY <1>1, UpdateHasItsRow
<1>3. body.name \in Names
  BY <1>1, UpdateHasItsRow
<1> DEFINE whole == UpdatePlan(body.name, stamp)
           k == body.record
           n == Len(SuiteList)
<1>4. /\ k \in RecordIds /\ body.taken \subseteq SnapshotsAt(body.name, stamp)
      /\ records[k] = [set |-> request[current].set, taken |-> body.taken, complete |-> FALSE]
      /\ Ends(body.plan, whole)
      /\ \A i \in 1..Len(whole) :
              i <= Finished(whole) /\ whole[i].op = "snapshot" => whole[i].arg \in body.taken
  BY <1>1, <1>2 DEF UpdateAt
<1>5. n \in Nat /\ Len(whole) = 2 * n + 1 /\ Finished(whole) + 1 = 2 * n + 1
  BY <1>1, <1>3, <1>4, UpdateInCourse
<1>5a. Finished(whole) \in Nat
  <2>1. whole \in Seq(Operation) /\ body.plan \in Seq(Operation)
    BY <1>1, <1>3, <1>4, UpdateInCourse DEF TypeInvariant, BodyType
  <2>2. Len(whole) \in Nat /\ Finished(whole) \in 0..Len(whole)
    BY <1>4, <2>1, InCourse
  <2> QED
    BY <2>2
<1>6. \A i \in 1..n : whole[n + i] = Op("snapshot", <<body.name, InOrder[i], stamp>>)
  BY <1>3, UpdateCourse
<1> HIDE DEF whole
<1>7. \A i \in 1..n : <<body.name, InOrder[i], stamp>> \in body.taken
  <2>1. ASSUME NEW i \in 1..n PROVE <<body.name, InOrder[i], stamp>> \in body.taken
    <3> DEFINE arg == <<body.name, InOrder[i], stamp>>
    <3>1. n + i \in 1..Len(whole) /\ n + i <= Finished(whole)
      <4>1. Finished(whole) = 2 * n
        BY <1>5, <1>5a
      <4> QED
        BY <1>5, <4>1
    <3>2. whole[n + i] = Op("snapshot", arg)
      BY <1>6
    <3> HIDE DEF arg
    <3>3. whole[n + i].op = "snapshot" /\ whole[n + i].arg = arg
      BY <3>2, OpFields
    <3>4. arg \in body.taken
      BY <1>4, <3>1, <3>3
    <3> QED
      BY <3>4 DEF arg
  <2> QED
    BY <2>1
<1>8. {s[2] : s \in body.taken} = ToSet(SuiteList)
  <2>1. \A s \in body.taken : s[2] \in ToSet(SuiteList)
    BY <1>4 DEF SnapshotsAt
  <2>2. ASSUME NEW u \in ToSet(SuiteList) PROVE \E s \in body.taken : s[2] = u
    <3>1. PICK i \in 1..n : InOrder[i] = u
      BY SuitesInOrder
    <3> QED
      BY <1>7, <3>1
  <2> QED
    BY <2>1, <2>2
<1>9. /\ records' = [records EXCEPT ![k].complete = TRUE]
      /\ UNCHANGED <<snapshots, remade>>
  BY DEF CompleteSnapshotSet, aptly, history
<1> HIDE DEF k
<1>10. /\ \A r \in RecordIds : records'[r].taken = records[r].taken
       /\ \A r \in RecordIds \ {k} : records'[r] = records[r]
       /\ records[k].taken = body.taken
  BY <1>4, <1>9 DEF TypeInvariant, Record
<1>11. \A s : Discarded(s) => Discarded(s)'
  BY DiscardsGoOn
<1>12. ASSUME NEW r \in RecordIds, records'[r].complete
       PROVE  {s[2] : s \in records'[r].taken} = ToSet(SuiteList)
  <2>1. CASE r = k
    BY <1>8, <1>10, <2>1
  <2>2. CASE r # k
    <3>1. records'[r] = records[r]
      BY <1>10, <2>2
    <3> QED
      BY <1>12, <3>1 DEF RecordsInvariant
  <2> QED
    BY <2>1, <2>2
<1> QED
  BY <1>9, <1>10, <1>11, <1>12 DEF RecordsInvariant

LEMMA RecordsAreKept ==
    ASSUME IInv, TypeInvariant, BodyInvariant, RecordsInvariant, [WorkflowNext]_everything, [Next]_vars
    PROVE  RecordsInvariant'
<1>a. GoesOn /\ Stands /\ remade \in SUBSET Snapshots /\ snapshots \subseteq Snapshots
  BY JobsGoOn, RequestsStand DEF TypeInvariant, AptlyTypeOK
<1>b. ASSUME snapshots \subseteq snapshots', remade \subseteq remade', UNCHANGED records PROVE RecordsInvariant'
  BY <1>a, <1>b, NothingIsTaken
<1>c. remade \subseteq RemadeNow
  BY DEF RemadeNow
<1>d. ASSUME NEW place, Move(place) PROVE UNCHANGED records
  BY <1>d DEF Move, rows
<1>1. CASE Requests
  BY <1>1, <1>a, RequestsStayInFrame, NothingIsTaken DEF RequestFrame, aptly, history
<1>2. CASE \/ DropJob \/ BeginJob \/ NextStep \/ StepSkipped \/ StepRefused \/ ListMirrors
           \/ ReadTarget \/ CommitFails \/ BodyReturns \/ BodyRaises
  BY <1>2, <1>b DEF DropJob, BeginJob, NextStep, StepSkipped, StepRefused, ListMirrors,
                    ReadTarget, CommitFails, BodyReturns, BodyRaises, aptly, rows, history
<1>3. CASE Elsewhere \/ Ending \/ UNCHANGED everything
  BY <1>3, <1>b DEF Elsewhere, Ending, ProcessEnds, everything, aptly, rows, history
<1>4. CASE ListFails \/ CallIsAccepted \/ CallFails \/ GiveUp \/ AptlyRestarts
  BY <1>4, <1>b, <1>d DEF ListFails, CallIsAccepted, CallFails, GiveUp, AptlyRestarts, Post, LoseTasks, aptly, history
<1>5. CASE SomeTaskEnds
  BY <1>5, <1>b, <1>d DEF SomeTaskEnds, TaskEnds, EndWell, EndBadly, history
<1>6. CASE CallSucceeds
  <2>1. UNCHANGED records /\ remade' = RemadeNow /\ At("call")
    BY <1>6, <1>d DEF CallSucceeds
  <2>2. CASE Doing.op = "delete"
    BY <1>6, <1>a, <2>1, <2>2, SnapshotIsDeleted DEF CallSucceeds, RemadeNow
  <2>3. CASE Doing.op # "delete"
    <3>1. snapshots \subseteq snapshots'
      BY <1>6, <2>3 DEF CallSucceeds, CreateMirror, CreateSnapshot, aptly
    <3> QED
      BY <1>b, <1>c, <2>1, <3>1
  <2> QED
    BY <2>2, <2>3
<1>7. CASE CallIsNotAnswered
  <2>1. UNCHANGED records /\ At("call")
    BY <1>7, <1>d DEF CallIsNotAnswered
  <2>2. CASE Doing.op = "delete"
    <3>1. DeleteSnapshot(Doing.arg) /\ UNCHANGED remade
      BY <1>7, <2>2 DEF CallIsNotAnswered, history, Ops
    <3> QED
      BY <1>a, <2>1, <2>2, <3>1, SnapshotIsDeleted
  <2>3. CASE Doing.op # "delete"
    <3>1. snapshots \subseteq snapshots' /\ remade \subseteq remade'
      BY <1>7, <1>c, <2>3 DEF CallIsNotAnswered, CreateMirror, CreateSnapshot, Post, history
    <3> QED
      BY <1>b, <2>1, <3>1
  <2> QED
    BY <2>2, <2>3
<1>8. CASE StepDone
  <2>1. CASE Doing.op = "snapshot"
    BY <1>8, <1>a, <2>1, SnapshotIsTaken
  <2>2. CASE Doing.op # "snapshot"
    BY <1>8, <1>b, <2>2 DEF StepDone, aptly, history
  <2> QED
    BY <2>1, <2>2
<1>9. CASE RecordSnapshotSet
  <2> DEFINE k == NextRecordId
             new == [set |-> request[current].set, taken |-> {}, complete |-> FALSE]
  <2>1. k \in RecordIds /\ records' = [records EXCEPT ![k] = new] /\ UNCHANGED <<snapshots, remade>>
    BY <1>9 DEF RecordSnapshotSet, aptly, history
  <2>2. new.taken = {} /\ new.complete = FALSE
    OBVIOUS
  <2> HIDE DEF k, new
  <2>3. \A r \in RecordIds : records'[r] = IF r = k THEN new ELSE records[r]
    BY <2>1 DEF TypeInvariant
  <2>4. \A s : Discarded(s) => Discarded(s)'
    BY <1>a, DiscardsGoOn
  <2>5. ASSUME NEW r \in RecordIds, records'[r].complete
        PROVE  {s[2] : s \in records'[r].taken} = ToSet(SuiteList)
    <3>1. records'[r] = records[r]
      BY <2>2, <2>3, <2>5
    <3> QED
      BY <2>5, <3>1 DEF RecordsInvariant
  <2> QED
    BY <2>1, <2>2, <2>3, <2>4, <2>5 DEF RecordsInvariant
<1>10. CASE CompleteSnapshotSet
  BY <1>10, <1>a, SetIsComplete
<1>11. CASE EraseRow
  <2>1. UNCHANGED <<snapshots, remade>> /\ \A r \in RecordIds : records'[r] \in {records[r], NoRecord}
    BY <1>11 DEF EraseRow, WithoutSet, rows, aptly, history, TypeInvariant
  <2> QED
    BY <1>a, <2>1, NothingIsTaken
<1>12. CASE Server
  BY <1>12, <1>2, <1>3, <1>4, <1>6, <1>7, <1>8, <1>9, <1>10, <1>11 DEF Server
<1>13. CASE Background \/ Enqueued
  BY <1>13, <1>3, <1>4, <1>5, <1>12 DEF Background, Enqueued
<1> QED
  BY <1>1, <1>3, <1>13 DEF WorkflowNext

-----------------------------------------------------------------------------
(* Aptly does not give up what it serves. *)
LEMMA PublishedIsKept ==
    ASSUME TypeInvariant, RecordsInvariant, PublishedInvariant, [WorkflowNext]_everything
    PROVE  PublishedInvariant'
<1>b. ASSUME snapshots \subseteq snapshots', UNCHANGED published PROVE PublishedInvariant'
  BY <1>b DEF PublishedInvariant
<1>c. ASSUME NEW s, DeleteSnapshot(s) PROVE PublishedInvariant'
  BY <1>c DEF DeleteSnapshot, PublishedInvariant, InUse
<1>1. CASE Requests
  BY <1>1, <1>b, RequestsStayInFrame DEF RequestFrame, aptly
<1>2. CASE \/ DropJob \/ BeginJob \/ NextStep \/ StepSkipped \/ StepRefused \/ StepDone \/ ListMirrors
           \/ RecordSnapshotSet \/ CompleteSnapshotSet \/ ReadTarget \/ EraseRow
           \/ CommitFails \/ BodyReturns \/ BodyRaises
  BY <1>2, <1>b DEF DropJob, BeginJob, NextStep, StepSkipped, StepRefused, StepDone, ListMirrors,
                    RecordSnapshotSet, CompleteSnapshotSet, ReadTarget, EraseRow,
                    CommitFails, BodyReturns, BodyRaises, aptly
<1>3. CASE Elsewhere \/ Ending \/ UNCHANGED everything
  BY <1>3, <1>b DEF Elsewhere, Ending, ProcessEnds, everything, aptly
<1>4. CASE ListFails \/ CallIsAccepted \/ CallFails \/ GiveUp \/ AptlyRestarts
  BY <1>4, <1>b DEF ListFails, CallIsAccepted, CallFails, GiveUp, AptlyRestarts, Post, LoseTasks, aptly
<1>5. CASE CallSucceeds \/ CallIsNotAnswered
  <2>1. \/ \E s : DeleteSnapshot(s)
        \/ snapshots \subseteq snapshots' /\ UNCHANGED published
    BY <1>5 DEF CallSucceeds, CallIsNotAnswered, CreateMirror, CreateSnapshot, Post, aptly
  <2> QED
    BY <1>b, <1>c, <2>1
<1>6. ASSUME NEW t \in tasks, EndWell(t) \/ EndBadly(t) PROVE PublishedInvariant'
  <2>1. CASE t.op = "publish" /\ EndWell(t)
    <3>1. t.arg \in snapshots /\ UNCHANGED snapshots
          /\ published' = [published EXCEPT ![MirrorOf(t.arg)] = t.arg]
      BY <2>1 DEF EndWell, Accepts
    <3> QED
      BY <3>1 DEF PublishedInvariant, TypeInvariant, AptlyTypeOK
  <2>2. CASE ~(t.op = "publish" /\ EndWell(t))
    BY <1>6, <1>b, <2>2 DEF EndWell, EndBadly
  <2> QED
    BY <2>1, <2>2
<1>7. CASE Server
  BY <1>7, <1>2, <1>3, <1>4, <1>5 DEF Server
<1>8. CASE Background \/ Enqueued
  BY <1>8, <1>3, <1>4, <1>6, <1>7 DEF Background, Enqueued, SomeTaskEnds, TaskEnds
<1> QED
  BY <1>1, <1>3, <1>8 DEF WorkflowNext

-----------------------------------------------------------------------------
(* The body in hand. *)

LEMMA BodyAsItIs ==
    ASSUME IInv, TypeInvariant, BodyInvariant, Working
    PROVE  /\ current \in JobIds /\ state[current] = "running" /\ Kind \in Kinds
           /\ InStep /\ body \in BodyType /\ Added \in Nat
           /\ Kind = "create" =>
                 /\ body.name \in Names /\ (~strayed => body.existing \subseteq mirrors)
                 /\ body.plan = <<>> \/ Doing.op # "list" => CreateAt
           /\ Kind = "switch" =>
                 /\ body.name \in Names
                 /\ body.plan = <<>> \/ Doing.op # "target" => SwitchAt
           /\ Kind = "update" =>
                 /\ body.name \in Names /\ request[current].set # NoRow
                 /\ body.plan = <<>> \/ Doing.op \notin {"preflight", "record"} =>
                       \E stamp \in Minutes : UpdateAt(stamp)
           /\ Kind \in {"discard", "remove"} => DeleteBody
<1>1. current \in JobIds /\ state[current] = "running" /\ Len(steps[current]) \in Nat
  BY InHand, LenProperties DEF Working
<1>2. Kind \in Kinds /\ body \in BodyType /\ InStep /\ Added \in Nat
  BY <1>1 DEF TypeInvariant, Kind, BodyInvariant, Added
<1>3. {"list", "record", "target"} \subseteq BareOps
  BY DEF BareOps, Stepless
<1>4. /\ body.plan = <<Op("list", <<>>)>> => body.plan # <<>> /\ Doing.op = "list"
      /\ body.plan = <<Op("target", <<>>)>> => body.plan # <<>> /\ Doing.op = "target"
      /\ body.plan = <<Op("record", <<>>)>> => body.plan # <<>> /\ Doing.op = "record"
      /\ body.plan = <<Op("preflight", <<>>), Op("record", <<>>)>> => body.plan # <<>> /\ Doing.op = "preflight"
  BY <1>3, Beginnings
<1>5. Kind = "create" => /\ body.name \in Names /\ (~strayed => body.existing \subseteq mirrors)
                         /\ body.plan = <<>> \/ Doing.op # "list" => CreateAt
  BY <1>4 DEF BodyInvariant, CreateBody, CreateAt
<1>6. Kind = "switch" => /\ body.name \in Names
                         /\ body.plan = <<>> \/ Doing.op # "target" => SwitchAt
  BY <1>4 DEF BodyInvariant, SwitchBody, SwitchAt
<1>7. Kind = "update" =>
                 /\ body.name \in Names /\ request[current].set # NoRow
                 /\ body.plan = <<>> \/ Doing.op \notin {"preflight", "record"} =>
                       \E stamp \in Minutes : UpdateAt(stamp)
  BY <1>4 DEF BodyInvariant, UpdateBody, UpdateAt
<1>8. Kind \in {"discard", "remove"} => DeleteBody
  BY DEF BodyInvariant
<1> QED
  BY <1>1, <1>2, <1>5, <1>6, <1>7, <1>8

\* what is enough for the next state
LEMMA BodyAsItWillBe ==
    ASSUME Working' => /\ InStep'
                       /\ Kind' = "create" =>
                             /\ (body.name \in Names)' /\ (~strayed => body.existing \subseteq mirrors)'
                             /\ CreateAt'
                       /\ Kind' = "switch" => (body.name \in Names)' /\ SwitchAt'
                       /\ Kind' = "update" => UpdateBody'
                       /\ Kind' \in {"discard", "remove"} => DeleteBody'
    PROVE  BodyInvariant'
BY DEF BodyInvariant, CreateBody, CreateAt, SwitchBody, SwitchAt

LEMMA UpdateAsItWillBe ==
    ASSUME (body.name \in Names)', (request[current].set # NoRow)', NEW stamp \in Minutes, UpdateAt(stamp)'
    PROVE  UpdateBody'
BY DEF UpdateBody, UpdateAt

\* a step is added
LEMMA NextStepInCourse ==
    ASSUME IInv, TypeInvariant, BodyInvariant, NextStep PROVE BodyInvariant'
<1>1. Working /\ body.at = "ready" /\ body.plan # <<>> /\ Doing.op \notin Stepless
  BY DEF NextStep, At, Working
<1>2. /\ current \in JobIds /\ Kind \in Kinds /\ InStep /\ body \in BodyType /\ Added \in Nat
  BY <1>1, BodyAsItIs
<1>3. /\ UNCHANGED <<mirrors, snapshots, published, records, request, expected, current, pc, strayed, remade>>
      /\ body'.name = body.name /\ body'.plan = body.plan /\ body'.record = body.record
      /\ body'.taken = body.taken /\ body'.existing = body.existing
      /\ body'.at \in {"call", "exists"}
      /\ body'.at = "exists" => Doing.op = "create" /\ Doing.arg \in body.existing
  BY <1>2 DEF NextStep, AddStep, BodyType, Unchanged, aptly, rows, history, process
<1>4. Added' = Added + 1
  <2>1. steps[current] \in Seq(StepState) /\ "running" \in StepState
    BY <1>2, InHand DEF StepState
  <2>2. steps'[current] = Append(steps[current], "running") /\ current' = current
    BY <1>2, InHand DEF NextStep, AddStep, process
  <2> QED
    BY <2>1, <2>2, AppendProperties DEF Added
<1>5. Kind' = Kind /\ Doing' = Doing
  BY <1>3 DEF Kind, Doing
<1>6. InStep'
  BY <1>1, <1>2, <1>3, <1>5 DEF InStep
<1>7. ASSUME Kind = "create"
      PROVE  body.name \in Names /\ (~strayed => body.existing \subseteq mirrors) /\ CreateAt'
  <2> DEFINE whole == CreatePlan(body.name)
  <2>1. CreateAt /\ body.name \in Names /\ (~strayed => body.existing \subseteq mirrors)
    BY <1>1, <1>7, BodyAsItIs DEF Stepless
  <2>3. /\ Finished(whole) \in Nat /\ Len(whole) \in Nat
        /\ Doing = whole[Finished(whole) + 1]
    BY <1>1, <2>1, CreateInCourse, SuitesInOrder DEF CreateAt
  <2>2. Finished(whole)' = Finished(whole) /\ UnderWay = 0 /\ UnderWay' = 1
        /\ Effective(whole)' = (IF body'.at = "exists" THEN Finished(whole) + 1 ELSE Finished(whole))
        /\ Effective(whole) = Finished(whole)
    <3>1. Finished(whole)' = Finished(whole)
      BY <1>3 DEF Finished
    <3>2. UnderWay = 0 /\ UnderWay' = 1
      BY <1>1, <1>3 DEF UnderWay
    <3> QED
      BY <1>1, <1>3, <2>3, <3>1, <3>2 DEF Effective
  <2> QED
    BY <1>3, <1>4, <2>1, <2>2, <2>3 DEF CreateAt
<1>8. ASSUME Kind = "switch" PROVE body.name \in Names /\ SwitchAt'
  <2> DEFINE whole == SwitchPlan(body.name, body.taken)
  <2>1. SwitchAt /\ body.name \in Names
    BY <1>1, <1>8, BodyAsItIs DEF Stepless
  <2>2. body'.at = "call"
    BY <1>1, <1>2, <1>3, <1>8, WhoseOperation
  <2>3. Finished(whole)' = Finished(whole) /\ UnderWay = 0 /\ UnderWay' = 1
        /\ Effective(whole)' = Effective(whole)
    BY <1>1, <1>3, <2>2 DEF Finished, Effective, UnderWay
  <2>4. Finished(whole) \in Nat
    BY <1>1, <2>1, SwitchInCourse DEF SwitchAt
  <2> QED
    BY <1>3, <1>4, <2>1, <2>3, <2>4 DEF SwitchAt
<1>9. ASSUME Kind = "update" PROVE UpdateBody'
  <2>0. body.name \in Names /\ request[current].set # NoRow /\ body'.at = "call"
    BY <1>1, <1>2, <1>3, <1>9, WhoseOperation, BodyAsItIs
  <2>1. CASE Doing.op = "preflight"
    <3>1. /\ body.plan = <<Op("preflight", <<>>), Op("record", <<>>)>>
          /\ Added = UnderWay /\ body.taken = {}
      <4>1. UpdateBody
        BY <1>1, <1>9 DEF BodyInvariant
      <4>2. body.plan # <<Op("record", <<>>)>>
        BY <2>1, Beginnings DEF BareOps, Stepless
      <4>3. ASSUME NEW stamp \in Minutes PROVE ~Ends(body.plan, UpdatePlan(body.name, stamp))
        BY <1>1, <2>0, <2>1, UpdateInCourse
      <4> QED
        BY <4>1, <4>2, <4>3 DEF UpdateBody, UpdateAt
    <3> QED
      BY <1>1, <1>3, <1>4, <2>0, <3>1 DEF UpdateBody, UpdateAt, UnderWay
  <2>2. CASE Doing.op # "preflight"
    <3>1. PICK stamp \in Minutes : UpdateAt(stamp)
      BY <1>1, <1>9, <2>2, BodyAsItIs DEF Stepless
    <3> DEFINE whole == UpdatePlan(body.name, stamp)
    <3>2. Finished(whole)' = Finished(whole) /\ UnderWay = 0 /\ UnderWay' = 1 /\ RecordGone' = RecordGone
      BY <1>1, <1>3, <2>0 DEF Finished, UnderWay, RecordGone
    <3>3. Finished(whole) \in Nat
      BY <1>1, <2>0, <3>1, UpdateInCourse DEF UpdateAt
    <3>4. UpdateAt(stamp)'
      BY <1>1, <1>2, <1>3, <1>4, <2>0, <3>1, <3>2, <3>3 DEF UpdateAt
    <3> QED
      BY <1>3, <2>0, <3>4, UpdateAsItWillBe
  <2> QED
    BY <2>1, <2>2
<1>10. ASSUME Kind \in {"discard", "remove"} PROVE DeleteBody'
  <2> DEFINE whole == Plan(request[current], body.name)
  <2>1. DeleteBody
    BY <1>1, <1>10, BodyAsItIs
  <2>2. body'.at = "call"
    BY <1>1, <1>2, <1>3, <1>10, WhoseOperation
  <2>3. Finished(whole)' = Finished(whole) /\ UnderWay = 0 /\ UnderWay' = 1
        /\ Effective(whole)' = Effective(whole)
    BY <1>1, <1>3, <2>2 DEF Finished, Effective, UnderWay
  <2>4. Finished(whole) \in Nat
    BY <1>1, <1>2, <1>10, <2>1, DeleteInCourse DEF DeleteBody
  <2> QED
    BY <1>1, <1>3, <1>4, <2>1, <2>3, <2>4 DEF DeleteBody
<1> QED
  BY <1>3, <1>5, <1>6, <1>7, <1>8, <1>9, <1>10, BodyAsItWillBe

\* the call of the operation in hand, or the task it is, has done what it is for
LEMMA OperationTakesEffect ==
    ASSUME IInv, TypeInvariant, BodyInvariant, At("call") \/ At("wait"), Move("done"),
           UNCHANGED strayed, remade \subseteq remade',
           Doing.op = "snapshot" => JustMade(Doing.arg)',
           Kind = "create" /\ ~strayed => mirrors \subseteq mirrors' /\ Doing.arg \in mirrors',
           Kind = "switch" /\ ~strayed =>
              published' = IF Doing.op = "publish"
                           THEN [published EXCEPT ![MirrorOf(Doing.arg)] = Doing.arg] ELSE published,
           Kind \in {"discard", "remove"} =>
              /\ mirrors' \cup snapshots' \subseteq mirrors \cup snapshots
              /\ Doing.op \in {"delete", "dropMirror"} => Doing.arg \notin mirrors' \cup snapshots'
    PROVE  BodyInvariant'
<1>1. Working /\ body.at \in {"call", "wait"} /\ body.plan # <<>> /\ Doing.op \notin Stepless
  BY DEF At, Working, BodyInvariant, InStep
<1>2. /\ current \in JobIds /\ Kind \in Kinds /\ InStep /\ body \in BodyType /\ Added \in Nat
  BY <1>1, BodyAsItIs
<1>3. /\ UNCHANGED <<records, request, expected, current, pc, steps>>
      /\ body'.name = body.name /\ body'.plan = body.plan /\ body'.record = body.record
      /\ body'.taken = body.taken /\ body'.existing = body.existing
      /\ body'.at = "done"
  BY <1>2 DEF Move, BodyType, Unchanged, rows, vars
<1>4. Added' = Added /\ UnderWay = 1 /\ UnderWay' = 1 /\ Kind' = Kind /\ Doing' = Doing
  BY <1>1, <1>3 DEF Added, UnderWay, Kind, Doing
<1>5. InStep'
  BY <1>1, <1>2, <1>3, <1>4 DEF InStep
<1>7. ASSUME Kind = "create"
      PROVE  body.name \in Names /\ (~strayed => body.existing \subseteq mirrors') /\ CreateAt'
  <2> DEFINE whole == CreatePlan(body.name)
  <2>1. CreateAt /\ body.name \in Names /\ (~strayed => body.existing \subseteq mirrors)
    BY <1>1, <1>7, BodyAsItIs DEF Stepless
  <2>2. /\ Finished(whole) \in Nat /\ Len(whole) \in Nat
        /\ Doing = whole[Finished(whole) + 1]
    BY <1>1, <2>1, CreateInCourse, SuitesInOrder DEF CreateAt
  <2>3. /\ Finished(whole)' = Finished(whole)
        /\ Effective(whole) = Finished(whole) /\ Effective(whole)' = Finished(whole) + 1
    <3>1. Finished(whole)' = Finished(whole)
      BY <1>3 DEF Finished
    <3> QED
      BY <1>1, <1>3, <2>2, <3>1 DEF Effective
  <2> QED
    BY <1>3, <1>4, <1>7, <2>1, <2>2, <2>3 DEF CreateAt
<1>8. ASSUME Kind = "switch" PROVE body.name \in Names /\ SwitchAt'
  <2> DEFINE whole == SwitchPlan(body.name, body.taken)
             n == Len(SuiteList)
             f == Finished(whole)
  <2>1. SwitchAt /\ body.name \in Names /\ body.taken \in SUBSET Snapshots
    BY <1>1, <1>2, <1>8, BodyAsItIs DEF Stepless, BodyType
  <2>2. /\ f \in Nat /\ Len(whole) \in Nat /\ n \in Nat /\ f + 1 \in 1..Len(whole)
        /\ Doing = whole[f + 1]
        /\ \/ /\ f + 1 \in 1..n /\ Doing.op = "publish" /\ Doing.arg \in body.taken
              /\ MirrorOf(Doing.arg) = <<body.name, InOrder[f + 1]>>
           \/ f + 1 > n /\ Doing.op \in {"verify", "client"}
    BY <1>1, <2>1, SwitchInCourse DEF SwitchAt
  <2>3. f' = f /\ Effective(whole) = f /\ Effective(whole)' = f + 1
    <3>1. f' = f
      BY <1>3 DEF Finished
    <3> QED
      BY <1>1, <1>3, <2>2, <3>1 DEF Effective
  <2>4. /\ \A i \in 1..n : /\ whole[i].op = "publish" /\ whole[i].arg \in Snapshots
                           /\ MirrorOf(whole[i].arg) = <<body.name, InOrder[i]>>
        /\ \A i \in (n + 1)..Len(whole) : whole[i].op # "publish"
        /\ \A i, k \in 1..n : InOrder[i] = InOrder[k] => whole[i].arg = whole[k].arg
    BY <2>1, SwitchCourse DEF SwitchAt
  <2> HIDE DEF whole, n, f
  <2>6. ASSUME ~strayed, NEW i \in 1..Len(whole), i <= f + 1, whole[i].op = "publish"
        PROVE  published'[MirrorOf(whole[i].arg)] = whole[i].arg
    <3>1. i \in 1..n
      BY <2>2, <2>4, <2>6
    <3> DEFINE m == MirrorOf(whole[i].arg)
    <3>2. m = <<body.name, InOrder[i]>> /\ m \in Mirrors
      <4>1. whole[i].arg \in Snapshots
        BY <2>4, <3>1
      <4> QED
        BY <2>4, <3>1, <4>1 DEF MirrorOf, Mirrors, Snapshots
    <3>3. i <= f => published[m] = whole[i].arg
      BY <2>1, <2>3, <2>6 DEF SwitchAt, whole
    <3> HIDE DEF m
    <3>4. CASE Doing.op # "publish"
      <4>1. i # f + 1
        BY <2>2, <2>6, <3>4
      <4> QED
        BY <1>8, <2>2, <2>6, <3>3, <3>4, <4>1 DEF m
    <3>5. CASE Doing.op = "publish"
      <4>1. f + 1 \in 1..n /\ MirrorOf(Doing.arg) = <<body.name, InOrder[f + 1]>>
        BY <2>2, <3>5
      <4>2. published' = [published EXCEPT ![MirrorOf(Doing.arg)] = Doing.arg]
        BY <1>8, <2>6, <3>5
      <4>3. published \in [Mirrors -> Snapshots \cup {NotPublished}]
        BY DEF TypeInvariant, AptlyTypeOK
      <4>4. CASE InOrder[i] = InOrder[f + 1]
        <5>1. whole[i].arg = Doing.arg
          BY <2>2, <2>4, <3>1, <4>1, <4>4
        <5> QED
          BY <3>2, <4>1, <4>2, <4>3, <4>4, <5>1 DEF m
      <4>5. CASE InOrder[i] # InOrder[f + 1]
        <5>1. m # MirrorOf(Doing.arg) /\ i <= f
          BY <2>2, <2>6, <3>2, <4>1, <4>5
        <5> QED
          BY <3>2, <3>3, <4>2, <4>3, <5>1 DEF m
      <4> QED
        BY <4>4, <4>5
    <3> QED
      BY <3>4, <3>5
  <2>7. Covers(body.taken, body.name)' = Covers(body.taken, body.name)
    BY <1>3 DEF Covers
  <2> USE DEF whole, f
  <2>8. \A s \in body.taken \ remade', r \in RecordIds : s \in records'[r].taken => records'[r].complete
    BY <1>3, <2>1 DEF SwitchAt
  <2>9. ~strayed => \A i \in 1..Len(whole) : i <= Effective(whole)' /\ whole[i].op = "publish" =>
                        published'[MirrorOf(whole[i].arg)] = whole[i].arg
    BY <2>3, <2>6
  <2> QED
    BY <1>3, <1>4, <2>1, <2>3, <2>7, <2>8, <2>9 DEF SwitchAt
<1>9. ASSUME Kind = "update" PROVE UpdateBody'
  <2>0. body.name \in Names /\ request[current].set # NoRow
    BY <1>1, <1>9, BodyAsItIs
  <2>1. CASE Doing.op = "preflight"
    <3>1. /\ body.plan = <<Op("preflight", <<>>), Op("record", <<>>)>>
          /\ Added = UnderWay /\ body.taken = {}
      <4>1. UpdateBody
        BY <1>1, <1>9 DEF BodyInvariant
      <4>2. body.plan # <<Op("record", <<>>)>>
        BY <2>1, Beginnings DEF BareOps, Stepless
      <4>3. ASSUME NEW stamp \in Minutes PROVE ~Ends(body.plan, UpdatePlan(body.name, stamp))
        BY <1>1, <2>0, <2>1, UpdateInCourse
      <4> QED
        BY <4>1, <4>2, <4>3 DEF UpdateBody, UpdateAt
    <3> QED
      BY <1>3, <1>4, <2>0, <3>1 DEF UpdateBody, UpdateAt
  <2>2. CASE Doing.op # "preflight"
    <3>1. PICK stamp \in Minutes : UpdateAt(stamp)
      BY <1>1, <1>9, <2>2, BodyAsItIs DEF Stepless
    <3> DEFINE whole == UpdatePlan(body.name, stamp)
    <3>2. Finished(whole)' = Finished(whole) /\ RecordGone' = RecordGone
      BY <1>3 DEF Finished, RecordGone
    <3>3. UpdateAt(stamp)'
      BY <1>3, <1>4, <3>1, <3>2 DEF UpdateAt
    <3> QED
      BY <1>3, <2>0, <3>3, UpdateAsItWillBe
  <2> QED
    BY <2>1, <2>2
<1>10. ASSUME Kind \in {"discard", "remove"} PROVE DeleteBody'
  <2> DEFINE whole == Plan(request[current], body.name)
             f == Finished(whole)
  <2>1. DeleteBody
    BY <1>1, <1>10, BodyAsItIs
  <2>2. f \in Nat /\ Doing = whole[f + 1] /\ Len(whole) \in Nat
    BY <1>1, <1>2, <1>10, <2>1, DeleteInCourse DEF DeleteBody
  <2>3. f' = f /\ Effective(whole) = f /\ Effective(whole)' = f + 1
    <3>1. f' = f
      BY <1>3 DEF Finished
    <3> QED
      BY <1>1, <1>3, <2>2, <3>1 DEF Effective
  <2>4. ASSUME NEW i \in 1..Len(whole), i <= f + 1, whole[i].op \in {"delete", "dropMirror"}
        PROVE  whole[i].arg \notin mirrors' \cup snapshots'
    <3>1. CASE i = f + 1
      BY <1>10, <2>2, <2>4, <3>1
    <3>2. CASE i # f + 1
      <4>1. i <= f
        BY <2>2, <2>4, <3>2
      <4>2. whole[i].arg \notin mirrors \cup snapshots
        BY <2>1, <2>3, <2>4, <4>1 DEF DeleteBody
      <4> QED
        BY <1>10, <4>2
    <3> QED
      BY <3>1, <3>2
  <2> QED
    BY <1>3, <1>4, <2>1, <2>3, <2>4 DEF DeleteBody
<1> QED
  BY <1>3, <1>4, <1>5, <1>7, <1>8, <1>9, <1>10, BodyAsItWillBe

\* what the body relies on has not changed, and the body is where it was or waits for its call
LEMMA BodyStays ==
    ASSUME IInv, TypeInvariant, BodyInvariant,
           UNCHANGED <<expected, pc, current, snapshots, history>>,
           pc = "body" => steps'[current] = steps[current] /\ request'[current] = request[current],
           \A r \in RecordIds : records'[r] \in {records[r], NoRecord},
           mirrors' \subseteq mirrors, ~strayed => UNCHANGED <<mirrors, published>>,
           \/ body' = body
           \/ At("call") /\ Doing.op \in Ops /\ body' = [body EXCEPT !.at = "wait"]
    PROVE  BodyInvariant'
<1>1. CASE ~Working
  BY <1>1 DEF BodyInvariant, Working, At
<1>2. CASE Working
  <2>1. /\ current \in JobIds /\ Kind \in Kinds /\ InStep /\ body \in BodyType /\ pc = "body"
    BY <1>2, BodyAsItIs DEF Working
  <2>2. /\ UNCHANGED <<strayed, remade, current>>
        /\ body'.name = body.name /\ body'.plan = body.plan /\ body'.record = body.record
        /\ body'.taken = body.taken /\ body'.existing = body.existing
        /\ body'.at = body.at \/ (body.at = "call" /\ body'.at = "wait" /\ Doing.op \in Ops)
        /\ body.at = "ready" => body'.at = "ready"
        /\ body'.at = "done" => body.at = "done"
    BY <2>1 DEF BodyType, At, history
  <2>3. /\ Kind' = Kind /\ Doing' = Doing /\ Added' = Added /\ UnderWay' = UnderWay
        /\ request'[current'] = request[current]
    BY <2>1, <2>2 DEF Kind, Doing, Added, UnderWay
  <2>4. ASSUME NEW whole
        PROVE  /\ (Len(whole) - Len(body'.plan)) = Finished(whole)
               /\ Finished(whole) + (IF body'.at \in {"done", "exists"} THEN 1 ELSE 0) = Effective(whole)
    BY <2>2 DEF Finished, Effective
  <2>5. InStep'
    <3>1. body'.at # "ready" => body.at # "ready"
      BY <2>2
    <3>2. body'.at = "wait" => Doing.op \in Ops
      BY <2>1, <2>2 DEF InStep
    <3>3. body'.at = "exists" => body.at = "exists"
      BY <2>2
    <3> QED
      BY <2>1, <2>2, <2>3, <3>1, <3>2, <3>3 DEF InStep
  <2>6. NoRecord.taken = {} /\ NoRow \notin RecordIds
    BY RowsAssumption DEF NoRecord, NoRow, RecordIds
  <2>7. Kind = "create" => CreateBody'
    <3>1. ASSUME Kind = "create" PROVE CreateBody
      BY <1>2, <3>1 DEF BodyInvariant
    <3> DEFINE whole == CreatePlan(body.name)
    <3>2. Finished(whole)' = Finished(whole) /\ Effective(whole)' = Effective(whole)
      BY <2>2 DEF Finished, Effective
    <3> QED
      BY <2>2, <2>3, <3>1, <3>2 DEF CreateBody, CreateAt
  <2>8. Kind = "update" => UpdateBody'
    <3> SUFFICES ASSUME Kind = "update" PROVE UpdateBody'
      OBVIOUS
    <3>1. UpdateBody
      BY <1>2 DEF BodyInvariant
    <3>2. body.name \in Names /\ request[current].set # NoRow
      BY <3>1 DEF UpdateBody, UpdateAt
    <3>3. CASE body.plan \in {<<Op("preflight", <<>>), Op("record", <<>>)>>, <<Op("record", <<>>)>>}
      <4>1. \/ body.plan = <<Op("preflight", <<>>), Op("record", <<>>)>> /\ Added = UnderWay /\ body.taken = {}
            \/ body.plan = <<Op("record", <<>>)>> /\ body.at = "ready" /\ Added = 1 /\ body.taken = {}
        <5>1. body.plan # <<>> /\ Doing.op \in {"preflight", "record"}
          BY <3>3, Beginnings DEF BareOps, Stepless
        <5>2. ASSUME NEW stamp \in Minutes PROVE ~Ends(body.plan, UpdatePlan(body.name, stamp))
          BY <3>2, <5>1, UpdateInCourse
        <5> QED
          BY <3>1, <5>2 DEF UpdateBody, UpdateAt
      <4> QED
        BY <2>2, <2>3, <3>2, <4>1 DEF UpdateBody, UpdateAt
    <3>4. CASE body.plan \notin {<<Op("preflight", <<>>), Op("record", <<>>)>>, <<Op("record", <<>>)>>}
      <4>1. PICK stamp \in Minutes : UpdateAt(stamp)
        BY <3>1, <3>4 DEF UpdateBody, UpdateAt
      <4> DEFINE whole == UpdatePlan(body.name, stamp)
      <4>2. Finished(whole)' = Finished(whole)
        BY <2>2 DEF Finished
      <4>3. ~RecordGone' => ~RecordGone /\ records'[body.record] = records[body.record]
        BY <2>2, <2>6, <4>1 DEF RecordGone, UpdateAt
      <4>4. ASSUME NEW s, JustMade(s) PROVE JustMade(s)'
        BY <2>2, <2>6, <4>4 DEF JustMade, Listed, InUse
      <4>5. UpdateAt(stamp)'
        BY <2>2, <2>3, <4>1, <4>2, <4>3, <4>4 DEF UpdateAt
      <4> QED
        BY <2>2, <2>3, <3>2, <4>5, UpdateAsItWillBe
    <3> QED
      BY <3>3, <3>4
  <2>9. Kind = "switch" => SwitchBody'
    <3>1. ASSUME Kind = "switch" PROVE SwitchBody
      BY <1>2, <3>1 DEF BodyInvariant
    <3> DEFINE whole == SwitchPlan(body.name, body.taken)
    <3>2. Finished(whole)' = Finished(whole) /\ Effective(whole)' = Effective(whole)
      BY <2>2 DEF Finished, Effective
    <3>3. Covers(body.taken, body.name)' = Covers(body.taken, body.name)
      BY <2>2 DEF Covers
    <3> QED
      BY <2>2, <2>3, <2>6, <3>1, <3>2, <3>3 DEF SwitchBody, SwitchAt
  <2>10. Kind \in {"discard", "remove"} => DeleteBody'
    <3>1. ASSUME Kind \in {"discard", "remove"} PROVE DeleteBody
      BY <1>2, <3>1 DEF BodyInvariant
    <3> DEFINE whole == Plan(request[current], body.name)
    <3>2. Finished(whole)' = Finished(whole) /\ Effective(whole)' = Effective(whole)
      BY <2>2, <2>3 DEF Finished, Effective
    <3> QED
      BY <2>2, <2>3, <3>1, <3>2 DEF DeleteBody
  <2> QED
    BY <2>3, <2>5, <2>7, <2>8, <2>9, <2>10 DEF BodyInvariant
<1> QED
  BY <1>1, <1>2

LEMMA NothingIsASnapshot == NotPublished \notin Snapshots
<1>1. ASSUME NEW a \in Names, NEW b \in Suites, NEW c \in Minutes, <<a, b, c>> = <<>> PROVE FALSE
  <2>1. Len(<<a, b, c>>) = 3 /\ Len(<<>>) = 0
    OBVIOUS
  <2> QED
    BY <1>1, <2>1
<1>2. ASSUME NEW s \in Snapshots PROVE s # <<>>
  <2>1. PICK a \in Names, b \in Suites, c \in Minutes : s = <<a, b, c>>
    BY DEF Snapshots
  <2> QED
    BY <1>1, <2>1
<1> QED
  BY <1>2 DEF NotPublished

LEMMA CallInCourse ==
    ASSUME IInv, TypeInvariant, BodyInvariant, PublishedInvariant, CallSucceeds PROVE BodyInvariant'
<1>1. At("call") /\ Move("done") /\ remade' = RemadeNow /\ UNCHANGED strayed /\ UNCHANGED <<records, request, current>>
  BY DEF CallSucceeds, Move, Unchanged, rows, vars
<1>2. Working /\ body.at = "call" /\ body.plan # <<>> /\ Doing.op \notin Stepless
  BY <1>1 DEF At, Working, BodyInvariant, InStep
<1>3. body \in BodyType /\ Doing \in Operation
      /\ (Doing.op \in MirrorOps => Doing.arg \in Mirrors)
      /\ (Doing.op \in SnapshotOps => Doing.arg \in Snapshots)
  BY <1>2, NextTyped DEF TypeInvariant
<1>4. Doing' = Doing
  BY <1>1, <1>3 DEF Move, Doing, BodyType
<1>5. remade \subseteq remade'
  BY <1>1 DEF RemadeNow
<1>6. ASSUME Doing.op = "snapshot" PROVE JustMade(Doing.arg)'
  <2>1. CreateSnapshot(Doing.arg) /\ Doing.arg \in Snapshots
    BY <1>3, <1>6 DEF CallSucceeds, SnapshotOps
  <2>2. Doing.arg \notin snapshots /\ Doing.arg \in snapshots' /\ UNCHANGED published
    BY <2>1 DEF CreateSnapshot
  <2>3. Doing.arg # NotPublished
    BY <2>1, NothingIsASnapshot
  <2>4. ~InUse(Doing.arg)
    BY <2>2, <2>3 DEF InUse, PublishedInvariant
  <2>5. Listed(Doing.arg) => Doing.arg \in remade'
    BY <1>1, <1>6 DEF Listed, RemadeNow
  <2> DEFINE arg == Doing.arg
  <2>6. Doing.arg' = arg
    BY <1>4
  <2>7. arg \in snapshots' /\ (Listed(arg)' => arg \in remade') /\ ~InUse(arg)'
    BY <1>1, <1>4, <2>2, <2>4, <2>5 DEF Listed, InUse
  <2> QED
    BY <1>4, <2>6, <2>7 DEF JustMade
<1>7. ASSUME Kind = "create" PROVE mirrors \subseteq mirrors' /\ Doing.arg \in mirrors'
  <2>1. Doing.op = "create"
    BY <1>2, <1>7, WhoseOperation DEF Stepless
  <2> QED
    BY <2>1 DEF CallSucceeds, CreateMirror
<1>8. ASSUME Kind = "switch" PROVE UNCHANGED published /\ Doing.op # "publish"
  <2>1. Doing.op \in {"publish", "verify", "client"}
    BY <1>2, <1>8, WhoseOperation DEF Stepless
  <2> QED
    BY <2>1 DEF CallSucceeds, aptly
<1>9. ASSUME Kind \in {"discard", "remove"}
      PROVE  /\ mirrors' \cup snapshots' \subseteq mirrors \cup snapshots
             /\ Doing.op \in {"delete", "dropMirror"} => Doing.arg \notin mirrors' \cup snapshots'
  <2>1. Doing.op \in {"delete", "dropMirror", "cleanup"}
    BY <1>2, <1>9, WhoseOperation DEF Stepless
  <2>2. Doing.op = "delete"
    BY <2>1 DEF CallSucceeds
  <2>3. DeleteSnapshot(Doing.arg) /\ Doing.arg \in Snapshots
    BY <1>3, <2>2 DEF CallSucceeds, SnapshotOps
  <2>4. mirrors \subseteq Mirrors
    BY DEF TypeInvariant, AptlyTypeOK
  <2> QED
    BY <2>3, <2>4, MirrorsAreNoSnapshots DEF DeleteSnapshot
<1> QED
  BY <1>1, <1>5, <1>6, <1>7, <1>8, <1>9, OperationTakesEffect

\* the end of the task the body waits for, when the poll tells
LEMMA TaskInCourse ==
    ASSUME IInv, TypeInvariant, BodyInvariant, TaskInvariant, UNCHANGED history,
           NEW t \in tasks, EndWell(t), Awaited(t), Move("done")
    PROVE  BodyInvariant'
<1>1. At("wait") /\ UNCHANGED <<strayed, remade>> /\ t.job = current
  BY DEF Awaited, history
<1>2. Working /\ body.at = "wait" /\ body.plan # <<>> /\ Doing.op \notin Stepless /\ Doing.op \in Ops
  BY <1>1 DEF At, Working, BodyInvariant, InStep
<1>3. t.op = Doing.op /\ t.arg = Doing.arg
  BY <1>1, <1>2 DEF TaskInvariant
<1>4. body \in BodyType
      /\ (Doing.op \in MirrorOps => Doing.arg \in Mirrors)
  BY <1>2, NextTyped DEF TypeInvariant
<1>5. Doing.op # "snapshot"
  BY <1>2 DEF Ops
<1>6. Kind # "create"
  BY <1>2, WhoseOperation DEF Ops
<1>7. ASSUME Kind = "switch"
      PROVE  published' = IF Doing.op = "publish"
                          THEN [published EXCEPT ![MirrorOf(Doing.arg)] = Doing.arg] ELSE published
  BY <1>3 DEF EndWell
<1>8. ASSUME Kind \in {"discard", "remove"}
      PROVE  /\ mirrors' \cup snapshots' \subseteq mirrors \cup snapshots
             /\ Doing.op \in {"delete", "dropMirror"} => Doing.arg \notin mirrors' \cup snapshots'
  <2>1. Doing.op # "delete"
    BY <1>2 DEF Ops
  <2>2. mirrors' \subseteq mirrors /\ snapshots' = snapshots
    BY DEF EndWell
  <2>3. snapshots \subseteq Snapshots
    BY DEF TypeInvariant, AptlyTypeOK
  <2>4. ASSUME Doing.op = "dropMirror" PROVE Doing.arg \notin mirrors' \cup snapshots'
    <3>1. mirrors' = mirrors \ {Doing.arg} /\ Doing.arg \in Mirrors
      BY <1>3, <1>4, <2>4 DEF EndWell, MirrorOps
    <3> QED
      BY <2>2, <2>3, <3>1, MirrorsAreNoSnapshots
  <2> QED
    BY <2>1, <2>2, <2>4
<1> QED
  BY <1>1, <1>5, <1>6, <1>7, <1>8, OperationTakesEffect

LEMMA WithMoreTaken ==
    ASSUME NEW r \in Record, NEW more
    PROVE  [r EXCEPT !.taken = more] = [set |-> r.set, taken |-> more, complete |-> r.complete]
BY DEF Record

\* a step is finished, and what is left of the plan begins with the next
LEMMA FinishedStepInCourse ==
    ASSUME IInv, TypeInvariant, BodyInvariant, StepDone \/ StepSkipped PROVE BodyInvariant'
<1>1. Working /\ body.at \in {"done", "exists"} /\ body.plan # <<>> /\ Doing.op \notin Stepless
      /\ (body.at = "exists" => Doing.op = "create")
  BY DEF StepDone, StepSkipped, At, Working, BodyInvariant, InStep
<1>2. /\ current \in JobIds /\ Kind \in Kinds /\ InStep /\ body \in BodyType /\ Added \in Nat
      /\ steps[current] \in Seq(StepState)
  BY <1>1, BodyAsItIs, InHand
<1>2a. body.plan \in Seq(Operation) /\ Tail(body.plan) \in Seq(Operation)
       /\ (Doing.op \in SnapshotOps => Doing.arg \in Snapshots)
  BY <1>1, NextTyped
<1>3. /\ UNCHANGED <<mirrors, snapshots, published, request, expected, current, pc, strayed, remade>>
      /\ body'.name = body.name /\ body'.record = body.record /\ body'.existing = body.existing
      /\ body'.plan = Tail(body.plan) /\ body'.at = "ready"
      /\ Doing.op # "snapshot" => body'.taken = body.taken /\ UNCHANGED records
      /\ Doing.op = "snapshot" =>
            /\ ~RecordGone
            /\ body'.taken = body.taken \cup {Doing.arg}
            /\ records' = [records EXCEPT ![body.record].taken = body.taken \cup {Doing.arg}]
  <2>1. UNCHANGED <<mirrors, snapshots, published, request, expected, current, pc, strayed, remade>>
    BY DEF StepDone, StepSkipped, FinishStep, Unchanged, aptly, history, process
  <2>2. CASE Doing.op = "snapshot"
    <3>1. /\ ~RecordGone
          /\ body' = [body EXCEPT !.at = "ready", !.plan = Tail(@), !.taken = @ \cup {Doing.arg}]
          /\ records' = [records EXCEPT ![body.record].taken = body.taken \cup {Doing.arg}]
      BY <1>1, <2>2 DEF StepDone, StepSkipped, At
    <3> QED
      BY <1>2, <2>1, <2>2, <3>1 DEF BodyType
  <2>3. CASE Doing.op # "snapshot"
    <3>1. body' = [body EXCEPT !.at = "ready", !.plan = Tail(@)] /\ UNCHANGED records
      BY <2>3 DEF StepDone, StepSkipped, rows
    <3> QED
      BY <1>2, <2>1, <2>3, <3>1 DEF BodyType
  <2> QED
    BY <2>2, <2>3
<1>4. Added' = Added
  <2>1. \E x : steps' = [steps EXCEPT ![current] = [@ EXCEPT ![Len(@)] = x]]
    BY DEF StepDone, StepSkipped, FinishStep
  <2>2. PICK x : steps'[current] = [steps[current] EXCEPT ![Len(steps[current])] = x]
    BY <1>2, <2>1, InHand
  <2> QED
    BY <1>2, <1>3, <2>2 DEF Added
<1>5. Kind' = Kind /\ UnderWay = 1 /\ UnderWay' = 0 /\ request'[current'] = request[current]
  BY <1>1, <1>3 DEF Kind, UnderWay
<1>6. InStep'
  BY <1>1, <1>2, <1>3, <1>5 DEF InStep
<1>7. ASSUME NEW whole, whole \in Seq(Operation), Ends(body.plan, whole)
      PROVE  /\ Finished(whole) \in Nat /\ Len(whole) \in Nat
             /\ Doing = whole[Finished(whole) + 1]
             /\ Ends(Tail(body.plan), whole)
             /\ Len(whole) - Len(Tail(body.plan)) = Finished(whole) + 1
             /\ Effective(whole) = Finished(whole) + 1
             /\ Tail(body.plan) = <<>> <=> Finished(whole) + 1 = Len(whole)
  <2>1. /\ Len(whole) \in Nat /\ Finished(whole) \in 0..Len(whole)
        /\ Doing = whole[Finished(whole) + 1]
        /\ Ends(Tail(body.plan), whole)
        /\ Len(whole) - Len(Tail(body.plan)) = Finished(whole) + 1
        /\ Tail(body.plan) = <<>> <=> Finished(whole) + 1 = Len(whole)
    BY <1>1, <1>2a, <1>7, InCourse
  <2>2. Effective(whole) = Finished(whole) + 1
    BY <1>1 DEF Effective
  <2> QED
    BY <2>1, <2>2
<1>8. ASSUME Kind = "create"
      PROVE  body.name \in Names /\ (~strayed => body.existing \subseteq mirrors) /\ CreateAt'
  <2> DEFINE whole == CreatePlan(body.name)
             f == Finished(whole)
  <2>1. CreateAt /\ body.name \in Names /\ (~strayed => body.existing \subseteq mirrors)
    BY <1>1, <1>8, BodyAsItIs DEF Stepless
  <2>2. whole \in Seq(Operation) /\ Ends(body.plan, whole)
    BY <2>1, CreateCourse DEF CreateAt
  <2> DEFINE rest == Len(whole) - Len(Tail(body.plan))
  <2>3. f \in Nat /\ rest = f + 1 /\ Effective(whole) = f + 1 /\ Ends(Tail(body.plan), whole)
    BY <1>7, <2>2
  <2>4. Finished(whole)' = f + 1 /\ Effective(whole)' = f + 1
    <3>1. Finished(whole)' = rest
      BY <1>3 DEF Finished
    <3>2. Effective(whole)' = rest + 0
      BY <1>3 DEF Finished, Effective
    <3> HIDE DEF rest, f
    <3> QED
      BY <2>3, <3>1, <3>2
  <2>5. Added = f + 1
    BY <1>5, <2>1 DEF CreateAt
  <2>6. Ends(body.plan, whole)'
    BY <1>3, <2>3 DEF Ends
  <2>7. ~strayed' => \A i \in 1..Len(whole) : i <= f + 1 => whole[i].arg \in mirrors'
    BY <1>3, <2>1, <2>3 DEF CreateAt
  <2>8. Added' = Finished(whole)' + UnderWay'
    <3> HIDE DEF f, whole
    <3> QED
      BY <1>4, <1>5, <2>3, <2>4, <2>5
  <2> QED
    BY <1>3, <2>1, <2>4, <2>6, <2>7, <2>8 DEF CreateAt
<1>9. ASSUME Kind = "switch" PROVE body.name \in Names /\ SwitchAt'
  <2> DEFINE whole == SwitchPlan(body.name, body.taken)
             f == Finished(whole)
  <2>1. SwitchAt /\ body.name \in Names /\ body.taken \in SUBSET Snapshots
    BY <1>1, <1>2, <1>9, BodyAsItIs DEF Stepless, BodyType
  <2>1a. Doing.op # "snapshot"
    BY <1>1, <1>9, WhoseOperation
  <2>2. whole \in Seq(Operation) /\ Ends(body.plan, whole)
    BY <2>1, SwitchCourse DEF SwitchAt
  <2> DEFINE rest == Len(whole) - Len(Tail(body.plan))
  <2>3. f \in Nat /\ rest = f + 1 /\ Effective(whole) = f + 1 /\ Ends(Tail(body.plan), whole)
    BY <1>7, <2>2
  <2>4. Finished(whole)' = f + 1 /\ Effective(whole)' = f + 1 /\ body'.taken = body.taken
    <3>1. Finished(whole)' = rest
      BY <1>3, <2>1a DEF Finished
    <3>2. Effective(whole)' = rest + 0
      BY <1>3, <2>1a DEF Finished, Effective
    <3> HIDE DEF rest, f
    <3> QED
      BY <1>3, <2>1a, <2>3, <3>1, <3>2
  <2>5. Added = f + 1
    BY <1>5, <2>1 DEF SwitchAt
  <2>6. Ends(body.plan, whole)'
    BY <1>3, <2>3, <2>4 DEF Ends
  <2>7. ~strayed' => \A i \in 1..Len(whole) :
              i <= f + 1 /\ whole[i].op = "publish" =>
                  published'[MirrorOf(whole[i].arg)] = whole[i].arg
    BY <1>3, <2>1, <2>3 DEF SwitchAt
  <2>8. Added' = Finished(whole)' + UnderWay'
    <3> HIDE DEF f, whole
    <3> QED
      BY <1>4, <1>5, <2>3, <2>4, <2>5
  <2>9. Covers(body.taken, body.name)'
    BY <1>3, <2>1, <2>4 DEF Covers, SwitchAt
  <2>10. \A s \in body.taken \ remade', r \in RecordIds : s \in records'[r].taken => records'[r].complete
    BY <1>3, <2>1, <2>1a DEF SwitchAt
  <2> QED
    BY <1>3, <2>1, <2>4, <2>6, <2>7, <2>8, <2>9, <2>10 DEF SwitchAt
<1>10. ASSUME Kind = "update" PROVE UpdateBody'
  <2>0. body.name \in Names /\ request[current].set # NoRow /\ body.at = "done"
    BY <1>1, <1>2, <1>10, WhoseOperation, BodyAsItIs
  <2>1. CASE Doing.op = "preflight"
    <3>1. /\ body.plan = <<Op("preflight", <<>>), Op("record", <<>>)>>
          /\ Added = UnderWay /\ body.taken = {}
      <4>1. UpdateBody
        BY <1>1, <1>10 DEF BodyInvariant
      <4>2. body.plan # <<Op("record", <<>>)>>
        BY <2>1, Beginnings DEF BareOps, Stepless
      <4>3. ASSUME NEW stamp \in Minutes PROVE ~Ends(body.plan, UpdatePlan(body.name, stamp))
        BY <1>1, <2>0, <2>1, UpdateInCourse
      <4> QED
        BY <4>1, <4>2, <4>3 DEF UpdateBody, UpdateAt
    <3>2. body'.plan = <<Op("record", <<>>)>> /\ body'.taken = {} /\ Added' = 1
      BY <1>3, <1>4, <1>5, <2>1, <3>1, Beginnings
    <3> QED
      BY <1>3, <1>5, <2>0, <3>2 DEF UpdateBody, UpdateAt
  <2>2. CASE Doing.op # "preflight"
    <3>1. PICK stamp \in Minutes : UpdateAt(stamp)
      BY <1>1, <1>10, <2>2, BodyAsItIs DEF Stepless
    <3> DEFINE whole == UpdatePlan(body.name, stamp)
               f == Finished(whole)
               n == Len(SuiteList)
               rest == Len(whole) - Len(Tail(body.plan))
    <3>2. whole \in Seq(Operation) /\ Ends(body.plan, whole)
      BY <2>0, <3>1, UpdateCourse DEF UpdateAt
    <3>3. f \in Nat /\ rest = f + 1 /\ Ends(Tail(body.plan), whole) /\ Doing = whole[f + 1]
          /\ (Tail(body.plan) = <<>> <=> f + 1 = Len(whole))
      BY <1>7, <3>2
    <3>4. /\ n \in Nat /\ Len(whole) = 2 * n + 1
          /\ \/ f + 1 \in 1..n /\ Doing.op = "sync"
             \/ /\ (f + 1) - n \in 1..n /\ Doing.op = "snapshot"
                /\ Doing.arg = <<body.name, InOrder[(f + 1) - n], stamp>>
      <4>1. Doing.op # "complete"
        BY <1>1 DEF Stepless
      <4> QED
        BY <1>1, <2>0, <3>1, <4>1, UpdateInCourse DEF UpdateAt
    <3>5. Tail(body.plan) # <<>>
      <4> HIDE DEF f, n, whole
      <4> QED
        BY <3>3, <3>4
    <3>6. Finished(whole)' = f + 1
      <4>1. Finished(whole)' = rest
        BY <1>3 DEF Finished
      <4> HIDE DEF rest, f
      <4> QED
        BY <3>3, <4>1
    <3>7. Added' = 1 + Finished(whole)' + UnderWay' - 0
      <4>1. Added = 1 + f + UnderWay - 0
        BY <1>1, <3>1 DEF UpdateAt
      <4> HIDE DEF f, whole
      <4> QED
        BY <1>4, <1>5, <3>3, <3>6, <4>1
    <3>8. Ends(body.plan, whole)'
      BY <1>3, <3>3 DEF Ends
    <3>9. body'.taken \subseteq SnapshotsAt(body.name, stamp)
      <4>1. body.taken \subseteq SnapshotsAt(body.name, stamp)
        BY <3>1 DEF UpdateAt
      <4>2. Doing.op = "snapshot" => Doing.arg \in SnapshotsAt(body.name, stamp)
        BY <3>4, SuitesInOrder DEF SnapshotsAt
      <4> QED
        BY <1>3, <4>1, <4>2
    <3>10. ASSUME NEW i \in 1..Len(whole), i <= f + 1, whole[i].op = "snapshot"
           PROVE  whole[i].arg \in body'.taken
      <4>1. \A k \in 1..Len(whole) : k <= f /\ whole[k].op = "snapshot" => whole[k].arg \in body.taken
        BY <3>1 DEF UpdateAt
      <4> HIDE DEF f, whole
      <4> QED
        BY <1>3, <3>3, <3>4, <3>10, <4>1
    <3>11. ~RecordGone' => records'[body.record] =
              [set |-> request[current].set, taken |-> body'.taken, complete |-> FALSE]
      <4>1. body.record \in RecordIds
            /\ (~RecordGone => records[body.record] =
                   [set |-> request[current].set, taken |-> body.taken, complete |-> FALSE])
        BY <1>1, <3>1 DEF UpdateAt
      <4>2. CASE Doing.op = "snapshot"
        <5> DEFINE k == body.record
                   more == body.taken \cup {Doing.arg}
        <5>1. records[k] = [set |-> request[current].set, taken |-> body.taken, complete |-> FALSE]
              /\ k \in RecordIds /\ records \in [RecordIds -> Record]
          BY <1>3, <4>1, <4>2 DEF TypeInvariant
        <5>2. records' = [records EXCEPT ![k].taken = more] /\ body'.taken = more /\ body'.record = k
          BY <1>3, <4>2
        <5> HIDE DEF k, more
        <5>3. records'[k] = [records[k] EXCEPT !.taken = more]
          BY <5>1, <5>2
        <5>4. records'[k] = [set |-> request[current].set, taken |-> more, complete |-> FALSE]
          <6>0. records[k] \in Record
            BY <5>1
          <6>1. records[k].set = request[current].set /\ records[k].complete = FALSE
            BY <5>1
          <6>2. records'[k] = [set |-> records[k].set, taken |-> more, complete |-> records[k].complete]
            BY <5>3, <6>0, WithMoreTaken
          <6> QED
            BY <6>1, <6>2
        <5> QED
          BY <5>2, <5>4 DEF k
      <4>3. CASE Doing.op # "snapshot"
        BY <1>3, <4>1, <4>3 DEF RecordGone
      <4> QED
        BY <4>2, <4>3
    <3>12. body.record \in RecordIds
      BY <3>1 DEF UpdateAt
    <3>13. UpdateAt(stamp)'
      BY <1>3, <3>5, <3>6, <3>7, <3>8, <3>9, <3>10, <3>11, <3>12 DEF UpdateAt
    <3> QED
      BY <1>3, <2>0, <3>13, UpdateAsItWillBe
  <2> QED
    BY <2>1, <2>2
<1>11. ASSUME Kind \in {"discard", "remove"} PROVE DeleteBody'
  <2> DEFINE whole == Plan(request[current], body.name)
             f == Finished(whole)
             rest == Len(whole) - Len(Tail(body.plan))
             m == Len(request[current].names)
  <2>1. DeleteBody
    BY <1>1, <1>11, BodyAsItIs
  <2>2. /\ whole \in Seq(Operation) /\ Ends(body.plan, whole)
        /\ m \in Nat /\ Len(whole) = m + 2 /\ f + 1 \in 1..(m + 2)
        /\ (f + 1 = m + 2 => Doing.op = "erase")
    BY <1>1, <1>2, <1>11, <2>1, DeleteInCourse DEF DeleteBody
  <2>3. f \in Nat /\ rest = f + 1 /\ Effective(whole) = f + 1 /\ Ends(Tail(body.plan), whole)
        /\ (Tail(body.plan) = <<>> <=> f + 1 = Len(whole))
    BY <1>7, <2>2
  <2>4. Tail(body.plan) # <<>>
    BY <1>1, <2>2, <2>3 DEF Stepless
  <2>5. Finished(whole)' = f + 1 /\ Effective(whole)' = f + 1
    <3>1. Finished(whole)' = rest
      BY <1>3 DEF Finished
    <3>2. Effective(whole)' = rest + 0
      BY <1>3 DEF Finished, Effective
    <3> HIDE DEF rest, f
    <3> QED
      BY <2>3, <3>1, <3>2
  <2>6. Added' = Finished(whole)' + UnderWay' - 0
    <3>1. Added = f + UnderWay - 0
      BY <1>1, <2>1 DEF DeleteBody
    <3> HIDE DEF f, whole
    <3> QED
      BY <1>4, <1>5, <2>3, <2>5, <3>1
  <2>7. Ends(body.plan, whole)'
    BY <1>3, <2>3 DEF Ends
  <2>8. \A i \in 1..Len(whole) : i <= f + 1 /\ whole[i].op \in {"delete", "dropMirror"} =>
            whole[i].arg \notin mirrors' \cup snapshots'
    BY <1>3, <2>1, <2>3 DEF DeleteBody
  <2>9. Plan(request[current], body.name)' = whole
    BY <1>3
  <2> QED
    BY <1>3, <2>4, <2>5, <2>6, <2>7, <2>8, <2>9 DEF DeleteBody
<1> QED
  BY <1>3, <1>5, <1>6, <1>8, <1>9, <1>10, <1>11, BodyAsItWillBe

LEMMA ListedInCourse ==
    ASSUME IInv, TypeInvariant, BodyInvariant, ListMirrors PROVE BodyInvariant'
<1>1. Working /\ body.at = "ready" /\ body.plan # <<>> /\ Doing.op = "list"
  BY DEF ListMirrors, At, Working
<1>2. /\ current \in JobIds /\ Kind = "create" /\ InStep /\ body \in BodyType /\ body.name \in Names
  <2>1. current \in JobIds /\ Kind = "create" /\ body.name \in Names
    BY <1>1, WhoseOperation DEF Kinds
  <2> QED
    BY <1>1, <2>1, BodyAsItIs
<1>3. Added = 0
  <2>1. CreateBody
    BY <1>1, <1>2 DEF BodyInvariant
  <2>2. ~Ends(body.plan, CreatePlan(body.name))
    BY <1>1, <1>2, CreateInCourse
  <2> QED
    BY <2>1, <2>2 DEF CreateBody, CreateAt
<1> DEFINE whole == CreatePlan(body.name)
<1>4. /\ UNCHANGED <<mirrors, request, expected, current, pc, strayed, steps>>
      /\ body'.name = body.name /\ body'.at = "ready" /\ body'.plan = whole /\ body'.existing = mirrors
  BY <1>1, <1>2 DEF ListMirrors, BodyType, Unchanged, aptly, vars, history
<1>5. whole \in Seq(Operation) /\ Ends(whole, whole) /\ Len(whole) \in Nat
  BY <1>2, CreateCourse, EndsWhole, SuitesInOrder
<1>6. Kind' = "create" /\ Added' = 0 /\ UnderWay' = 0 /\ InStep'
  BY <1>2, <1>3, <1>4 DEF Kind, Added, UnderWay, InStep
<1>7. Finished(whole)' = 0 /\ Effective(whole)' = 0
  <2>1. Len(whole) - Len(whole) = 0
    BY <1>5
  <2>2. Finished(whole)' = 0
    BY <1>4, <2>1 DEF Finished
  <2> QED
    BY <1>4, <2>2 DEF Effective
<1>8. CreateAt'
  <2>1. Ends(body.plan, whole)'
    BY <1>4, <1>5 DEF Ends
  <2> HIDE DEF whole
  <2>2. Added' = Finished(whole)' + UnderWay'
    BY <1>6, <1>7
  <2>3. \A i \in 1..Len(whole) : ~(i <= Effective(whole)')
    BY <1>5, <1>7
  <2> USE DEF whole
  <2> QED
    BY <1>4, <2>1, <2>2, <2>3 DEF CreateAt
<1> QED
  BY <1>2, <1>4, <1>6, <1>8, BodyAsItWillBe

LEMMA RecordedInCourse ==
    ASSUME IInv, TypeInvariant, BodyInvariant, RecordSnapshotSet PROVE BodyInvariant'
<1>1. Working /\ body.at = "ready" /\ body.plan # <<>> /\ Doing.op = "record"
  BY DEF RecordSnapshotSet, At, Working
<1>2. /\ current \in JobIds /\ Kind = "update" /\ InStep /\ body \in BodyType /\ body.name \in Names
      /\ request[current].set # NoRow
  <2>1. current \in JobIds /\ Kind = "update" /\ body.name \in Names
    BY <1>1, WhoseOperation DEF Kinds
  <2>2. body \in BodyType /\ InStep /\ request[current].set # NoRow
    BY <1>1, <2>1, BodyAsItIs
  <2> QED
    BY <2>1, <2>2
<1>3. Added = 1 /\ body.taken = {}
  <2>1. UpdateBody
    BY <1>1, <1>2 DEF BodyInvariant
  <2>2. ASSUME NEW stamp \in Minutes PROVE ~Ends(body.plan, UpdatePlan(body.name, stamp))
    BY <1>1, <1>2, UpdateInCourse
  <2>3. body.plan # <<Op("preflight", <<>>), Op("record", <<>>)>>
    BY <1>1, Beginnings
  <2> QED
    BY <2>1, <2>2, <2>3 DEF UpdateBody, UpdateAt
<1>4. PICK stamp \in Minutes : stamp = minute'
  BY DEF RecordSnapshotSet
<1> DEFINE whole == UpdatePlan(body.name, stamp)
           k == NextRecordId
           new == [set |-> request[current].set, taken |-> {}, complete |-> FALSE]
<1>5. /\ UNCHANGED <<mirrors, request, expected, current, pc, steps>>
      /\ body'.name = body.name /\ body'.at = "ready" /\ body'.plan = whole
      /\ body'.taken = {} /\ body'.record = k
      /\ k \in RecordIds /\ records' = [records EXCEPT ![k] = new]
  BY <1>1, <1>2, <1>3, <1>4 DEF RecordSnapshotSet, BodyType, aptly, vars, history
<1>6. whole \in Seq(Operation) /\ Ends(whole, whole) /\ Len(whole) \in Nat /\ whole # <<>>
  <2>1. whole \in Seq(Operation) /\ Len(whole) = 2 * Len(SuiteList) + 1 /\ Len(SuiteList) \in Nat
    BY <1>2, UpdateCourse, SuitesInOrder
  <2> HIDE DEF whole
  <2>2. Len(whole) \in Nat /\ Len(whole) # 0
    BY <2>1
  <2>3. whole # <<>> /\ Ends(whole, whole)
    BY <2>1, <2>2, EmptyPlan, EndsWhole
  <2> QED
    BY <2>1, <2>2, <2>3
<1>7. Kind' = "update" /\ Added' = 1 /\ UnderWay' = 0 /\ InStep'
  BY <1>2, <1>3, <1>5 DEF Kind, Added, UnderWay, InStep
<1>8. Finished(whole)' = 0
  <2>1. Len(whole) - Len(whole) = 0
    BY <1>6
  <2> QED
    BY <1>5, <2>1 DEF Finished
<1>9. UpdateAt(stamp)'
  <2>1. Ends(body.plan, whole)'
    BY <1>5, <1>6 DEF Ends
  <2>2. records'[k] = new
    BY <1>5 DEF TypeInvariant
  <2> HIDE DEF whole
  <2>3. Added' = 1 + Finished(whole)' + UnderWay' - 0
    BY <1>7, <1>8
  <2>4. \A i \in 1..Len(whole) : ~(i <= Finished(whole)')
    BY <1>6, <1>8
  <2> USE DEF whole
  <2> QED
    BY <1>5, <1>6, <2>1, <2>2, <2>3, <2>4 DEF UpdateAt
<1> QED
  BY <1>2, <1>5, <1>7, <1>9, BodyAsItWillBe, UpdateAsItWillBe

LEMMA CompletedInCourse ==
    ASSUME IInv, TypeInvariant, BodyInvariant, CompleteSnapshotSet PROVE BodyInvariant'
<1>1. Working /\ body.at = "ready" /\ body.plan # <<>> /\ Doing.op = "complete" /\ ~RecordGone
  BY DEF CompleteSnapshotSet, At, Working
<1>2. /\ current \in JobIds /\ Kind = "update" /\ InStep /\ body \in BodyType /\ body.name \in Names
      /\ request[current].set # NoRow /\ body.plan \in Seq(Operation)
  <2>1. current \in JobIds /\ Kind = "update" /\ body.name \in Names
    BY <1>1, WhoseOperation DEF Kinds
  <2>2. body \in BodyType /\ InStep /\ request[current].set # NoRow
    BY <1>1, <2>1, BodyAsItIs
  <2>3. body.plan \in Seq(Operation)
    BY <1>1, NextTyped
  <2> QED
    BY <2>1, <2>2, <2>3
<1>3. PICK stamp \in Minutes : UpdateAt(stamp)
  BY <1>1, UpdateHasItsRow
<1> DEFINE whole == UpdatePlan(body.name, stamp)
           f == Finished(whole)
           n == Len(SuiteList)
           k == body.record
<1>4. /\ whole \in Seq(Operation) /\ n \in Nat /\ f \in Nat /\ Len(whole) = 2 * n + 1
      /\ f + 1 = 2 * n + 1 /\ Doing = whole[f + 1] /\ Ends(body.plan, whole)
  BY <1>1, <1>2, <1>3, UpdateInCourse DEF UpdateAt
<1> DEFINE rest == Len(whole) - Len(Tail(body.plan))
<1>5. rest = f + 1 /\ Tail(body.plan) = <<>> /\ Ends(Tail(body.plan), whole)
  <2>1. rest = f + 1 /\ (f + 1 = Len(whole) <=> Tail(body.plan) = <<>>) /\ Ends(Tail(body.plan), whole)
    BY <1>1, <1>2, <1>4, InCourse
  <2> QED
    BY <1>4, <2>1
<1>6. /\ UNCHANGED <<mirrors, request, expected, current, pc, steps>>
      /\ body'.name = body.name /\ body'.at = "ready" /\ body'.plan = Tail(body.plan)
      /\ body'.taken = body.taken /\ body'.record = k
      /\ records' = [records EXCEPT ![k].complete = TRUE]
  BY <1>1, <1>2 DEF CompleteSnapshotSet, BodyType, Unchanged, aptly, vars, history
<1>7. Kind' = "update" /\ Added' = Added /\ UnderWay = 0 /\ UnderWay' = 0 /\ InStep'
  BY <1>1, <1>2, <1>6 DEF Kind, Added, UnderWay, InStep
<1>8. Finished(whole)' = f + 1
  <2>1. Finished(whole)' = rest
    BY <1>6 DEF Finished
  <2> HIDE DEF rest, f
  <2> QED
    BY <1>5, <2>1
<1>9. Added' = 1 + Finished(whole)' + UnderWay' - 1
  <2>1. Added = 1 + f + UnderWay - 0
    BY <1>1, <1>3 DEF UpdateAt
  <2> HIDE DEF f, whole
  <2> QED
    BY <1>4, <1>7, <1>8, <2>1
<1>10. records'[k] = [set |-> request[current].set, taken |-> body.taken, complete |-> TRUE]
  <2>1. /\ k \in RecordIds /\ records[k] \in Record
        /\ records[k].set = request[current].set /\ records[k].taken = body.taken
    <3>1. k \in RecordIds
          /\ records[k] = [set |-> request[current].set, taken |-> body.taken, complete |-> FALSE]
      BY <1>1, <1>3 DEF UpdateAt
    <3> HIDE DEF k
    <3>2. records[k] \in Record
      BY <3>1 DEF TypeInvariant
    <3>3. records[k].set = request[current].set /\ records[k].taken = body.taken
      BY <3>1
    <3> QED
      BY <3>1, <3>2, <3>3
  <2> HIDE DEF k
  <2>2. records'[k] = [records[k] EXCEPT !.complete = TRUE]
    BY <1>6, <2>1 DEF TypeInvariant
  <2>3. records'[k] = [set |-> records[k].set, taken |-> records[k].taken, complete |-> TRUE]
    BY <2>1, <2>2 DEF Record
  <2> QED
    BY <2>1, <2>3
<1>11. \A i \in 1..Len(whole) : i <= f + 1 /\ whole[i].op = "snapshot" => whole[i].arg \in body.taken
  <2>1. \A i \in 1..Len(whole) : i <= f /\ whole[i].op = "snapshot" => whole[i].arg \in body.taken
    BY <1>3 DEF UpdateAt
  <2> HIDE DEF f, whole
  <2> QED
    BY <1>1, <1>4, <2>1
<1>12. UpdateAt(stamp)'
  <2>1. Ends(body.plan, whole)'
    BY <1>5, <1>6 DEF Ends
  <2>2. k \in RecordIds /\ body.taken \subseteq SnapshotsAt(body.name, stamp)
    BY <1>3 DEF UpdateAt
  <2> QED
    BY <1>5, <1>6, <1>8, <1>9, <1>10, <1>11, <2>1, <2>2 DEF UpdateAt
<1> QED
  BY <1>2, <1>6, <1>7, <1>12, BodyAsItWillBe, UpdateAsItWillBe

LEMMA TargetInCourse ==
    ASSUME IInv, TypeInvariant, BodyInvariant, RecordsInvariant, ReadTarget PROVE BodyInvariant'
<1>1. Working /\ body.at = "ready" /\ body.plan # <<>> /\ Doing.op = "target"
  BY DEF ReadTarget, At, Working
<1>2. /\ current \in JobIds /\ Kind = "switch" /\ InStep /\ body \in BodyType /\ body.name \in Names
  <2>1. current \in JobIds /\ Kind = "switch" /\ body.name \in Names
    BY <1>1, WhoseOperation DEF Kinds
  <2> QED
    BY <1>1, <2>1, BodyAsItIs
<1>3. Added = 0
  <2>1. SwitchBody
    BY <1>1, <1>2 DEF BodyInvariant
  <2>2. ~(Covers(body.taken, body.name) /\ Ends(body.plan, SwitchPlan(body.name, body.taken)))
    BY <1>1, <1>2, SwitchInCourse
  <2> QED
    BY <2>1, <2>2 DEF SwitchBody, SwitchAt
<1> DEFINE k == request[current].record
           record == records[k]
           whole == SwitchPlan(body.name, record.taken)
<1>4. k \in RecordIds /\ record \in Record
  <2>1. request[current] \in RequestType /\ WellFormed(request[current])
    BY <1>2 DEF TypeInvariant
  <2>2. k \in RecordIds
    BY <1>2, <2>1 DEF WellFormed, RequestType, Kind
  <2> QED
    BY <2>2 DEF TypeInvariant
<1>5. UNCHANGED <<mirrors, published, records, request, expected, current, pc, steps, strayed, remade>>
  BY DEF ReadTarget, Unchanged, aptly, rows, vars, history
<1>6. CASE ~Publishable(record, request[current], body.name)
  <2>1. body' = [body EXCEPT !.at = "raise"]
    BY <1>6 DEF ReadTarget
  <2>2. body'.at = "raise"
    BY <1>2, <2>1 DEF BodyType
  <2> QED
    BY <2>2 DEF BodyInvariant, Working
<1>7. CASE Publishable(record, request[current], body.name)
  <2>1. /\ body'.name = body.name /\ body'.at = "ready"
        /\ body'.taken = record.taken /\ body'.plan = whole
    BY <1>1, <1>2, <1>7 DEF ReadTarget, BodyType
  <2>2. Covers(record.taken, body.name) /\ record.complete
    BY <1>7 DEF Publishable, Covers
  <2>3. whole \in Seq(Operation) /\ Ends(whole, whole) /\ Len(whole) \in Nat
    <3>1. record.taken \in SUBSET Snapshots
      BY <1>4 DEF Record
    <3> HIDE DEF record
    <3>2. whole \in Seq(Operation)
      BY <1>2, <2>2, <3>1, SwitchCourse
    <3> QED
      BY <3>2, EndsWhole, LenProperties
  <2>4. Kind' = "switch" /\ Added' = 0 /\ UnderWay' = 0 /\ InStep'
    BY <1>2, <1>3, <1>5, <2>1 DEF Kind, Added, UnderWay, InStep
  <2>5. Finished(whole)' = 0 /\ Effective(whole)' = 0
    <3>1. Len(whole) - Len(whole) = 0
      BY <2>3
    <3>2. Finished(whole)' = 0
      BY <1>5, <2>1, <3>1 DEF Finished
    <3> QED
      BY <2>1, <3>2 DEF Effective
  <2>6. SwitchAt'
    <3>1. Ends(body'.plan, whole)
      BY <2>1, <2>3
    <3>2. Covers(body.taken, body.name)'
      BY <2>1, <2>2 DEF Covers
    <3>3. \A s \in record.taken \ remade, r \in RecordIds : s \in records[r].taken => records[r].complete
      BY <1>4, <2>2 DEF RecordsInvariant
    <3>4. SwitchPlan(body.name, body.taken)' = whole /\ whole' = whole
      BY <1>5, <2>1
    <3> HIDE DEF whole
    <3>5. Added' = Finished(whole)' + UnderWay'
      BY <2>4, <2>5
    <3>6. \A i \in 1..Len(whole) : ~(i <= Effective(whole)')
      BY <2>3, <2>5
    <3>7. Finished(SwitchPlan(body.name, body.taken))' = Finished(whole)'
          /\ Effective(SwitchPlan(body.name, body.taken))' = Effective(whole)'
          /\ Ends(body.plan, SwitchPlan(body.name, body.taken))'
      BY <1>5, <3>1, <3>4 DEF Finished, Effective, Ends
    <3>8. \A s \in body'.taken \ remade', r \in RecordIds : s \in records'[r].taken => records'[r].complete
      BY <1>5, <2>1, <3>3
    <3> QED
      BY <3>2, <3>4, <3>5, <3>6, <3>7, <3>8 DEF SwitchAt
  <2> QED
    BY <1>2, <2>1, <2>4, <2>6, BodyAsItWillBe
<1> QED
  BY <1>6, <1>7

LEMMA ErasedInCourse ==
    ASSUME IInv, TypeInvariant, BodyInvariant, EraseRow PROVE BodyInvariant'
<1>1. Working /\ body.at = "ready" /\ body.plan # <<>> /\ Doing.op = "erase"
  BY DEF EraseRow, At, Working
<1>2. /\ current \in JobIds /\ Kind \in {"discard", "remove"} /\ InStep /\ body \in BodyType /\ DeleteBody
      /\ body.plan \in Seq(Operation)
  <2>1. current \in JobIds /\ Kind \in {"discard", "remove"}
    BY <1>1, WhoseOperation DEF Kinds
  <2>2. body \in BodyType /\ InStep /\ DeleteBody
    BY <1>1, <2>1, BodyAsItIs
  <2>3. body.plan \in Seq(Operation)
    BY <1>1, NextTyped
  <2> QED
    BY <2>1, <2>2, <2>3
<1> DEFINE whole == Plan(request[current], body.name)
           f == Finished(whole)
           m == Len(request[current].names)
           rest == Len(whole) - Len(Tail(body.plan))
<1>3. /\ whole \in Seq(Operation) /\ m \in Nat /\ Len(whole) = m + 2 /\ f \in Nat
      /\ f + 1 = m + 2 /\ Doing = whole[f + 1] /\ Ends(body.plan, whole)
      /\ \A i \in 1..m : whole[i].op = IF Kind = "discard" THEN "delete" ELSE "dropMirror"
  <2>1. Ends(body.plan, whole)
    BY <1>2 DEF DeleteBody
  <2>2. /\ whole \in Seq(Operation) /\ m \in Nat /\ Len(whole) = m + 2 /\ f \in Nat
        /\ f + 1 \in 1..(m + 2) /\ Doing = whole[f + 1]
        /\ \A i \in 1..m : whole[i].op = IF Kind = "discard" THEN "delete" ELSE "dropMirror"
        /\ \/ f + 1 \in 1..m
           \/ f + 1 = m + 1 /\ Doing.op = "cleanup"
           \/ f + 1 = m + 2 /\ Doing.op = "erase"
    BY <1>1, <1>2, <2>1, DeleteInCourse
  <2>3. f + 1 \in 1..m => Doing.op \in {"delete", "dropMirror"}
    BY <2>2
  <2> QED
    BY <1>1, <2>1, <2>2, <2>3
<1>4. rest = f + 1 /\ Tail(body.plan) = <<>> /\ Ends(Tail(body.plan), whole)
  <2>1. rest = f + 1 /\ (f + 1 = Len(whole) <=> Tail(body.plan) = <<>>) /\ Ends(Tail(body.plan), whole)
    BY <1>1, <1>2, <1>3, InCourse
  <2> QED
    BY <1>3, <2>1
<1>5. /\ UNCHANGED <<mirrors, snapshots, request, expected, current, pc, steps>>
      /\ body'.name = body.name /\ body'.at = "ready" /\ body'.plan = Tail(body.plan)
  BY <1>1, <1>2 DEF EraseRow, BodyType, Unchanged, aptly, vars, history
<1>6. Kind' = Kind /\ Added' = Added /\ UnderWay = 0 /\ UnderWay' = 0 /\ InStep'
  BY <1>1, <1>2, <1>5 DEF Kind, Added, UnderWay, InStep
<1>7. Finished(whole)' = f + 1 /\ Effective(whole)' = f + 1 /\ Effective(whole) = f
  <2>1. Finished(whole)' = rest
    BY <1>5 DEF Finished
  <2>2. Effective(whole)' = rest + 0
    BY <1>5 DEF Finished, Effective
  <2>3. Effective(whole) = f + 0
    BY <1>1 DEF Effective
  <2> HIDE DEF rest, f
  <2> QED
    BY <1>3, <1>4, <2>1, <2>2, <2>3
<1>8. Added' = Finished(whole)' + UnderWay' - 1
  <2>1. Added = f + UnderWay - 0
    BY <1>1, <1>2 DEF DeleteBody
  <2> HIDE DEF f, whole
  <2> QED
    BY <1>3, <1>6, <1>7, <2>1
<1>9. ASSUME NEW i \in 1..Len(whole), i <= f + 1, whole[i].op \in {"delete", "dropMirror"}
      PROVE  whole[i].arg \notin mirrors' \cup snapshots'
  <2>1. i <= f
    <3> HIDE DEF f, whole
    <3> QED
      BY <1>1, <1>3, <1>9
  <2> QED
    BY <1>2, <1>5, <1>7, <1>9, <2>1 DEF DeleteBody
<1>10. DeleteBody'
  <2>1. Plan(request[current], body.name)' = whole
    BY <1>5
  <2>2. Ends(body.plan, whole)'
    BY <1>4, <1>5 DEF Ends
  <2> QED
    BY <1>4, <1>5, <1>7, <1>8, <1>9, <2>1, <2>2 DEF DeleteBody
<1> QED
  BY <1>2, <1>5, <1>6, <1>10, BodyAsItWillBe

LEMMA BegunInCourse ==
    ASSUME IInv, TypeInvariant, BeginJob PROVE BodyInvariant'
<1> DEFINE q == request[current]
           name == SetName(q.set)
<1>1. /\ current \in JobIds /\ state[current] = "queued" /\ steps[current] = <<>>
      /\ q \in RequestType /\ q.kind \in Kinds /\ WellFormed(q)
  <2>1. current \in JobIds /\ state[current] = "queued" /\ steps[current] = <<>>
    BY InHand DEF BeginJob
  <2> QED
    BY <2>1 DEF TypeInvariant
<1>2. /\ UNCHANGED <<request, current, steps, mirrors, sets>>
      /\ q.kind \notin {"discard", "remove"} => name # NoName
      /\ expected' = [expected EXCEPT ![current] = ExpectedSteps(q, name)]
      /\ body' = [NoBody EXCEPT !.name = name, !.plan = Plan(q, name)]
  BY DEF BeginJob, Begin, Unchanged, aptly, rows
<1>3. /\ body'.name = name /\ body'.plan = Plan(q, name) /\ body'.at = "ready"
      /\ body'.taken = {} /\ body'.existing = {}
  BY <1>2 DEF NoBody
<1>4. Kind' = q.kind /\ Added' = 0 /\ UnderWay' = 0
  BY <1>1, <1>2, <1>3 DEF Kind, Added, UnderWay
<1>5. expected'[current] = ExpectedSteps(q, name)
  BY <1>1, <1>2 DEF TypeInvariant
<1>6. InStep'
  BY <1>2, <1>3, <1>5 DEF InStep
<1>7. q.kind \in {"create", "update", "switch"} => name \in Names /\ q.set # NoRow
  <2>1. sets \in [SetIds -> Names \cup {NoName}] /\ q.set \in SetIds \cup {NoRow}
    BY <1>1 DEF TypeInvariant, RequestType
  <2> QED
    BY <1>1, <1>2, <2>1 DEF WellFormed, SetName
<1>8. ASSUME q.kind = "create" PROVE CreateBody'
  <2>1. body'.plan = <<Op("list", <<>>)>>
    BY <1>3, <1>8 DEF Plan
  <2> QED
    BY <1>3, <1>4, <1>7, <1>8, <2>1 DEF CreateBody, CreateAt
<1>9. ASSUME q.kind = "update" PROVE UpdateBody'
  <2>1. body'.plan = <<Op("preflight", <<>>), Op("record", <<>>)>>
    BY <1>3, <1>9 DEF Plan
  <2> QED
    BY <1>2, <1>3, <1>4, <1>7, <1>9, <2>1 DEF UpdateBody, UpdateAt
<1>10. ASSUME q.kind = "switch" PROVE SwitchBody'
  <2>1. body'.plan = <<Op("target", <<>>)>>
    BY <1>3, <1>10 DEF Plan
  <2> QED
    BY <1>3, <1>4, <1>7, <1>10, <2>1 DEF SwitchBody, SwitchAt
<1>11. ASSUME q.kind \in {"discard", "remove"} PROVE DeleteBody'
  <2> DEFINE whole == Plan(q, name)
  <2>1. whole \in Seq(Operation) /\ Len(whole) \in Nat /\ Len(whole) # 0
    <3>1. PICK op : /\ \/ op = "delete" /\ q.names \in Seq(Snapshots)
                       \/ op = "dropMirror" /\ q.names \in Seq(Mirrors)
                    /\ whole = ForEach(q.names, op) \o <<Op("cleanup", <<>>), Op("erase", <<>>)>>
      <4>1. CASE q.kind = "discard"
        <5>1. q.names \in Seq(Snapshots)
          BY <1>1, <4>1 DEF WellFormed
        <5>2. whole = ForEach(q.names, "delete") \o <<Op("cleanup", <<>>), Op("erase", <<>>)>>
          BY <4>1 DEF Plan
        <5> HIDE DEF whole, q
        <5> QED
          BY <5>1, <5>2
      <4>2. CASE q.kind = "remove"
        <5>1. q.names \in Seq(Mirrors)
          BY <1>1, <4>2 DEF WellFormed
        <5>2. whole = ForEach(q.names, "dropMirror") \o <<Op("cleanup", <<>>), Op("erase", <<>>)>>
          BY <4>2 DEF Plan
        <5> HIDE DEF whole, q
        <5> QED
          BY <5>1, <5>2
      <4> QED
        BY <1>11, <4>1, <4>2
    <3> HIDE DEF q, name
    <3>2. whole \in Seq(Operation) /\ Len(whole) = Len(q.names) + 2 /\ Len(q.names) \in Nat
      BY <3>1, DeleteCourse
    <3> HIDE DEF whole
    <3> QED
      BY <3>2
  <2>2. Ends(whole, whole) /\ whole # <<>>
    BY <2>1, EndsWhole, EmptyPlan
  <2>3. Plan(request[current], body.name)' = whole /\ whole' = whole
    BY <1>2, <1>3 DEF SetName
  <2>3a. body'.plan = whole
    BY <1>3
  <2> HIDE DEF whole
  <2>4. Finished(whole)' = 0
    <3>1. Len(whole) - Len(whole) = 0
      BY <2>1
    <3> QED
      BY <2>3, <2>3a, <3>1 DEF Finished
  <2>5. Effective(whole)' = 0
    BY <1>3, <2>4 DEF Effective
  <2>6. Ends(body.plan, whole)' /\ body'.plan # <<>>
    BY <2>2, <2>3, <2>3a DEF Ends
  <2>7. Added' = Finished(whole)' + UnderWay' - 0
    BY <1>4, <2>4
  <2>8. \A i \in 1..Len(whole) : ~(i <= Effective(whole)')
    BY <2>1, <2>5
  <2>9. Finished(Plan(request[current], body.name))' = Finished(whole)'
        /\ Effective(Plan(request[current], body.name))' = Effective(whole)'
        /\ Ends(body.plan, Plan(request[current], body.name))'
    BY <2>3, <2>6 DEF Finished, Effective, Ends
  <2> QED
    BY <2>3, <2>6, <2>7, <2>8, <2>9 DEF DeleteBody
<1> QED
  BY <1>4, <1>6, <1>8, <1>9, <1>10, <1>11 DEF BodyInvariant

LEMMA BodyIsKept ==
    ASSUME IInv, TypeInvariant, BodyInvariant, TaskInvariant, RecordsInvariant, PublishedInvariant,
           [WorkflowNext]_everything
    PROVE  BodyInvariant'
<1>a. body \in BodyType /\ (pc = "body" => current \in JobIds /\ state[current] = "running")
  BY InHand DEF TypeInvariant
<1>b. ASSUME NEW place, Move(place)
      PROVE  /\ UNCHANGED <<records, request, expected, current, pc, steps>>
             /\ body' = [body EXCEPT !.at = place] /\ body'.at = place
             /\ place = body.at => body' = body
  BY <1>a, <1>b DEF Move, BodyType, Unchanged, rows, vars
<1>c. ASSUME pc' # "body" \/ body'.at \in {"refused", "raise"} PROVE BodyInvariant'
  BY <1>c DEF BodyInvariant, Working
<1>1. CASE Requests
  <2>1. RequestFrame /\ Stands
    BY <1>1, RequestsStayInFrame, RequestsStand
  <2>2. pc = "body" => request'[current] = request[current]
    BY <1>a, <2>1 DEF Stands
  <2> QED
    BY <2>1, <2>2, BodyStays DEF RequestFrame, aptly
<1>2. CASE Get \/ DropJob \/ FailRunningSteps \/ Close \/ CommitFails \/ BodyReturns \/ BodyRaises \/ Start \/ Ending
  BY <1>2, <1>c DEF Get, DropJob, Drop, FailRunningSteps, Close, CommitFails, Abandon, BodyReturns, Succeed,
                    BodyRaises, Raise, Release, Start, Ending, ProcessEnds, Crash, Cancel, Die
<1>3. CASE BeginJob
  BY <1>3, BegunInCourse
<1>4. CASE NextStep \/ StepDone \/ StepSkipped
  BY <1>4, NextStepInCourse, FinishedStepInCourse
<1>5. CASE StepRefused
  <2>1. body'.at = "raise"
    BY <1>5, <1>a DEF StepRefused, BodyType
  <2> QED
    BY <1>c, <2>1
<1>6. CASE ListMirrors \/ RecordSnapshotSet \/ CompleteSnapshotSet \/ ReadTarget \/ EraseRow
  BY <1>6, ListedInCourse, RecordedInCourse, CompletedInCourse, TargetInCourse, ErasedInCourse
<1>7. CASE ListFails \/ CallFails \/ CallIsNotAnswered \/ GiveUp
  <2>1. \E place \in {"refused", "raise"} : Move(place)
    BY <1>7 DEF ListFails, CallFails, CallIsNotAnswered, GiveUp, Failures
  <2>2. body'.at \in {"refused", "raise"}
    BY <1>b, <2>1
  <2> QED
    BY <1>c, <2>2
<1>8. CASE CallSucceeds
  BY <1>8, CallInCourse
<1>9. CASE CallIsAccepted
  <2>1. At("call") /\ Doing.op \in Ops /\ Move("wait") /\ UNCHANGED history
        /\ UNCHANGED <<mirrors, snapshots, published>>
    BY <1>9 DEF CallIsAccepted, Post
  <2>2. UNCHANGED <<records, request, expected, current, pc, steps>> /\ body' = [body EXCEPT !.at = "wait"]
    BY <1>b, <2>1
  <2> QED
    BY <2>1, <2>2, BodyStays
<1>10. CASE SomeTaskEnds
  <2>1. PICK t \in tasks : TaskEnds(t)
    BY <1>10 DEF SomeTaskEnds
  <2>2. UNCHANGED history
    BY <2>1 DEF TaskEnds
  <2>3. CASE Awaited(t)
    <3>1. (EndWell(t) /\ Move("done")) \/ Move("raise")
      BY <2>1, <2>3 DEF TaskEnds
    <3>2. CASE Move("raise")
      BY <1>b, <1>c, <3>2
    <3> QED
      BY <2>2, <2>3, <3>1, <3>2, TaskInCourse
  <2>4. CASE ~Awaited(t)
    <3>1. (EndWell(t) \/ EndBadly(t)) /\ Move(body.at)
      BY <2>1, <2>4 DEF TaskEnds
    <3>2. body' = body /\ UNCHANGED <<records, request, expected, current, pc, steps>>
      BY <1>b, <3>1
    <3>3. strayed
      <4>1. ~strayed => Working /\ t.job = current /\ body.at = "wait"
        BY DEF TaskInvariant
      <4> QED
        BY <2>4, <4>1 DEF Awaited, At, Working
    <3>4. mirrors' \subseteq mirrors /\ UNCHANGED snapshots
      BY <3>1 DEF EndWell, EndBadly
    <3> QED
      BY <2>2, <3>2, <3>3, <3>4, BodyStays
  <2> QED
    BY <2>3, <2>4
<1>11. CASE AptlyRestarts
  <2>1. CASE At("wait")
    <3>1. Move("raise")
      BY <1>11, <2>1 DEF AptlyRestarts
    <3> QED
      BY <1>b, <1>c, <3>1
  <2>2. CASE ~At("wait")
    <3>1. Move(body.at) /\ UNCHANGED history /\ UNCHANGED <<mirrors, snapshots, published>>
      BY <1>11, <2>2 DEF AptlyRestarts, LoseTasks
    <3>2. body' = body /\ UNCHANGED <<records, request, expected, current, pc, steps>>
      BY <1>b, <3>1
    <3> QED
      BY <3>1, <3>2, BodyStays
  <2> QED
    BY <2>1, <2>2
<1>12. CASE Enqueued \/ UNCHANGED everything
  <2>1. UNCHANGED <<mirrors, snapshots, published, records, request, expected, current, pc, steps, body, history>>
    BY <1>12 DEF Enqueued, Put, RefreshFails, database, Elsewhere, Unchanged, everything, vars, aptly, rows
  <2> QED
    BY <2>1, BodyStays
<1>13. CASE Background
  <2>1. CASE Server
    BY <2>1, <1>2, <1>3, <1>4, <1>5, <1>6, <1>7, <1>8, <1>9 DEF Server
  <2> QED
    BY <1>13, <2>1, <1>2, <1>7, <1>10, <1>11 DEF Background
<1> QED
  BY <1>1, <1>2, <1>12, <1>13 DEF WorkflowNext

-----------------------------------------------------------------------------
(* What is published. *)

\* a row takes only what is not published, and does not become incomplete
LEMMA NothingPublishedIsTaken ==
    ASSUME NoHalfTakenSetPublished, strayed => strayed', remade \subseteq remade', UNCHANGED published,
           \A r \in RecordIds : \A s \in records'[r].taken :
              \/ s \in records[r].taken /\ (records[r].complete => records'[r].complete)
              \/ ~strayed => ~InUse(s)
    PROVE  NoHalfTakenSetPublished'
BY DEF NoHalfTakenSetPublished, InUse

LEMMA TakenIsNotPublished ==
    ASSUME IInv, TypeInvariant, BodyInvariant, NoHalfTakenSetPublished, StepDone, Doing.op = "snapshot"
    PROVE  NoHalfTakenSetPublished'
<1>1. Working /\ body.at = "done" /\ body.plan # <<>> /\ ~RecordGone
  BY DEF StepDone, At, Working, BodyInvariant, InStep
<1>2. \E stamp \in Minutes : UpdateAt(stamp)
  BY <1>1, UpdateHasItsRow
<1> DEFINE k == body.record
           arg == Doing.arg
           more == body.taken \cup {arg}
<1>3. /\ k \in RecordIds /\ JustMade(arg)
      /\ records[k] = [set |-> request[current].set, taken |-> body.taken, complete |-> FALSE]
  BY <1>1, <1>2 DEF UpdateAt
<1>4. records' = [records EXCEPT ![k].taken = more] /\ UNCHANGED <<published, strayed, remade>>
  BY DEF StepDone, aptly, history
<1>5. (~strayed => ~InUse(arg)) /\ records[k].taken = body.taken
  BY <1>3 DEF JustMade
<1> HIDE DEF k, arg
<1>6. records'[k].taken = more /\ \A r \in RecordIds \ {k} : records'[r] = records[r]
  BY <1>3, <1>4 DEF TypeInvariant, Record
<1>7. records'[k].complete = records[k].complete
  BY <1>3, <1>4 DEF TypeInvariant, Record
<1> QED
  BY <1>4, <1>5, <1>6, <1>7, NothingPublishedIsTaken

\* the job in hand publishes what the set it has read lists, and that set was complete
LEMMA PublicationIsOfACompleteSet ==
    ASSUME IInv, TypeInvariant, BodyInvariant, TaskInvariant, NoHalfTakenSetPublished, ~strayed,
           NEW t \in tasks, EndWell(t), UNCHANGED <<records, history>>
    PROVE  NoHalfTakenSetPublished'
<1>1. CASE t.op # "publish"
  BY <1>1, NothingPublishedIsTaken DEF EndWell, history
<1>2. CASE t.op = "publish"
  <2>1. Working /\ t.job = current /\ body.at = "wait" /\ t.op = Doing.op /\ t.arg = Doing.arg
    BY DEF TaskInvariant
  <2>2. body.plan # <<>>
    BY <2>1 DEF BodyInvariant, InStep
  <2>3. Kind = "switch" /\ body.name \in Names
    BY <1>2, <2>1, <2>2, WhoseOperation DEF Kinds
  <2>4. SwitchAt
    BY <1>2, <2>1, <2>3, BodyAsItIs
  <2>5. Doing.arg \in body.taken
    <3>1. Covers(body.taken, body.name) /\ Ends(body.plan, SwitchPlan(body.name, body.taken))
      BY <2>4 DEF SwitchAt
    <3> QED
      BY <1>2, <2>1, <2>2, <2>3, <3>1, SwitchInCourse
  <2>6. \A r \in RecordIds : t.arg \in records[r].taken \ remade => records[r].complete
    BY <2>1, <2>4, <2>5 DEF SwitchAt
  <2>7. published' = [published EXCEPT ![MirrorOf(t.arg)] = t.arg] /\ UNCHANGED <<records, remade, strayed>>
    BY <1>2 DEF EndWell, history
  <2>8. \A m \in Mirrors : published'[m] \in {published[m], t.arg}
    BY <2>7 DEF TypeInvariant, AptlyTypeOK
  <2> QED
    BY <2>6, <2>7, <2>8 DEF NoHalfTakenSetPublished
<1> QED
  BY <1>1, <1>2

LEMMA NoHalfTakenSetIsPublished ==
    ASSUME IInv, TypeInvariant, BodyInvariant, TaskInvariant, RecordsInvariant, NoHalfTakenSetPublished,
           [WorkflowNext]_everything
    PROVE  NoHalfTakenSetPublished'
<1>a. NoRecord.taken = {}
  BY DEF NoRecord
<1>b. ASSUME UNCHANGED published, \A r \in RecordIds : records'[r] \in {records[r], NoRecord},
             strayed => strayed', remade \subseteq remade'
      PROVE  NoHalfTakenSetPublished'
  BY <1>a, <1>b, NothingPublishedIsTaken
<1>c. ASSUME NEW place, Move(place) PROVE UNCHANGED records
  BY <1>c DEF Move, rows
<1>d. remade \subseteq RemadeNow
  BY DEF RemadeNow
<1>1. CASE Requests
  BY <1>1, <1>b, RequestsStayInFrame DEF RequestFrame, aptly, history
<1>2. CASE \/ DropJob \/ BeginJob \/ NextStep \/ StepSkipped \/ StepRefused \/ ListMirrors
           \/ ReadTarget \/ CommitFails \/ BodyReturns \/ BodyRaises
  BY <1>2, <1>b DEF DropJob, BeginJob, NextStep, StepSkipped, StepRefused, ListMirrors,
                    ReadTarget, CommitFails, BodyReturns, BodyRaises, aptly, rows, history
<1>3. CASE Elsewhere \/ Ending \/ UNCHANGED everything
  <2>1. UNCHANGED <<published, records, remade>>
    BY <1>3 DEF Elsewhere, Ending, ProcessEnds, everything, aptly, rows, history
  <2>2. strayed => strayed'
    BY <1>3 DEF Elsewhere, Ending, ProcessEnds, everything, history
  <2> QED
    BY <1>b, <2>1, <2>2
<1>4. CASE ListFails \/ CallIsAccepted \/ CallFails \/ GiveUp \/ AptlyRestarts
  BY <1>4, <1>b, <1>c DEF ListFails, CallIsAccepted, CallFails, GiveUp, AptlyRestarts, Post, LoseTasks, aptly, history
<1>5. CASE CallSucceeds \/ CallIsNotAnswered
  <2>1. UNCHANGED <<published, records>>
    BY <1>5, <1>c DEF CallSucceeds, CallIsNotAnswered, CreateMirror, CreateSnapshot, DeleteSnapshot, Post, aptly
  <2>2. (strayed => strayed') /\ remade \subseteq remade'
    BY <1>5, <1>d DEF CallSucceeds, CallIsNotAnswered, history
  <2> QED
    BY <1>b, <2>1, <2>2
<1>6. CASE SomeTaskEnds
  <2>1. PICK t \in tasks : EndWell(t) \/ EndBadly(t)
    BY <1>6 DEF SomeTaskEnds, TaskEnds
  <2>2. UNCHANGED <<records, history>>
    BY <1>6, <1>c DEF SomeTaskEnds, TaskEnds
  <2>3. CASE EndBadly(t)
    BY <1>b, <2>2, <2>3 DEF EndBadly, history
  <2>4. CASE EndWell(t) /\ ~strayed
    BY <2>2, <2>4, PublicationIsOfACompleteSet
  <2>5. CASE strayed
    BY <2>2, <2>5 DEF history, NoHalfTakenSetPublished
  <2> QED
    BY <2>1, <2>3, <2>4, <2>5
<1>7. CASE StepDone
  <2>1. CASE Doing.op = "snapshot"
    BY <1>7, <2>1, TakenIsNotPublished
  <2>2. CASE Doing.op # "snapshot"
    BY <1>7, <1>b, <2>2 DEF StepDone, aptly, history
  <2> QED
    BY <2>1, <2>2
<1>8. CASE RecordSnapshotSet
  <2> DEFINE k == NextRecordId
             new == [set |-> request[current].set, taken |-> {}, complete |-> FALSE]
  <2>1. k \in RecordIds /\ records' = [records EXCEPT ![k] = new] /\ UNCHANGED <<published, strayed, remade>>
    BY <1>8 DEF RecordSnapshotSet, aptly, history
  <2>2. new.taken = {}
    OBVIOUS
  <2> HIDE DEF k, new
  <2>3. \A r \in RecordIds : records'[r] = IF r = k THEN new ELSE records[r]
    BY <2>1 DEF TypeInvariant
  <2> QED
    BY <2>1, <2>2, <2>3, NothingPublishedIsTaken
<1>9. CASE CompleteSnapshotSet
  <2>1. records' = [records EXCEPT ![body.record].complete = TRUE] /\ UNCHANGED <<published, strayed, remade>>
    BY <1>9 DEF CompleteSnapshotSet, aptly, history
  <2>2. \A r \in RecordIds : records'[r].taken = records[r].taken /\ (records[r].complete => records'[r].complete)
    BY <2>1 DEF TypeInvariant, Record
  <2> QED
    BY <2>1, <2>2, NothingPublishedIsTaken
<1>10. CASE EraseRow
  BY <1>10, <1>b DEF EraseRow, WithoutSet, rows, aptly, history, TypeInvariant
<1>11. CASE Background \/ Enqueued
  <2>1. CASE Server
    BY <2>1, <1>2, <1>3, <1>4, <1>5, <1>7, <1>8, <1>9, <1>10 DEF Server
  <2> QED
    BY <1>11, <2>1, <1>3, <1>4, <1>6 DEF Background, Enqueued
<1> QED
  BY <1>1, <1>3, <1>11 DEF WorkflowNext

-----------------------------------------------------------------------------
(* The steps that were announced. *)

LEMMA AsAnnounced ==
    ASSUME IInv, TypeInvariant, BodyInvariant, Working, body.at = "ready",
           body.plan = <<>> \/ Doing.op \notin Stepless
    PROVE  /\ body.plan = <<>> => Added = expected[current]
           /\ body.plan # <<>> => Added + 1 <= expected[current]
<1>1. /\ current \in JobIds /\ Kind \in Kinds /\ Added \in Nat /\ body.plan \in Seq(Operation) /\ UnderWay = 0
      /\ expected[current] = ExpectedSteps(request[current], body.name)
  <2>1. current \in JobIds /\ Kind \in Kinds /\ Added \in Nat /\ InStep /\ body \in BodyType
    BY BodyAsItIs
  <2> QED
    BY <2>1 DEF InStep, BodyType, UnderWay
<1>2. CASE Kind = "create"
  <2> DEFINE whole == CreatePlan(body.name)
  <2>1. CreateAt /\ body.name \in Names
    BY <1>2, BodyAsItIs DEF Stepless
  <2>2. whole \in Seq(Operation) /\ Len(whole) = Len(SuiteList) /\ Ends(body.plan, whole) /\ Len(SuiteList) \in Nat
    BY <2>1, CreateCourse, SuitesInOrder DEF CreateAt
  <2>3. Finished(whole) \in 0..Len(whole) /\ (body.plan = <<>> <=> Finished(whole) = Len(whole))
    BY <1>1, <2>2, InCourse
  <2>4. Added = Finished(whole) + 0
    BY <1>1, <2>1 DEF CreateAt
  <2>5. ExpectedSteps(request[current], body.name) = Len(SuiteList)
    BY <1>2 DEF ExpectedSteps, Kind
  <2> HIDE DEF whole
  <2> QED
    BY <1>1, <2>2, <2>3, <2>4, <2>5
<1>3. CASE Kind = "update" /\ body.plan # <<>> /\ Doing.op = "preflight"
  <2>1. body.plan = <<Op("preflight", <<>>), Op("record", <<>>)>> /\ Added = 0
    <3>1. UpdateBody
      BY <1>1, <1>3 DEF BodyInvariant
    <3>2. ASSUME NEW stamp \in Minutes, UpdateAt(stamp), body.name \in Names PROVE FALSE
      <4> DEFINE whole == UpdatePlan(body.name, stamp)
      <4>1. /\ whole \in Seq(Operation) /\ Ends(body.plan, whole)
            /\ \A i \in 1..Len(whole) : whole[i].op \in {"sync", "snapshot", "complete"}
        BY <3>2, UpdateOperations DEF UpdateAt
      <4> HIDE DEF whole
      <4>2. Doing = whole[Finished(whole) + 1] /\ Finished(whole) + 1 \in 1..Len(whole)
        BY <1>1, <1>3, <4>1, InCourse
      <4> QED
        BY <1>3, <4>1, <4>2
    <3>3. body.plan = <<Op("record", <<>>)>> => Doing.op = "record"
      BY DEF Doing, Op
    <3> QED
      BY <1>1, <1>3, <3>1, <3>2, <3>3 DEF UpdateBody
  <2>2. ExpectedSteps(request[current], body.name) = 1 + 2 * Len(SuiteList) /\ Len(SuiteList) \in Nat
    BY <1>3, SuitesInOrder DEF ExpectedSteps, Kind
  <2> QED
    BY <1>1, <2>1, <2>2
<1>6. CASE Kind = "update" /\ (body.plan = <<>> \/ Doing.op # "preflight")
  <2>1. body.name \in Names /\ \E stamp \in Minutes : UpdateAt(stamp)
    BY <1>6, BodyAsItIs DEF Stepless
  <2>2. PICK stamp \in Minutes : UpdateAt(stamp)
    BY <2>1
  <2> DEFINE whole == UpdatePlan(body.name, stamp)
             n == Len(SuiteList)
  <2>3. /\ whole \in Seq(Operation) /\ Len(whole) = 2 * n + 1 /\ Ends(body.plan, whole) /\ n \in Nat
        /\ whole[2 * n + 1] = Op("complete", <<>>)
    BY <2>1, <2>2, UpdateCourse, SuitesInOrder DEF UpdateAt
  <2>4. /\ Finished(whole) \in 0..Len(whole) /\ (body.plan = <<>> <=> Finished(whole) = Len(whole))
        /\ body.plan # <<>> => Doing = whole[Finished(whole) + 1]
    BY <1>1, <2>3, InCourse
  <2>5. Added = 1 + Finished(whole) + 0 - (IF body.plan = <<>> THEN 1 ELSE 0)
    BY <1>1, <2>2 DEF UpdateAt
  <2>6. ExpectedSteps(request[current], body.name) = 1 + 2 * n
    BY <1>6 DEF ExpectedSteps, Kind
  <2> HIDE DEF whole, n
  <2>7. body.plan # <<>> => Finished(whole) + 1 # Len(whole)
    <3>1. Op("complete", <<>>).op \in Stepless
      BY DEF Op, Stepless
    <3> QED
      BY <2>3, <2>4, <3>1
  <2> QED
    BY <1>1, <2>3, <2>4, <2>5, <2>6, <2>7
<1>4. CASE Kind = "switch"
  <2> DEFINE whole == SwitchPlan(body.name, body.taken)
             n == Len(SuiteList)
             c == IF body.name \in Checked THEN 2 ELSE 1
  <2>1. SwitchAt /\ body.name \in Names /\ body.taken \in SUBSET Snapshots
    BY <1>4, BodyAsItIs DEF BodyType, Stepless
  <2>2. whole \in Seq(Operation) /\ Len(whole) = n + c /\ Ends(body.plan, whole) /\ n \in Nat /\ c \in Nat
    BY <2>1, SwitchCourse, SuitesInOrder DEF SwitchAt
  <2>3. Finished(whole) \in 0..Len(whole) /\ (body.plan = <<>> <=> Finished(whole) = Len(whole))
    BY <1>1, <2>2, InCourse
  <2>4. Added = Finished(whole) + 0
    BY <1>1, <2>1 DEF SwitchAt
  <2>5. ExpectedSteps(request[current], body.name) = n + c
    BY <1>4 DEF ExpectedSteps, Kind
  <2> HIDE DEF whole, n, c
  <2> QED
    BY <1>1, <2>2, <2>3, <2>4, <2>5
<1>5. CASE Kind \in {"discard", "remove"}
  <2> DEFINE q == request[current]
             whole == Plan(q, body.name)
             m == Len(q.names)
  <2>1. DeleteBody
    BY <1>5, BodyAsItIs
  <2>2. /\ whole \in Seq(Operation) /\ Len(whole) = m + 2 /\ m \in Nat
        /\ whole[m + 2] = Op("erase", <<>>)
    <3>1. q \in RequestType /\ WellFormed(q)
      BY <1>1 DEF TypeInvariant
    <3>2. CASE Kind = "discard"
      <4>1. q.names \in Seq(Snapshots)
            /\ Plan(q, body.name) = ForEach(q.names, "delete") \o <<Op("cleanup", <<>>), Op("erase", <<>>)>>
        BY <3>1, <3>2 DEF WellFormed, Plan, Kind
      <4> HIDE DEF q
      <4> QED
        BY <4>1, DeleteCourse
    <3>3. CASE Kind = "remove"
      <4>1. q.names \in Seq(Mirrors)
            /\ Plan(q, body.name) = ForEach(q.names, "dropMirror") \o <<Op("cleanup", <<>>), Op("erase", <<>>)>>
        BY <3>1, <3>3 DEF WellFormed, Plan, Kind
      <4> HIDE DEF q
      <4> QED
        BY <4>1, DeleteCourse
    <3> QED
      BY <1>5, <3>2, <3>3
  <2>3. Ends(body.plan, whole)
    BY <2>1 DEF DeleteBody
  <2>4. /\ Finished(whole) \in 0..Len(whole) /\ (body.plan = <<>> <=> Finished(whole) = Len(whole))
        /\ body.plan # <<>> => Doing = whole[Finished(whole) + 1]
    BY <1>1, <2>2, <2>3, InCourse
  <2>5. Added = Finished(whole) + 0 - (IF body.plan = <<>> THEN 1 ELSE 0)
    BY <1>1, <2>1 DEF DeleteBody
  <2>6. ExpectedSteps(request[current], body.name) = m + 1
    BY <1>5 DEF ExpectedSteps, Kind
  <2> HIDE DEF whole, m
  <2>7. body.plan # <<>> => Finished(whole) + 1 # Len(whole)
    <3>1. Op("erase", <<>>).op \in Stepless
      BY DEF Op, Stepless
    <3> QED
      BY <2>2, <2>4, <3>1
  <2> QED
    BY <1>1, <2>2, <2>4, <2>5, <2>6, <2>7
<1> QED
  BY <1>1, <1>2, <1>3, <1>4, <1>5, <1>6 DEF Kinds

\* steps that stay as they are, of jobs that do not succeed now
LEMMA StepsStay ==
    ASSUME IInv, StepsInvariant, Stands,
           \A j \in JobIds : /\ steps'[j] = steps[j] /\ expected'[j] = expected[j]
                             /\ state'[j] = "succeeded" => state[j] = "succeeded"
    PROVE  StepsInvariant'
<1>1. \A j \in JobIds : 1..Len(steps[j]) # {} => state[j] # "absent"
  <2>1. \A j \in JobIds : state[j] = "absent" => steps[j] = <<>>
    BY DEF IInv, StepsMatchOutcome
  <2> QED
    BY <2>1, EmptySeq
<1> QED
  BY <1>1 DEF StepsInvariant, Stands, Asked

\* the job in hand goes on: it has no more steps than announced, and skips one only if it creates
LEMMA StepsInHand ==
    ASSUME IInv, StepsInvariant, UNCHANGED request, pc \in {"body", "failing"}, UNCHANGED expected,
           \A j \in JobIds : state'[j] = "succeeded" => state[j] = "succeeded",
           state[current] = "running", NEW s, steps' = [steps EXCEPT ![current] = s],
           current \in JobIds, Len(s) <= expected[current],
           \A i \in 1..Len(s) : s[i] = "skipped" => Asked(current, "create")
    PROVE  StepsInvariant'
<1>1. steps \in [JobIds -> Seq(StepState)]
  BY InHand
<1> QED
  BY <1>1 DEF StepsInvariant, Asked

LEMMA StepsAreKept ==
    ASSUME IInv, TypeInvariant, BodyInvariant, RecordsInvariant, StepsInvariant, [WorkflowNext]_everything
    PROVE  StepsInvariant'
<1>a. /\ state \in [JobIds -> JobState \cup {"absent"}] /\ steps \in [JobIds -> Seq(StepState)]
      /\ expected \in [JobIds -> Nat]
      /\ pc \in {"load", "body", "failing"} => current \in JobIds
      /\ pc \in {"body", "failing"} => state[current] = "running"
      /\ pc = "load" => steps[current] = <<>>
  <2>1. /\ pc = "failing" => current \in JobIds
        /\ pc \in {"body", "failing"} => state[current] = "running"
    BY DEF IInv, TypeInv, TypeOK, ProcessInv
  <2> QED
    BY <2>1, InHand DEF TypeInvariant
<1>0. Stands
  BY RequestsStand
<1>b. ASSUME UNCHANGED <<state, steps, expected>> PROVE StepsInvariant'
  BY <1>b, <1>0, StepsStay
<1>c. ASSUME NEW place, Move(place) PROVE UNCHANGED <<state, steps, expected>>
  BY <1>c DEF Move, vars
<1>d. pc \in {"body", "failing"} => LET s == steps[current] IN
         /\ s \in Seq(StepState) /\ Len(s) \in Nat /\ Len(s) <= expected[current]
         /\ \A i \in 1..Len(s) : s[i] = "skipped" => Asked(current, "create")
  BY <1>a, LenProperties DEF StepsInvariant
<1>1. CASE Requests
  <2>1. UNCHANGED <<steps, expected>> /\ (UNCHANGED state \/ Submits)
    BY <1>1, RequestsStayInFrame DEF RequestFrame
  <2>2. \A j \in JobIds : state'[j] = "succeeded" => state[j] = "succeeded"
    BY <1>a, <2>1 DEF Submits
  <2> QED
    BY <1>0, <2>1, <2>2, StepsStay
<1>2. CASE \/ ListMirrors \/ RecordSnapshotSet \/ CompleteSnapshotSet \/ ReadTarget \/ EraseRow
  BY <1>2, <1>b DEF ListMirrors, RecordSnapshotSet, CompleteSnapshotSet, ReadTarget, EraseRow, vars
<1>3. CASE \/ ListFails \/ CallSucceeds \/ CallIsAccepted \/ CallFails \/ CallIsNotAnswered
           \/ GiveUp \/ SomeTaskEnds \/ AptlyRestarts
  BY <1>3, <1>b, <1>c DEF ListFails, CallSucceeds, CallIsAccepted, CallFails, CallIsNotAnswered,
                          GiveUp, SomeTaskEnds, TaskEnds, AptlyRestarts
<1>4. CASE DropJob \/ CommitFails \/ BodyRaises
  BY <1>4, <1>b DEF DropJob, Drop, CommitFails, Abandon, BodyRaises, Raise, database
<1>5. CASE (Get \/ Close) /\ Elsewhere
  BY <1>5, <1>b DEF Get, Close, database, Elsewhere
<1>6. CASE Enqueued \/ Ending \/ UNCHANGED everything
  BY <1>6, <1>b DEF Enqueued, Put, RefreshFails, Elsewhere, Ending, ProcessEnds, Crash, Cancel, database,
                    everything, vars
<1>7. CASE NextStep
  <2>1. /\ steps' = [steps EXCEPT ![current] = Append(steps[current], "running")]
        /\ UNCHANGED <<state, expected, request>> /\ pc = "body"
        /\ body.at = "ready" /\ body.plan # <<>> /\ Doing.op \notin Stepless
    BY <1>7 DEF NextStep, AddStep, At, Unchanged
  <2>2. Len(steps[current]) + 1 <= expected[current]
    BY <2>1, AsAnnounced DEF Working, Added
  <2> DEFINE s == Append(steps[current], "running")
  <2>3. /\ Len(s) = Len(steps[current]) + 1
        /\ \A i \in 1..Len(s) : s[i] = "running" \/ (i \in 1..Len(steps[current]) /\ s[i] = steps[current][i])
    <3>1. "running" \in StepState
      BY DEF StepState
    <3> QED
      BY <1>d, <2>1, <3>1, AppendProperties
  <2>4. \A i \in 1..Len(s) : s[i] = "skipped" => Asked(current, "create")
    BY <1>d, <2>1, <2>3
  <2> HIDE DEF s
  <2> QED
    BY <1>a, <2>1, <2>2, <2>3, <2>4, StepsInHand DEF s
<1>8. CASE StepDone \/ StepSkipped \/ StepRefused
  <2>1. PICK outcome \in {"succeeded", "failed", "skipped"} :
           FinishStep(outcome) /\ (outcome = "skipped" => StepSkipped)
    BY <1>8 DEF StepDone, StepSkipped, StepRefused
  <2> DEFINE s == [steps[current] EXCEPT ![Len(steps[current])] = outcome]
  <2>2. /\ steps' = [steps EXCEPT ![current] = s] /\ pc = "body" /\ steps[current] # <<>>
        /\ UNCHANGED <<state, expected, request>>
    BY <1>8, <2>1 DEF FinishStep, StepDone, StepSkipped, StepRefused, Unchanged
  <2>3. /\ Len(s) = Len(steps[current])
        /\ \A i \in 1..Len(s) : s[i] \in {outcome, steps[current][i]}
    <3>1. Len(steps[current]) \in 1..Len(steps[current]) /\ outcome \in StepState
      BY <1>d, <2>2, EmptySeq DEF StepState
    <3> QED
      BY <1>d, <2>2, <3>1, ExceptSeq
  <2>4. outcome = "skipped" => Asked(current, "create")
    <3>1. ASSUME StepSkipped PROVE Kind = "create"
      <4>1. Working /\ body.at = "exists"
        BY <3>1 DEF StepSkipped, At, Working
      <4>2. body.plan # <<>> /\ Doing.op = "create"
        BY <4>1 DEF BodyInvariant, InStep
      <4> QED
        BY <4>1, <4>2, WhoseOperation DEF Kinds
    <3> QED
      BY <2>1, <3>1 DEF Asked, Kind
  <2>5. \A i \in 1..Len(s) : s[i] = "skipped" => Asked(current, "create")
    BY <1>d, <2>2, <2>3, <2>4
  <2> HIDE DEF s
  <2> QED
    BY <1>a, <1>d, <2>2, <2>3, <2>5, StepsInHand
<1>9. CASE FailRunningSteps /\ Elsewhere
  <2> DEFINE s == RunningFailed(steps[current])
  <2>1. /\ state' = [state EXCEPT ![current] = "failed"] /\ UNCHANGED <<expected, request>>
        /\ pc = "failing" /\ steps' = [steps EXCEPT ![current] = s]
    BY <1>9 DEF FailRunningSteps, Elsewhere, Unchanged
  <2>2. /\ Len(s) = Len(steps[current])
        /\ \A i \in 1..Len(s) : s[i] = "skipped" => steps[current][i] = "skipped"
    <3>1. \A i \in 1..Len(steps[current]) : s[i] = "skipped" => steps[current][i] = "skipped"
      BY DEF RunningFailed
    <3> QED
      BY <1>d, <2>1, <3>1, RunningFailedProperties
  <2>3. \A i \in 1..Len(s) : s[i] = "skipped" => Asked(current, "create")
    BY <1>d, <2>1, <2>2
  <2>4. \A j \in JobIds : state'[j] = "succeeded" => state[j] = "succeeded"
    BY <1>a, <2>1
  <2> HIDE DEF s
  <2> QED
    BY <1>a, <1>d, <2>1, <2>2, <2>3, <2>4, StepsInHand
<1>10. CASE Start /\ Elsewhere
  <2>1. /\ UNCHANGED <<steps, expected>>
        /\ \A j \in JobIds : state'[j] \in {"interrupted", state[j]}
    BY <1>10 DEF Start, Elsewhere
  <2> QED
    BY <1>0, <2>1, StepsStay
<1>11. CASE BodyReturns
  <2>1. Working /\ body.at = "ready" /\ body.plan = <<>> /\ pc = "body"
    BY <1>11 DEF BodyReturns, At, Working
  <2>2. Len(steps[current]) = expected[current]
    BY <2>1, AsAnnounced DEF Added
  <2>3. state' = [state EXCEPT ![current] = "succeeded"] /\ UNCHANGED <<steps, expected, request>>
    BY <1>11 DEF BodyReturns, Succeed, Unchanged
  <2> QED
    BY <1>a, <2>1, <2>2, <2>3 DEF StepsInvariant, Asked
<1>12. CASE BeginJob
  <2>1. /\ state' = [state EXCEPT ![current] = "running"] /\ UNCHANGED <<steps, request>> /\ pc = "load"
        /\ expected' = [expected EXCEPT ![current] = ExpectedSteps(request[current], SetName(request[current].set))]
    BY <1>12 DEF BeginJob, Begin, Unchanged
  <2>2. ExpectedSteps(request[current], SetName(request[current].set)) \in Nat
    <3>1. request[current] \in RequestType /\ request[current].kind \in Kinds
      BY <1>a, <2>1, InHand DEF TypeInvariant
    <3> QED
      BY <3>1, Foreseen
  <2>3. Len(steps[current]) = 0
    BY <1>a, <2>1, EmptySeq
  <2> QED
    BY <1>a, <2>1, <2>2, <2>3 DEF StepsInvariant, Asked
<1>13. CASE Server
  BY <1>13, <1>2, <1>3, <1>4, <1>5, <1>7, <1>8, <1>9, <1>11, <1>12 DEF Server
<1>14. CASE Background
  BY <1>14, <1>3, <1>10, <1>13 DEF Background
<1> QED
  BY <1>1, <1>6, <1>14 DEF WorkflowNext

\* what the bar shows, from the steps
LEMMA BarFromSteps ==
    ASSUME IInv, TypeInvariant, StepsInvariant PROVE HonestProgress
<1> SUFFICES ASSUME NEW j \in JobIds
             PROVE  /\ TotalSteps(j) = expected[j]
                    /\ state[j] = "succeeded" =>
                          DoneSteps(j) = expected[j] - (IF Asked(j, "create")
                                                        THEN Cardinality(StepsIn(j, "skipped")) ELSE 0)
  BY DEF HonestProgress
<1> DEFINE n == Len(steps[j])
           e == expected[j]
<1>1. n \in Nat /\ e \in Nat /\ n <= e
  BY InHand, LenProperties DEF TypeInvariant, StepsInvariant
<1>2. TotalSteps(j) = e
  <2>1. TotalSteps(j) = CHOOSE x \in {e, n} : \A y \in {e, n} : x >= y
    BY DEF TotalSteps, Max
  <2> HIDE DEF e, n
  <2>2. \A x \in {e, n} : (\A y \in {e, n} : x >= y) <=> x = e
    BY <1>1
  <2> QED
    BY <2>1, <2>2
<1>3. ASSUME state[j] = "succeeded"
      PROVE  DoneSteps(j) = e - (IF Asked(j, "create") THEN Cardinality(StepsIn(j, "skipped")) ELSE 0)
  <2> DEFINE done == StepsIn(j, "succeeded")
             skipped == StepsIn(j, "skipped")
  <2>1. \A i \in 1..n : steps[j][i] \in {"succeeded", "skipped"}
    BY <1>3 DEF IInv, StepsMatchOutcome, AllGood, Good
  <2>2. n = e /\ \A i \in 1..n : steps[j][i] = "skipped" => Asked(j, "create")
    BY <1>3 DEF StepsInvariant
  <2>3. done \cup skipped = 1..n /\ done \cap skipped = {}
    BY <2>1 DEF StepsIn
  <2>4. IsFiniteSet(1..n) /\ Cardinality(1..n) = n
    <3> HIDE DEF n, e
    <3>1. IsFiniteSet(1..n) /\ Cardinality(1..n) = (IF 1 > n THEN 0 ELSE n - 1 + 1)
      BY <1>1, FS_Interval
    <3> QED
      BY <1>1, <3>1
  <2>5. IsFiniteSet(done) /\ IsFiniteSet(skipped)
    BY <2>3, <2>4, FS_Subset
  <2>6. Cardinality(done) \in Nat /\ Cardinality(skipped) \in Nat
    BY <2>5, FS_CardinalityType
  <2>7. Cardinality(done \cup skipped) = Cardinality(done) + Cardinality(skipped) - Cardinality(done \cap skipped)
    BY <2>5, FS_Union
  <2>8. Cardinality({}) = 0
    BY FS_EmptySet
  <2>9. ~Asked(j, "create") => skipped = {}
    BY <2>2 DEF StepsIn
  <2>10. DoneSteps(j) = Cardinality(done)
    BY DEF DoneSteps
  <2> HIDE DEF done, skipped, n, e
  <2>11. n = Cardinality(done) + Cardinality(skipped)
    <3>1. n = Cardinality(done) + Cardinality(skipped) - 0
      BY <2>3, <2>4, <2>7, <2>8
    <3> QED
      BY <2>6, <3>1
  <2> QED
    BY <2>2, <2>6, <2>8, <2>9, <2>10, <2>11 DEF skipped, e
<1> QED
  BY <1>2, <1>3

-----------------------------------------------------------------------------
(* The beginning. *)

LEMMA TypedInTheBeginning == ASSUME WorkflowInit PROVE TypeInvariant
<1>1. sets \in [SetIds -> Names \cup {NoName}] /\ ToSet(SuiteList) \subseteq Suites
  BY InitialSetsAssumption, SuiteListAssumption DEF WorkflowInit, ToSet
<1>2. 0 \in Minutes /\ (Synced # {} => 1 \in Minutes) /\ Present(sets) \subseteq Names /\ Synced \subseteq Names
  BY MinuteAssumption, SyncedAssumption DEF Minutes, Present
<1>3. \A n \in Names : MirrorsOf(n) \subseteq Mirrors /\ SnapshotsOf(n) \subseteq Snapshots
  BY <1>1, <1>2 DEF MirrorsOf, SnapshotsOf, Mirrors, Snapshots
<1>4. mirrors \subseteq Mirrors /\ snapshots \subseteq Snapshots
  BY <1>2, <1>3 DEF WorkflowInit
<1>5. AptlyTypeOK
  BY <1>4 DEF WorkflowInit, AptlyTypeOK
<1>6. NoRecord \in Record /\ \A r \in SetIds : r # NoRow
  BY DEF NoRecord, Record, NoRow, SetIds
<1>7. ASSUME NEW r \in RecordIds
      PROVE  records[r] \in Record /\ (records[r] # NoRecord => records[r].set # NoRow)
  <2>1. CASE r \in SetIds /\ sets[r] \in Synced
    <3> DEFINE full == [set |-> r, taken |-> SnapshotsOf(sets[r]), complete |-> TRUE]
    <3>1. records[r] = full
      BY <1>7, <2>1 DEF WorkflowInit
    <3>2. full \in Record /\ full.set = r
      BY <1>2, <1>3, <2>1 DEF Record
    <3> QED
      BY <1>6, <2>1, <3>1, <3>2
  <2>2. CASE ~(r \in SetIds /\ sets[r] \in Synced)
    BY <1>6, <1>7, <2>2 DEF WorkflowInit
  <2> QED
    BY <2>1, <2>2
<1>8. records \in [RecordIds -> Record]
  <2>1. records = [r \in RecordIds |-> records[r]]
    BY DEF WorkflowInit
  <2> QED
    BY <1>7, <2>1
<1>9. NoRequest \in RequestType /\ WellFormed(NoRequest) /\ NoRequest.kind \notin Kinds
  BY DEF NoRequest, RequestType, WellFormed, Kinds, NoRow
<1>10. request \in [JobIds -> RequestType] /\ \A j \in JobIds : request[j] = NoRequest /\ state[j] = "absent"
  BY <1>9 DEF WorkflowInit, Init
<1>11. expected \in [JobIds -> Nat] /\ strayed \in BOOLEAN /\ remade \subseteq Snapshots /\ halfway = {}
  BY DEF WorkflowInit
<1>12. minute \in Minutes
  BY <1>2 DEF WorkflowInit
<1>13. cached \in View
  BY DEF WorkflowInit, EmptyView, View
<1>14. body = NoBody /\ body \in BodyType
  BY NothingInHand DEF WorkflowInit
<1> QED
  BY <1>1, <1>5, <1>7, <1>8, <1>9, <1>10, <1>11, <1>12, <1>13, <1>14 DEF TypeInvariant

LEMMA RowsInTheBeginning == ASSUME WorkflowInit PROVE RecordsInvariant
<1>1. ASSUME NEW r \in RecordIds
      PROVE  \/ /\ r \in SetIds /\ sets[r] \in Synced
                /\ records[r].taken = SnapshotsOf(sets[r])
             \/ records[r].taken = {} /\ ~records[r].complete
  BY <1>1 DEF WorkflowInit, NoRecord
<1>2. sets \in InitialSets /\ sets \in [SetIds -> Names \cup {NoName}] /\ Synced \subseteq Names
  BY InitialSetsAssumption, SyncedAssumption DEF WorkflowInit
<1>3. \A r \in RecordIds : \A s, t \in records[r].taken :
          s[1] = t[1] /\ s[3] = t[3] /\ s[2] \in ToSet(SuiteList)
  BY <1>1 DEF SnapshotsOf
<1>4. \A r \in RecordIds : records[r].complete => {s[2] : s \in records[r].taken} = ToSet(SuiteList)
  <2>1. ASSUME NEW n PROVE {s[2] : s \in SnapshotsOf(n)} = ToSet(SuiteList)
    <3>1. \A s \in SnapshotsOf(n) : s[2] \in ToSet(SuiteList)
      BY DEF SnapshotsOf
    <3>2. ASSUME NEW u \in ToSet(SuiteList) PROVE \E s \in SnapshotsOf(n) : s[2] = u
      <4>1. <<n, u, 0>> \in SnapshotsOf(n) /\ <<n, u, 0>>[2] = u
        BY DEF SnapshotsOf
      <4> QED
        BY <4>1
    <3> QED
      BY <3>1, <3>2
  <2> QED
    BY <1>1, <2>1
<1>5. \A r \in RecordIds : \A s \in records[r].taken : s \in snapshots
  <2>1. ASSUME NEW r \in RecordIds, r \in SetIds, sets[r] \in Synced
        PROVE  sets[r] \in Present(sets) \cap Synced
    BY <1>2, <2>1 DEF Present
  <2>2. snapshots = UNION {SnapshotsOf(n) : n \in Present(sets) \cap Synced}
    BY DEF WorkflowInit
  <2> QED
    BY <1>1, <2>1, <2>2
<1>6. \A r, q \in RecordIds : \A s \in records[r].taken \cap records[q].taken : r = q
  <2>1. ASSUME NEW r \in RecordIds, NEW q \in RecordIds, NEW s, s \in records[r].taken, s \in records[q].taken
        PROVE  r = q
    <3>1. r \in SetIds /\ q \in SetIds /\ sets[r] \in Names /\ sets[q] \in Names
          /\ s \in SnapshotsOf(sets[r]) /\ s \in SnapshotsOf(sets[q])
      BY <1>1, <1>2, <2>1
    <3>2. s[1] = sets[r] /\ s[1] = sets[q]
      BY <3>1 DEF SnapshotsOf
    <3> QED
      BY <1>2, <3>1, <3>2, InitialSetsAssumption, NamesAssumption
  <2> QED
    BY <2>1
<1> QED
  BY <1>3, <1>4, <1>5, <1>6 DEF RecordsInvariant

LEMMA TrueInTheBeginning == WorkflowInit => WorkflowInvariant
<1> SUFFICES ASSUME WorkflowInit PROVE WorkflowInvariant
  OBVIOUS
<1>1. TypeInvariant /\ RecordsInvariant
  BY TypedInTheBeginning, RowsInTheBeginning
<1>2. BodyInvariant
  BY DEF WorkflowInit, Init, BodyInvariant, Working
<1>3. TaskInvariant
  BY DEF WorkflowInit, TaskInvariant
<1>4. PublishedInvariant
  BY DEF WorkflowInit, PublishedInvariant
<1>5. NoHalfTakenSetPublished
  <2>1. \A r \in RecordIds : records[r].taken \subseteq Snapshots
    BY <1>1 DEF TypeInvariant, Record
  <2> QED
    BY <2>1, NothingIsASnapshot DEF WorkflowInit, NoHalfTakenSetPublished
<1>6. StepsInvariant
  BY EmptySeq DEF WorkflowInit, Init, StepsInvariant
<1> QED
  BY <1>1, <1>2, <1>3, <1>4, <1>5, <1>6 DEF WorkflowInvariant

LEMMA InvariantIsKept ==
    ASSUME IInv, WorkflowInvariant, [WorkflowNext]_everything, [Next]_vars PROVE WorkflowInvariant'
<1>1. TypeInvariant' /\ BodyInvariant'
  BY TypesAreKept, BodyIsKept DEF WorkflowInvariant
<1>2. TaskInvariant' /\ RecordsInvariant' /\ PublishedInvariant'
  BY TasksAreKept, RecordsAreKept, PublishedIsKept DEF WorkflowInvariant
<1>3. NoHalfTakenSetPublished' /\ StepsInvariant'
  BY NoHalfTakenSetIsPublished, StepsAreKept DEF WorkflowInvariant
<1> QED
  BY <1>1, <1>2, <1>3 DEF WorkflowInvariant

-----------------------------------------------------------------------------
(* What a step may never do. *)

\* only the end of a task changes what is published
LEMMA TasksPublish ==
    ASSUME TypeInvariant, RecordsInvariant, [WorkflowNext]_everything, published' # published
    PROVE  \E t \in tasks : EndWell(t) /\ t.op = "publish"
<1>1. ~Requests
  BY RequestsStayInFrame DEF RequestFrame, aptly
<1>2. ~(\/ DropJob \/ BeginJob \/ NextStep \/ StepSkipped \/ StepRefused \/ StepDone \/ ListMirrors
        \/ RecordSnapshotSet \/ CompleteSnapshotSet \/ ReadTarget \/ EraseRow
        \/ CommitFails \/ BodyReturns \/ BodyRaises)
  BY DEF DropJob, BeginJob, NextStep, StepSkipped, StepRefused, StepDone, ListMirrors,
         RecordSnapshotSet, CompleteSnapshotSet, ReadTarget, EraseRow,
         CommitFails, BodyReturns, BodyRaises, aptly
<1>3. ~(Elsewhere \/ Ending \/ UNCHANGED everything)
  BY DEF Elsewhere, Ending, ProcessEnds, everything, aptly
<1>4. ~(\/ ListFails \/ CallSucceeds \/ CallIsAccepted \/ CallFails \/ CallIsNotAnswered
        \/ GiveUp \/ AptlyRestarts)
  BY DEF ListFails, CallSucceeds, CallIsAccepted, CallFails, CallIsNotAnswered, GiveUp, AptlyRestarts,
         CreateMirror, CreateSnapshot, DeleteSnapshot, Post, LoseTasks, aptly
<1>5. SomeTaskEnds
  BY <1>1, <1>2, <1>3, <1>4 DEF WorkflowNext, Background, Server, Enqueued
<1> QED
  BY <1>5 DEF SomeTaskEnds, TaskEnds, EndWell, EndBadly

LEMMA LowerRanksFirst ==
    ASSUME IInv, WorkflowInvariant, [WorkflowNext]_everything,
           NEW n \in Names, NEW u \in ToSet(SuiteList), NEW v \in ToSet(SuiteList),
           published'[<<n, v>>] # published[<<n, v>>], u[1] < v[1], ~strayed
    PROVE  published'[<<n, v>>] \in body.taken /\ published[<<n, u>>] \in body.taken
<1>0. TypeInvariant /\ BodyInvariant /\ TaskInvariant /\ RecordsInvariant
  BY DEF WorkflowInvariant
<1>1. PICK t \in tasks : EndWell(t) /\ t.op = "publish"
  BY <1>0, TasksPublish
<1>2. Working /\ t.job = current /\ body.at = "wait" /\ t.op = Doing.op /\ t.arg = Doing.arg
  BY <1>0 DEF TaskInvariant
<1>3. body.plan # <<>> /\ body.taken \in SUBSET Snapshots
  BY <1>0, <1>2 DEF BodyInvariant, InStep, TypeInvariant, BodyType
<1>4. Kind = "switch" /\ body.name \in Names
  BY <1>0, <1>1, <1>2, <1>3, WhoseOperation DEF Kinds
<1>5. SwitchAt
  BY <1>0, <1>1, <1>2, <1>4, BodyAsItIs
<1> DEFINE whole == SwitchPlan(body.name, body.taken)
           f == Finished(whole)
           m == Len(SuiteList)
<1>6. /\ f \in Nat /\ m \in Nat /\ f + 1 \in 1..m /\ Doing = whole[f + 1]
      /\ Doing.arg \in body.taken /\ MirrorOf(Doing.arg) = <<body.name, InOrder[f + 1]>>
  BY <1>0, <1>1, <1>2, <1>3, <1>4, <1>5, SwitchInCourse DEF SwitchAt
<1>7. /\ published' = [published EXCEPT ![MirrorOf(Doing.arg)] = Doing.arg]
      /\ published \in [Mirrors -> Snapshots \cup {NotPublished}]
  BY <1>0, <1>1, <1>2 DEF EndWell, TypeInvariant, AptlyTypeOK
<1>8. <<n, v>> = <<body.name, InOrder[f + 1]>> /\ published'[<<n, v>>] = Doing.arg
  BY <1>6, <1>7
<1>9. PICK i \in 1..m : InOrder[i] = u
  BY SuitesInOrder
<1>10. i <= f
  <2> HIDE DEF f, m
  <2>1. InOrder \in [1..m -> Suites] /\ \A k, l \in 1..m : k < l => InOrder[k][1] <= InOrder[l][1]
    BY SuitesInOrder DEF m
  <2>2. u[1] \in Int /\ v[1] \in Int
    BY <1>6, <1>8, <1>9, <2>1, SuitesAssumption
  <2>3. CASE i = f + 1
    BY <1>8, <1>9, <2>2, <2>3
  <2>4. CASE f + 1 < i
    BY <1>6, <1>8, <1>9, <2>1, <2>2, <2>4
  <2> QED
    BY <1>6, <2>3, <2>4
<1>11. /\ Len(whole) \in Nat /\ m <= Len(whole)
       /\ whole[i].op = "publish" /\ whole[i].arg \in body.taken
       /\ MirrorOf(whole[i].arg) = <<body.name, InOrder[i]>>
  <2>1. /\ whole \in Seq(Operation) /\ Len(whole) = m + (IF body.name \in Checked THEN 2 ELSE 1)
        /\ whole[i].op = "publish" /\ whole[i].arg \in body.taken
        /\ MirrorOf(whole[i].arg) = <<body.name, InOrder[i]>>
    BY <1>3, <1>4, <1>5, <1>9, SwitchCourse DEF SwitchAt
  <2> HIDE DEF whole, m
  <2> QED
    BY <1>6, <2>1
<1>12. Effective(whole) = f + 0
  BY <1>2 DEF Effective
<1>13. published[MirrorOf(whole[i].arg)] = whole[i].arg
  <2>1. i \in 1..Len(whole) /\ i <= Effective(whole)
    <3> HIDE DEF whole, f, m
    <3> QED
      BY <1>6, <1>9, <1>10, <1>11, <1>12
  <2> QED
    BY <1>5, <1>11, <2>1 DEF SwitchAt
<1> QED
  BY <1>6, <1>8, <1>9, <1>11, <1>13

\* only a body that returns makes a job succeed
LEMMA BodiesSucceed ==
    ASSUME IInv, TypeInvariant, RecordsInvariant, [WorkflowNext]_everything,
           NEW j \in JobIds, state[j] # "succeeded", state'[j] = "succeeded"
    PROVE  BodyReturns /\ j = current
<1>a. /\ state \in [JobIds -> JobState \cup {"absent"}]
      /\ pc \in {"load", "body", "failing"} => current \in JobIds
  <2>1. pc = "failing" => current \in JobIds
    BY DEF IInv, TypeInv, TypeOK, ProcessInv
  <2> QED
    BY <2>1, InHand
<1>b. state' # state
  OBVIOUS
<1>c. ASSUME NEW place, Move(place) PROVE FALSE
  BY <1>b, <1>c DEF Move, vars
<1>1. ~Requests
  <2>1. ASSUME Requests PROVE FALSE
    <3>1. UNCHANGED state \/ Submits
      BY <2>1, RequestsStayInFrame DEF RequestFrame
    <3> QED
      BY <1>a, <1>b, <3>1 DEF Submits
  <2> QED
    BY <2>1
<1>2. ~(ListMirrors \/ RecordSnapshotSet \/ CompleteSnapshotSet \/ ReadTarget \/ EraseRow)
  BY <1>b DEF ListMirrors, RecordSnapshotSet, CompleteSnapshotSet, ReadTarget, EraseRow, vars
<1>3. ~(\/ ListFails \/ CallSucceeds \/ CallIsAccepted \/ CallFails \/ CallIsNotAnswered
        \/ GiveUp \/ SomeTaskEnds \/ AptlyRestarts)
  BY <1>c DEF ListFails, CallSucceeds, CallIsAccepted, CallFails, CallIsNotAnswered,
              GiveUp, SomeTaskEnds, TaskEnds, AptlyRestarts
<1>4. ~(DropJob \/ CommitFails \/ BodyRaises \/ Get \/ Close)
  BY <1>b DEF DropJob, Drop, CommitFails, Abandon, BodyRaises, Raise, Get, Close, database
<1>5. ~(Enqueued \/ Ending \/ UNCHANGED everything)
  BY <1>b DEF Enqueued, Put, RefreshFails, Ending, ProcessEnds, Crash, Cancel, database, everything, vars
<1>6. ~(NextStep \/ StepDone \/ StepSkipped \/ StepRefused)
  BY <1>b DEF NextStep, AddStep, StepDone, StepSkipped, StepRefused, FinishStep
<1>7. ~BeginJob /\ ~FailRunningSteps
  BY <1>a DEF BeginJob, Begin, FailRunningSteps
<1>8. ~Start
  BY DEF Start
<1>9. BodyReturns
  BY <1>1, <1>2, <1>3, <1>4, <1>5, <1>6, <1>7, <1>8 DEF WorkflowNext, Background, Server
<1>10. state' = [state EXCEPT ![current] = "succeeded"]
  BY <1>9 DEF BodyReturns, Succeed
<1> QED
  BY <1>a, <1>9, <1>10

LEMMA SwitchesPublish ==
    ASSUME IInv, WorkflowInvariant, [WorkflowNext]_everything,
           NEW j \in JobIds, Asked(j, "switch"), Ended(j, "succeeded"), ~strayed,
           NEW u \in ToSet(SuiteList)
    PROVE  published[<<body.name, u>>] \in body.taken
<1>0. TypeInvariant /\ BodyInvariant /\ RecordsInvariant
  BY DEF WorkflowInvariant
<1>1. BodyReturns /\ j = current
  BY <1>0, BodiesSucceed DEF Ended
<1>2. Working /\ body.at = "ready" /\ body.plan = <<>> /\ Kind = "switch"
  BY <1>1 DEF BodyReturns, At, Working, Kind, Asked
<1>3. SwitchAt /\ body.name \in Names /\ body \in BodyType
  BY <1>0, <1>2, BodyAsItIs
<1>3a. body.taken \in SUBSET Snapshots /\ body.plan \in Seq(Operation)
  BY <1>3 DEF BodyType
<1> DEFINE whole == SwitchPlan(body.name, body.taken)
           m == Len(SuiteList)
<1>4. PICK i \in 1..m : InOrder[i] = u
  BY SuitesInOrder
<1>5. /\ whole \in Seq(Operation) /\ Len(whole) = m + (IF body.name \in Checked THEN 2 ELSE 1)
      /\ whole[i].op = "publish" /\ whole[i].arg \in body.taken
      /\ MirrorOf(whole[i].arg) = <<body.name, InOrder[i]>>
      /\ Ends(body.plan, whole) /\ m \in Nat
  BY <1>3, <1>3a, <1>4, SwitchCourse, SuitesInOrder DEF SwitchAt
<1>6. Finished(whole) = Len(whole) /\ Len(whole) \in Nat
  BY <1>2, <1>3a, <1>5, InCourse
<1>7. Effective(whole) = Finished(whole) + 0
  BY <1>2 DEF Effective
<1>8. i \in 1..Len(whole) /\ i <= Effective(whole)
  <2> HIDE DEF whole, m
  <2> QED
    BY <1>4, <1>5, <1>6, <1>7
<1>9. published[MirrorOf(whole[i].arg)] = whole[i].arg
  BY <1>3, <1>5, <1>8 DEF SwitchAt
<1> QED
  BY <1>4, <1>5, <1>9

LEMMA CreationsMakeMirrors ==
    ASSUME IInv, WorkflowInvariant, [WorkflowNext]_everything,
           NEW j \in JobIds, Asked(j, "create"), Ended(j, "succeeded"), ~strayed
    PROVE  MirrorsOf(body.name) \subseteq mirrors
<1>0. TypeInvariant /\ BodyInvariant /\ RecordsInvariant
  BY DEF WorkflowInvariant
<1>1. BodyReturns /\ j = current
  BY <1>0, BodiesSucceed DEF Ended
<1>2. Working /\ body.at = "ready" /\ body.plan = <<>> /\ Kind = "create"
  BY <1>1 DEF BodyReturns, At, Working, Kind, Asked
<1>3. CreateAt /\ body.name \in Names /\ body \in BodyType
  BY <1>0, <1>2, BodyAsItIs
<1>3a. body.plan \in Seq(Operation)
  BY <1>3 DEF BodyType
<1> DEFINE whole == CreatePlan(body.name)
           m == Len(SuiteList)
<1>4. /\ whole \in Seq(Operation) /\ Len(whole) = m /\ m \in Nat /\ Ends(body.plan, whole)
      /\ \A i \in 1..m : whole[i] = Op("create", <<body.name, InOrder[i]>>)
  BY <1>3, CreateCourse, SuitesInOrder DEF CreateAt
<1>5. Finished(whole) = Len(whole)
  BY <1>2, <1>3a, <1>4, InCourse
<1>6. Effective(whole) = Finished(whole) + 0
  BY <1>2 DEF Effective
<1>7. ASSUME NEW i \in 1..m PROVE <<body.name, InOrder[i]>> \in mirrors
  <2>1. i <= Effective(whole) /\ i \in 1..Len(whole)
    <3> HIDE DEF whole, m
    <3> QED
      BY <1>4, <1>5, <1>6, <1>7
  <2>2. whole[i].arg \in mirrors
    BY <1>3, <2>1 DEF CreateAt
  <2> QED
    BY <1>4, <1>7, <2>2, OpFields
<1>8. ASSUME NEW u \in ToSet(SuiteList) PROVE <<body.name, u>> \in mirrors
  <2>1. PICK i \in 1..m : InOrder[i] = u
    BY SuitesInOrder
  <2> QED
    BY <1>7, <2>1
<1> QED
  BY <1>8 DEF MirrorsOf

Erased ==
    \/ \E r \in RecordIds : records[r] # NoRecord /\ records'[r] = NoRecord
    \/ \E i \in SetIds : sets[i] # NoName /\ sets'[i] = NoName

\* of all that a body does, only its last operation erases a row
LEMMA RowsAreErased ==
    ASSUME IInv, WorkflowInvariant, [WorkflowNext]_everything, pc = "body", pc' = "body", body' # body, Erased
    PROVE  EraseRow
<1>0. TypeInvariant /\ BodyInvariant /\ RecordsInvariant
  BY DEF WorkflowInvariant
<1>a. ~UNCHANGED rows
  BY DEF Erased, rows
<1>b. ASSUME NEW place, Move(place) PROVE FALSE
  BY <1>a, <1>b DEF Move
<1>1. ~Requests
  BY <1>0, RequestsStayInFrame DEF RequestFrame
<1>2. ~(\/ NextStep \/ StepSkipped \/ StepRefused \/ ListMirrors \/ ReadTarget
        \/ CommitFails \/ BodyReturns \/ BodyRaises \/ DropJob \/ BeginJob)
  BY <1>a DEF NextStep, StepSkipped, StepRefused, ListMirrors, ReadTarget,
              CommitFails, BodyReturns, BodyRaises, DropJob, BeginJob
<1>3. ~(\/ ListFails \/ CallSucceeds \/ CallIsAccepted \/ CallFails \/ CallIsNotAnswered
        \/ GiveUp \/ SomeTaskEnds \/ AptlyRestarts)
  BY <1>b DEF ListFails, CallSucceeds, CallIsAccepted, CallFails, CallIsNotAnswered,
              GiveUp, SomeTaskEnds, TaskEnds, AptlyRestarts
<1>4. ~(Elsewhere \/ Ending \/ UNCHANGED everything)
  BY <1>a DEF Elsewhere, Ending, ProcessEnds, everything
<1>5. \/ StepDone \/ RecordSnapshotSet \/ CompleteSnapshotSet \/ EraseRow
  BY <1>1, <1>2, <1>3, <1>4 DEF WorkflowNext, Background, Server, Enqueued
<1>6. ~StepDone
  <2> SUFFICES ASSUME StepDone PROVE FALSE
    OBVIOUS
  <2>1. Doing.op = "snapshot"
    BY <1>a DEF StepDone, rows
  <2> DEFINE more == body.taken \cup {Doing.arg}
  <2>2. records' = [records EXCEPT ![body.record].taken = more] /\ UNCHANGED sets
    BY <2>1 DEF StepDone
  <2>3. more # {} /\ NoRecord.taken = {}
    BY DEF NoRecord
  <2> HIDE DEF more
  <2>4. \A r \in RecordIds : records'[r] = records[r] \/ records'[r].taken = more
    BY <1>0, <2>2 DEF TypeInvariant, Record
  <2> QED
    BY <2>2, <2>3, <2>4 DEF Erased
<1>7. ~RecordSnapshotSet
  <2> SUFFICES ASSUME RecordSnapshotSet PROVE FALSE
    OBVIOUS
  <2>1. Working /\ body.plan # <<>> /\ Doing.op = "record"
    BY DEF RecordSnapshotSet, At, Working
  <2>2. Kind = "update"
    BY <1>0, <2>1, WhoseOperation DEF Kinds
  <2>3. request[current].set # NoRow
    BY <1>0, <2>1, <2>2, BodyAsItIs
  <2> DEFINE new == [set |-> request[current].set, taken |-> {}, complete |-> FALSE]
  <2>4. records' = [records EXCEPT ![NextRecordId] = new] /\ UNCHANGED sets
    BY DEF RecordSnapshotSet
  <2>5. new.set # NoRecord.set
    BY <2>3 DEF NoRecord
  <2> HIDE DEF new
  <2>6. \A r \in RecordIds : records'[r] = records[r] \/ records'[r] = new
    BY <1>0, <2>4 DEF TypeInvariant
  <2> QED
    BY <2>4, <2>5, <2>6 DEF Erased
<1>8. ~CompleteSnapshotSet
  <2> SUFFICES ASSUME CompleteSnapshotSet PROVE FALSE
    OBVIOUS
  <2>1. records' = [records EXCEPT ![body.record].complete = TRUE] /\ UNCHANGED sets
    BY DEF CompleteSnapshotSet
  <2>2. NoRecord.complete = FALSE
    BY DEF NoRecord
  <2>3. \A r \in RecordIds : records'[r] = records[r] \/ records'[r].complete = TRUE
    BY <1>0, <2>1 DEF TypeInvariant, Record
  <2> QED
    BY <2>1, <2>2, <2>3 DEF Erased
<1> QED
  BY <1>5, <1>6, <1>7, <1>8

LEMMA GoneBeforeErased ==
    ASSUME IInv, WorkflowInvariant, EraseRow
    PROVE  ToSet(request[current].names) \cap (mirrors \cup snapshots) = {}
<1>0. TypeInvariant /\ BodyInvariant
  BY DEF WorkflowInvariant
<1>1. Working /\ body.at = "ready" /\ body.plan # <<>> /\ Doing.op = "erase"
  BY DEF EraseRow, At, Working
<1>2. current \in JobIds /\ Kind \in {"discard", "remove"}
  BY <1>0, <1>1, WhoseOperation DEF Kinds
<1>3. DeleteBody
  BY <1>0, <1>1, <1>2, BodyAsItIs
<1> DEFINE whole == Plan(request[current], body.name)
           names == request[current].names
           f == Finished(whole)
           m == Len(names)
<1>4. /\ m \in Nat /\ Len(whole) = m + 2 /\ f \in Nat /\ f + 1 = m + 2
      /\ \A k \in 1..m : whole[k].op \in {"delete", "dropMirror"} /\ whole[k].arg = names[k]
  <2>1. Ends(body.plan, whole)
    BY <1>3 DEF DeleteBody
  <2>2. /\ whole \in Seq(Operation) /\ m \in Nat /\ Len(whole) = m + 2 /\ f \in Nat
        /\ f + 1 \in 1..(m + 2) /\ Doing = whole[f + 1]
        /\ \A k \in 1..m : /\ whole[k].op = IF Kind = "discard" THEN "delete" ELSE "dropMirror"
                           /\ whole[k].arg = names[k]
        /\ \/ f + 1 \in 1..m
           \/ f + 1 = m + 1 /\ Doing.op = "cleanup"
           \/ f + 1 = m + 2 /\ Doing.op = "erase"
    BY <1>0, <1>1, <1>2, <2>1, DeleteInCourse
  <2>3. f + 1 \in 1..m => Doing.op \in {"delete", "dropMirror"}
    BY <2>2
  <2> QED
    BY <1>1, <2>2, <2>3
<1>5. Effective(whole) = f + 0
  BY <1>1 DEF Effective
<1>6. ASSUME NEW k \in 1..m PROVE names[k] \notin mirrors \cup snapshots
  <2>1. k \in 1..Len(whole) /\ k <= Effective(whole)
    <3> HIDE DEF whole, f, m, names
    <3> QED
      BY <1>4, <1>5, <1>6
  <2>2. whole[k].op \in {"delete", "dropMirror"} => whole[k].arg \notin mirrors \cup snapshots
    BY <1>3, <2>1 DEF DeleteBody
  <2> HIDE DEF whole
  <2> QED
    BY <1>4, <1>6, <2>2
<1>7. ToSet(names) = {names[k] : k \in 1..m}
  <2>1. names \in Seq(Snapshots) \cup Seq(Mirrors)
    BY <1>0, <1>2 DEF TypeInvariant, RequestType
  <2>2. DOMAIN names = 1..m
    BY <2>1, LenProperties
  <2> HIDE DEF names, m
  <2> QED
    BY <2>2 DEF ToSet
<1> QED
  BY <1>6, <1>7

-----------------------------------------------------------------------------
(* The theorems. *)

\* The bodies, the handlers, lost answers and rows that are deleted underneath a job stay
\* within what JobRunner leaves open, so what is proved of JobRunner is true of the program.
LEMMA KeepsToJobRunner == WorkflowSpec => Spec
<1>1. WorkflowInit => Init
  BY DEF WorkflowInit
<1> QED
  BY <1>1, StepsAreOfJobRunner, PTL DEF WorkflowSpec, Spec

\* Whatever a body does, no job is lost, ...  [_run_job, _recover_orphans]
THEOREM NoJobOfTheProgramIsLost == WorkflowSpec => []QueuedIsReachable
BY KeepsToJobRunner, NoJobIsLost, PTL

\* ... one job is in hand, ...  [_run_forever]
THEOREM OneJobOfTheProgramInHand == WorkflowSpec => []OneJobInHand
BY KeepsToJobRunner, RunningIsInHand, PTL

\* ... the audit log agrees with the jobs, ...  [_run_job]
THEOREM AuditOfTheProgramAgrees == WorkflowSpec => []AuditAgreesWithJob
BY KeepsToJobRunner, AuditAgrees, PTL

\* ... and the steps with the outcome.  [_fail_running_steps]
THEOREM StepsOfTheProgramAgree == WorkflowSpec => []StepsMatchOutcome
BY KeepsToJobRunner, StepsAgree, PTL

\* Whatever the handlers, the worker, lost answers and restarts do, the plan of a body, its
\* steps, its task, the rows and what aptly holds fit together as WorkflowInvariant says.
\* [services/jobs.py, web/app.py]
THEOREM WorkflowInductive == WorkflowSpec => [](IInv /\ WorkflowInvariant)
<1>1. WorkflowInit => IInv /\ WorkflowInvariant
  BY IInvInitially, TrueInTheBeginning DEF WorkflowInit
<1>2. IInv /\ WorkflowInvariant /\ [WorkflowNext]_everything => (IInv /\ WorkflowInvariant)'
  BY StepsAreOfJobRunner, IInvInductive, InvariantIsKept
<1> QED
  BY <1>1, <1>2, PTL DEF WorkflowSpec

\* What is published is in no snapshot set that says incomplete, whatever was cut short and
\* whoever asked for a switch, as long as no task has outlived its job and the snapshot was
\* not made again under a listed name.  [_update, _switch]
THEOREM NothingHalfTakenIsPublished == WorkflowSpec => []NoHalfTakenSetPublished
<1>1. WorkflowInvariant => NoHalfTakenSetPublished
  BY DEF WorkflowInvariant
<1> QED
  BY <1>1, WorkflowInductive, PTL

\* Aptly holds every snapshot of a set that says complete, until a job that discards it has
\* begun.  [_update, _discard]
THEOREM CompleteSetsAreThere == WorkflowSpec => []CompleteSetsExist
<1>1. WorkflowInvariant => CompleteSetsExist
  BY DEF WorkflowInvariant, RecordsInvariant, CompleteSetsExist, Discarded
<1> QED
  BY <1>1, WorkflowInductive, PTL

\* The total of a job's bar is what was announced before its body ran, and a job that succeeds
\* has done them all, but for the mirrors a create job found and skipped.
\* [_expected_steps, discard_steps, Job.total_steps, Job.done_steps]
THEOREM ProgressIsHonestAlways == WorkflowSpec => []HonestProgress
<1>1. IInv /\ WorkflowInvariant => HonestProgress
  BY BarFromSteps DEF WorkflowInvariant
<1> QED
  BY <1>1, WorkflowInductive, PTL

\* Aptly serves only snapshots it still has: no discard takes one away from a publication.
\* [delete_snapshot of aptly/client.py as _discard uses it]
THEOREM ServedIsHeld == WorkflowSpec => []PublishedInvariant
<1>1. WorkflowInvariant => PublishedInvariant
  BY DEF WorkflowInvariant
<1> QED
  BY <1>1, WorkflowInductive, PTL

\* As long as none has strayed, aptly works at one task at most, and it is of the job in hand.
\* [_run_forever, _await_task]
THEOREM OneWriterAtATime == WorkflowSpec => []OneWriter
<1>1. ASSUME TaskInvariant, ~strayed, NEW t \in tasks, NEW v \in tasks
      PROVE  t.job = current /\ pc = "body" /\ t = v
  <2>1. t \in Task /\ v \in Task /\ Working /\ t.job = current /\ v.job = current
    BY <1>1 DEF TaskInvariant
  <2>2. t.op = v.op /\ t.arg = v.arg
    BY <1>1, <2>1 DEF TaskInvariant
  <2>3. \A x, y \in Task : x.job = y.job /\ x.op = y.op /\ x.arg = y.arg => x = y
    BY DEF Task
  <2> QED
    BY <2>1, <2>2, <2>3 DEF Working
<1>2. WorkflowInvariant => OneWriter
  BY <1>1 DEF WorkflowInvariant, OneWriter
<1> QED
  BY <1>2, WorkflowInductive, PTL

\* A switch publishes a suite only when every suite of a lower rank is published from the same
\* snapshot set already.  [order_suites, _switch]
THEOREM BasesComeFirst == WorkflowSpec => BaseBeforeUpdates
<1>1. ASSUME IInv, WorkflowInvariant, [WorkflowNext]_everything
      PROVE  \A n \in Names, u, v \in ToSet(SuiteList) :
                published'[<<n, v>>] # published[<<n, v>>] /\ u[1] < v[1] /\ ~strayed /\ pc = "body" =>
                    /\ published'[<<n, v>>] \in body.taken
                    /\ published[<<n, u>>] \in body.taken
  BY <1>1, LowerRanksFirst
<1> QED
  BY <1>1, WorkflowInductive, PTL DEF WorkflowSpec, BaseBeforeUpdates

\* A switch that says it succeeded has published every suite of the set it read.  [_switch]
THEOREM SwitchesArePublished == WorkflowSpec => SwitchMeansPublished
<1>1. ASSUME IInv, WorkflowInvariant, [WorkflowNext]_everything
      PROVE  \A j \in JobIds : Asked(j, "switch") /\ Ended(j, "succeeded") /\ ~strayed =>
                \A u \in ToSet(SuiteList) : published[<<body.name, u>>] \in body.taken
  BY <1>1, SwitchesPublish
<1> QED
  BY <1>1, WorkflowInductive, PTL DEF WorkflowSpec, SwitchMeansPublished

\* A create job that says it succeeded leaves every mirror of its set.  [_create]
THEOREM CreationsAreComplete == WorkflowSpec => CreateMeansMirrors
<1>1. ASSUME IInv, WorkflowInvariant, [WorkflowNext]_everything
      PROVE  \A j \in JobIds : Asked(j, "create") /\ Ended(j, "succeeded") /\ ~strayed =>
                MirrorsOf(body.name) \subseteq mirrors
  BY <1>1, CreationsMakeMirrors
<1> QED
  BY <1>1, WorkflowInductive, PTL DEF WorkflowSpec, CreateMeansMirrors

\* A job erases a row only when aptly has nothing left of what it was to delete.
\* [_discard, _remove]
THEOREM RowsGoLast == WorkflowSpec => ErasedMeansGone
<1>1. ASSUME IInv, WorkflowInvariant, [WorkflowNext]_everything
      PROVE  pc = "body" /\ pc' = "body" /\ body' # body
                /\ \/ \E r \in RecordIds : records[r] # NoRecord /\ records'[r] = NoRecord
                   \/ \E i \in SetIds : sets[i] # NoName /\ sets'[i] = NoName
             => ToSet(request[current].names) \cap (mirrors \cup snapshots) = {}
  BY <1>1, RowsAreErased, GoneBeforeErased DEF Erased
<1> QED
  BY <1>1, WorkflowInductive, PTL DEF WorkflowSpec, ErasedMeansGone
=============================================================================

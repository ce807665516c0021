--------------------------- MODULE JobRunnerProofs ---------------------------
(***************************************************************************)
(* Proofs about JobRunner, for every number of jobs and of steps.          *)
(***************************************************************************)
EXTENDS JobRunner, SequenceTheorems, TLAPS

USE MaxJobsAssumption, MaxStepsAssumption

(* What _fail_running_steps makes of a job's steps: as many, none of them running, and   *)
(* those that were not running as they were.                                             *)
LEMMA RunningFailedProperties ==
    ASSUME NEW s \in Seq(StepState)
    PROVE  /\ RunningFailed(s) \in Seq(StepState)
           /\ Len(RunningFailed(s)) = Len(s)
           /\ \A i \in 1..Len(s) :
                 /\ RunningFailed(s)[i] # "running"
                 /\ s[i] # "running" => RunningFailed(s)[i] = s[i]
<1>1. Len(s) \in Nat /\ \A i \in 1..Len(s) : s[i] \in StepState
    BY LenProperties, ElementOfSeq
<1>2. RunningFailed(s) \in [1..Len(s) -> StepState]
    BY <1>1 DEF RunningFailed, StepState
<1>3. RunningFailed(s) \in Seq(StepState)
    BY <1>1, <1>2, SeqDef
<1>4. Len(RunningFailed(s)) = Len(s)
    BY <1>1, <1>2, <1>3, LenProperties
<1> QED
    BY <1>1, <1>3, <1>4 DEF RunningFailed

-----------------------------------------------------------------------------
(* TypeOK is inductive together with ProcessInv, because what the worker lets go of when  *)
(* it drops or abandons a job is a job only if it has one in hand, and with the state of  *)
(* the row in its hand, because that state is what stop() makes it write to the audit.    *)
TypeInv ==
    /\ TypeOK
    /\ ProcessInv
    /\ pc \in {"body", "failing"} => state[current] = "running"

LEMMA TypeInvInductive == TypeInv /\ [Next]_vars => TypeInv'
<1> SUFFICES ASSUME TypeInv, [Next]_vars PROVE TypeInv'
    OBVIOUS
<1> USE DEF TypeInv, TypeOK, ProcessInv, JobState, StepState, WorkerPC, database, process
<1>a. NoJob \notin JobIds
    BY DEF NoJob, JobIds
<1>1. ASSUME NEW j \in JobIds, Insert(j) PROVE TypeInv'
    BY <1>1 DEF Insert
<1>2. ASSUME NEW j \in JobIds, Put(j) PROVE TypeInv'
    BY <1>2, AppendProperties DEF Put
<1>17. ASSUME NEW j \in JobIds, RefreshFails(j) PROVE TypeInv'
    BY <1>17 DEF RefreshFails
<1>3. CASE Get
    BY <1>3, <1>a, HeadTailProperties DEF Get
<1>4. CASE Drop
    BY <1>4 DEF Drop, Release
<1>5. CASE Begin
    BY <1>5 DEF Begin
<1>6. CASE AddStep
    BY <1>6, AppendProperties DEF AddStep
<1>7. ASSUME NEW outcome \in {"succeeded", "failed", "skipped"}, FinishStep(outcome)
      PROVE TypeInv'
  <2>1. current \in JobIds
      BY <1>7 DEF FinishStep
  <2>2. Len(steps[current]) \in 1..Len(steps[current])
      BY <1>7, <2>1, EmptySeq DEF FinishStep
  <2>3. [steps[current] EXCEPT ![Len(steps[current])] = outcome] \in Seq(StepState)
      BY <2>1, <2>2, ExceptSeq
  <2> QED
      BY <1>7, <2>1, <2>3 DEF FinishStep
<1>8. CASE Succeed
    BY <1>8, AppendProperties DEF Succeed, Release
<1>9. CASE Raise
    BY <1>9 DEF Raise
<1>10. CASE FailRunningSteps
    BY <1>10, RunningFailedProperties DEF FailRunningSteps
<1>11. CASE Close
    BY <1>11, AppendProperties DEF Close, Release
<1>12. CASE Abandon
    BY <1>12 DEF Abandon, Release
<1>13. CASE Crash
    BY <1>13, EmptySeq DEF Crash, Die
<1>14. CASE Cancel
  <2>1. current \in JobIds /\ state[current] \in JobState
      BY <1>14 DEF Cancel
  <2>2. Append(audit[current], state[current]) \in Seq(JobState)
      BY <2>1, AppendProperties
  <2> QED
      BY <1>14, <2>1, <2>2, EmptySeq DEF Cancel, Die
<1>15. CASE Start
    BY <1>15 DEF Start
<1>16. CASE UNCHANGED vars
    BY <1>16 DEF vars
<1> QED
    BY <1>1, <1>2, <1>3, <1>4, <1>5, <1>6, <1>7, <1>8, <1>9, <1>10, <1>11, <1>12, <1>13,
       <1>14, <1>15, <1>16, <1>17 DEF Next, Worker, Body

(* Every variable stays in its type, whatever the worker, the requests and the process do. *)
THEOREM TypeCorrect == Spec => []TypeOK
<1>1. Init => TypeInv
    BY EmptySeq DEF Init, TypeInv, TypeOK, ProcessInv, JobState, WorkerPC
<1>2. TypeInv => TypeOK
    BY DEF TypeInv
<1> QED
    BY <1>1, <1>2, TypeInvInductive, PTL DEF Spec

-----------------------------------------------------------------------------
(* Put adds one id to those in the queue, and they stay distinct. *)
LEMMA AppendPlaces ==
    ASSUME NEW q \in Seq(JobIds), NEW j \in JobIds
    PROVE  /\ Places(Append(q, j)) = Places(q) \cup {j}
           /\ Distinct(q) /\ j \notin Places(q) => Distinct(Append(q, j))
<1> DEFINE n == Len(q)
           r == Append(q, j)
<1>1. /\ n \in Nat
      /\ Len(r) = n + 1
      /\ \A i \in 1..n : r[i] = q[i]
      /\ r[n + 1] = j
    BY AppendProperties, LenProperties
<1> HIDE DEF n, r
<1>2. \A i \in 1..(n + 1) : i \in 1..n \/ i = n + 1
    BY <1>1
<1>3. Places(q) = {q[i] : i \in 1..n} /\ Places(r) = {r[i] : i \in 1..(n + 1)}
    BY <1>1 DEF Places, n
<1>4. Places(r) = Places(q) \cup {j}
  <2>1. \A x \in Places(r) : x \in Places(q) \cup {j}
      BY <1>1, <1>2, <1>3
  <2>2. \A x \in Places(q) : x \in Places(r)
      BY <1>1, <1>3
  <2>3. j \in Places(r)
      BY <1>1, <1>3
  <2> QED
      BY <2>1, <2>2, <2>3
<1>5. ASSUME Distinct(q), j \notin Places(q) PROVE Distinct(r)
  <2>1. \A i, k \in 1..n : r[i] = r[k] => i = k
      BY <1>1, <1>5 DEF Distinct, n
  <2>2. \A i \in 1..n : r[i] # j
      BY <1>1, <1>3, <1>5
  <2> QED
      BY <1>1, <1>2, <2>1, <2>2 DEF Distinct
<1> QED
    BY <1>4, <1>5 DEF r

(* Get takes one id out: it is none of those that stay, and they stay distinct. *)
LEMMA TailPlaces ==
    ASSUME NEW q \in Seq(JobIds), q # <<>>
    PROVE  /\ Head(q) \in JobIds
           /\ Places(q) = Places(Tail(q)) \cup {Head(q)}
           /\ Distinct(q) => Distinct(Tail(q)) /\ Head(q) \notin Places(Tail(q))
<1> DEFINE n == Len(q)
           r == Tail(q)
<1>1. /\ n \in Nat \ {0}
      /\ Len(r) = n - 1
      /\ \A i \in 1..(n - 1) : r[i] = q[i + 1]
      /\ Head(q) \in JobIds /\ Head(q) = q[1]
    BY EmptySeq, HeadTailProperties
<1> HIDE DEF n, r
<1>2. /\ \A i \in 1..(n - 1) : i + 1 \in 1..n /\ i + 1 # 1
      /\ \A i \in 1..n : i # 1 => i - 1 \in 1..(n - 1) /\ (i - 1) + 1 = i
      /\ 1 \in 1..n
    BY <1>1
<1>3. Places(q) = {q[i] : i \in 1..n} /\ Places(r) = {r[i] : i \in 1..(n - 1)}
    BY <1>1 DEF Places, n
<1>4. Places(q) = Places(r) \cup {Head(q)}
  <2>1. \A x \in Places(r) \cup {Head(q)} : x \in Places(q)
      BY <1>1, <1>2, <1>3
  <2>2. ASSUME NEW i \in 1..n PROVE q[i] \in Places(r) \cup {Head(q)}
    <3>1. CASE i = 1
        BY <1>1, <3>1
    <3>2. CASE i # 1
      <4>1. i - 1 \in 1..(n - 1) /\ r[i - 1] = q[i]
          BY <1>1, <1>2, <3>2
      <4> QED
          BY <1>3, <4>1
    <3> QED
        BY <3>1, <3>2
  <2> QED
      BY <1>3, <2>1, <2>2
<1>5. ASSUME Distinct(q) PROVE Distinct(r) /\ Head(q) \notin Places(r)
  <2>1. \A i, k \in 1..n : q[i] = q[k] => i = k
      BY <1>5 DEF Distinct, n
  <2>2. Distinct(r)
      BY <1>1, <1>2, <2>1 DEF Distinct
  <2>3. \A i \in 1..(n - 1) : r[i] # Head(q)
      BY <1>1, <1>2, <2>1
  <2> QED
      BY <1>3, <2>2, <2>3
<1> QED
    BY <1>1, <1>4, <1>5 DEF r

LEMMA EmptyPlaces == Places(<<>>) = {} /\ Distinct(<<>>)
BY DEF Places, Distinct

LEMMA PlacesAreJobs == \A q \in Seq(JobIds) : Places(q) \subseteq JobIds
BY ElementOfSeq DEF Places

(* An id is in one place, its row says so, and so every row that is queued or running is *)
(* accounted for.                                                                        *)
PlaceInv == OnePlacePerJob /\ QueuedIsReachable /\ OneJobInHand

LEMMA PlaceInvInductive == TypeInv /\ PlaceInv /\ [Next]_vars => PlaceInv'
<1> SUFFICES ASSUME TypeInv, PlaceInv, [Next]_vars PROVE PlaceInv'
    OBVIOUS
<1> USE DEF TypeInv, TypeOK, PlaceInv, OnePlacePerJob, ProcessInv, WaitingInv, HandInv,
            LeftInv, QueuedIsReachable, OneJobInHand, database, process
<1>a. NoJob \notin JobIds
    BY DEF NoJob, JobIds
<1>b. InQueue \subseteq JobIds
    BY PlacesAreJobs DEF InQueue
<1>c. queue' = queue => InQueue' = InQueue
    BY DEF InQueue
<1>1. ASSUME NEW j \in JobIds, Insert(j) PROVE PlaceInv'
  <2>0. state[j] = "absent"
      BY <1>1 DEF Insert
  <2>1. j \notin pending \cup InQueue /\ j \notin left
      BY <2>0
  <2>2. j # current
      BY <1>a, <2>0 DEF WorkerPC
  <2> QED
      BY <1>1, <1>b, <1>c, <2>1, <2>2 DEF Insert
<1>2. ASSUME NEW j \in JobIds, Put(j) PROVE PlaceInv'
  <2>1. InQueue' = InQueue \cup {j} /\ Distinct(queue')
      BY <1>2, AppendPlaces DEF Put, InQueue
  <2> QED
      BY <1>2, <2>1 DEF Put
<1>17. ASSUME NEW j \in JobIds, RefreshFails(j) PROVE PlaceInv'
  <2>1. state[j] = "queued" /\ j # current
      BY <1>17, <1>a DEF RefreshFails, WorkerPC
  <2> QED
      BY <1>17, <1>c, <2>1 DEF RefreshFails
<1>3. CASE Get
  <2>1. /\ InQueue = InQueue' \cup {current'}
        /\ current' \in JobIds /\ current' \notin InQueue'
        /\ Distinct(queue')
      BY <1>3, TailPlaces DEF Get, InQueue
  <2> QED
      BY <1>3, <1>a, <2>1 DEF Get
<1>4. CASE Drop
    BY <1>4, <1>a, <1>c DEF Drop, Release
<1>5. CASE Begin
    BY <1>5, <1>b, <1>c DEF Begin
<1>6. CASE AddStep
    BY <1>6, <1>c DEF AddStep
<1>7. ASSUME NEW outcome \in {"succeeded", "failed", "skipped"}, FinishStep(outcome)
      PROVE PlaceInv'
    BY <1>7, <1>c DEF FinishStep
<1>8. CASE Succeed
    BY <1>8, <1>a, <1>b, <1>c DEF Succeed, Release
<1>9. CASE Raise
    BY <1>9, <1>c DEF Raise
<1>10. CASE FailRunningSteps
    BY <1>10, <1>b, <1>c DEF FailRunningSteps
<1>11. CASE Close
    BY <1>11, <1>a, <1>c DEF Close, Release
<1>12. CASE Abandon
    BY <1>12, <1>a, <1>b, <1>c DEF Abandon, Release
<1>13. CASE Crash
    BY <1>13, <1>a, EmptyPlaces DEF Crash, Die, InQueue
<1>14. CASE Cancel
    BY <1>14, <1>a, EmptyPlaces DEF Cancel, Die, InQueue
<1>15. CASE Start
    BY <1>15, <1>a, EmptyPlaces DEF Start, InQueue
<1>16. CASE UNCHANGED vars
    BY <1>16, <1>c DEF vars
<1> QED
    BY <1>1, <1>2, <1>3, <1>4, <1>5, <1>6, <1>7, <1>8, <1>9, <1>10, <1>11, <1>12, <1>13,
       <1>14, <1>15, <1>16, <1>17 DEF Next, Worker, Body

-----------------------------------------------------------------------------
(* The audit log: a job the worker is about to close has no entry yet. *)
AuditInv ==
    /\ AuditAgreesWithJob
    /\ pc = "closing" => audit[current] = <<>>

LEMMA AuditInvInductive == TypeInv /\ PlaceInv /\ AuditInv /\ [Next]_vars => AuditInv'
<1> SUFFICES ASSUME TypeInv, PlaceInv, AuditInv, [Next]_vars PROVE AuditInv'
    OBVIOUS
<1> USE DEF TypeInv, TypeOK, PlaceInv, OnePlacePerJob, ProcessInv, HandInv, AuditInv,
            AuditAgreesWithJob, database, process
<1>a. NoJob \notin JobIds
    BY DEF NoJob, JobIds
<1>b. \A x : Append(<<>>, x) = <<x>>
    OBVIOUS
<1>1. ASSUME NEW j \in JobIds, Insert(j) PROVE AuditInv'
    BY <1>1 DEF Insert
<1>2. ASSUME NEW j \in JobIds, Put(j) PROVE AuditInv'
    BY <1>2 DEF Put
<1>17. ASSUME NEW j \in JobIds, RefreshFails(j) PROVE AuditInv'
    BY <1>17 DEF RefreshFails
<1>3. CASE Get
    BY <1>3 DEF Get
<1>4. CASE Drop
    BY <1>4 DEF Drop, Release
<1>5. CASE Begin
    BY <1>5 DEF Begin
<1>6. CASE AddStep
    BY <1>6 DEF AddStep
<1>7. ASSUME NEW outcome \in {"succeeded", "failed", "skipped"}, FinishStep(outcome)
      PROVE AuditInv'
    BY <1>7 DEF FinishStep
<1>8. CASE Succeed
    BY <1>8, <1>a, <1>b DEF Succeed, Release
<1>9. CASE Raise
    BY <1>9 DEF Raise
<1>10. CASE FailRunningSteps
    BY <1>10, <1>a DEF FailRunningSteps
<1>11. CASE Close
    BY <1>11, <1>a, <1>b DEF Close, Release
<1>12. CASE Abandon
    BY <1>12 DEF Abandon, Release
<1>13. CASE Crash
    BY <1>13 DEF Crash, Die
<1>14. CASE Cancel
    BY <1>14, <1>a, <1>b DEF Cancel, Die
<1>15. CASE Start
    BY <1>15 DEF Start
<1>16. CASE UNCHANGED vars
    BY <1>16 DEF vars
<1> QED
    BY <1>1, <1>2, <1>3, <1>4, <1>5, <1>6, <1>7, <1>8, <1>9, <1>10, <1>11, <1>12, <1>13,
       <1>14, <1>15, <1>16, <1>17 DEF Next, Worker, Body

-----------------------------------------------------------------------------
(* The steps of a job agree with its row. *)
LEMMA StepsInvInductive ==
    TypeInv /\ PlaceInv /\ StepsMatchOutcome /\ [Next]_vars => StepsMatchOutcome'
<1> SUFFICES ASSUME TypeInv, PlaceInv, StepsMatchOutcome, [Next]_vars
             PROVE StepsMatchOutcome'
    OBVIOUS
<1> USE DEF TypeInv, TypeOK, PlaceInv, OnePlacePerJob, ProcessInv, WaitingInv, HandInv,
            StepsMatchOutcome, AllGood, Good, database, process
<1>a. UNCHANGED <<state, steps>> => StepsMatchOutcome'
    BY DEF StepsMatchOutcome, AllGood
<1>1. ASSUME NEW j \in JobIds, Insert(j) PROVE StepsMatchOutcome'
    BY <1>1 DEF Insert
<1>2. ASSUME NEW j \in JobIds, Put(j) PROVE StepsMatchOutcome'
    BY <1>2, <1>a DEF Put
<1>17. ASSUME NEW j \in JobIds, RefreshFails(j) PROVE StepsMatchOutcome'
    BY <1>17, <1>a DEF RefreshFails
<1>3. CASE Get
    BY <1>3, <1>a DEF Get
<1>4. CASE Drop
    BY <1>4, <1>a DEF Drop
<1>5. CASE Begin
    BY <1>5 DEF Begin
<1>6. CASE AddStep
  <2>1. current \in JobIds /\ state[current] = "running"
      BY <1>6 DEF AddStep
  <2>2. /\ steps[current] \in Seq(StepState) /\ "running" \in StepState
        /\ Len(steps[current]) \in Nat
      BY <2>1, LenProperties DEF StepState
  <2>3. /\ Len(steps'[current]) = Len(steps[current]) + 1
        /\ \A i \in 1..Len(steps[current]) : steps'[current][i] = steps[current][i]
      BY <1>6, <2>1, <2>2, AppendProperties DEF AddStep
  <2>4. \A i \in 1..(Len(steps'[current]) - 1) : Good(steps'[current][i])
      BY <1>6, <2>2, <2>3 DEF AddStep
  <2> QED
      BY <1>6, <2>1, <2>4 DEF AddStep
<1>7. ASSUME NEW outcome \in {"succeeded", "failed", "skipped"}, FinishStep(outcome)
      PROVE StepsMatchOutcome'
  <2>1. current \in JobIds /\ state[current] = "running"
      BY <1>7 DEF FinishStep
  <2> DEFINE n == Len(steps[current])
  <2>2. n \in 1..n /\ n \in Nat /\ outcome \in StepState
      BY <1>7, <2>1, EmptySeq DEF FinishStep, StepState
  <2>3. /\ Len(steps'[current]) = n
        /\ \A i \in 1..n : steps'[current][i] = IF i = n THEN outcome ELSE steps[current][i]
      BY <1>7, <2>1, <2>2, ExceptSeq DEF FinishStep
  <2>4. \A i \in 1..(n - 1) : i \in 1..n /\ i # n /\ Good(steps[current][i])
      BY <2>1, <2>2
  <2>5. \A i \in 1..(Len(steps'[current]) - 1) : Good(steps'[current][i])
      BY <2>3, <2>4
  <2> QED
      BY <1>7, <2>1, <2>5 DEF FinishStep
<1>8. CASE Succeed
    BY <1>8 DEF Succeed
<1>9. CASE Raise
    BY <1>9, <1>a DEF Raise
<1>10. CASE FailRunningSteps
  <2>1. current \in JobIds /\ steps[current] \in Seq(StepState)
      BY <1>10 DEF FailRunningSteps
  <2>2. /\ Len(steps'[current]) = Len(steps[current])
        /\ \A i \in 1..Len(steps[current]) :
              /\ steps'[current][i] # "running"
              /\ steps[current][i] # "running" => steps'[current][i] = steps[current][i]
      BY <1>10, <2>1, RunningFailedProperties DEF FailRunningSteps
  <2>3. \A i \in 1..(Len(steps[current]) - 1) :
            i \in 1..Len(steps[current]) /\ Good(steps[current][i])
      BY <2>1, LenProperties
  <2>4. \A i \in 1..(Len(steps'[current]) - 1) : Good(steps'[current][i])
      BY <2>2, <2>3
  <2> QED
      BY <1>10, <2>1, <2>2, <2>4 DEF FailRunningSteps
<1>11. CASE Close
    BY <1>11, <1>a DEF Close
<1>12. CASE Abandon
    BY <1>12, <1>a DEF Abandon
<1>13. CASE Crash
    BY <1>13, <1>a DEF Crash
<1>14. CASE Cancel
    BY <1>14, <1>a DEF Cancel
<1>15. CASE Start
    BY <1>15 DEF Start
<1>16. CASE UNCHANGED vars
    BY <1>16, <1>a DEF vars
<1> QED
    BY <1>1, <1>2, <1>3, <1>4, <1>5, <1>6, <1>7, <1>8, <1>9, <1>10, <1>11, <1>12, <1>13,
       <1>14, <1>15, <1>16, <1>17 DEF Next, Worker, Body

-----------------------------------------------------------------------------
IInv == TypeInv /\ PlaceInv /\ AuditInv /\ StepsMatchOutcome

LEMMA IInvInitially == Init => IInv
<1> SUFFICES ASSUME Init PROVE IInv
    OBVIOUS
<1> USE DEF Init
<1>1. TypeInv
    BY EmptySeq DEF TypeInv, TypeOK, ProcessInv, JobState, WorkerPC
<1>2. PlaceInv
    BY EmptyPlaces DEF PlaceInv, OnePlacePerJob, ProcessInv, WaitingInv, HandInv, LeftInv,
                       QueuedIsReachable, OneJobInHand, InQueue
<1>3. AuditInv
    BY DEF AuditInv, AuditAgreesWithJob
<1>4. StepsMatchOutcome
    BY EmptySeq DEF StepsMatchOutcome
<1> QED
    BY <1>1, <1>2, <1>3, <1>4 DEF IInv

LEMMA IInvInductive == IInv /\ [Next]_vars => IInv'
BY TypeInvInductive, PlaceInvInductive, AuditInvInductive, StepsInvInductive DEF IInv

THEOREM Inductive == Spec => []IInv
BY IInvInitially, IInvInductive, PTL DEF Spec

(* However many jobs are submitted, and however often the process dies, the id of a job   *)
(* is in one place of the runner and the row's state is the one that place stands for.    *)
THEOREM OnePlace == Spec => []OnePlacePerJob
<1>1. IInv => OnePlacePerJob
    BY DEF IInv, PlaceInv
<1> QED
    BY <1>1, Inductive, PTL

(* No job the runner has accepted is out of the worker's reach while the process is up.   *)
THEOREM NoJobIsLost == Spec => []QueuedIsReachable
<1>1. IInv => QueuedIsReachable
    BY DEF IInv, PlaceInv
<1> QED
    BY <1>1, Inductive, PTL

(* Of all the rows, only that of the job in hand, or of an abandoned one, is RUNNING.     *)
THEOREM RunningIsInHand == Spec => []OneJobInHand
<1>1. IInv => OneJobInHand
    BY DEF IInv, PlaceInv
<1> QED
    BY <1>1, Inductive, PTL

(* The audit log never contradicts the job table. *)
THEOREM AuditAgrees == Spec => []AuditAgreesWithJob
<1>1. IInv => AuditAgreesWithJob
    BY DEF IInv, AuditInv
<1> QED
    BY <1>1, Inductive, PTL

(* The steps shown for a job agree with the outcome shown for it. *)
THEOREM StepsAgree == Spec => []StepsMatchOutcome
<1>1. IInv => StepsMatchOutcome
    BY DEF IInv
<1> QED
    BY <1>1, Inductive, PTL

-----------------------------------------------------------------------------
(* The runner keeps the promise of JobQueue.  A step that leaves the rows, the set of     *)
(* stranded jobs and the process alone is a stutter there.                                *)
LEMMA StutterKeepsPromise ==
    ASSUME UNCHANGED <<state, left, up>>
    PROVE  UNCHANGED Promise!vars
BY DEF Promise!vars, Status

LEMMA StepKeepsPromise == IInv /\ [Next]_vars => [Promise!Next]_(Promise!vars)
<1> SUFFICES ASSUME IInv, [Next]_vars PROVE [Promise!Next]_(Promise!vars)
    OBVIOUS
<1> USE DEF database, process
<1>a. /\ state \in [JobIds -> JobState \cup {"absent"}]
      /\ left \subseteq JobIds
      /\ current \in JobIds \cup {NoJob} /\ NoJob \notin JobIds
      /\ current \notin left
      /\ \A j \in left : state[j] \in {"queued", "running"}
      /\ up <=> pc # "off"
      /\ current = NoJob <=> pc \in {"off", "get"}
      /\ pc = "load" => state[current] = "queued"
      /\ pc \in {"body", "failing"} => state[current] = "running"
      /\ up \in BOOLEAN
    BY DEF IInv, TypeInv, TypeOK, ProcessInv, PlaceInv, OnePlacePerJob, HandInv, LeftInv,
           NoJob, JobIds
<1>b. ASSUME NEW j \in JobIds, NEW s, state' = [state EXCEPT ![j] = s], left' = left
      PROVE  /\ \A k \in JobIds : k # j => Status(k)' = Status(k)
             /\ [k \in JobIds |-> Status(k)]' = [[k \in JobIds |-> Status(k)]
                                                    EXCEPT ![j] = Status(j)']
  <2>1. \A k \in JobIds : k # j => Status(k)' = Status(k)
      BY <1>a, <1>b DEF Status
  <2> HIDE DEF Status
  <2> QED
      BY <2>1
<1>c. ASSUME NEW j \in JobIds, state' = state, left' = left \cup {j}
      PROVE  [k \in JobIds |-> Status(k)]' = [[k \in JobIds |-> Status(k)]
                                                 EXCEPT ![j] = "stranded"]
  <2>1. \A k \in JobIds : k # j => Status(k)' = Status(k)
      BY <1>c DEF Status
  <2>2. Status(j)' = "stranded"
      BY <1>c DEF Status
  <2> QED
      BY <2>1, <2>2
<1>1. ASSUME NEW j \in JobIds, Insert(j) PROVE Promise!Next
  <2>1. Status(j) = "absent" /\ Status(j)' = "waiting"
      BY <1>1, <1>a DEF Insert, Status
  <2>2. Promise!Accept(j)
      BY <1>1, <1>b, <2>1 DEF Insert, Promise!Accept
  <2> QED
      BY <2>2 DEF Promise!Next
<1>2. ASSUME NEW j \in JobIds, Put(j) PROVE UNCHANGED Promise!vars
    BY <1>2, StutterKeepsPromise DEF Put
<1>16. ASSUME NEW j \in JobIds, RefreshFails(j) PROVE Promise!Next
  <2>1. state[j] = "queued" /\ j \notin left /\ up
      BY <1>16, <1>a DEF RefreshFails, IInv, TypeInv, ProcessInv, PlaceInv, OnePlacePerJob,
                         WaitingInv
  <2>2. Status(j) = "waiting"
      BY <2>1 DEF Status
  <2>3. Promise!Strand(j)
      BY <1>16, <1>c, <2>1, <2>2 DEF RefreshFails, Promise!Strand
  <2> QED
      BY <2>3 DEF Promise!Next
<1>3. CASE Get
    BY <1>3, StutterKeepsPromise DEF Get
<1>4. CASE Drop
  <2>1. current \in JobIds /\ up /\ up' = up
      BY <1>4, <1>a DEF Drop, Release
  <2>2. Status(current) = "waiting"
      BY <1>4, <1>a DEF Drop, Status
  <2>3. Promise!Strand(current)
      BY <1>4, <1>c, <2>1, <2>2 DEF Drop, Promise!Strand
  <2> QED
      BY <2>1, <2>3 DEF Promise!Next
<1>5. CASE Begin
  <2>1. PICK j \in JobIds : j = current
      BY <1>5, <1>a DEF Begin
  <2>2. up /\ up' = up /\ left' = left /\ state' = [state EXCEPT ![j] = "running"]
      BY <1>5, <1>a, <2>1 DEF Begin
  <2>3. Status(j) = "waiting" /\ Status(j)' = "active"
      BY <1>5, <1>a, <2>1, <2>2 DEF Begin, Status
  <2>4. \A k \in JobIds : Status(k) # "active"
    <3>1. \A k \in JobIds : state[k] = "running" => k \in left
        BY <1>5, <1>a DEF Begin, IInv, PlaceInv, OneJobInHand
    <3> QED
        BY <1>a, <3>1 DEF Status, JobState
  <2>5. Promise!Begin(j)
      BY <1>b, <2>2, <2>3, <2>4 DEF Promise!Begin
  <2> QED
      BY <2>5 DEF Promise!Next
<1>6. CASE AddStep
    BY <1>6, StutterKeepsPromise DEF AddStep
<1>7. ASSUME NEW outcome \in {"succeeded", "failed", "skipped"}, FinishStep(outcome)
      PROVE UNCHANGED Promise!vars
    BY <1>7, StutterKeepsPromise DEF FinishStep
<1>8. CASE Succeed
  <2>1. PICK j \in JobIds : j = current
      BY <1>8, <1>a DEF Succeed
  <2>2. up /\ up' = up /\ left' = left /\ state' = [state EXCEPT ![j] = "succeeded"]
      BY <1>8, <1>a, <2>1 DEF Succeed, Release
  <2>3. Status(j) = "active" /\ Status(j)' = "succeeded"
      BY <1>8, <1>a, <2>1, <2>2 DEF Succeed, Status
  <2>4. Promise!Settle(j, "succeeded")
      BY <1>b, <2>2, <2>3 DEF Promise!Settle
  <2> QED
      BY <2>4 DEF Promise!Next
<1>9. CASE Raise
    BY <1>9, StutterKeepsPromise DEF Raise
<1>10. CASE FailRunningSteps
  <2>1. PICK j \in JobIds : j = current
      BY <1>10, <1>a DEF FailRunningSteps
  <2>2. up /\ up' = up /\ left' = left /\ state' = [state EXCEPT ![j] = "failed"]
      BY <1>10, <1>a, <2>1 DEF FailRunningSteps
  <2>3. Status(j) = "active" /\ Status(j)' = "failed"
      BY <1>10, <1>a, <2>1, <2>2 DEF FailRunningSteps, Status
  <2>4. Promise!Settle(j, "failed")
      BY <1>b, <2>2, <2>3 DEF Promise!Settle
  <2> QED
      BY <2>4 DEF Promise!Next
<1>11. CASE Close
    BY <1>11, StutterKeepsPromise DEF Close, Release
<1>12. CASE Abandon
  <2>1. current \in JobIds /\ up /\ up' = up
      BY <1>12, <1>a DEF Abandon, Release
  <2>2. Status(current) = "active"
      BY <1>12, <1>a DEF Abandon, Status
  <2>3. Promise!Strand(current)
      BY <1>12, <1>c, <2>1, <2>2 DEF Abandon, Promise!Strand
  <2> QED
      BY <2>1, <2>3 DEF Promise!Next
<1>13. ASSUME Crash \/ Cancel PROVE Promise!Next
  <2>1. UNCHANGED <<state, left>> /\ up /\ ~up'
      BY <1>13 DEF Crash, Cancel, Die
  <2>2. Promise!Halt
      BY <2>1 DEF Promise!Halt, Status
  <2> QED
      BY <2>2 DEF Promise!Next
<1>14. CASE Start
  <2>1. ~up /\ up' /\ left' = {}
      BY <1>14 DEF Start
  <2>2. \A j \in JobIds : Status(j)' = IF Status(j) \in {"waiting", "active", "stranded"}
                                       THEN "interrupted" ELSE Status(j)
    <3> SUFFICES ASSUME NEW j \in JobIds
                 PROVE Status(j)' = IF Status(j) \in {"waiting", "active", "stranded"}
                                    THEN "interrupted" ELSE Status(j)
        OBVIOUS
    <3>1. state'[j] = IF state[j] \in {"queued", "running"} THEN "interrupted" ELSE state[j]
        BY <1>14 DEF Start
    <3>2. CASE state[j] \in {"queued", "running"}
      <4>1. Status(j) \in {"waiting", "active", "stranded"}
          BY <3>2 DEF Status
      <4>2. Status(j)' = "interrupted"
          BY <2>1, <3>1, <3>2 DEF Status
      <4> QED
          BY <4>1, <4>2
    <3>3. CASE state[j] \notin {"queued", "running"}
      <4>1. j \notin left
          BY <1>a, <3>3
      <4>2. Status(j) = state[j] /\ Status(j)' = state[j]
          BY <2>1, <3>1, <3>3, <4>1 DEF Status
      <4>3. state[j] \notin {"waiting", "active", "stranded"}
          BY <1>a DEF JobState
      <4> QED
          BY <4>2, <4>3
    <3> QED
        BY <3>2, <3>3
  <2>3. Promise!Restart
    <3> HIDE DEF Status
    <3> QED
        BY <2>1, <2>2 DEF Promise!Restart
  <2> QED
      BY <2>3 DEF Promise!Next
<1>15. CASE UNCHANGED vars
    BY <1>15, StutterKeepsPromise DEF vars
<1> QED
    BY <1>1, <1>2, <1>3, <1>4, <1>5, <1>6, <1>7, <1>8, <1>9, <1>10, <1>11, <1>12, <1>13,
       <1>14, <1>15, <1>16 DEF Next, Worker, Body

(* services/jobs.py implements JobQueue: jobs run at most once and one at a time, an      *)
(* outcome is final, and a restart interrupts what was open and repeats nothing.          *)
THEOREM Implements == Spec => KeepsPromise
<1>1. Init => Promise!Init
    BY DEF Init, Promise!Init, Status
<1> QED
    BY <1>1, StepKeepsPromise, Inductive, PTL DEF Spec, KeepsPromise, Promise!Spec
=============================================================================

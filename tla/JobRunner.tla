------------------------------ MODULE JobRunner ------------------------------
(***************************************************************************)
(* The life of a job: services/jobs.py and the tables it writes.           *)
(*                                                                         *)
(* Requests insert job rows and put their ids on an asyncio queue in       *)
(* memory; one worker task takes the ids off and runs them one by one; the *)
(* process may be stopped, or die, between any two awaits, and on its next *)
(* start it marks as interrupted whatever the previous one left open.      *)
(*                                                                         *)
(* An action is what happens between two awaits that can be told apart     *)
(* from outside: one commit, or one put or get of the queue.  What a job   *)
(* body does with aptly is left open here (Workflow fills it in): a body   *)
(* adds steps, finishes them, and returns or raises.                       *)
(***************************************************************************)
EXTENDS Integers, Sequences, FiniteSets

CONSTANTS MaxJobs,    \* bound: rows the jobs table ever holds (rows are never deleted)
          MaxSteps    \* bound: steps one job adds

ASSUME MaxJobsAssumption  == MaxJobs \in Nat \ {0}
ASSUME MaxStepsAssumption == MaxSteps \in Nat \ {0}

JobIds == 1..MaxJobs
NoJob  == 0           \* current_job_id is None

VARIABLES
    \* the database
    state,     \* jobs.state by id; "absent" before the row is inserted
    steps,     \* the job_steps rows of a job, by position: their state
    audit,     \* the audit_log entries job.<type> written for a job: their result
    \* the process
    up,        \* between JobRunner.start and the end of the process
    pending,   \* enqueue has committed the row and has not put its id yet
    queue,     \* JobRunner._queue
    current,   \* JobRunner.current_job_id
    pc,        \* where the worker task is
    left       \* history: jobs the worker, or enqueue, let go of without an outcome

database == <<state, steps, audit>>
process  == <<up, pending, queue, current, pc, left>>
vars     == <<state, steps, audit, up, pending, queue, current, pc, left>>

JobState  == {"queued", "running", "succeeded", "failed", "interrupted"}
StepState == {"running", "succeeded", "failed", "skipped"}

\* "get"     waits on the queue          "load"    has an id, the row is not RUNNING yet
\* "body"    inside the try              "failing" in the except clause, before its commit
\* "closing" after that commit, before the commit of the finally clause
WorkerPC == {"off", "get", "load", "body", "failing", "closing"}

TypeOK ==
    /\ state \in [JobIds -> JobState \cup {"absent"}]
    /\ steps \in [JobIds -> Seq(StepState)]
    /\ audit \in [JobIds -> Seq(JobState)]
    /\ up \in BOOLEAN
    /\ pending \subseteq JobIds
    /\ queue \in Seq(JobIds)
    /\ current \in JobIds \cup {NoJob}
    /\ pc \in WorkerPC
    /\ left \subseteq JobIds

Init ==
    /\ state = [j \in JobIds |-> "absent"]
    /\ steps = [j \in JobIds |-> <<>>]
    /\ audit = [j \in JobIds |-> <<>>]
    /\ up = FALSE
    /\ pending = {}
    /\ queue = <<>>
    /\ current = NoJob
    /\ pc = "off"
    /\ left = {}

-----------------------------------------------------------------------------
(* enqueue: the row is committed, and only after two more awaits is its id *)
(* put, so two requests may put their ids in the other order.              *)

Insert(j) ==
    /\ up
    /\ state[j] = "absent"
    /\ \A k \in JobIds : k < j => state[k] # "absent"
    /\ state' = [state EXCEPT ![j] = "queued"]
    /\ pending' = pending \cup {j}
    /\ UNCHANGED <<steps, audit, up, queue, current, pc, left>>

\* mutant: a retry of the request puts the id again
PutAgain(j) ==
    /\ j \in pending
    /\ Len(queue) < MaxJobs
    /\ queue' = Append(queue, j)
    /\ UNCHANGED <<database, up, pending, current, pc, left>>

Put(j) ==
    /\ j \in pending
    /\ pending' = pending \ {j}
    /\ queue' = Append(queue, j)
    /\ UNCHANGED <<database, up, current, pc, left>>

\* session.refresh raises: the request ends with an error and the row stays as it is
RefreshFails(j) ==
    /\ j \in pending
    /\ pending' = pending \ {j}
    /\ left' = left \cup {j}
    /\ UNCHANGED <<database, up, queue, current, pc>>

-----------------------------------------------------------------------------
(* The worker. *)

Get ==
    /\ pc = "get"
    /\ queue # <<>>
    /\ current' = Head(queue)
    /\ queue' = Tail(queue)
    /\ pc' = "load"
    /\ UNCHANGED <<database, up, pending, left>>

\* back to the queue: the finally clause of _run_forever
Release ==
    /\ pc' = "get"
    /\ current' = NoJob
    /\ UNCHANGED <<up, pending, queue>>

\* the early returns of _run_job: the row the job is about is gone, nothing is written
Drop ==
    /\ pc = "load"
    /\ left' = left \cup {current}
    /\ Release
    /\ UNCHANGED database

Begin ==
    /\ pc = "load"
    /\ state' = [state EXCEPT ![current] = "running"]
    /\ pc' = "body"
    /\ UNCHANGED <<steps, audit, up, pending, queue, current, left>>

Good(stepState) == stepState \in {"succeeded", "skipped"}
AllGood(j) == \A i \in 1..Len(steps[j]) : Good(steps[j][i])

AddStep ==
    /\ pc = "body"
    /\ AllGood(current)
    /\ Len(steps[current]) < MaxSteps
    /\ steps' = [steps EXCEPT ![current] = Append(@, "running")]
    /\ UNCHANGED <<state, audit, process>>

FinishStep(outcome) ==
    /\ pc = "body"
    /\ steps[current] # <<>>
    /\ steps[current][Len(steps[current])] = "running"
    /\ steps' = [steps EXCEPT ![current] = [@ EXCEPT ![Len(@)] = outcome]]
    /\ UNCHANGED <<state, audit, process>>

\* the body returns; SUCCEEDED is assigned and committed together with the audit entry
Succeed ==
    /\ pc = "body"
    /\ AllGood(current)
    /\ state' = [state EXCEPT ![current] = "succeeded"]
    /\ audit' = [audit EXCEPT ![current] = Append(@, "succeeded")]
    /\ Release
    /\ UNCHANGED <<steps, left>>

\* the body raises; job.state = FAILED exists in memory only
Raise ==
    /\ pc = "body"
    /\ pc' = "failing"
    /\ UNCHANGED <<database, up, pending, queue, current, left>>

RunningFailed(s) == [i \in 1..Len(s) |-> IF s[i] = "running" THEN "failed" ELSE s[i]]

\* mutant: the except clause commits the job and forgets its steps
FailJobOnly ==
    /\ pc = "failing"
    /\ state' = [state EXCEPT ![current] = "failed"]
    /\ pc' = "closing"
    /\ UNCHANGED <<steps, audit, up, pending, queue, current, left>>

\* mutant: the except clause fails the steps and forgets the job
FailStepsOnly ==
    /\ pc = "failing"
    /\ steps' = [steps EXCEPT ![current] = RunningFailed(@)]
    /\ pc' = "closing"
    /\ UNCHANGED <<state, audit, up, pending, queue, current, left>>

\* _fail_running_steps: its commit carries job.state as well
FailRunningSteps ==
    /\ pc = "failing"
    /\ state' = [state EXCEPT ![current] = "failed"]
    /\ steps' = [steps EXCEPT ![current] = RunningFailed(@)]
    /\ pc' = "closing"
    /\ UNCHANGED <<audit, up, pending, queue, current, left>>

\* the finally clause after a failure: finished_at and the audit entry
Close ==
    /\ pc = "closing"
    /\ audit' = [audit EXCEPT ![current] = Append(@, "failed")]
    /\ Release
    /\ UNCHANGED <<state, steps, left>>

\* mutant: _run_forever does not catch what escapes _run_job, and the worker ends
AbandonWorker ==
    /\ pc = "body"
    /\ left' = left \cup {current}
    /\ pc' = "off"
    /\ current' = NoJob
    /\ UNCHANGED <<database, up, pending, queue>>

\* a commit of the body raises (a row it wants to write was deleted underneath it): the
\* session refuses every further statement, so the except and finally clauses raise too,
\* and _run_forever logs "job crashed" and takes the next id
Abandon ==
    /\ pc = "body"
    /\ left' = left \cup {current}
    /\ Release
    /\ UNCHANGED database

-----------------------------------------------------------------------------
(* The process. *)

\* mutant: the queue is kept somewhere that survives the process
DieKeepingQueue ==
    /\ up
    /\ up' = FALSE
    /\ pending' = {}
    /\ current' = NoJob
    /\ pc' = "off"
    /\ UNCHANGED <<queue, left>>

Die ==
    /\ up
    /\ up' = FALSE
    /\ pending' = {}
    /\ queue' = <<>>
    /\ current' = NoJob
    /\ pc' = "off"
    /\ UNCHANGED left

\* killed, or stopped anywhere but in a body's call to aptly
Crash == Die /\ UNCHANGED database

\* stop() cancels the worker inside a body: CancelledError is not an Exception, so only
\* the finally clause runs, and it records the state the row still has
Cancel ==
    /\ pc = "body"
    /\ audit' = [audit EXCEPT ![current] = Append(@, state[current])]
    /\ Die
    /\ UNCHANGED <<state, steps>>

\* mutant: recovery writes a state the enumeration does not have
StartCancelling ==
    /\ ~up
    /\ up' = TRUE
    /\ state' = [j \in JobIds |-> IF state[j] \in {"queued", "running"}
                                  THEN "cancelled" ELSE state[j]]
    /\ pc' = "get"
    /\ left' = {}
    /\ UNCHANGED <<steps, audit, pending, queue, current>>

\* mutant: recovery looks for RUNNING rows only
StartForgettingQueued ==
    /\ ~up
    /\ up' = TRUE
    /\ state' = [j \in JobIds |-> IF state[j] = "running" THEN "interrupted" ELSE state[j]]
    /\ pc' = "get"
    /\ left' = {}
    /\ UNCHANGED <<steps, audit, pending, queue, current>>

\* mutant: recovery looks for QUEUED rows only
StartForgettingRunning ==
    /\ ~up
    /\ up' = TRUE
    /\ state' = [j \in JobIds |-> IF state[j] = "queued" THEN "interrupted" ELSE state[j]]
    /\ pc' = "get"
    /\ left' = {}
    /\ UNCHANGED <<steps, audit, pending, queue, current>>

\* start: _recover_orphans commits before the worker task exists
Start ==
    /\ ~up
    /\ up' = TRUE
    /\ state' = [j \in JobIds |-> IF state[j] \in {"queued", "running"}
                                  THEN "interrupted" ELSE state[j]]
    /\ pc' = "get"
    /\ left' = {}
    /\ UNCHANGED <<steps, audit, pending, queue, current>>

-----------------------------------------------------------------------------
Body ==
    \/ AddStep
    \/ \E outcome \in {"succeeded", "failed", "skipped"} : FinishStep(outcome)
    \/ Succeed
    \/ Raise
    \/ Abandon

Worker == Get \/ Drop \/ Begin \/ Body \/ FailRunningSteps \/ Close

Next ==
    \/ \E j \in JobIds : Insert(j) \/ Put(j) \/ RefreshFails(j)
    \/ Worker
    \/ Crash \/ Cancel \/ Start

Spec == Init /\ [][Next]_vars

(***************************************************************************)
(* The event loop runs every task that is ready, and every call to aptly   *)
(* ends by the client's timeout, so neither the worker nor a request stops *)
(* for ever between two awaits.  Nothing obliges anyone to submit a job or *)
(* to restart the process.                                                 *)
(***************************************************************************)
Fairness == WF_vars(Worker) /\ \A j \in JobIds : WF_vars(Put(j) \/ RefreshFails(j))

FairSpec == Spec /\ Fairness

-----------------------------------------------------------------------------
(* Safety. *)

Places(q) == {q[i] : i \in 1..Len(q)}
Distinct(q) == \A i, k \in 1..Len(q) : q[i] = q[k] => i = k
InQueue == Places(queue)

(* A row that says "queued" is on its way to the worker: enqueue is about to put its id, *)
(* the id is in the queue, or the worker is reading the row.  The exceptions are a job   *)
(* the worker has dropped because its mirror set is gone, and one whose request failed   *)
(* after the commit.  The queue is lost with the process, so this needs the recovery of  *)
(* the next start, which closes the exceptions as well.                                  *)
QueuedIsReachable ==
    up => \A j \in JobIds : state[j] = "queued" =>
              j \in pending \cup InQueue \/ (pc = "load" /\ j = current) \/ j \in left

(* A row that says "running" while the process is up is the one job the worker has in    *)
(* hand, or one it had to abandon: never a job of an earlier process.                    *)
OneJobInHand ==
    up => \A j \in JobIds : state[j] = "running" =>
              (j = current /\ pc \in {"body", "failing"}) \/ j \in left

(* Where a job's id is, its row agrees: an id is in one place at most (about to be put,  *)
(* in the queue, in the worker's hand, let go of) and the row's state is the one that    *)
(* place stands for.  This is what makes QueuedIsReachable and OneJobInHand inductive:   *)
(* _run_job never looks at the state of the row it is given.                             *)
ProcessInv ==
    /\ up <=> pc # "off"
    /\ current = NoJob <=> pc \in {"off", "get"}
    /\ ~up => pending = {} /\ queue = <<>>

WaitingInv ==
    /\ \A j \in pending \cup InQueue : state[j] = "queued" /\ j \notin left
    /\ pending \cap InQueue = {}
    /\ Distinct(queue)

HandInv ==
    /\ current \notin left
    /\ pc = "load" => state[current] = "queued" /\ current \notin pending \cup InQueue
    /\ pc \in {"body", "failing"} => state[current] = "running"
    /\ pc = "closing" => state[current] = "failed"

LeftInv == \A j \in left : state[j] \in {"queued", "running"}

OnePlacePerJob == ProcessInv /\ WaitingInv /\ HandInv /\ LeftInv

(* The audit log has at most one entry for a job and it never contradicts the row: a     *)
(* success is audited with the commit that records it, a failure in the commit after     *)
(* that, so a crash in between leaves none; a job cut short by stop() is audited as      *)
(* "running" and interrupted later.                                                      *)
AuditAgreesWithJob ==
    \A j \in JobIds :
        /\ state[j] \in {"absent", "queued"} => audit[j] = <<>>
        /\ state[j] = "succeeded" => audit[j] = <<"succeeded">>
        /\ state[j] = "failed" => audit[j] \in {<<>>, <<"failed">>}
        /\ state[j] \in {"running", "interrupted"} => audit[j] \in {<<>>, <<"running">>}
        /\ up /\ state[j] = "running" => audit[j] = <<>>

(* The steps of a job tell its story: it goes no further than its first failing step, a  *)
(* job that succeeded has no step that did not, and a failed job has no step that still  *)
(* says "running".                                                                       *)
StepsMatchOutcome ==
    \A j \in JobIds :
        /\ \A i \in 1..(Len(steps[j]) - 1) : Good(steps[j][i])
        /\ state[j] \in {"absent", "queued"} => steps[j] = <<>>
        /\ state[j] = "succeeded" => AllGood(j)
        /\ state[j] = "failed" => \A i \in 1..Len(steps[j]) : steps[j][i] # "running"

(* The promise of JobQueue: what the rows, the worker and the process amount to.         *)
Status(j) ==
    IF j \in left THEN "stranded"
    ELSE CASE state[j] = "queued"  -> "waiting"
           [] state[j] = "running" -> "active"
           [] OTHER                -> state[j]

Promise == INSTANCE JobQueue WITH
               Jobs   <- JobIds,
               status <- [j \in JobIds |-> Status(j)],
               halted <- ~up

KeepsPromise == Promise!Spec

(* Every job row is settled in the end: it gets an outcome, unless the worker or its     *)
(* request lets go of it or the process ends first.                                      *)
EveryAcceptedJobSettles ==
    \A j \in JobIds :
        state[j] = "queued" ~> (state[j] \in Promise!Outcome \/ j \in left \/ ~up)
=============================================================================

------------------------------ MODULE JobBodies ------------------------------
(***************************************************************************)
(* What a job does with aptly: _create, _update, _discard, _remove and     *)
(* _switch of services/jobs.py, and the rows of mirror_sets and            *)
(* snapshot_sets they read and write.                                      *)
(*                                                                         *)
(* A body is a plan, the operations it has still to do in order.  Most     *)
(* operations are a step: the step is added, aptly is asked, a task is     *)
(* awaited if the answer is one, the step is finished.  The others read    *)
(* aptly or rows, or write rows, and have no step of their own.            *)
(***************************************************************************)
EXTENDS JobRunner, Aptly, SequencesExt

CONSTANTS SuiteList,   \* mirror_sets.suites, in the order the operator typed them
          Checked,     \* the names of sets with a public_url
          MaxSets,     \* bound: ids of mirror_sets
          MaxRecords   \* bound: ids of snapshot_sets

ASSUME SuiteListAssumption == SuiteList \in Seq(Suites)
ASSUME RowsAssumption      == MaxSets \in Nat /\ MaxRecords \in Nat

SetIds    == 1..MaxSets
RecordIds == 1..MaxRecords
NoRow     == 0
NoName    == "no such set"
NoRecord  == [set |-> NoRow, taken |-> {}, complete |-> FALSE]

ASSUME NamesAssumption == NoName \notin Names

VARIABLES
    sets,      \* mirror_sets by id: the name of the set, or NoName
    records,   \* snapshot_sets by id: mirror_set_id, snapshots, state
    request,   \* by job: type, mirror_set_id and params, and what the operator saw
    expected,  \* jobs.expected_steps
    minute,    \* the clock, as snapshot_stamp reads it
    body,      \* the locals of the body in hand
    strayed,   \* history: a job has ended while aptly was still at work for it
    remade     \* history: snapshots made while a record listed one of that name already

rows    == <<sets, records>>
history == <<strayed, remade>>

\* mutant: the suites in the order they were typed
SuitesAsTyped(list) == list

\* sorted: a key is three numbers, and the i-th is the one that i - 1 others come before
Precedes(k, l) ==
    \/ k[1] < l[1]
    \/ k[1] = l[1] /\ k[2] < l[2]
    \/ k[1] = l[1] /\ k[2] = l[2] /\ k[3] < l[3]

Before(key, x) == {y \in DOMAIN key : Precedes(key[y], key[x])}

SortedBy(key) ==
    [i \in 1..Cardinality(DOMAIN key) |->
        CHOOSE x \in DOMAIN key : Cardinality(Before(key, x)) = i - 1]

\* order_suites: by the rank of the suite's ending, then by name
OrderSuites(list) ==
    LET place == SortedBy([i \in DOMAIN list |-> <<list[i][1], list[i][2], i>>])
    IN  [i \in DOMAIN list |-> list[place[i]]]

InOrder == OrderSuites(SuiteList)

Op(op, arg) == [op |-> op, arg |-> arg]
ForEachSuite(F(_)) == [i \in DOMAIN InOrder |-> F(InOrder[i])]
ForEach(list, op)  == [i \in DOMAIN list |-> Op(op, list[i])]

Stepless == {"list", "record", "complete", "target", "erase"}

\* an id is one more than the largest in the table: sqlite reuses the ids of deleted rows
NextSetId    == 1 + Max({i \in SetIds : sets[i] # NoName} \cup {0})
NextRecordId == 1 + Max({i \in RecordIds : records[i] # NoRecord} \cup {0})

\* the set's name, where the body is, what it has to do, and what it has read or made
NoBody == [name |-> NoName, at |-> "ready", plan |-> <<>>, record |-> NoRow,
           taken |-> {}, existing |-> {}]

SetName(id) == IF id = NoRow THEN NoName ELSE sets[id]

CreatePlan(name) == ForEachSuite(LAMBDA u : Op("create", <<name, u>>))

\* mutant: the row goes before what it describes
PlanErasingFirst(q, name) ==
    CASE q.kind = "create"  -> <<Op("list", <<>>)>>
      [] q.kind = "update"  -> <<Op("preflight", <<>>), Op("record", <<>>)>>
      [] q.kind = "switch"  -> <<Op("target", <<>>)>>
      [] q.kind = "discard" ->
            <<Op("erase", <<>>)>> \o ForEach(q.names, "delete") \o <<Op("cleanup", <<>>)>>
      [] q.kind = "remove"  ->
            <<Op("erase", <<>>)>> \o ForEach(q.names, "dropMirror") \o <<Op("cleanup", <<>>)>>

Plan(q, name) ==
    CASE q.kind = "create" ->
            <<Op("list", <<>>)>>
      [] q.kind = "update" ->
            <<Op("preflight", <<>>), Op("record", <<>>)>>
      [] q.kind = "switch" ->
            <<Op("target", <<>>)>>
      [] q.kind = "discard" ->
            ForEach(q.names, "delete") \o <<Op("cleanup", <<>>), Op("erase", <<>>)>>
      [] q.kind = "remove" ->
            ForEach(q.names, "dropMirror") \o <<Op("cleanup", <<>>), Op("erase", <<>>)>>

UpdatePlan(name, stamp) ==
    ForEachSuite(LAMBDA u : Op("sync", <<name, u>>))
    \o ForEachSuite(LAMBDA u : Op("snapshot", <<name, u, stamp>>))
    \o <<Op("complete", <<>>)>>

SnapshotFor(taken, m) == CHOOSE s \in taken : MirrorOf(s) = m

\* mutant: the loop over the suites returns after the first
SwitchPlanReturning(name, taken) ==
    <<Op("publish", SnapshotFor(taken, <<name, InOrder[1]>>))>>

SwitchPlan(name, taken) ==
    ForEachSuite(LAMBDA u : Op("publish", SnapshotFor(taken, <<name, u>>)))
    \o <<Op("verify", <<>>)>>
    \o (IF name \in Checked THEN <<Op("client", <<>>)>> ELSE <<>>)

\* mutant: the steps that are not one per suite, mirror or snapshot are forgotten
ExpectedLoopSteps(q, name) ==
    CASE q.kind = "create" -> Len(SuiteList)
      [] q.kind = "update" -> 2 * Len(SuiteList)
      [] q.kind = "switch" -> Len(SuiteList)
      [] q.kind \in {"discard", "remove"} -> Len(q.names)

\* _expected_steps and discard_steps
ExpectedSteps(q, name) ==
    CASE q.kind = "create" -> Len(SuiteList)
      [] q.kind = "update" -> 1 + 2 * Len(SuiteList)
      [] q.kind = "switch" -> Len(SuiteList) + (IF name \in Checked THEN 2 ELSE 1)
      [] q.kind \in {"discard", "remove"} -> Len(q.names) + 1

-----------------------------------------------------------------------------
(* _run_job up to the body. *)

Unchanged == UNCHANGED <<request, minute>>

DropJob ==
    /\ pc = "load"
    /\ request[current].kind \notin {"discard", "remove"}
    /\ SetName(request[current].set) = NoName
    /\ Drop
    /\ UNCHANGED <<aptly, rows, expected, body, history>> /\ Unchanged

BeginJob ==
    /\ pc = "load"
    /\ LET q == request[current]
           name == SetName(q.set)
       IN /\ q.kind \in {"discard", "remove"} \/ name # NoName
          /\ expected' = [expected EXCEPT ![current] = ExpectedSteps(q, name)]
          /\ body' = [NoBody EXCEPT !.name = name, !.plan = Plan(q, name)]
    /\ Begin
    /\ UNCHANGED <<aptly, rows, history>> /\ Unchanged

-----------------------------------------------------------------------------
(* One step: _add_step, the call, _await_task, _finish_step. *)

Doing == Head(body.plan)

At(place) == pc = "body" /\ body.at = place

NextStep ==
    /\ At("ready") /\ body.plan # <<>> /\ Doing.op \notin Stepless
    /\ AddStep
    /\ body' = [body EXCEPT !.at = IF Doing.op = "create" /\ Doing.arg \in body.existing
                                  THEN "exists" ELSE "call"]
    /\ UNCHANGED <<aptly, rows, expected, history>> /\ Unchanged

Move(place) ==
    /\ body' = [body EXCEPT !.at = place]
    /\ UNCHANGED <<rows, expected, vars>> /\ Unchanged

\* list_mirrors or list_published, before the first step of _create and _switch, fails
ListFails ==
    /\ At("ready") /\ steps[current] = <<>>
    /\ body.plan # <<>> /\ Doing.op \in {"list", "publish"}
    /\ Move("raise")
    /\ UNCHANGED <<aptly, history>>

\* a record may list a snapshot that was deleted, and made again within its minute
RemadeNow ==
    IF Doing.op = "snapshot" /\ \E r \in RecordIds : Doing.arg \in records[r].taken
    THEN remade \cup {Doing.arg} ELSE remade

\* the preflight of _update: every mirror of the set exists
NoneMissing == \A u \in ToSet(SuiteList) : <<body.name, u>> \in mirrors

\* the verification of _switch: every suite is published as the snapshot set says
PublishedAsChosen == \A s \in body.taken : published[MirrorOf(s)] = s

\* the answer comes, and is what the body hopes for
CallSucceeds ==
    /\ At("call")
    /\ LET arg == Doing.arg
       IN CASE Doing.op = "create"    -> CreateMirror(arg)
            [] Doing.op = "snapshot"  -> CreateSnapshot(arg)
            [] Doing.op = "delete"    -> DeleteSnapshot(arg)
            [] Doing.op = "preflight" -> NoneMissing /\ UNCHANGED aptly
            [] Doing.op = "verify"    -> PublishedAsChosen /\ UNCHANGED aptly
            [] Doing.op = "client"    -> UNCHANGED aptly
            [] OTHER                  -> FALSE
    /\ Move("done")
    /\ remade' = RemadeNow /\ UNCHANGED strayed

\* mutant: the body does not wait for the task
CallIsAcceptedUnawaited ==
    /\ At("call")
    /\ Doing.op \in Ops
    /\ Post(current, Doing.op, Doing.arg)
    /\ Move("done")
    /\ UNCHANGED history

CallIsAccepted ==
    /\ At("call")
    /\ Doing.op \in Ops
    /\ Post(current, Doing.op, Doing.arg)
    /\ Move("wait")
    /\ UNCHANGED history

\* after a failed call the body raises; some operations may fail their step themselves
\* first, which depends on what went wrong
Failures(op) ==
    {"raise"} \cup IF op \in {"preflight", "delete", "dropMirror", "verify", "client"}
                  THEN {"refused"} ELSE {}

\* mutant: a failed call is taken for a good one
CallFailsQuietly ==
    /\ At("call")
    /\ Move("done")
    /\ UNCHANGED <<aptly, history>>

\* aptly refuses, cannot be reached, does not answer in time, or shows what the body does
\* not accept (no room on the disk, a publication elsewhere): nothing was done
CallFails ==
    /\ At("call")
    /\ \E place \in Failures(Doing.op) : Move(place)
    /\ UNCHANGED <<aptly, history>>

\* aptly does as it is asked and the answer is lost
CallIsNotAnswered ==
    /\ At("call")
    /\ \/ Doing.op = "create" /\ CreateMirror(Doing.arg) /\ UNCHANGED history
       \/ /\ Doing.op = "snapshot" /\ CreateSnapshot(Doing.arg)
          /\ remade' = RemadeNow /\ UNCHANGED strayed
       \/ Doing.op = "delete" /\ DeleteSnapshot(Doing.arg) /\ UNCHANGED history
       \/ Doing.op \in Ops /\ Post(current, Doing.op, Doing.arg) /\ strayed' = TRUE /\ UNCHANGED remade
    /\ \E place \in Failures(Doing.op) : Move(place)

\* the task ends; the next poll tells, unless it or the read of the output gets no answer
Awaited(t) == At("wait") /\ t.job = current

TaskEnds(t) ==
    /\ \/ EndWell(t) /\ IF Awaited(t) THEN \E place \in {"done", "raise"} : Move(place) ELSE Move(body.at)
       \/ EndBadly(t) /\ Move(IF Awaited(t) THEN "raise" ELSE body.at)
    /\ UNCHANGED history

\* a poll gets no answer, or _guard_disk raises: the task is left to itself
GiveUp ==
    /\ At("wait")
    /\ Move("raise")
    /\ strayed' = TRUE
    /\ UNCHANGED <<aptly, remade>>

\* mutant: 404 is taken for "not finished yet"
AptlyRestartsUnnoticed ==
    /\ LoseTasks
    /\ Move(body.at)
    /\ UNCHANGED history

\* aptly restarts; the next poll is answered with 404
AptlyRestarts ==
    /\ LoseTasks
    /\ Move(IF At("wait") THEN "raise" ELSE body.at)
    /\ UNCHANGED history

\* the row the body goes on writing was deleted by another request
RecordGone == body.record # NoRow /\ records[body.record] = NoRecord

\* mutant: one dict is assigned and then filled, which the session takes for no change
StepDoneSameDict ==
    /\ At("done")
    /\ Doing.op = "snapshot" => ~RecordGone
    /\ FinishStep("succeeded")
    /\ body' = [body EXCEPT !.at = "ready", !.plan = Tail(@),
                            !.taken = IF Doing.op = "snapshot" THEN @ \cup {Doing.arg} ELSE @]
    /\ records' = IF Doing.op = "snapshot" /\ body.taken = {}
                  THEN [records EXCEPT ![body.record].taken = {Doing.arg}] ELSE records
    /\ UNCHANGED <<aptly, sets, expected, history>> /\ Unchanged

StepDone ==
    /\ At("done")
    /\ Doing.op = "snapshot" => ~RecordGone
    /\ FinishStep("succeeded")
    /\ IF Doing.op = "snapshot"
       THEN /\ records' = [records EXCEPT ![body.record].taken = body.taken \cup {Doing.arg}]
            /\ body' = [body EXCEPT !.at = "ready", !.plan = Tail(@), !.taken = @ \cup {Doing.arg}]
       ELSE /\ body' = [body EXCEPT !.at = "ready", !.plan = Tail(@)]
            /\ UNCHANGED records
    /\ UNCHANGED <<aptly, sets, expected, history>> /\ Unchanged

StepSkipped ==
    /\ At("exists")
    /\ FinishStep("skipped")
    /\ body' = [body EXCEPT !.at = "ready", !.plan = Tail(@)]
    /\ UNCHANGED <<aptly, rows, expected, history>> /\ Unchanged

StepRefused ==
    /\ At("refused")
    /\ FinishStep("failed")
    /\ body' = [body EXCEPT !.at = "raise"]
    /\ UNCHANGED <<aptly, rows, expected, history>> /\ Unchanged

-----------------------------------------------------------------------------
(* The operations that have no step: they read and write rows. *)

ListMirrors ==
    /\ At("ready") /\ body.plan # <<>> /\ Doing.op = "list"
    /\ body' = [body EXCEPT !.existing = mirrors, !.plan = CreatePlan(body.name)]
    /\ UNCHANGED <<vars, aptly, rows, expected, history>> /\ Unchanged

\* mutant: the row is complete from the start
RecordCompleteSet ==
    /\ At("ready") /\ body.plan # <<>> /\ Doing.op = "record"
    /\ NextRecordId \in RecordIds
    /\ minute' \in {minute, minute + 1} \cap Minutes
    /\ records' = [records EXCEPT ![NextRecordId] =
                      [set |-> request[current].set, taken |-> {}, complete |-> TRUE]]
    /\ body' = [body EXCEPT !.record = NextRecordId, !.plan = UpdatePlan(body.name, minute')]
    /\ UNCHANGED <<vars, aptly, sets, request, expected, history>>

RecordSnapshotSet ==
    /\ At("ready") /\ body.plan # <<>> /\ Doing.op = "record"
    /\ NextRecordId \in RecordIds
    /\ minute' \in {minute, minute + 1} \cap Minutes
    /\ records' = [records EXCEPT ![NextRecordId] =
                      [set |-> request[current].set, taken |-> {}, complete |-> FALSE]]
    /\ body' = [body EXCEPT !.record = NextRecordId, !.plan = UpdatePlan(body.name, minute')]
    /\ UNCHANGED <<vars, aptly, sets, request, expected, history>>

CompleteSnapshotSet ==
    /\ At("ready") /\ body.plan # <<>> /\ Doing.op = "complete"
    /\ ~RecordGone
    /\ records' = [records EXCEPT ![body.record].complete = TRUE]
    /\ body' = [body EXCEPT !.plan = Tail(@)]
    /\ UNCHANGED <<vars, aptly, sets, expected, history>> /\ Unchanged

\* mutant: the state of the snapshot set is not looked at
PublishableIfAllThere(record, q, name) ==
    /\ record # NoRecord /\ record.set = q.set
    /\ \A u \in ToSet(SuiteList) : \E s \in record.taken : MirrorOf(s) = <<name, u>>

Publishable(record, q, name) ==
    /\ record # NoRecord /\ record.set = q.set
    /\ record.complete
    /\ \A u \in ToSet(SuiteList) : \E s \in record.taken : MirrorOf(s) = <<name, u>>

ReadTarget ==
    /\ At("ready") /\ body.plan # <<>> /\ Doing.op = "target"
    /\ LET q == request[current]
           record == records[q.record]
       IN IF Publishable(record, q, body.name)
          THEN body' = [body EXCEPT !.taken = record.taken,
                                    !.plan = SwitchPlan(body.name, record.taken)]
          ELSE body' = [body EXCEPT !.at = "raise"]
    /\ UNCHANGED <<vars, aptly, rows, expected, history>> /\ Unchanged

\* a mirror set takes its snapshot sets with it
WithoutSet(id) ==
    /\ sets' = [sets EXCEPT ![id] = NoName]
    /\ records' = [r \in RecordIds |-> IF records[r].set = id THEN NoRecord ELSE records[r]]

\* _remove finds its set if it is there, or was when the job began: the session keeps what it
\* has loaded
EraseRow ==
    /\ At("ready") /\ body.plan # <<>> /\ Doing.op = "erase"
    /\ LET q == request[current]
       IN CASE q.kind = "discard" /\ q.record # NoRow ->
                  /\ records' = [records EXCEPT ![q.record] = NoRecord]
                  /\ UNCHANGED sets
            [] /\ q.kind = "remove" /\ q.set # NoRow
               /\ body.name # NoName \/ sets[q.set] # NoName -> WithoutSet(q.set)
            [] OTHER -> UNCHANGED rows
    /\ body' = [body EXCEPT !.plan = Tail(@)]
    /\ UNCHANGED <<vars, aptly, expected, history>> /\ Unchanged

\* the commit finds no row to update
CommitFails ==
    /\ \/ At("done") /\ Doing.op = "snapshot"
       \/ At("ready") /\ body.plan # <<>> /\ Doing.op = "complete"
    /\ RecordGone
    /\ Abandon
    /\ body' = NoBody
    /\ UNCHANGED <<aptly, rows, expected, history>> /\ Unchanged

-----------------------------------------------------------------------------
(* The end of a job, and of the process. *)

BodyReturns ==
    /\ At("ready") /\ body.plan = <<>>
    /\ Succeed
    /\ body' = NoBody
    /\ UNCHANGED <<aptly, rows, expected, history>> /\ Unchanged

BodyRaises ==
    /\ At("raise")
    /\ Raise
    /\ body' = NoBody
    /\ UNCHANGED <<aptly, rows, expected, history>> /\ Unchanged

Elsewhere == UNCHANGED <<aptly, rows, expected, body, history>> /\ Unchanged

ProcessEnds ==
    /\ Crash \/ ((At("call") \/ At("wait")) /\ Cancel)
    /\ body' = NoBody
    /\ strayed' = (strayed \/ tasks # {})
    /\ UNCHANGED <<aptly, rows, expected, remade>> /\ Unchanged

\* what the worker does by itself: every call is answered or times out
Server ==
    \/ Get /\ Elsewhere
    \/ DropJob \/ BeginJob
    \/ NextStep \/ ListFails \/ ListMirrors
    \/ CallSucceeds \/ CallIsAccepted \/ CallFails \/ CallIsNotAnswered
    \/ StepDone \/ StepSkipped \/ StepRefused
    \/ RecordSnapshotSet \/ CompleteSnapshotSet \/ ReadTarget \/ EraseRow \/ CommitFails
    \/ BodyReturns \/ BodyRaises
    \/ FailRunningSteps /\ Elsewhere
    \/ Close /\ Elsewhere

SomeTaskEnds == \E t \in tasks : TaskEnds(t)
=============================================================================

------------------------------- MODULE Workflow -------------------------------
(***************************************************************************)
(* The write side of aptly-gui as a whole: the request handlers of         *)
(* web/app.py that submit jobs or change mirror sets, in any order and     *)
(* beside the worker of JobBodies, its process and aptly.                  *)
(***************************************************************************)
EXTENDS JobBodies

CONSTANTS Handlers,     \* bound: the handlers users call in this instance; "stale": and their
                        \* forms may name rows that are gone, or another set's
          MaxPending,   \* bound: requests between the commit and the put of enqueue, and
                        \* removals of a set between its row and the cached state
          Continues,    \* pairs of mirrors: the name of the second starts with that of the
                        \* first and a dash
          InitialSets,  \* bound: what the process may find in mirror_sets
          Synced        \* the names of sets that were synced and snapshotted once, at minute 0

ASSUME HandlersAssumption ==
    Handlers \subseteq {"update", "switch", "discard", "discardOne", "create", "remove",
                        "removeOne", "new", "adopt", "forget", "stale"}
ASSUME InitialSetsAssumption ==      \* mirror_sets.name is unique
    /\ InitialSets \subseteq [SetIds -> Names \cup {NoName}]
    /\ \A names \in InitialSets : \A i, k \in SetIds :
          names[i] = names[k] => i = k \/ names[i] = NoName
ASSUME SyncedAssumption == Synced \subseteq Names /\ (Synced # {} => MaxMinute > 0)

VARIABLES
    cached,    \* StateCache: what aptly held when it was last read
    halfway    \* requests of new_set_submit and set_delete: their session with the rows is
               \* over, what they enqueue is still to come

everything == <<vars, aptly, rows, request, expected, minute, body, history, cached, halfway>>

NoRequest == [kind |-> "none", set |-> NoRow, record |-> NoRow,
              names |-> <<>>, seen |-> {}]

Kinds == {"create", "update", "switch", "discard", "remove"}

Record  == [set : SetIds \cup {NoRow}, taken : SUBSET Snapshots, complete : BOOLEAN]

EmptyView == [mirrors |-> {}, snapshots |-> {}, inUse |-> {}]

SnapshotsOf(name) == {<<name, u, 0>> : u \in ToSet(SuiteList)}
MirrorsOf(name)   == {<<name, u>> : u \in ToSet(SuiteList)}
Present(names)    == {n \in Names : \E i \in SetIds : names[i] = n}

WorkflowInit ==
    /\ Init
    /\ sets \in InitialSets
    /\ records = [r \in RecordIds |->
                     IF r \in SetIds /\ sets[r] \in Synced
                     THEN [set |-> r, taken |-> SnapshotsOf(sets[r]), complete |-> TRUE]
                     ELSE NoRecord]
    /\ mirrors = UNION {MirrorsOf(n) : n \in Present(sets)}
    /\ snapshots = UNION {SnapshotsOf(n) : n \in Present(sets) \cap Synced}
    /\ published = [m \in Mirrors |-> NotPublished]
    /\ tasks = {}
    /\ request = [j \in JobIds |-> NoRequest]
    /\ expected = [j \in JobIds |-> 0]
    /\ minute = IF Present(sets) \cap Synced # {} THEN 1 ELSE 0
    /\ body = NoBody
    /\ strayed = FALSE /\ remade = {}
    /\ cached = EmptyView
    /\ halfway = {}

-----------------------------------------------------------------------------
(* StateCache.get as a handler uses it: the copy it holds, which a request may rely on    *)
(* for refresh_seconds and, while aptly does not answer, for ever; or a new one.          *)

Now == [mirrors   |-> mirrors,
        snapshots |-> snapshots,
        inUse     |-> {s \in Snapshots : InUse(s)}]

Unserved == UNCHANGED <<aptly, rows, expected, minute, body, history, halfway>>

\* any page that shows aptly's state
Browse ==
    /\ up /\ cached' = Now
    /\ UNCHANGED <<vars, request>> /\ Unserved

Enqueue(q) ==
    \E j \in JobIds :
        /\ Cardinality(pending) < MaxPending
        /\ Insert(j)
        /\ request' = [request EXCEPT ![j] = q]

Request(kind, id) == [NoRequest EXCEPT !.kind = kind, !.set = id]

Stale == "stale" \in Handlers

\* set_update and set_create_missing: the set is not looked at before its job runs
SetUpdate(id) ==
    /\ "update" \in Handlers
    /\ sets[id] # NoName \/ Stale
    /\ Enqueue(Request("update", id))
    /\ UNCHANGED cached /\ Unserved

SetCreateMissing(id) ==
    /\ "create" \in Handlers
    /\ sets[id] # NoName \/ Stale
    /\ Enqueue(Request("create", id))
    /\ UNCHANGED cached /\ Unserved

\* set_switch looks at nothing: unless the page is old or the form was made up, the snapshot
\* set is one the operator has just been shown
SetSwitch(id, r) ==
    /\ "switch" \in Handlers
    /\ (records[r] # NoRecord /\ records[r].set = id) \/ Stale
    /\ Enqueue([Request("switch", id) EXCEPT !.record = r, !.seen = records[r].taken])
    /\ UNCHANGED cached /\ Unserved

InNameOrder(names) == SortedBy([m \in names |-> <<m[2][1], m[2][2], 0>>])

\* discard_set_submit.  The row is read before aptly's state, but its names are fixed from
\* then on either way: in the handler, and while the job waits in the queue
DiscardSetSubmit(id, r, view) ==
    /\ "discard" \in Handlers
    /\ records[r] # NoRecord /\ records[r].set = id
    /\ records[r].taken \cap view.inUse = {}
    /\ cached' = view
    /\ Enqueue([Request("discard", id) EXCEPT !.record = r,
                                             !.names = InNameOrder(records[r].taken)])
    /\ Unserved

\* discard_submit: _snapshot_context blocks what is published and what is in a set's records
DiscardSubmit(s, view) ==
    /\ "discardOne" \in Handlers
    /\ s \in view.snapshots \ view.inUse
    /\ \A r \in RecordIds : s \in records[r].taken => SetName(records[r].set) = NoName
    /\ cached' = view
    /\ Enqueue([NoRequest EXCEPT !.kind = "discard", !.names = <<s>>])
    /\ Unserved

\* expected_mirrors, in the order of the suites as they were typed
ExpectedMirrors(name) == [i \in DOMAIN SuiteList |-> <<name, SuiteList[i]>>]

\* the elements of a list that are among some, in the order of the list
Kept(list, some) ==
    LET place == SortedBy([i \in {k \in DOMAIN list : list[k] \in some} |-> <<i, 0, 0>>])
    IN  [k \in DOMAIN place |-> list[place[k]]]

\* _snapshots_of goes by the names
SnapshotsShown(view, m) ==
    {s \in view.snapshots : MirrorOf(s) = m \/ <<m, MirrorOf(s)>> \in Continues}

\* set_delete reads the row and ends its session, and then waits for the cached state
SetDeleteRead(id) ==
    /\ "remove" \in Handlers
    /\ up /\ sets[id] # NoName
    /\ Cardinality(halfway) < MaxPending
    /\ halfway' = halfway \cup {[Request("remove", id) EXCEPT !.names = ExpectedMirrors(sets[id])]}
    /\ UNCHANGED <<vars, request, cached, aptly, rows, expected, minute, body, history>>

\* _snapshots_of sends the user back while a mirror that is present has a snapshot
SetDelete(q, view) ==
    LET present == Kept(q.names, view.mirrors)
    IN  /\ q \in halfway /\ q.kind = "remove"
        /\ halfway' = halfway \ {q}
        /\ cached' = view
        /\ IF \A m \in ToSet(present) : SnapshotsShown(view, m) = {}
           THEN Enqueue([q EXCEPT !.names = present])
           ELSE UNCHANGED <<vars, request>>
        /\ UNCHANGED <<aptly, rows, expected, minute, body, history>>

\* mirror_delete: a mirror of no set, without snapshots
MirrorDelete(m, view) ==
    /\ "removeOne" \in Handlers
    /\ m \in view.mirrors
    /\ m[1] \notin Present(sets)
    /\ SnapshotsShown(view, m) = {}
    /\ Enqueue([NoRequest EXCEPT !.kind = "remove", !.names = <<m>>])
    /\ cached' = view
    /\ Unserved

\* set_delete with "keep": the set goes whatever its jobs are doing
SetForget(id) ==
    /\ "forget" \in Handlers
    /\ up /\ sets[id] # NoName
    /\ WithoutSet(id)
    /\ UNCHANGED <<vars, aptly, request, expected, minute, body, history, cached, halfway>>

AddSet(name) ==
    /\ up
    /\ name \notin Present(sets)
    /\ NextSetId \in SetIds
    /\ sets' = [sets EXCEPT ![NextSetId] = name]
    /\ UNCHANGED <<vars, aptly, records, request, expected, minute, body, history, cached>>

\* adopt_submit writes the row and is done
AdoptSubmit(name) ==
    /\ "adopt" \in Handlers
    /\ AddSet(name)
    /\ UNCHANGED halfway

\* new_set_submit writes the row, and then enqueues the job that makes its mirrors
NewSetSubmit(name) ==
    /\ "new" \in Handlers
    /\ AddSet(name)
    /\ halfway' = halfway \cup {Request("create", NextSetId)}

NewSetEnqueue(q) ==
    /\ q \in halfway /\ q.kind = "create"
    /\ Enqueue(q)
    /\ halfway' = halfway \ {q}
    /\ UNCHANGED <<aptly, rows, expected, minute, body, history, cached>>

Requests ==
    \/ Browse
    \/ \E id \in SetIds :
          \/ SetUpdate(id) \/ SetCreateMissing(id) \/ SetForget(id) \/ SetDeleteRead(id)
          \/ \E r \in RecordIds, view \in {cached, Now} :
                SetSwitch(id, r) \/ DiscardSetSubmit(id, r, view)
    \/ \E q \in halfway :
          \/ NewSetEnqueue(q)
          \/ \E view \in {cached, Now} : SetDelete(q, view)
    \/ \E s \in Snapshots, view \in {cached, Now} : DiscardSubmit(s, view)
    \/ \E m \in Mirrors, view \in {cached, Now} : MirrorDelete(m, view)
    \/ \E name \in Names : AdoptSubmit(name) \/ NewSetSubmit(name)

Enqueued ==
    \E j \in JobIds : (Put(j) \/ RefreshFails(j)) /\ Elsewhere /\ UNCHANGED <<cached, halfway>>

Background ==
    /\ Server \/ GiveUp \/ SomeTaskEnds \/ AptlyRestarts \/ (Start /\ Elsewhere)
    /\ UNCHANGED <<cached, halfway>>

Ending == ProcessEnds /\ halfway' = {} /\ cached' = EmptyView

WorkflowNext == Requests \/ Enqueued \/ Background \/ Ending

(***************************************************************************)
(* The worker goes on as long as it can, and aptly ends every task it has  *)
(* accepted.  Nobody has to submit anything, and that a poll fails is      *)
(* possible, never certain: _await_task has no limit of its own.           *)
(***************************************************************************)
WorkflowFairness ==
    /\ WF_everything(Server /\ UNCHANGED <<cached, halfway>>)
    /\ WF_everything(SomeTaskEnds /\ UNCHANGED <<cached, halfway>>)

WorkflowSpec == WorkflowInit /\ [][WorkflowNext]_everything /\ WorkflowFairness

-----------------------------------------------------------------------------
(* Properties. *)

(* "A single worker task is the global lock": until a task has been left to itself,      *)
(* aptly never has two of the program's tasks at once, and the one it has is of the job   *)
(* in hand, whatever is refused, lost, restarted or enqueued in between.                  *)
OneWriter ==
    ~strayed => /\ \A t \in tasks : t.job = current /\ pc = "body"
                /\ \A t, v \in tasks : t = v

Ended(j, outcome) == state[j] # outcome /\ state'[j] = outcome
Asked(j, kind)    == request[j].kind = kind

(* Clients never see updates of a base they cannot see yet: while a switch goes on, a     *)
(* suite is published from the new set only when every suite of a lower rank (base, then  *)
(* updates, security, backports) already is.  A task that outlived its job may break it.  *)
BaseBeforeUpdates ==
    [][\A n \in Names, u, v \in ToSet(SuiteList) :
          published'[<<n, v>>] # published[<<n, v>>] /\ u[1] < v[1] /\ ~strayed /\ pc = "body" =>
              /\ published'[<<n, v>>] \in body.taken
              /\ published[<<n, u>>] \in body.taken]_everything

(* A switch that says it succeeded has published every suite of the snapshot set it read, *)
(* unless a task that outlived another job interfered.                                    *)
SwitchMeansPublished ==
    [][\A j \in JobIds : Asked(j, "switch") /\ Ended(j, "succeeded") /\ ~strayed =>
          \A u \in ToSet(SuiteList) :
              published[<<body.name, u>>] \in body.taken]_everything

(* Nothing of an update that was cut short is ever published: a published snapshot is in  *)
(* no snapshot set that says incomplete, whoever asked for the switch and when.  The      *)
(* exception is a snapshot that was made again under the name a record lists already.     *)
NoHalfTakenSetPublished ==
    ~strayed => \A m \in Mirrors, r \in RecordIds :
        published[m] \in records[r].taken \ remade => records[r].complete

(* A snapshot set that says complete can be published or rolled back to: it has a         *)
(* snapshot of every suite, and aptly holds them all, or the job that discards them has   *)
(* begun.  Updates fail, die and lose answers anywhere before that.                       *)
CompleteSetsExist ==
    \A r \in RecordIds : records[r].complete =>
        /\ {s[2] : s \in records[r].taken} = ToSet(SuiteList)
        /\ \A s \in records[r].taken :
              \/ s \in snapshots
              \/ \E j \in JobIds : /\ Asked(j, "discard") /\ s \in ToSet(request[j].names)
                                   /\ state[j] \notin {"absent", "queued"}

\* Job.total_steps and Job.done_steps, as the overall bar shows them
TotalSteps(j)   == Max({expected[j], Len(steps[j])})
StepsIn(j, how) == {i \in 1..Len(steps[j]) : steps[j][i] = how}
DoneSteps(j)    == Cardinality(StepsIn(j, "succeeded"))

(* The overall bar: its total is what _expected_steps and discard_steps announced before  *)
(* the body ran and does not jump as the steps appear, and a job that succeeds has done   *)
(* them all.  The exception is a create job, which ends short of the total by the mirrors *)
(* it found and skipped.                                                                  *)
HonestProgress ==
    \A j \in JobIds :
        /\ TotalSteps(j) = expected[j]
        /\ state[j] = "succeeded" =>
              DoneSteps(j) = expected[j] - (IF Asked(j, "create")
                                            THEN Cardinality(StepsIn(j, "skipped")) ELSE 0)

(* A job erases the row of a set or of a snapshot set only when everything it was to      *)
(* delete is gone from aptly: a discard or a removal that fails half way keeps the row    *)
(* that says what is left.                                                                *)
ErasedMeansGone ==
    [][pc = "body" /\ pc' = "body" /\ body' # body
          /\ \/ \E r \in RecordIds : records[r] # NoRecord /\ records'[r] = NoRecord
             \/ \E i \in SetIds : sets[i] # NoName /\ sets'[i] = NoName
       => ToSet(request[current].names) \cap (mirrors \cup snapshots) = {}]_everything

(* A create job that succeeds leaves the set with every mirror it describes, whatever     *)
(* part of them was there before.                                                         *)
CreateMeansMirrors ==
    [][\A j \in JobIds : Asked(j, "create") /\ Ended(j, "succeeded") /\ ~strayed =>
          MirrorsOf(body.name) \subseteq mirrors]_everything

(* The worker comes back for the next job: whatever aptly answers, refuses, loses or      *)
(* forgets, a job that was taken off the queue leaves the worker's hands.                 *)
WorkerComesBack == pc = "load" ~> pc \in {"get", "off"}

-----------------------------------------------------------------------------
(* What the documents say and the code does not do. *)

(* src/README.md:53, "Nothing reaches clients until you publish that snapshot set         *)
(* explicitly": what is published was shown to an operator who asked for its switch.      *)
NothingPublishedUnchosen ==
    \A m \in Mirrors : published[m] # NotPublished =>
        \E j \in JobIds : Asked(j, "switch") /\ published[m] \in request[j].seen

(* set_delete.html:10 on forgetting a set, "it is always safe": no job that has begun is  *)
(* let go of without an outcome.                                                          *)
ForgettingIsSafe == \A j \in left : state[j] # "running"
=============================================================================

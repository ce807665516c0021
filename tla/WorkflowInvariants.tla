-------------------------- MODULE WorkflowInvariants --------------------------
(***************************************************************************)
(* What is always true of the write side, in enough detail that every step *)
(* of Workflow keeps it: the types, and the parts that WorkflowProofs and  *)
(* the run of MCWorlds are about.                                          *)
(*                                                                         *)
(* The centre is what a body has done so far.  Its plan is what is left of *)
(* a plan whose operations are known, so every operation before the rest   *)
(* has had its effect, and the steps added are as many as there were       *)
(* operations with a step.                                                 *)
(***************************************************************************)
EXTENDS Workflow

(* An operation is about a mirror, about a snapshot, or about neither. *)
MirrorOps   == {"create", "sync", "dropMirror"}
SnapshotOps == {"snapshot", "publish", "delete"}
BareOps     == {"preflight", "cleanup", "verify", "client"} \cup Stepless

Operation == [op : MirrorOps, arg : Mirrors] \cup [op : SnapshotOps, arg : Snapshots]
             \cup [op : BareOps, arg : {<<>>}]

BodyType == [name : Names \cup {NoName},
             at : {"ready", "call", "wait", "done", "exists", "refused", "raise"},
             plan : Seq(Operation), record : RecordIds \cup {NoRow},
             taken : SUBSET Snapshots, existing : SUBSET Mirrors]

RequestType == [kind : Kinds \cup {"none"}, set : SetIds \cup {NoRow},
                record : RecordIds \cup {NoRow}, names : Seq(Snapshots) \cup Seq(Mirrors),
                seen : SUBSET Snapshots]

View == [mirrors : SUBSET Mirrors, snapshots : SUBSET Snapshots, inUse : SUBSET Snapshots]

(* A request names what its kind needs. *)
WellFormed(q) ==
    /\ q.kind \in {"create", "update", "switch"} => q.set # NoRow
    /\ q.kind = "switch" => q.record # NoRow
    /\ q.kind = "discard" => q.names \in Seq(Snapshots)
    /\ q.kind = "remove" => q.names \in Seq(Mirrors)

(* What enqueue is given. *)
Submittable(q) == q \in RequestType /\ q.kind \in Kinds /\ WellFormed(q)

TypeInvariant ==
    /\ AptlyTypeOK
    /\ sets \in [SetIds -> Names \cup {NoName}]
    /\ records \in [RecordIds -> Record]
    /\ \A r \in RecordIds : records[r] # NoRecord => records[r].set # NoRow
    /\ request \in [JobIds -> RequestType]
    /\ \A j \in JobIds : /\ state[j] # "absent" <=> request[j].kind \in Kinds
                         /\ WellFormed(request[j])
    /\ expected \in [JobIds -> Nat]
    /\ minute \in Minutes
    /\ body \in BodyType
    /\ body # NoBody => pc = "body"
    /\ strayed \in BOOLEAN
    /\ remade \subseteq Snapshots
    /\ cached \in View
    /\ \A q \in halfway : Submittable(q)

-----------------------------------------------------------------------------
(* The body in hand. *)

\* between two calls, or in one; what comes after a failure is of no interest
Working == pc = "body" /\ body.at \in {"ready", "call", "wait", "done", "exists"}

Kind == request[current].kind

\* plan is what is left of whole
Ends(plan, whole) ==
    /\ Len(plan) <= Len(whole)
    /\ \A i \in 1..Len(plan) : plan[i] = whole[Len(whole) - Len(plan) + i]

Finished(whole)  == Len(whole) - Len(body.plan)
Effective(whole) == Finished(whole) + (IF body.at \in {"done", "exists"} THEN 1 ELSE 0)
UnderWay         == IF body.at = "ready" THEN 0 ELSE 1
Added            == Len(steps[current])

\* in a step, an operation that has one is the next of the plan; and only a task is waited for
InStep ==
    /\ expected[current] = ExpectedSteps(request[current], body.name)
    /\ body.at # "ready" => body.plan # <<>> /\ Doing.op \notin Stepless
    /\ body.at = "wait" => Doing.op \in Ops
    /\ body.at = "exists" => Doing.op = "create"

\* _create, once it has listed the mirrors: what comes before in the plan is there
CreateAt ==
    LET whole == CreatePlan(body.name)
    IN  /\ Ends(body.plan, whole)
        /\ Added = Finished(whole) + UnderWay
        /\ ~strayed => \A i \in 1..Len(whole) : i <= Effective(whole) => whole[i].arg \in mirrors

CreateBody ==
    /\ body.name \in Names
    /\ ~strayed => body.existing \subseteq mirrors
    /\ \/ body.plan = <<Op("list", <<>>)>> /\ body.at = "ready" /\ Added = 0
       \/ CreateAt

SnapshotsAt(name, stamp) == {<<name, u, stamp>> : u \in ToSet(SuiteList)}

Listed(s) == \E r \in RecordIds : s \in records[r].taken

\* a snapshot that has just been made, and is in no record yet
JustMade(s) ==
    /\ s \in snapshots
    /\ Listed(s) => s \in remade
    /\ ~strayed => ~InUse(s)

\* _update, once it has its row: the row says what has been taken, unless it was deleted, and
\* says that it is complete only when that is everything
UpdateAt(stamp) ==
    LET whole == UpdatePlan(body.name, stamp)
    IN  /\ body.record \in RecordIds
        /\ Ends(body.plan, whole)
        /\ Added = 1 + Finished(whole) + UnderWay - (IF body.plan = <<>> THEN 1 ELSE 0)
        /\ body.taken \subseteq SnapshotsAt(body.name, stamp)
        /\ \A i \in 1..Len(whole) :
              i <= Finished(whole) /\ whole[i].op = "snapshot" => whole[i].arg \in body.taken
        /\ ~RecordGone => records[body.record] =
              [set |-> request[current].set, taken |-> body.taken, complete |-> body.plan = <<>>]
        /\ body.at = "done" /\ Doing.op = "snapshot" => JustMade(Doing.arg)

UpdateBody ==
    /\ body.name \in Names
    /\ request[current].set # NoRow
    /\ \/ /\ body.plan = <<Op("preflight", <<>>), Op("record", <<>>)>>
          /\ Added = UnderWay
          /\ body.taken = {}
       \/ /\ body.plan = <<Op("record", <<>>)>> /\ body.at = "ready"
          /\ Added = 1
          /\ body.taken = {}
       \/ \E stamp \in Minutes : UpdateAt(stamp)

Covers(taken, name) == \A u \in ToSet(SuiteList) : \E s \in taken : MirrorOf(s) = <<name, u>>

\* _switch, once it has read its target: what comes before in the plan is published
SwitchAt ==
    LET whole == SwitchPlan(body.name, body.taken)
    IN  /\ Covers(body.taken, body.name)
        /\ Ends(body.plan, whole)
        /\ Added = Finished(whole) + UnderWay
        /\ ~strayed => \A i \in 1..Len(whole) :
              i <= Effective(whole) /\ whole[i].op = "publish" =>
                  published[MirrorOf(whole[i].arg)] = whole[i].arg
        /\ \A s \in body.taken \ remade, r \in RecordIds : s \in records[r].taken => records[r].complete

SwitchBody ==
    /\ body.name \in Names
    /\ \/ body.plan = <<Op("target", <<>>)>> /\ body.at = "ready" /\ Added = 0
       \/ SwitchAt

\* _discard and _remove: what comes before in the plan is gone
DeleteBody ==
    LET whole == Plan(request[current], body.name)
    IN /\ Ends(body.plan, whole)
       /\ Added = Finished(whole) + UnderWay - (IF body.plan = <<>> THEN 1 ELSE 0)
       /\ \A i \in 1..Len(whole) :
             i <= Effective(whole) /\ whole[i].op \in {"delete", "dropMirror"} =>
                 whole[i].arg \notin mirrors \cup snapshots

BodyInvariant ==
    Working => /\ InStep
               /\ Kind = "create" => CreateBody
               /\ Kind = "update" => UpdateBody
               /\ Kind = "switch" => SwitchBody
               /\ Kind \in {"discard", "remove"} => DeleteBody

-----------------------------------------------------------------------------
(* The tasks of aptly: a job that has not begun has none, the job in hand has the one it   *)
(* waits for, and nobody else has any before one has strayed.                              *)
Task == [job : JobIds, op : Ops, arg : Mirrors \cup Snapshots \cup {<<>>}]

TaskInvariant ==
    /\ tasks \subseteq Task
    /\ \A t \in tasks : state[t.job] \notin {"absent", "queued"}
    /\ Working => \A t \in tasks : t.job = current =>
                     body.at = "wait" /\ t.op = Doing.op /\ t.arg = Doing.arg
    /\ ~strayed => \A t \in tasks : Working /\ t.job = current

-----------------------------------------------------------------------------
(* The records and what aptly holds. *)

Discarded(s) ==
    \E j \in JobIds : /\ Asked(j, "discard") /\ s \in ToSet(request[j].names)
                      /\ state[j] \notin {"absent", "queued"}

\* a record holds the snapshots of one set and one minute, which aptly still has unless a
\* discard of them has begun
RecordsInvariant ==
    /\ \A r \in RecordIds : \A s, t \in records[r].taken :
          s[1] = t[1] /\ s[3] = t[3] /\ s[2] \in ToSet(SuiteList)
    /\ \A r \in RecordIds : records[r].complete =>
          {s[2] : s \in records[r].taken} = ToSet(SuiteList)
    /\ \A r \in RecordIds : \A s \in records[r].taken : s \in snapshots \/ Discarded(s)
    /\ \A r, q \in RecordIds : \A s \in records[r].taken \cap records[q].taken :
          r = q \/ s \in remade

\* aptly does not give up what it serves
PublishedInvariant ==
    \A m \in Mirrors : published[m] # NotPublished => published[m] \in snapshots

\* a job never has more steps than were announced, and as many when it succeeds; only a create
\* job skips any
StepsInvariant ==
    \A j \in JobIds :
        /\ Len(steps[j]) <= expected[j]
        /\ state[j] = "succeeded" => Len(steps[j]) = expected[j]
        /\ \A i \in 1..Len(steps[j]) : steps[j][i] = "skipped" => Asked(j, "create")

-----------------------------------------------------------------------------
(* The plan of the body in hand, its steps, its task, the rows it writes, what aptly      *)
(* holds and what it serves fit together between any two actions, whatever requests,      *)
(* lost answers, failures and restarts come in between.  [services/jobs.py, web/app.py]   *)
WorkflowInvariant ==
    /\ TypeInvariant
    /\ BodyInvariant
    /\ TaskInvariant
    /\ RecordsInvariant
    /\ PublishedInvariant
    /\ NoHalfTakenSetPublished
    /\ StepsInvariant
=============================================================================

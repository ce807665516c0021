-------------------------------- MODULE Aptly --------------------------------
(***************************************************************************)
(* The aptly server, as src/aptly_gui/aptly/client.py uses it.  It is not  *)
(* in the repository: what is here is what the calls of JobRunner's bodies *)
(* rely on, and every refusal a comment or a test of theirs names.         *)
(*                                                                         *)
(* A mirror is a pair of a set's name and a suite (components are left     *)
(* out: a body treats the components of a suite alike), a snapshot a       *)
(* mirror and the minute in its name, and a publication the snapshot       *)
(* served for a mirror's prefix and suite.                                 *)
(***************************************************************************)
EXTENDS Integers, Sequences

CONSTANTS Names,      \* names mirror sets may have; each publishes to a prefix of its own
          Suites,     \* suites, as pairs: the rank of the name's ending and a number
          MaxMinute   \* bound: the clock

ASSUME SuitesAssumption == Suites \subseteq Int \X Int
ASSUME MinuteAssumption == MaxMinute \in Nat

Mirrors      == Names \X Suites
Minutes      == 0..MaxMinute
Snapshots    == Names \X Suites \X Minutes
MirrorOf(s)  == <<s[1], s[2]>>
NotPublished == <<>>

VARIABLES
    mirrors,     \* GET /api/mirrors
    snapshots,   \* GET /api/snapshots
    published,   \* GET /api/publish
    tasks        \* tasks accepted and not ended: the job that asked, and what for

aptly == <<mirrors, snapshots, published, tasks>>

Ops == {"sync", "publish", "dropMirror", "cleanup"}

AptlyTypeOK ==
    /\ mirrors \subseteq Mirrors
    /\ snapshots \subseteq Snapshots
    /\ published \in [Mirrors -> Snapshots \cup {NotPublished}]
    /\ \A t \in tasks : t.op \in Ops /\ t.arg \in Mirrors \cup Snapshots \cup {<<>>}

InUse(s)        == \E m \in Mirrors : published[m] = s
HasSnapshots(m) == \E s \in snapshots : MirrorOf(s) = m

(* Calls answered at once: the state is changed when the answer is good. *)

CreateMirror(m) ==
    /\ m \notin mirrors
    /\ mirrors' = mirrors \cup {m}
    /\ UNCHANGED <<snapshots, published, tasks>>

CreateSnapshot(s) ==
    /\ MirrorOf(s) \in mirrors
    /\ s \notin snapshots
    /\ snapshots' = snapshots \cup {s}
    /\ UNCHANGED <<mirrors, published, tasks>>

DeleteSnapshot(s) ==
    /\ s \in snapshots
    /\ ~InUse(s)
    /\ snapshots' = snapshots \ {s}
    /\ UNCHANGED <<mirrors, published, tasks>>

(* Calls answered with a task: what they name has to exist, the rest is checked later. *)

Accepts(op, arg) ==
    CASE op \in {"sync", "dropMirror"} -> arg \in mirrors
      [] op = "publish"                -> arg \in snapshots
      [] op = "cleanup"                -> TRUE

Post(job, op, arg) ==
    /\ Accepts(op, arg)
    /\ tasks' = tasks \cup {[job |-> job, op |-> op, arg |-> arg]}
    /\ UNCHANGED <<mirrors, snapshots, published>>

(* A task ends well, and then it has had its effect; or it fails and has had none. *)
EndWell(t) ==
    /\ Accepts(t.op, t.arg)
    /\ t.op = "dropMirror" => ~HasSnapshots(t.arg)
    /\ mirrors'   = IF t.op = "dropMirror" THEN mirrors \ {t.arg} ELSE mirrors
    /\ published' = IF t.op = "publish" THEN [published EXCEPT ![MirrorOf(t.arg)] = t.arg]
                                        ELSE published
    /\ tasks' = tasks \ {t}
    /\ UNCHANGED snapshots

EndBadly(t) ==
    /\ tasks' = tasks \ {t}
    /\ UNCHANGED <<mirrors, snapshots, published>>

(* A restart of aptly forgets its tasks. *)
LoseTasks ==
    /\ tasks # {}
    /\ tasks' = {}
    /\ UNCHANGED <<mirrors, snapshots, published>>
=============================================================================

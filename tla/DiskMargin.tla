------------------------------ MODULE DiskMargin ------------------------------
(***************************************************************************)
(* The room a sync must leave on the disk: services/space.py, and the two  *)
(* places of services/jobs.py that ask it, the preflight of _update and    *)
(* _guard_disk at every poll of _await_task.                               *)
(*                                                                         *)
(* aptly counts a download in bytes and the disk in whole MiB.  It fetches *)
(* on its own, whether or not anybody waits for the task; others use the   *)
(* disk too.                                                               *)
(***************************************************************************)
EXTENDS Integers

CONSTANTS Mib, Gib,   \* bytes in a MiB, MiB in a GiB
          Margins,    \* the margins that may be configured: gigabytes and percent
          Disks,      \* bound: how large the disk may be, in MiB
          Sizes,      \* bound: how many bytes the sync of a mirror may have to fetch
          MaxMirrors, \* bound: mirrors of a set
          MaxForeign, \* bound: bytes that others write during a guarded download
          MaxAdrift   \* bound: bytes adrift when an update begins

ASSUME UnitsAssumption == Mib \in Nat \ {0} /\ Gib \in Nat
ASSUME MarginsAssumption == Margins \subseteq [gigabytes : Nat, percent : Nat]
ASSUME DisksAssumption == Disks \subseteq Nat /\ Sizes \subseteq Nat
ASSUME DiskBoundsAssumption == {MaxMirrors, MaxForeign, MaxAdrift} \subseteq Nat

VARIABLES
    margin, total,  \* the configuration, and the size of the disk in MiB
    free,           \* bytes that are free
    mirrors,        \* mirrors the update has still to sync
    task,           \* aptly's task for the sync under way, or NoTask
    at,             \* where _update and _await_task are
    remaining,      \* what _guard_disk was called with
    adrift,         \* bytes that a task nobody waits for has still to fetch
    guarded,        \* history: _guard_disk has passed during this task
    foreign,        \* history: bytes that others have written since it last did
    stopped         \* the verdict that stopped the update, or NoVerdict

disk == <<margin, total, free, mirrors, task, at, remaining, adrift, guarded, foreign, stopped>>

NoTask    == [is |-> "none", left |-> 0]
NoVerdict == [free |-> 0, needed |-> 0, short |-> -1]

-----------------------------------------------------------------------------
(* services/space.py, and aptly's figure for the free space. *)

InMib(bytes) == bytes \div Mib

Capacity == total * Mib

Larger(m, n) == IF m >= n THEN m ELSE n

RequiredFreeMb == Larger(margin.gigabytes * Gib, (total * margin.percent) \div 100)

\* mutant: what is still to come is forgotten
CheckMarginOnly(freeMb, needed) == freeMb >= RequiredFreeMb

Check(freeMb, needed) == freeMb >= RequiredFreeMb + needed

\* mutant: what is missing of the margin alone
ShortfallOfMargin(freeMb, needed) == Larger(0, RequiredFreeMb - freeMb)

ShortfallMb(freeMb, needed) == Larger(0, RequiredFreeMb + needed - freeMb)

Verdict(freeMb, needed) ==
    [free |-> freeMb, needed |-> needed, short |-> ShortfallMb(freeMb, needed)]

-----------------------------------------------------------------------------
DiskInit ==
    /\ margin \in Margins
    /\ total \in Disks
    /\ free \in 0..(Capacity)
    /\ mirrors = 0
    /\ task = NoTask
    /\ at = "ended"
    /\ remaining = 0
    /\ adrift = 0
    /\ guarded = FALSE
    /\ foreign = 0
    /\ stopped = NoVerdict

Settings  == UNCHANGED <<margin, total>>
Unguarded == guarded' = FALSE /\ foreign' = 0

\* the next update
Begin ==
    /\ at = "ended" /\ adrift <= MaxAdrift
    /\ mirrors' \in 1..MaxMirrors
    /\ at' = "preflight"
    /\ task' = NoTask
    /\ stopped' = NoVerdict
    /\ Unguarded
    /\ UNCHANGED <<free, remaining, adrift>> /\ Settings

Preflight ==
    /\ at = "preflight"
    /\ IF Check(InMib(free), 0)
       THEN at' = "post" /\ UNCHANGED stopped
       ELSE at' = "ended" /\ stopped' = Verdict(InMib(free), 0)
    /\ UNCHANGED <<free, mirrors, task, remaining, adrift, guarded, foreign>> /\ Settings

\* update_mirror: what there is to fetch is not known yet
Post ==
    /\ at = "post" /\ mirrors > 0
    /\ \E size \in Sizes : task' = [is |-> "planning", left |-> size]
    /\ mirrors' = mirrors - 1
    /\ at' = "poll"
    /\ Unguarded
    /\ UNCHANGED <<free, remaining, adrift, stopped>> /\ Settings

Synced ==
    /\ at = "post" /\ mirrors = 0
    /\ at' = "ended"
    /\ UNCHANGED <<free, mirrors, task, remaining, adrift, guarded, foreign, stopped>> /\ Settings

-----------------------------------------------------------------------------
(* _await_task: get_task and task_progress, then _guard_disk asks for the storage. *)

\* mutant: a task that has no numbers yet is guarded by those of its record
PollBeforePlanned ==
    /\ at = "poll"
    /\ \/ task.is \in {"planning", "fetching"} /\ at' = "guard" /\ remaining' = task.left
       \/ task.is = "done" /\ at' = "post" /\ UNCHANGED remaining
       \/ task.is \in {"failed", "none"} /\ at' = "ended" /\ UNCHANGED remaining
    /\ UNCHANGED <<free, mirrors, task, adrift, guarded, foreign, stopped>> /\ Settings

Poll ==
    /\ at = "poll"
    /\ \/ task.is = "fetching" /\ at' = "guard" /\ remaining' = task.left
       \/ task.is = "done" /\ at' = "post" /\ UNCHANGED remaining
       \/ task.is \in {"failed", "none"} /\ at' = "ended" /\ UNCHANGED remaining
    /\ UNCHANGED <<free, mirrors, task, adrift, guarded, foreign, stopped>> /\ Settings

\* the body raises; the task is left to itself
Abandon ==
    /\ at' = "ended"
    /\ adrift' = adrift + (IF task.is \in {"planning", "fetching"} THEN task.left ELSE 0)
    /\ task' = NoTask
    /\ remaining' = 0
    /\ Unguarded

GuardPasses ==
    /\ at = "guard"
    /\ Check(InMib(free), InMib(remaining))
    /\ at' = "poll"
    /\ remaining' = 0
    /\ guarded' = TRUE /\ foreign' = 0
    /\ UNCHANGED <<free, mirrors, task, adrift, stopped>> /\ Settings

GuardStops ==
    /\ at = "guard"
    /\ ~Check(InMib(free), InMib(remaining))
    /\ stopped' = Verdict(InMib(free), InMib(remaining))
    /\ Abandon
    /\ UNCHANGED <<free, mirrors>> /\ Settings

\* a call gets no answer, or the process ends
GiveUp ==
    /\ at \in {"poll", "guard"}
    /\ Abandon
    /\ UNCHANGED <<free, mirrors, stopped>> /\ Settings

-----------------------------------------------------------------------------
(* aptly, and the other users of the disk. *)

\* the download is planned, or has turned out to be impossible
Plan ==
    /\ task.is = "planning"
    /\ \E is \in {"fetching", "failed"} : task' = [task EXCEPT !.is = is]
    /\ UNCHANGED <<free, mirrors, at, remaining, adrift, guarded, foreign, stopped>> /\ Settings

Fetch(n) ==
    /\ task.is = "fetching" /\ n \in 1..task.left /\ n <= free
    /\ free' = free - n
    /\ task' = [task EXCEPT !.left = @ - n]
    /\ UNCHANGED <<mirrors, at, remaining, adrift, guarded, foreign, stopped>> /\ Settings

FetchEnds ==
    /\ task.is = "fetching"
    /\ \/ task.left = 0 /\ task' = [task EXCEPT !.is = "done"]
       \/ task.left > 0 /\ task' = [task EXCEPT !.is = "failed"]
    /\ UNCHANGED <<free, mirrors, at, remaining, adrift, guarded, foreign, stopped>> /\ Settings

TakeForeign(n) ==
    /\ n <= free
    /\ guarded => foreign + n <= MaxForeign
    /\ free' = free - n
    /\ foreign' = IF guarded THEN foreign + n ELSE 0

Drift(n) ==
    /\ n \in 1..adrift
    /\ TakeForeign(n)
    /\ adrift' = adrift - n
    /\ UNCHANGED <<mirrors, task, at, remaining, guarded, stopped>> /\ Settings

\* aptly restarts and knows no task any more
AptlyRestarts ==
    /\ adrift' = 0
    /\ task' = NoTask
    /\ Unguarded
    /\ UNCHANGED <<free, mirrors, at, remaining, stopped>> /\ Settings

OthersWrite(n) ==
    /\ TakeForeign(n)
    /\ UNCHANGED <<mirrors, task, at, remaining, adrift, guarded, stopped>> /\ Settings

OthersDelete(n) ==
    /\ n \in 1..(Capacity - free)
    /\ free' = free + n
    /\ UNCHANGED <<mirrors, task, at, remaining, adrift, guarded, foreign, stopped>> /\ Settings

-----------------------------------------------------------------------------
Worker == Preflight \/ Post \/ Synced \/ Poll \/ GuardPasses \/ GuardStops

DiskNext ==
    \/ Begin \/ Worker \/ GiveUp
    \/ Plan \/ FetchEnds \/ AptlyRestarts
    \/ \E n \in 1..free : Fetch(n) \/ Drift(n) \/ OthersWrite(n)
    \/ \E n \in 1..(Capacity - free) : OthersDelete(n)

DiskSpec == DiskInit /\ [][DiskNext]_disk

-----------------------------------------------------------------------------
(* Properties. *)

(* Every variable stays in its type, and the guard is asked of a planned download only.   *)
DiskTypeOK ==
    /\ margin \in Margins /\ total \in Disks
    /\ free \in 0..(Capacity)
    /\ mirrors \in 0..MaxMirrors
    /\ task \in [is : {"none", "planning", "fetching", "done", "failed"}, left : Nat]
    /\ at \in {"ended", "preflight", "post", "poll", "guard"}
    /\ remaining \in Nat /\ adrift \in Nat
    /\ guarded \in BOOLEAN
    /\ foreign \in 0..MaxForeign
    /\ stopped = NoVerdict \/ stopped \in [free : Nat, needed : Nat, short : Nat]
    /\ at = "guard" => task.is # "planning"

(* A download that _guard_disk has let go on leaves the margin, to within one MiB, and    *)
(* but for what others have written since: neither the rounding of both figures to whole  *)
(* MiB nor what aptly fetches between the two reads lets more through.                    *)
GuardedDownloadsFit ==
    guarded => free + foreign - task.left > (RequiredFreeMb - 1) * Mib

(* "%d MiB short of the configured safety margin" is what was missing: a sync is stopped  *)
(* only if something was, with that much more it would have gone on, and with one MiB     *)
(* less than that it would not.                                                           *)
ShortfallIsExact ==
    stopped # NoVerdict =>
        /\ stopped.short > 0
        /\ stopped.free + stopped.short >= RequiredFreeMb + stopped.needed
        /\ stopped.free + stopped.short - 1 < RequiredFreeMb + stopped.needed
=============================================================================

--------------------------- MODULE DiskMarginProofs ---------------------------
(***************************************************************************)
(* Theorems about DiskMargin, for every size of a MiB, of the disk, of the *)
(* margin and of the downloads.                                            *)
(***************************************************************************)
EXTENDS DiskMargin, TLAPS

LEMMA WholeMib ==
    ASSUME NEW bytes \in Nat
    PROVE  /\ InMib(bytes) \in Nat
           /\ InMib(bytes) * Mib <= bytes
           /\ bytes < InMib(bytes) * Mib + Mib
BY UnitsAssumption DEF InMib

LEMMA Multiples ==
    ASSUME NEW m \in Int, NEW n \in Int, m <= n
    PROVE  /\ m * Mib <= n * Mib
           /\ (m - 1) * Mib = m * Mib - Mib
           /\ m * Mib \in Int
BY UnitsAssumption

LEMMA RequiredIsNat == DiskTypeOK => RequiredFreeMb \in Nat
<1> SUFFICES ASSUME DiskTypeOK PROVE RequiredFreeMb \in Nat
  OBVIOUS
<1>1. margin.gigabytes \in Nat /\ margin.percent \in Nat /\ total \in Nat /\ Gib \in Nat
  BY MarginsAssumption, DisksAssumption, UnitsAssumption DEF DiskTypeOK
<1>2. margin.gigabytes * Gib \in Nat /\ total * margin.percent \in Nat
  BY <1>1
<1>3. (total * margin.percent) \div 100 \in Nat
  BY <1>2
<1> QED
  BY <1>2, <1>3 DEF RequiredFreeMb, Larger

\* What the check lets through leaves the margin to within one MiB, though both figures are
\* rounded down to whole MiB.  [check, _guard_disk]
THEOREM PassingMeansRoom ==
    ASSUME RequiredFreeMb \in Nat, NEW bytes \in Nat, NEW left \in Nat,
           Check(InMib(bytes), InMib(left))
    PROVE  bytes - left > (RequiredFreeMb - 1) * Mib
<1> DEFINE f == InMib(bytes)
<1> DEFINE n == InMib(left)
<1>1. f \in Nat /\ n \in Nat /\ f >= RequiredFreeMb + n
  BY WholeMib DEF Check
<1>2. f * Mib <= bytes /\ left < n * Mib + Mib
  BY WholeMib
<1>3. RequiredFreeMb <= f - n
  BY <1>1
<1>4. (f - n) * Mib = f * Mib - n * Mib /\ f * Mib \in Int /\ n * Mib \in Int /\ Mib \in Int
  BY <1>1, UnitsAssumption
<1>5. RequiredFreeMb * Mib <= (f - n) * Mib /\ (RequiredFreeMb - 1) * Mib = RequiredFreeMb * Mib - Mib
      /\ RequiredFreeMb * Mib \in Int
  BY <1>1, <1>3, Multiples
<1> HIDE DEF f, n
<1> QED
  BY <1>2, <1>4, <1>5

\* A sync is stopped for want of exactly the MiB its message names.  [shortfall_mb]
THEOREM VerdictsAreExact ==
    ASSUME RequiredFreeMb \in Nat, NEW freeMb \in Nat, NEW needed \in Nat,
           ~Check(freeMb, needed)
    PROVE  /\ ShortfallMb(freeMb, needed) \in Nat \ {0}
           /\ Check(freeMb + ShortfallMb(freeMb, needed), needed)
           /\ ~Check(freeMb + ShortfallMb(freeMb, needed) - 1, needed)
BY DEF Check, ShortfallMb, Larger
-----------------------------------------------------------------------------
\* what the poll read is not overtaken by what is still to come
ReadIsNotShort == at = "guard" => task.left <= remaining

DiskInv == DiskTypeOK /\ GuardedDownloadsFit /\ ShortfallIsExact /\ ReadIsNotShort

LEMMA FreeIsNat == DiskTypeOK => free \in Nat /\ Capacity \in Nat
<1> SUFFICES ASSUME DiskTypeOK PROVE free \in Nat /\ Capacity \in Nat
  OBVIOUS
<1>1. total \in Nat /\ Mib \in Nat
  BY DisksAssumption, UnitsAssumption DEF DiskTypeOK
<1>2. Capacity \in Nat
  BY <1>1 DEF Capacity
<1> QED
  BY <1>2 DEF DiskTypeOK

\* the margin is configured once
LEMMA RequiredStays == Settings => RequiredFreeMb' = RequiredFreeMb /\ Capacity' = Capacity
BY DEF Settings, RequiredFreeMb, Capacity

Tasks == [is : {"none", "planning", "fetching", "done", "failed"}, left : Nat]

LEMMA NoTaskIsATask == NoTask \in Tasks
BY DEF NoTask, Tasks

LEMMA BoundsAreNat == MaxMirrors \in Nat /\ MaxForeign \in Nat /\ MaxAdrift \in Nat
BY DiskBoundsAssumption

LEMMA UnguardedIsTyped == Unguarded => guarded' \in BOOLEAN /\ foreign' \in 0..MaxForeign
<1>1. Unguarded => guarded' \in BOOLEAN
  BY DEF Unguarded
<1>2. Unguarded => foreign' \in 0..MaxForeign
  BY BoundsAreNat DEF Unguarded
<1> QED
  BY <1>1, <1>2

LEMMA DiskInvInit == DiskInit => DiskInv
<1> SUFFICES ASSUME DiskInit PROVE DiskInv
  OBVIOUS
<1>1. DiskTypeOK
  <2>1. task \in Tasks
    BY NoTaskIsATask DEF DiskInit
  <2>2. guarded \in BOOLEAN
    BY DEF DiskInit
  <2> QED
    BY <2>1, <2>2, BoundsAreNat DEF DiskInit, DiskTypeOK, Tasks
<1> QED
  BY <1>1 DEF DiskInit, DiskInv, GuardedDownloadsFit, ShortfallIsExact, ReadIsNotShort

\* a verdict that stops an update
LEMMA StoppingVerdict ==
    ASSUME DiskTypeOK, NEW freeMb \in Nat, NEW needed \in Nat, ~Check(freeMb, needed),
           Settings, stopped' = Verdict(freeMb, needed)
    PROVE  /\ stopped' \in [free : Nat, needed : Nat, short : Nat]
           /\ ShortfallIsExact'
<1>1. RequiredFreeMb \in Nat
  BY RequiredIsNat
<1> DEFINE short == ShortfallMb(freeMb, needed)
<1>2. /\ short \in Nat \ {0} /\ Check(freeMb + short, needed) /\ ~Check(freeMb + short - 1, needed)
  BY <1>1, VerdictsAreExact
<1>3. stopped' = [free |-> freeMb, needed |-> needed, short |-> short]
  BY DEF Verdict
<1> HIDE DEF short
<1>4. /\ stopped'.free = freeMb /\ stopped'.needed = needed /\ stopped'.short = short
  BY <1>3
<1> QED
  BY <1>1, <1>2, <1>3, <1>4, RequiredStays DEF ShortfallIsExact, Check

LEMMA BeginKeepsInv == DiskInv /\ Begin => DiskInv'
<1> SUFFICES ASSUME DiskInv, Begin PROVE DiskInv'
  OBVIOUS
<1>1. DiskTypeOK'
  BY RequiredStays, UnguardedIsTyped, NoTaskIsATask, BoundsAreNat DEF DiskInv, DiskTypeOK, Tasks, Begin, Settings
<1> QED
  BY <1>1 DEF DiskInv, Begin, Unguarded, GuardedDownloadsFit, ShortfallIsExact, ReadIsNotShort

LEMMA PreflightKeepsInv == DiskInv /\ Preflight => DiskInv'
<1> SUFFICES ASSUME DiskInv, Preflight PROVE DiskInv'
  OBVIOUS
<1>0. Settings /\ RequiredFreeMb' = RequiredFreeMb
  BY RequiredStays DEF Preflight
<1>1. CASE Check(InMib(free), 0)
  <2>1. DiskTypeOK'
    BY RequiredStays, <1>1 DEF DiskInv, DiskTypeOK, Preflight, Settings
  <2> QED
    BY <2>1, <1>0, <1>1 DEF DiskInv, Preflight, GuardedDownloadsFit, ShortfallIsExact, ReadIsNotShort
<1>2. CASE ~Check(InMib(free), 0)
  <2>1. stopped' = Verdict(InMib(free), 0) /\ InMib(free) \in Nat
    BY <1>2, FreeIsNat, WholeMib DEF Preflight, DiskInv
  <2>2. stopped' \in [free : Nat, needed : Nat, short : Nat] /\ ShortfallIsExact'
    BY <2>1, <1>0, <1>2, StoppingVerdict DEF DiskInv
  <2>3. DiskTypeOK'
    BY RequiredStays, <2>2, <1>2 DEF DiskInv, DiskTypeOK, Preflight, Settings
  <2> QED
    BY <2>2, <2>3, <1>0, <1>2 DEF DiskInv, Preflight, GuardedDownloadsFit, ReadIsNotShort
<1> QED
  BY <1>1, <1>2

LEMMA PostKeepsInv == DiskInv /\ Post => DiskInv'
<1> SUFFICES ASSUME DiskInv, Post PROVE DiskInv'
  OBVIOUS
<1>0. PICK size \in Sizes : task' = [is |-> "planning", left |-> size]
  BY DEF Post
<1>1. task' \in Tasks
  BY <1>0, DisksAssumption DEF Tasks
<1>2. mirrors' \in 0..MaxMirrors
  BY BoundsAreNat DEF Post, DiskInv, DiskTypeOK
<1>3. DiskTypeOK'
  BY RequiredStays, UnguardedIsTyped, <1>1, <1>2, BoundsAreNat DEF DiskInv, DiskTypeOK, Tasks, Post, Settings
<1>4. ShortfallIsExact'
  BY RequiredStays DEF DiskInv, Post, ShortfallIsExact
<1> QED
  BY <1>3, <1>4 DEF DiskInv, Post, Unguarded, GuardedDownloadsFit, ReadIsNotShort

LEMMA SyncedKeepsInv == DiskInv /\ Synced => DiskInv'
<1> SUFFICES ASSUME DiskInv, Synced PROVE DiskInv'
  OBVIOUS
<1>1. DiskTypeOK'
  BY RequiredStays DEF DiskInv, DiskTypeOK, Synced, Settings
<1> QED
  BY <1>1, RequiredStays DEF DiskInv, Synced, GuardedDownloadsFit, ShortfallIsExact, ReadIsNotShort

LEMMA PollKeepsInv == DiskInv /\ Poll => DiskInv'
<1> SUFFICES ASSUME DiskInv, Poll PROVE DiskInv'
  OBVIOUS
<1>0. task \in Tasks /\ task.left \in Nat
  BY DEF DiskInv, DiskTypeOK, Tasks
<1>1. DiskTypeOK'
  BY RequiredStays, <1>0 DEF DiskInv, DiskTypeOK, Poll, Settings
<1>2. ReadIsNotShort'
  BY <1>0 DEF Poll, ReadIsNotShort
<1> QED
  BY <1>1, <1>2, RequiredStays DEF DiskInv, Poll, GuardedDownloadsFit, ShortfallIsExact

LEMMA GuardPassesKeepsInv == DiskInv /\ GuardPasses => DiskInv'
<1> SUFFICES ASSUME DiskInv, GuardPasses PROVE DiskInv'
  OBVIOUS
<1>0. /\ at = "guard" /\ Check(InMib(free), InMib(remaining)) /\ Settings
      /\ UNCHANGED <<free, mirrors, task, adrift, stopped>> /\ foreign' = 0 /\ remaining' = 0
      /\ at' = "poll" /\ guarded' = TRUE
  BY DEF GuardPasses
<1>1. free \in Nat /\ remaining \in Nat /\ RequiredFreeMb \in Nat /\ task.left \in Nat
  BY FreeIsNat, RequiredIsNat DEF DiskInv, DiskTypeOK
<1>2. free - remaining > (RequiredFreeMb - 1) * Mib
  BY <1>0, <1>1, PassingMeansRoom
<1>3. task.left <= remaining
  BY <1>0 DEF DiskInv, ReadIsNotShort
<1>4. (RequiredFreeMb - 1) * Mib \in Int
  BY <1>1, UnitsAssumption
<1>5. free - task.left > (RequiredFreeMb - 1) * Mib
  BY <1>1, <1>2, <1>3, <1>4
<1>6. GuardedDownloadsFit'
  BY <1>0, <1>1, <1>4, <1>5, RequiredStays DEF GuardedDownloadsFit
<1>7. DiskTypeOK'
  BY RequiredStays, <1>0, BoundsAreNat DEF DiskInv, DiskTypeOK, Settings
<1> QED
  BY <1>0, <1>6, <1>7, RequiredStays DEF DiskInv, ShortfallIsExact, ReadIsNotShort

\* what Abandon leaves to itself
LEMMA AbandonedAreNat ==
    ASSUME DiskTypeOK, Abandon
    PROVE  adrift' \in Nat /\ task' \in Tasks
BY NoTaskIsATask DEF DiskTypeOK, Abandon

LEMMA GuardStopsKeepsInv == DiskInv /\ GuardStops => DiskInv'
<1> SUFFICES ASSUME DiskInv, GuardStops PROVE DiskInv'
  OBVIOUS
<1>0. /\ ~Check(InMib(free), InMib(remaining)) /\ Abandon /\ Settings
      /\ stopped' = Verdict(InMib(free), InMib(remaining)) /\ UNCHANGED <<free, mirrors>>
  BY DEF GuardStops
<1>1. InMib(free) \in Nat /\ InMib(remaining) \in Nat
  BY FreeIsNat, WholeMib DEF DiskInv, DiskTypeOK
<1>2. stopped' \in [free : Nat, needed : Nat, short : Nat] /\ ShortfallIsExact'
  BY <1>0, <1>1, StoppingVerdict DEF DiskInv
<1>3. adrift' \in Nat /\ task' \in Tasks
  BY <1>0, AbandonedAreNat DEF DiskInv
<1>4. DiskTypeOK'
  BY RequiredStays, UnguardedIsTyped, <1>0, <1>2, <1>3, BoundsAreNat DEF DiskInv, DiskTypeOK, Tasks, Settings, Abandon
<1> QED
  BY <1>0, <1>2, <1>4 DEF DiskInv, Abandon, Unguarded, GuardedDownloadsFit, ReadIsNotShort

LEMMA GiveUpKeepsInv == DiskInv /\ GiveUp => DiskInv'
<1> SUFFICES ASSUME DiskInv, GiveUp PROVE DiskInv'
  OBVIOUS
<1>1. adrift' \in Nat /\ task' \in Tasks
  BY AbandonedAreNat DEF DiskInv, GiveUp
<1>2. DiskTypeOK'
  BY RequiredStays, UnguardedIsTyped, <1>1, BoundsAreNat DEF DiskInv, DiskTypeOK, Tasks, GiveUp, Settings, Abandon
<1> QED
  BY <1>2, RequiredStays DEF DiskInv, GiveUp, Abandon, Unguarded, GuardedDownloadsFit,
                             ShortfallIsExact, ReadIsNotShort

\* aptly and the other users leave the update and its verdict alone
Around == UNCHANGED <<mirrors, at, remaining, stopped>> /\ Settings

LEMMA AroundKeepsInv ==
    ASSUME DiskInv, Around, free' \in 0..(Capacity), task' \in Tasks, adrift' \in Nat,
           guarded' \in BOOLEAN, foreign' \in 0..MaxForeign,
           guarded' => guarded /\ free' + foreign' - task'.left >= free + foreign - task.left,
           at = "guard" => task'.is # "planning" /\ task'.left <= task.left
    PROVE  DiskInv'
<1>1. DiskTypeOK'
  BY RequiredStays DEF DiskInv, DiskTypeOK, Tasks, Around, Settings
<1>2. RequiredFreeMb' = RequiredFreeMb /\ RequiredFreeMb \in Nat
  BY RequiredStays, RequiredIsNat DEF Around, DiskInv
<1>3. (RequiredFreeMb - 1) * Mib \in Int
  BY <1>2, UnitsAssumption
<1>4. /\ free \in Nat /\ foreign \in Nat /\ task.left \in Nat
      /\ free' \in Nat /\ foreign' \in Nat /\ task'.left \in Nat
  BY FreeIsNat DEF DiskInv, DiskTypeOK, Tasks
<1>5. GuardedDownloadsFit'
  BY <1>2, <1>3, <1>4 DEF DiskInv, GuardedDownloadsFit
<1>6. ReadIsNotShort'
  BY <1>4 DEF DiskInv, DiskTypeOK, ReadIsNotShort, Around
<1> QED
  BY <1>1, <1>2, <1>5, <1>6 DEF DiskInv, Around, ShortfallIsExact

LEMMA PlanKeepsInv == DiskInv /\ Plan => DiskInv'
<1> SUFFICES ASSUME DiskInv, Plan PROVE DiskInv'
  OBVIOUS
<1>0. task \in Tasks /\ at # "guard" /\ free \in 0..Capacity /\ adrift \in Nat
      /\ guarded \in BOOLEAN /\ foreign \in 0..MaxForeign
  BY DEF DiskInv, DiskTypeOK, Tasks, Plan
<1>1. task' \in Tasks /\ task'.left = task.left
  BY <1>0 DEF Plan, Tasks
<1>2. free \in Nat
  BY FreeIsNat DEF DiskInv
<1>3. Around /\ UNCHANGED <<free, adrift, guarded, foreign>>
  BY DEF Around, Plan
<1>4. free' + foreign' - task'.left >= free + foreign - task.left /\ task'.left <= task.left
  BY <1>0, <1>1, <1>2, <1>3, BoundsAreNat DEF Tasks
<1>5. at = "guard" => task'.is # "planning"
  BY <1>0
<1> QED
  BY <1>0, <1>1, <1>3, <1>4, <1>5, AroundKeepsInv, Zenon

LEMMA FetchKeepsInv ==
    ASSUME DiskInv, NEW n \in 1..free, Fetch(n)
    PROVE  DiskInv'
<1>0. task \in Tasks /\ free \in Nat /\ Capacity \in Nat /\ adrift \in Nat
      /\ guarded \in BOOLEAN /\ foreign \in 0..MaxForeign /\ free <= Capacity
  BY FreeIsNat DEF DiskInv, DiskTypeOK, Tasks
<1>1. task' \in Tasks /\ task'.left = task.left - n /\ task'.is = "fetching" /\ task.left \in Nat
      /\ n <= task.left
  BY <1>0 DEF Fetch, Tasks
<1>2. free' = free - n /\ Around /\ UNCHANGED <<adrift, guarded, foreign>>
  BY DEF Around, Fetch
<1>3. free' \in 0..Capacity
  BY <1>0, <1>2
<1>4. task'.left <= task.left /\ free' + foreign' - task'.left >= free + foreign - task.left
  BY <1>0, <1>1, <1>2, BoundsAreNat
<1>5. task'.is # "planning" /\ adrift' \in Nat /\ guarded' \in BOOLEAN /\ foreign' \in 0..MaxForeign
  BY <1>0, <1>1, <1>2
<1> QED
  BY <1>1, <1>2, <1>3, <1>4, <1>5, AroundKeepsInv, Zenon

LEMMA FetchEndsKeepsInv == DiskInv /\ FetchEnds => DiskInv'
<1> SUFFICES ASSUME DiskInv, FetchEnds PROVE DiskInv'
  OBVIOUS
<1>0. task \in Tasks /\ free \in 0..Capacity /\ free \in Nat /\ adrift \in Nat
      /\ guarded \in BOOLEAN /\ foreign \in 0..MaxForeign
  BY FreeIsNat DEF DiskInv, DiskTypeOK, Tasks
<1>1. task' \in Tasks /\ task'.left = task.left /\ task'.is # "planning" /\ task.left \in Nat
  BY <1>0 DEF FetchEnds, Tasks
<1>2. Around /\ UNCHANGED <<free, adrift, guarded, foreign>>
  BY DEF Around, FetchEnds
<1>3. free' + foreign' - task'.left >= free + foreign - task.left /\ task'.left <= task.left
  BY <1>0, <1>1, <1>2, BoundsAreNat
<1> QED
  BY <1>0, <1>1, <1>2, <1>3, AroundKeepsInv, Zenon

LEMMA RestartKeepsInv == DiskInv /\ AptlyRestarts => DiskInv'
<1> SUFFICES ASSUME DiskInv, AptlyRestarts PROVE DiskInv'
  OBVIOUS
<1>0. task.left \in Nat /\ free \in 0..Capacity /\ adrift' = 0 /\ guarded' = FALSE
      /\ guarded' \in BOOLEAN /\ foreign' \in 0..MaxForeign
  BY UnguardedIsTyped DEF DiskInv, DiskTypeOK, AptlyRestarts, Unguarded
<1>1. task' \in Tasks /\ task'.left = 0 /\ task'.is = "none"
  BY NoTaskIsATask DEF AptlyRestarts, NoTask
<1>2. Around /\ free' = free
  BY DEF Around, AptlyRestarts
<1>3. task'.left <= task.left /\ adrift' \in Nat
  BY <1>0, <1>1
<1> QED
  BY <1>0, <1>1, <1>2, <1>3, AroundKeepsInv

LEMMA OthersKeepInv ==
    ASSUME DiskInv, NEW n \in 1..free, TakeForeign(n),
           UNCHANGED <<mirrors, task, at, remaining, guarded, stopped>>, Settings, adrift' \in Nat
    PROVE  DiskInv'
<1>0. task \in Tasks /\ free \in Nat /\ Capacity \in Nat /\ free <= Capacity
      /\ guarded \in BOOLEAN /\ foreign \in Nat /\ task.left \in Nat
      /\ (at = "guard" => task.is # "planning")
  BY FreeIsNat DEF DiskInv, DiskTypeOK, Tasks
<1>1. free' \in 0..Capacity
  BY <1>0 DEF TakeForeign
<1>2. foreign' \in 0..MaxForeign
  <2>1. CASE guarded
    BY <2>1, <1>0, BoundsAreNat DEF TakeForeign
  <2>2. CASE ~guarded
    BY <2>2, BoundsAreNat DEF TakeForeign
  <2> QED
    BY <2>1, <2>2
<1>3. guarded => free' + foreign' - task'.left >= free + foreign - task.left
  BY <1>0, BoundsAreNat DEF TakeForeign
<1>4. Around /\ task'.left <= task.left
  BY <1>0 DEF Around
<1> QED
  BY <1>0, <1>1, <1>2, <1>3, <1>4, AroundKeepsInv

LEMMA DeleteKeepsInv ==
    ASSUME DiskInv, NEW n \in 1..(Capacity - free), OthersDelete(n)
    PROVE  DiskInv'
<1>0. task \in Tasks /\ free \in Nat /\ Capacity \in Nat /\ adrift \in Nat
      /\ guarded \in BOOLEAN /\ foreign \in 0..MaxForeign /\ task.left \in Nat
      /\ (at = "guard" => task.is # "planning")
  BY FreeIsNat DEF DiskInv, DiskTypeOK, Tasks
<1>1. free' \in 0..Capacity
  BY <1>0 DEF OthersDelete
<1>2. Around /\ UNCHANGED <<task, adrift, guarded, foreign>>
  BY DEF Around, OthersDelete
<1>3. free' + foreign' - task'.left >= free + foreign - task.left /\ task'.left <= task.left
  BY <1>0, <1>2, BoundsAreNat DEF OthersDelete
<1> QED
  BY <1>0, <1>1, <1>2, <1>3, AroundKeepsInv

-----------------------------------------------------------------------------
LEMMA DiskInvNext == DiskInv /\ [DiskNext]_disk => DiskInv'
<1> SUFFICES ASSUME DiskInv, [DiskNext]_disk PROVE DiskInv'
  OBVIOUS
<1>1. ASSUME NEW n \in 1..free, Drift(n) PROVE DiskInv'
  <2>1. adrift' \in Nat
    BY <1>1 DEF DiskInv, DiskTypeOK, Drift
  <2> QED
    BY <1>1, <2>1, OthersKeepInv DEF Drift
<1>2. ASSUME NEW n \in 1..free, OthersWrite(n) PROVE DiskInv'
  <2>1. adrift' \in Nat
    BY <1>2 DEF DiskInv, DiskTypeOK, OthersWrite
  <2> QED
    BY <1>2, <2>1, OthersKeepInv DEF OthersWrite
<1>3. CASE UNCHANGED disk
  <2>1. DiskTypeOK' /\ RequiredFreeMb' = RequiredFreeMb
    BY <1>3 DEF disk, DiskInv, DiskTypeOK, Capacity, RequiredFreeMb
  <2> QED
    BY <1>3, <2>1 DEF disk, DiskInv, GuardedDownloadsFit, ShortfallIsExact, ReadIsNotShort
<1> QED
  BY <1>1, <1>2, <1>3, BeginKeepsInv, PreflightKeepsInv, PostKeepsInv, SyncedKeepsInv, PollKeepsInv,
     GuardPassesKeepsInv, GuardStopsKeepsInv, GiveUpKeepsInv, PlanKeepsInv, FetchKeepsInv,
     FetchEndsKeepsInv, RestartKeepsInv, DeleteKeepsInv
  DEF DiskNext, Worker

LEMMA DiskInvAlways == DiskSpec => []DiskInv
BY DiskInvInit, DiskInvNext, PTL DEF DiskSpec

\* Type correctness.  [services/space.py, _update, _await_task]
THEOREM DiskTypeCorrect == DiskSpec => []DiskTypeOK
<1>1. DiskInv => DiskTypeOK
  BY DEF DiskInv
<1> QED
  BY <1>1, DiskInvAlways, PTL

\* A download that was let go on leaves the margin, whatever aptly fetched between the two
\* reads and however the figures were rounded.  [_guard_disk]
THEOREM GuardedDownloadsAlwaysFit == DiskSpec => []GuardedDownloadsFit
<1>1. DiskInv => GuardedDownloadsFit
  BY DEF DiskInv
<1> QED
  BY <1>1, DiskInvAlways, PTL

\* The message that stops a sync names exactly the MiB that were missing.  [shortfall_mb]
THEOREM ShortfallIsAlwaysExact == DiskSpec => []ShortfallIsExact
<1>1. DiskInv => ShortfallIsExact
  BY DEF DiskInv
<1> QED
  BY <1>1, DiskInvAlways, PTL
=============================================================================

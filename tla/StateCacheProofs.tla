--------------------------- MODULE StateCacheProofs ---------------------------
(***************************************************************************)
(* Proofs about StateCache, for any number of requests, parts, changes and *)
(* ticks.                                                                  *)
(***************************************************************************)
EXTENDS StateCache, SequenceTheorems, TLAPS

USE ReadersAssumption, RefreshAssumption, MaxReadAssumption, MaxTimeAssumption,
    MaxChangesAssumption

LogEntry == [part : Parts, at : 0 .. MaxTime]

LEMMA CopyTypes ==
    /\ Nothing \in [Parts -> Unread .. MaxChanges]
    /\ NoCopy \in Copies
    /\ NoAnswer \in [copy : Copies, forced : BOOLEAN, asked : 0 .. MaxChanges]
<1>1. Nothing \in [Parts -> Unread .. MaxChanges]
    BY DEF Nothing, Unread
<1>2. NoCopy \in Copies
    BY <1>1 DEF NoCopy, Copies, Never
<1> QED
    BY <1>1, <1>2 DEF NoAnswer

LEMMA TypeInvInductive == StateCacheTypeOK /\ [CacheNext]_cache => StateCacheTypeOK'
<1> SUFFICES ASSUME StateCacheTypeOK, [CacheNext]_cache PROVE StateCacheTypeOK'
    OBVIOUS
<1> USE CopyTypes
<1>n. Len(log) \in 0 .. MaxChanges
    BY LenProperties DEF StateCacheTypeOK
<1>1. ASSUME NEW r \in Readers, NEW f \in BOOLEAN, Ask(r, f) PROVE StateCacheTypeOK'
    BY <1>1, <1>n, AppendProperties DEF Ask, StateCacheTypeOK, clock, NoReader
<1>2. ASSUME NEW r \in Readers, Reuse(r) PROVE StateCacheTypeOK'
    BY <1>2, HeadTailProperties DEF Reuse, HasTurn, Give, StateCacheTypeOK, clock, NoReader
<1>3. ASSUME NEW r \in Readers, BeginRead(r) PROVE StateCacheTypeOK'
    BY <1>3, HeadTailProperties
       DEF BeginRead, StartReading, HasTurn, StateCacheTypeOK, clock, requests, NoReader
<1>4. ASSUME NEW r \in Readers, NEW p \in Parts, ReadPart(r, p) PROVE StateCacheTypeOK'
  <2>1. [got[r] EXCEPT ![p] = Len(log)] \in [Parts -> Unread .. MaxChanges]
      BY <1>n DEF StateCacheTypeOK, Unread
  <2> QED
      BY <1>4, <2>1 DEF ReadPart, StateCacheTypeOK, clock, requests
<1>5. ASSUME NEW r \in Readers, ReadEnds(r) PROVE StateCacheTypeOK'
  <2>1. [parts |-> got[r], fetched |-> now, stale |-> FALSE] \in Copies
      BY DEF StateCacheTypeOK, Copies, Never
  <2> QED
      BY <1>5, <2>1 DEF ReadEnds, Give, StateCacheTypeOK, clock, NoReader
<1>6. ASSUME NEW r \in Readers, ReadFails(r) PROVE StateCacheTypeOK'
  <2> DEFINE when == IF cached = NoCopy THEN now ELSE cached.fetched
  <2>a. cached \in Copies /\ when \in Never .. MaxTime
      BY DEF StateCacheTypeOK, Copies, Never
  <2> HIDE DEF when
  <2>b. [cached EXCEPT !.stale = TRUE, !.fetched = when] \in Copies
      BY <2>a DEF Copies
  <2>1. StaleCopy \in Copies
      BY <2>b DEF StaleCopy, when
  <2> QED
      BY <1>6, <2>1 DEF ReadFails, Give, StateCacheTypeOK, clock, NoReader
<1>7. ASSUME NEW p \in Parts, Change(p) PROVE StateCacheTypeOK'
  <2>1. [part |-> p, at |-> now] \in LogEntry
      BY DEF StateCacheTypeOK, LogEntry
  <2>2. log' \in Seq(LogEntry) /\ Len(log') = Len(log) + 1
      BY <1>7, <2>1, AppendProperties DEF Change, StateCacheTypeOK, LogEntry
  <2> QED
      BY <1>7, <1>n, <2>2 DEF Change, StateCacheTypeOK, requests, LogEntry
<1>8. CASE Tick
    BY <1>8 DEF Tick, StateCacheTypeOK, requests
<1>9. CASE UNCHANGED cache
    BY <1>9 DEF StateCacheTypeOK, cache, clock, requests
<1> QED
    BY <1>1, <1>2, <1>3, <1>4, <1>5, <1>6, <1>7, <1>8, <1>9 DEF CacheNext

(* Every variable stays in its type, and the lock is held by the request that reads. *)
THEOREM CacheTypeCorrect == CacheSpec => []StateCacheTypeOK
<1>1. CacheInit => StateCacheTypeOK
    BY CopyTypes, EmptySeq, LenProperties DEF CacheInit, StateCacheTypeOK, NoReader
<1> QED
    BY <1>1, TypeInvInductive, PTL DEF CacheSpec

-----------------------------------------------------------------------------
(* Reading. What a request has read of a part is at least as new as the cached copy, as   *)
(* the last change when the request asked, and never newer than aptly: because only one   *)
(* request reads at a time, and got nothing before it began.                              *)
ReadInv ==
    /\ \A p \in Parts : cached.parts[p] <= Len(log)
    /\ \A r \in Readers :
          /\ asked[r] <= Len(log)
          /\ phase[r] # "reading" => got[r] = Nothing
          /\ \A p \in Parts : got[r][p] # Unread =>
                /\ got[r][p] <= Len(log)
                /\ cached.parts[p] <= got[r][p]
                /\ asked[r] <= got[r][p]
    /\ ForcedAnswersAreNew

CacheInv == StateCacheTypeOK /\ ReadInv

LEMMA StaleCopyKeepsParts ==
    ASSUME StateCacheTypeOK
    PROVE  StaleCopy.parts = cached.parts /\ StaleCopy.stale
    BY DEF StaleCopy, StateCacheTypeOK, Copies

LEMMA NoAnswerIsStale == NoAnswer.copy.stale
    BY DEF NoAnswer, NoCopy

LEMMA ReadInvInductive == CacheInv /\ [CacheNext]_cache => ReadInv'
<1> SUFFICES ASSUME StateCacheTypeOK, ReadInv, [CacheNext]_cache PROVE ReadInv'
    BY DEF CacheInv
<1> USE NoAnswerIsStale DEF ReadInv, ForcedAnswersAreNew
<1>n. Len(log) \in Nat
    BY LenProperties DEF StateCacheTypeOK
<1>t. /\ got \in [Readers -> [Parts -> Unread .. MaxChanges]]
      /\ phase \in [Readers -> {"idle", "waiting", "reading"}]
      /\ asked \in [Readers -> 0 .. MaxChanges]
      /\ cached.parts \in [Parts -> Unread .. MaxChanges]
      /\ force \in [Readers -> BOOLEAN]
    BY DEF StateCacheTypeOK, Copies
<1>o. ASSUME NEW p \in Parts PROVE Nothing[p] = Unread
    BY DEF Nothing
<1>1. ASSUME NEW r \in Readers, NEW f \in BOOLEAN, Ask(r, f) PROVE ReadInv'
    BY <1>1, <1>n, <1>t, <1>o DEF Ask, clock
<1>2. ASSUME NEW r \in Readers, Reuse(r) PROVE ReadInv'
    BY <1>2, <1>n, <1>t, <1>o DEF Reuse, Give, clock
<1>3. ASSUME NEW r \in Readers, BeginRead(r) PROVE ReadInv'
    BY <1>3, <1>n, <1>t, <1>o DEF BeginRead, StartReading, clock, requests
<1>4. ASSUME NEW r \in Readers, NEW p \in Parts, ReadPart(r, p) PROVE ReadInv'
    BY <1>4, <1>n, <1>t, <1>o DEF ReadPart, clock, requests
<1>5. ASSUME NEW r \in Readers, ReadEnds(r) PROVE ReadInv'
  <2>1. ASSUME NEW s \in Readers, s # r PROVE got[s] = Nothing
      BY <1>5, <2>1 DEF ReadEnds, StateCacheTypeOK
  <2>2. cached'.parts = got[r] /\ log' = log
      BY <1>5 DEF ReadEnds, clock
  <2>3. ForcedAnswersAreNew'
      BY <1>5, <1>t DEF ReadEnds, Give
  <2>4. \A s \in Readers : got'[s] = Nothing
      BY <1>5, <1>t, <2>1 DEF ReadEnds, Give
  <2>5. \A s \in Readers : asked'[s] <= Len(log)
      BY <1>5, <1>t, <1>n DEF ReadEnds, Give
  <2>6. \A p \in Parts : got[r][p] <= Len(log)
      BY <1>5 DEF ReadEnds
  <2> QED
      BY <2>2, <2>3, <2>4, <2>5, <2>6, <1>o
<1>6. ASSUME NEW r \in Readers, ReadFails(r) PROVE ReadInv'
  <2>1. cached'.parts = cached.parts /\ answer'.copy.stale /\ log' = log
      BY <1>6, StaleCopyKeepsParts DEF ReadFails, Give, clock
  <2> QED
      BY <1>6, <1>n, <1>t, <1>o, <2>1 DEF ReadFails, Give
<1>7. ASSUME NEW p \in Parts, Change(p) PROVE ReadInv'
  <2>1. Len(log') = Len(log) + 1
      BY <1>7, AppendProperties DEF Change, StateCacheTypeOK
  <2> QED
      BY <1>7, <1>n, <1>t, <2>1 DEF Change, requests
<1>8. CASE Tick
    BY <1>8 DEF Tick, requests
<1>9. CASE UNCHANGED cache
    BY <1>9 DEF cache, clock, requests
<1> QED
    BY <1>1, <1>2, <1>3, <1>4, <1>5, <1>6, <1>7, <1>8, <1>9 DEF CacheNext

LEMMA CacheInvInvariant == CacheSpec => []CacheInv
<1>1. CacheInit => CacheInv
  <2> SUFFICES ASSUME CacheInit PROVE CacheInv
      OBVIOUS
  <2>1. StateCacheTypeOK
      BY CopyTypes, EmptySeq, LenProperties DEF CacheInit, StateCacheTypeOK, NoReader
  <2>2. ReadInv
      BY NoAnswerIsStale, EmptySeq, LenProperties
         DEF CacheInit, ReadInv, ForcedAnswersAreNew, Nothing, NoCopy, Unread
  <2> QED
      BY <2>1, <2>2 DEF CacheInv
<1>2. CacheInv /\ [CacheNext]_cache => CacheInv'
    BY TypeInvInductive, ReadInvInductive DEF CacheInv
<1> QED
    BY <1>1, <1>2, PTL DEF CacheSpec

(* A request with ?refresh=1 that is not told of a failure sees everything aptly had gone *)
(* through when it asked, however many requests there are.                                *)
THEOREM ForcedAnswersCorrect == CacheSpec => []ForcedAnswersAreNew
<1>1. CacheInv => ForcedAnswersAreNew
    BY DEF CacheInv, ReadInv
<1> QED
    BY <1>1, CacheInvInvariant, PTL

(* No request and no failure ever puts an older part in the cached copy.                  *)
THEOREM CopiesNeverGoBackCorrect == CacheSpec => CopiesNeverGoBack
<1>1. CacheInv /\ [CacheNext]_cache
      => [\A p \in Parts : cached'.parts[p] >= cached.parts[p]]_cache
  <2> SUFFICES ASSUME StateCacheTypeOK, ReadInv, [CacheNext]_cache, NEW p \in Parts
               PROVE  cached'.parts[p] >= cached.parts[p]
      BY DEF CacheInv
  <2>t. cached.parts[p] \in Unread .. MaxChanges
      BY DEF StateCacheTypeOK, Copies
  <2>1. ASSUME NEW r \in Readers, ReadEnds(r) PROVE cached'.parts[p] >= cached.parts[p]
    <3>1. got[r][p] \in Unread .. MaxChanges
        BY DEF StateCacheTypeOK
    <3>2. cached.parts[p] <= got[r][p]
        BY <2>1 DEF ReadEnds, ReadInv
    <3> QED
        BY <2>1, <2>t, <3>1, <3>2 DEF ReadEnds, Unread
  <2>2. ASSUME NEW r \in Readers, ReadFails(r) PROVE cached'.parts[p] >= cached.parts[p]
      BY <2>2, <2>t, StaleCopyKeepsParts DEF ReadFails, Unread
  <2>3. cached' = cached => cached'.parts[p] >= cached.parts[p]
      BY <2>t DEF Unread
  <2> QED
      BY <2>1, <2>2, <2>3
         DEF CacheNext, Ask, Reuse, BeginRead, StartReading, ReadPart, Change, Tick, cache
<1> QED
    BY <1>1, CacheInvInvariant, PTL DEF CacheSpec, CopiesNeverGoBack

-----------------------------------------------------------------------------
(* Recency.  A change that a reading request has missed is no older than its read, and    *)
(* the read no longer than MaxRead; so a change the cached copy misses is at most MaxRead *)
(* older than the copy.                                                                   *)
RecentInv ==
    /\ \A r \in Readers : phase[r] = "reading" =>
          /\ began[r] <= now /\ now - began[r] <= MaxRead
          /\ \A i \in 1 .. Len(log) : LET p == log[i].part IN
                got[r][p] # Unread /\ i > got[r][p] => log[i].at >= began[r]
    /\ ~cached.stale =>
          /\ cached.fetched <= now
          /\ \A i \in 1 .. Len(log) : Misses(cached, i) => cached.fetched - log[i].at <= MaxRead
    /\ FreshMeansRecent

LEMMA LogTypes ==
    ASSUME StateCacheTypeOK
    PROVE  /\ DOMAIN log = 1 .. Len(log) /\ Len(log) \in Nat
           /\ \A i \in 1 .. Len(log) : log[i].part \in Parts /\ log[i].at \in 0 .. MaxTime
<1>1. log \in Seq(LogEntry)
    BY DEF StateCacheTypeOK, LogEntry
<1>2. DOMAIN log = 1 .. Len(log) /\ Len(log) \in Nat
    BY <1>1, LenProperties
<1>3. \A i \in 1 .. Len(log) : log[i] \in LogEntry
    BY <1>1, ElementOfSeq
<1> QED
    BY <1>2, <1>3 DEF LogEntry

LEMMA RecentInvInductive == CacheInv /\ RecentInv /\ [CacheNext]_cache => RecentInv'
<1> SUFFICES ASSUME StateCacheTypeOK, ReadInv, RecentInv, [CacheNext]_cache PROVE RecentInv'
    BY DEF CacheInv
<1> USE NoAnswerIsStale, LogTypes DEF RecentInv, FreshMeansRecent, Misses
<1>t. /\ got \in [Readers -> [Parts -> Unread .. MaxChanges]]
      /\ phase \in [Readers -> {"idle", "waiting", "reading"}]
      /\ began \in [Readers -> 0 .. MaxTime]
      /\ now \in 0 .. MaxTime
      /\ cached.parts \in [Parts -> Unread .. MaxChanges]
      /\ cached.fetched \in Never .. MaxTime
    BY DEF StateCacheTypeOK, Copies
<1>1. ASSUME NEW r \in Readers, NEW f \in BOOLEAN, Ask(r, f) PROVE RecentInv'
    BY <1>1, <1>t DEF Ask, clock
<1>2. ASSUME NEW r \in Readers, Reuse(r) PROVE RecentInv'
  <2>1. FreshMeansRecent'
    <3> SUFFICES ASSUME NEW i \in 1 .. Len(log), Misses(cached, i)
                 PROVE  now - log[i].at < Refresh + MaxRead
        BY <1>2 DEF Reuse, Give, clock
    <3>1. ~cached.stale /\ now - cached.fetched < Refresh
        BY <1>2 DEF Reuse, FreshEnough, AgeBelow
    <3>2. cached.fetched - log[i].at <= MaxRead
        BY <3>1
    <3> QED
        BY <1>t, <3>1, <3>2 DEF Never
  <2> QED
      BY <1>2, <1>t, <2>1 DEF Reuse, Give, clock
<1>3. ASSUME NEW r \in Readers, BeginRead(r) PROVE RecentInv'
  <2>1. got[r] = Nothing
      BY <1>3 DEF BeginRead, HasTurn, ReadInv, StateCacheTypeOK, NoReader
  <2> QED
      BY <1>3, <1>t, <2>1 DEF BeginRead, StartReading, Nothing, clock, requests
<1>4. ASSUME NEW r \in Readers, NEW p \in Parts, ReadPart(r, p) PROVE RecentInv'
    BY <1>4, <1>t DEF ReadPart, clock, requests
<1>5. ASSUME NEW r \in Readers, ReadEnds(r) PROVE RecentInv'
  <2>1. cached' = [parts |-> got[r], fetched |-> now, stale |-> FALSE] /\ log' = log /\ now' = now
      BY <1>5 DEF ReadEnds, clock
  <2>2. phase[r] = "reading" /\ \A p \in Parts : got[r][p] # Unread
      BY <1>5 DEF ReadEnds
  <2>3. ASSUME NEW i \in 1 .. Len(log), i > got[r][log[i].part]
        PROVE  now - log[i].at <= MaxRead
    <3>1. log[i].at >= began[r] /\ now - began[r] <= MaxRead
        BY <2>2, <2>3
    <3>2. log[i].at \in Int /\ began[r] \in Int /\ now \in Int
        BY <1>t
    <3> QED
        BY <3>1, <3>2
  <2>4. \A s \in Readers : phase'[s] # "reading"
      BY <1>5, <1>t DEF ReadEnds, Give, StateCacheTypeOK
  <2>5. answer'.copy = cached'
      BY <1>5 DEF ReadEnds, Give
  <2> QED
      BY <1>t, <2>1, <2>3, <2>4, <2>5
<1>6. ASSUME NEW r \in Readers, ReadFails(r) PROVE RecentInv'
  <2>1. cached'.stale /\ answer'.copy.stale
      BY <1>6, StaleCopyKeepsParts DEF ReadFails, Give
  <2>2. \A s \in Readers : phase'[s] # "reading"
      BY <1>6, <1>t DEF ReadFails, Give, StateCacheTypeOK
  <2> QED
      BY <2>1, <2>2
<1>7. ASSUME NEW p \in Parts, Change(p) PROVE RecentInv'
  <2>1. /\ Len(log') = Len(log) + 1
        /\ \A i \in 1 .. Len(log) : log'[i] = log[i]
        /\ log'[Len(log) + 1].at = now
      BY <1>7, AppendProperties DEF Change, StateCacheTypeOK
  <2>2. /\ now' = now /\ cached' = cached /\ phase' = phase /\ began' = began /\ got' = got
        /\ answer'.copy.stale
      BY <1>7 DEF Change
  <2>3. ASSUME NEW i \in 1 .. Len(log') PROVE i \in 1 .. Len(log) \/ log'[i].at = now
      BY <2>1
  <2>4. ASSUME NEW r \in Readers, phase[r] = "reading", NEW i \in 1 .. Len(log'),
               got[r][log'[i].part] # Unread, i > got[r][log'[i].part]
        PROVE  log'[i].at >= began[r]
      BY <1>t, <2>1, <2>3, <2>4
  <2>5. ASSUME ~cached.stale, NEW i \in 1 .. Len(log'), i > cached.parts[log'[i].part]
        PROVE  cached.fetched - log'[i].at <= MaxRead
    <3>1. CASE i \in 1 .. Len(log)
        BY <2>1, <2>5, <3>1
    <3>2. CASE log'[i].at = now
      <4>1. cached.fetched <= now /\ cached.fetched \in Int /\ now \in Int
          BY <1>t, <2>5 DEF Never
      <4> QED
          BY <3>2, <4>1
    <3> QED
        BY <2>3, <3>1, <3>2
  <2> QED
      BY <2>2, <2>4, <2>5
<1>8. CASE Tick
    BY <1>8, <1>t DEF Tick, Never, requests
<1>9. CASE UNCHANGED cache
    BY <1>9 DEF cache, clock, requests
<1> QED
    BY <1>1, <1>2, <1>3, <1>4, <1>5, <1>6, <1>7, <1>8, <1>9 DEF CacheNext

(* An answer that is not marked stale misses no change older than the time a read may     *)
(* take and the time a copy is fresh for, whatever those times are.                       *)
THEOREM FreshMeansRecentCorrect == CacheSpec => []FreshMeansRecent
<1>1. CacheInit => RecentInv
    BY NoAnswerIsStale DEF CacheInit, RecentInv, FreshMeansRecent, NoCopy
<1>2. CacheInv /\ RecentInv /\ [CacheNext]_cache => RecentInv'
    BY RecentInvInductive
<1>3. RecentInv => FreshMeansRecent
    BY DEF RecentInv
<1> QED
    BY <1>1, <1>2, <1>3, CacheInvInvariant, PTL DEF CacheSpec
=============================================================================

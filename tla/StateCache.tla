------------------------------ MODULE StateCache ------------------------------
(***************************************************************************)
(* The cache of what aptly holds (web/state.py).  Every page is rendered   *)
(* from it.  A request takes the lock, in the order of asking; it is given *)
(* the cached copy while that is fresh, and otherwise reads every part of  *)
(* aptly, side by side, while aptly goes on changing.  A read that fails   *)
(* leaves the last copy in place, marked stale.                            *)
(*                                                                         *)
(* What was read of a part is the number of changes aptly had gone through *)
(* by then, so a copy misses a change of a part exactly if the change is   *)
(* numbered higher.                                                        *)
(***************************************************************************)
EXTENDS Integers, Sequences

CONSTANTS Readers,     \* the requests, each of which may ask again and again
          Parts,       \* what _read asks aptly for: storage, mirrors, snapshots, ...
          Refresh,     \* refresh_seconds, in ticks
          MaxRead,     \* ticks after which a read has ended or the client given it up
          MaxTime,     \* bound: ticks
          MaxChanges   \* bound: changes of aptly

ASSUME ReadersAssumption == "nobody" \notin Readers
ASSUME RefreshAssumption == Refresh \in Nat
ASSUME MaxReadAssumption == MaxRead \in Nat
ASSUME MaxTimeAssumption == MaxTime \in Nat
ASSUME MaxChangesAssumption == MaxChanges \in Nat

VARIABLES
    log,       \* aptly: the changes it went through, each [part, at]
    now,
    cached,    \* _cached
    holder,    \* _lock: who holds it
    waiting,   \* _lock: who waits for it, the first to ask in front
    phase,     \* of each request
    force,     \* of each request under way: the argument force
    asked,     \* of each request under way: the changes aptly had gone through when it asked
    began,     \* of each reading request: when the read began
    got,       \* of each reading request: the parts answered so far
    answer     \* the answer get gave in the last step, if it gave one, and what was asked for

clock    == <<log, now>>
requests == <<force, asked>>
cache    == <<clock, cached, holder, waiting, phase, requests, began, got, answer>>

NoReader == "nobody"
Never    == -1
Unread   == -1

Nothing  == [p \in Parts |-> Unread]
NoCopy   == [parts |-> Nothing, fetched |-> Never, stale |-> TRUE]
NoAnswer == [copy |-> NoCopy, forced |-> FALSE, asked |-> 0]

Copies ==
    [parts : [Parts -> Unread .. MaxChanges], fetched : Never .. MaxTime, stale : BOOLEAN]

(* Every variable stays in its type; the lock is held by the one request that reads. *)
StateCacheTypeOK ==
    /\ log \in Seq([part : Parts, at : 0 .. MaxTime]) /\ Len(log) <= MaxChanges
    /\ now \in 0 .. MaxTime
    /\ cached \in Copies
    /\ holder \in Readers \cup {NoReader}
    /\ waiting \in Seq(Readers)
    /\ phase \in [Readers -> {"idle", "waiting", "reading"}]
    /\ force \in [Readers -> BOOLEAN]
    /\ asked \in [Readers -> 0 .. MaxChanges]
    /\ began \in [Readers -> 0 .. MaxTime]
    /\ got \in [Readers -> [Parts -> Unread .. MaxChanges]]
    /\ answer \in [copy : Copies, forced : BOOLEAN, asked : 0 .. MaxChanges]
    /\ \A r \in Readers : phase[r] = "reading" <=> holder = r

CacheInit ==
    /\ log = <<>>
    /\ now = 0
    /\ cached = NoCopy
    /\ holder = NoReader
    /\ waiting = <<>>
    /\ phase = [r \in Readers |-> "idle"]
    /\ force = [r \in Readers |-> FALSE]
    /\ asked = [r \in Readers |-> 0]
    /\ began = [r \in Readers |-> 0]
    /\ got = [r \in Readers |-> Nothing]
    /\ answer = NoAnswer

-----------------------------------------------------------------------------
(* get *)

Ask(r, f) ==
    /\ phase[r] = "idle"
    /\ phase' = [phase EXCEPT ![r] = "waiting"]
    /\ waiting' = Append(waiting, r)
    /\ force' = [force EXCEPT ![r] = f]
    /\ asked' = [asked EXCEPT ![r] = Len(log)]
    /\ answer' = NoAnswer
    /\ UNCHANGED <<clock, cached, holder, began, got>>

Give(r, copy) ==
    /\ phase' = [phase EXCEPT ![r] = "idle"]
    /\ answer' = [copy |-> copy, forced |-> force[r], asked |-> asked[r]]
    /\ force' = [force EXCEPT ![r] = FALSE]
    /\ asked' = [asked EXCEPT ![r] = 0]
    /\ began' = [began EXCEPT ![r] = 0]
    /\ got' = [got EXCEPT ![r] = Nothing]

(* asyncio.Lock: a request that finds others waiting queues behind them. *)
HasTurn(r) == holder = NoReader /\ waiting # <<>> /\ Head(waiting) = r

AgeBelow(limit) == ~cached.stale /\ now - cached.fetched < limit
FreshAtTheLimit == AgeBelow(Refresh + 1)

FreshEnough == AgeBelow(Refresh)

ReuseEvenForced(r) ==
    /\ HasTurn(r)
    /\ FreshEnough
    /\ waiting' = Tail(waiting)
    /\ Give(r, cached)
    /\ UNCHANGED <<clock, cached, holder>>

Reuse(r) ==
    /\ HasTurn(r)
    /\ ~force[r] /\ FreshEnough
    /\ waiting' = Tail(waiting)
    /\ Give(r, cached)
    /\ UNCHANGED <<clock, cached, holder>>

StartReading(r) ==
    /\ waiting' = Tail(waiting)
    /\ holder' = r
    /\ phase' = [phase EXCEPT ![r] = "reading"]
    /\ began' = [began EXCEPT ![r] = now]
    /\ answer' = NoAnswer
    /\ UNCHANGED <<clock, cached, requests, got>>

BeginReadUnlocked(r) ==
    /\ waiting # <<>> /\ Head(waiting) = r
    /\ force[r] \/ ~FreshEnough
    /\ StartReading(r)

BeginRead(r) ==
    /\ HasTurn(r)
    /\ force[r] \/ ~FreshEnough
    /\ StartReading(r)

(* _read: one request to aptly for each part, answered in any order. *)
ReadPart(r, p) ==
    /\ phase[r] = "reading" /\ got[r][p] = Unread
    /\ got' = [got EXCEPT ![r][p] = Len(log)]
    /\ answer' = NoAnswer
    /\ UNCHANGED <<clock, cached, holder, waiting, phase, requests, began>>

ReadEnds(r) ==
    /\ phase[r] = "reading" /\ \A p \in Parts : got[r][p] # Unread
    /\ cached' = [parts |-> got[r], fetched |-> now, stale |-> FALSE]
    /\ holder' = NoReader
    /\ Give(r, cached')
    /\ UNCHANGED <<clock, waiting>>

(* The first part to fail ends the read.  With no copy yet, there is an empty one now. *)
StaleCopy ==
    [cached EXCEPT !.stale = TRUE, !.fetched = IF cached = NoCopy THEN now ELSE @]

ReadFailsHoldingLock(r) ==
    /\ phase[r] = "reading" /\ \E p \in Parts : got[r][p] = Unread
    /\ cached' = StaleCopy
    /\ Give(r, cached')
    /\ UNCHANGED <<clock, holder, waiting>>

ReadFails(r) ==
    /\ phase[r] = "reading" /\ \E p \in Parts : got[r][p] = Unread
    /\ cached' = StaleCopy
    /\ holder' = NoReader
    /\ Give(r, cached')
    /\ UNCHANGED <<clock, waiting>>

-----------------------------------------------------------------------------
(* aptly and time *)

Change(p) ==
    /\ Len(log) < MaxChanges
    /\ log' = Append(log, [part |-> p, at |-> now])
    /\ answer' = NoAnswer
    /\ UNCHANGED <<now, cached, holder, waiting, phase, requests, began, got>>

Tick ==
    /\ now < MaxTime
    /\ \A r \in Readers : phase[r] = "reading" => now - began[r] < MaxRead
    /\ now' = now + 1
    /\ answer' = NoAnswer
    /\ UNCHANGED <<log, cached, holder, waiting, phase, requests, began, got>>

CacheNext ==
    \/ \E r \in Readers :
          \/ \E f \in BOOLEAN : Ask(r, f)
          \/ Reuse(r)
          \/ BeginRead(r)
          \/ \E p \in Parts : ReadPart(r, p)
          \/ ReadEnds(r)
          \/ ReadFails(r)
    \/ \E p \in Parts : Change(p)
    \/ Tick

(* The event loop runs a request that has its turn; aptly answers or the client gives up. *)
CacheFairness ==
    \A r \in Readers :
       /\ WF_cache(Reuse(r) \/ BeginRead(r))
       /\ WF_cache((\E p \in Parts : ReadPart(r, p)) \/ ReadEnds(r) \/ ReadFails(r))

CacheSpec == CacheInit /\ [][CacheNext]_cache /\ CacheFairness

-----------------------------------------------------------------------------
(* Properties *)

Misses(copy, i) == i > copy.parts[log[i].part]

(* An answer that is not marked stale misses no change aptly went through long before it  *)
(* was given: not before the time a read may take or, if the copy had been kept, the time *)
(* it is fresh for besides (StateCache.get: the age counts from the end of the read, the  *)
(* parts are of its beginning at the earliest).                                           *)
FreshMeansRecent ==
    ~answer.copy.stale =>
        \A i \in DOMAIN log :
            Misses(answer.copy, i) => \/ now - log[i].at <= MaxRead
                                      \/ now - log[i].at < Refresh + MaxRead

(* Whoever asks with ?refresh=1 and is not told that aptly failed sees every change aptly *)
(* had gone through when it asked, however many requests and reads were before it.        *)
ForcedAnswersAreNew ==
    answer.forced /\ ~answer.copy.stale =>
        \A p \in Parts : answer.copy.parts[p] >= answer.asked

(* No part of the cached copy is ever replaced by an older one: not by a slower read that *)
(* began earlier, and not by a failed read once there was a good one (the class docstring:*)
(* an outage degrades instead of blanking).                                               *)
CopiesNeverGoBack == [][\A p \in Parts : cached'.parts[p] >= cached.parts[p]]_cache

(* Every request for the state of aptly is answered, whatever aptly does.                 *)
EveryGetAnswers == \A r \in Readers : phase[r] = "waiting" ~> phase[r] = "idle"
=============================================================================

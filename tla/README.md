# A TLA+ development for aptly-gui

aptly-gui is a web interface over the REST API of aptly. It groups aptly's mirrors into
*mirror sets*, runs *write jobs* over them (create, update, switch, discard, remove), keeps
its own database of jobs, snapshot sets and accounts, and shows what aptly holds. This directory
models the part of it that writes (the job queue, what each job does with aptly, and the request
handlers that submit jobs or change the rows jobs depend on), which mirrors belong to which set,
the guard that keeps a sync from filling the disk, the cache every page is rendered from, the
accounts, and the upgrades of the database's schema.

Paths below are relative to the package, `src/src/aptly_gui/`, unless they say otherwise.

## The system

| Part | Code | State it keeps | Operations | Why it is hard |
|---|---|---|---|---|
| Job lifecycle | `services/jobs.py` (`JobRunner`), `db/models.py` (`Job`, `JobStep`, `AuditEntry`) | rows in sqlite; an `asyncio.Queue` and `current_job_id` in memory | `enqueue`, `start`, `stop`, `_run_forever`, `_run_job`, `_add_step`, `_finish_step`, `_fail_running_steps`, `_recover_orphans` | requests and the worker interleave at every await; the queue dies with the process; a failure takes two commits |
| Job bodies | `services/jobs.py` (`_create` ... `_switch`, `_await_task`) | `mirror_sets`, `snapshot_sets`, the locals of a body | one plan per job type | calls fail, are lost or time out; tasks outlive jobs; rows are deleted underneath the body |
| Write handlers | `web/app.py` | none of their own | `set_update`, `set_create_missing`, `set_switch`, `discard_submit`, `discard_set_submit`, `set_delete`, `mirror_delete`, `new_set_submit`, `adopt_submit` | they decide now, from a view that may be old, what a job does later |
| aptly | not in the repository; `aptly/client.py` calls it | mirrors, snapshots, publications, tasks | the calls of the client | it restarts and forgets its tasks; it refuses what is in use |
| State cache | `web/state.py` | the last read of aptly | `get` | five reads for five moments; kept while aptly does not answer |
| Accounts and sign-in | `web/app.py`, `auth/` | `users`, a signed cookie | setup, login, provider callback, role, active | check and change are two awaits; the provider's roles are applied without the check |
| Disk margin | `services/space.py`, and `_update`, `_await_task`, `_guard_disk` that ask it | the task's progress | the preflight, a poll, the guard | three roundings; two reads of a disk that is being written; the task goes on when the job gives up |
| Adoption and naming | `services/adoption.py`, `naming.py`, `adopt_form`, `adopt_submit` | `mirror_sets` | proposing, adopting, defining, forgetting | dashes everywhere in a name; pages that are old or sent twice |
| Migrations | `db/migrate.py`, `migrations/` | the schema and its revision | `detect_revision`, upgrade | the revision of an unstamped database is guessed; a start may be cut short anywhere |
| Client-side check | `services/verify.py` | none | reads what is published over HTTP | not modelled |
| Pages, translations, presets, configuration | `web/templates`, `i18n`, `services/presets.py`, `config.py` | the chosen language | read-only | not modelled |

A handler calls `enqueue`, which commits a row and puts its id on the queue. The one worker
takes ids off, loads the row and its mirror set, commits RUNNING, runs the body, and commits
the outcome with an audit entry. A body talks to aptly call by call; most of the write calls
are answered with a task, which the body polls. When the process starts again it marks every
row that says queued or running as interrupted.

What makes each part correct:

- *lifecycle*: a job runs at most once and one at a time, no accepted job is lost while the
  process is up, an outcome is final, and the job table, the steps and the audit log agree;
- *bodies*: only complete sets are published, base before updates; a success means what it
  says; a row goes only after what it describes; the worker always comes back;
- *handlers*: whatever they decide from an old view, the above holds; several things the
  documents say about them do not (see *Disagreements*);
- *state cache*: a view that is not marked stale is recent, a forced one is new, no view is
  older than the one before, and every request gets one;
- *disk margin*: a download that is let go on fits, and the message of a refusal says exactly
  what was missing;
- *adoption*: a set manages exactly the mirrors its form showed, with their filter, and no
  two adopted sets manage the same one; forgetting takes nothing away;
- *migrations*: a database some release left is upgraded and served, and a release that is up
  finds the schema of its models;
- *accounts*: there is an administrator, except where two awaits or the provider come in
  between; `/setup` is open exactly until there is an account.

The hazards, each at its line with the properties that cover it, are in `PROJECT.json`.

## The modules

| Module | Models |
|---|---|
| `JobQueue` | the abstract promise: accept, begin, settle, strand, halt, restart; no queue, no worker, no database |
| `JobRunner` | `JobRunner` of `services/jobs.py` with any body: rows, queue, worker, process; refines `JobQueue` |
| `Aptly` | what the client's calls do to aptly, and its tasks (external) |
| `JobBodies` | the five bodies as plans of operations over `JobRunner` and `Aptly`, and the rows of sets and snapshot sets |
| `Workflow` | the write handlers of `web/app.py` beside the worker, aptly and restarts |
| `WorkflowInvariants` | what is always true of `Workflow`, in parts: the inductive invariant that `WorkflowProofs` proves and a run checks |
| `StateCache` | `StateCache` of `web/state.py`: the lock, the copy, the reads of its parts, beside a changing aptly |
| `Accounts` | the handlers of `web/app.py` for the first account, signing in, roles and deactivation, and what `lifespan` does to the accounts |
| `DiskMargin` | `services/space.py` and its two callers, beside aptly's download and the other users of the disk |
| `Catalogue` | `services/naming.py`, `services/adoption.py`, the handlers that adopt, define and forget a set |
| `Migrations` | `db/migrate.py`, `create_all` of earlier releases, sqlite's transactions, for any scripts |
| `MigrationScripts` | the five scripts of `migrations/versions` and `ADOPTION_MARKERS` as values |
| `MCJobRunner`, `MCWorkflow`, `MCWorlds`, `MCStateCache`, `MCAccounts`, `MCDiskMargin`, `MCCatalogue` | instances for TLC |
| `JobQueueProofs`, `JobRunnerProofs`, `WorkflowProofs`, `StateCacheProofs`, `AccountsProofs`, `DiskMarginProofs`, `CatalogueProofs`, `MigrationsProofs` | theorems |

### JobRunner

`state`, `steps` and `audit` are the rows of `jobs`, `job_steps` and `audit_log`; `queue` and
`current` are the attributes of the class; `pending` holds jobs whose `enqueue` is between its
commit and its put; `pc` is where the worker is between two commits. `left` is a history
variable: jobs that were let go of without an outcome, by the worker or before they reached it.

| Action | Code |
|---|---|
| `Insert`, `Put`, `RefreshFails` | `enqueue`: the commit; the put; the refresh between them raises and there is no put |
| `Get` | `_run_forever` takes an id |
| `Drop` | the early return of `_run_job` when the mirror set is gone |
| `Begin` | RUNNING and `expected_steps` committed |
| `AddStep`, `FinishStep` | the methods of that name, one commit each |
| `Succeed` | SUCCEEDED and the audit entry, in one commit |
| `Raise`, `FailRunningSteps`, `Close` | the except clause, its commit, the commit of the finally clause |
| `Abandon` | a commit of the body raises and so does every statement after it; `_run_forever` logs "job crashed" |
| `Cancel` | `stop()` while the body runs: only the finally clause runs |
| `Crash` | the process ends anywhere |
| `Start` | `_recover_orphans`, then a new worker |

A commit is atomic and nothing else is: two requests, the worker and the end of the process
interleave between commits.

### Aptly, JobBodies, Workflow

A mirror is a set's name and a suite; a snapshot is a mirror and the minute in its name. A set
has the same suites as every other (`SuiteList`, in the order the operator typed them), and
components are left out: every body treats the components of a suite alike. The suites are
pairs of the rank that `order_suites` reads off the ending of the name, and a number.

A body is a `plan`, the operations it still has to do. One operation is a step (`NextStep`),
a call (`CallSucceeds`, `CallIsAccepted`, `CallFails`, `CallIsNotAnswered`), for most of them
a task (`TaskEnds`, `GiveUp`, `AptlyRestarts`), and the end of the step (`StepDone`,
`StepSkipped`, `StepRefused`). Five have no step: the list of mirrors, the insert and the
completion of a snapshot set, the read of a switch's target, the erasing of a row. Every call
may fail whatever the state of aptly is (refused, unreachable, no room on the disk, ...), and
may be lost after aptly has done what it was asked.

sqlite gives a new row one more than the largest id in the table, so the id of a deleted last
row is used again (`NextSetId`, `NextRecordId`); a queued job keeps the id it was submitted
with. `RecordGone` and `CommitFails` are what happens to an update whose snapshot set was
deleted by a forgotten mirror set. `EraseRow` of a removal erases the set of its id, and
the snapshot sets of that id, if there is such a set or was one when the job began: the session
keeps what it has loaded (`expire_on_commit=False`, `db/session.py:21`), so `session.get` finds it
again. If the set was gone before the job began, nothing is erased.

Two handlers end their session before they enqueue: `new_set_submit` commits the set first, and
`set_delete` reads the row first and then waits for the cached state. `halfway` holds these
requests (`NewSetSubmit` and `NewSetEnqueue`, `SetDeleteRead` and `SetDelete`), and everything else
may happen in between. `set_update`, `set_create_missing` and `set_switch` look at nothing: with
"stale" among the `Handlers` their forms may name a row that is gone, or a snapshot set of another
set, and it is the job that has to find out. `_snapshots_of` goes by the beginning of a name, so a
snapshot of a mirror whose name continues another's blocks the other as well (`Continues` lists
such pairs).
`discard_set_submit` is one step, although it reads its row before the cached state. The names are
fixed when the row is read, and a row that is erased or grows afterwards is met by a discard that
waits in the queue; that it does so within the handler, and the view is the newer of the two, is
left out, because the second step triples the states of the run.

A handler that decides from the cache sees aptly as it is now or as it was at some earlier
read (`cached`), or nothing at all if there has been none. `seen` in a request for a switch is history:
the snapshots the operator was shown. `strayed` is history too: a job has ended while aptly
was still at work for it. Properties about what is published hold while it is false; how it
becomes true is under *Disagreements*. `remade` is history as well: snapshots that were made
while a record listed one of the same name, which the minute in the name lets happen.

`MaxJobs`, `MaxSteps`, `MaxSets`, `MaxRecords`, `MaxMinute` and `MaxPending` bound what
would grow for ever; `Handlers` chooses the handlers an instance exercises. In each instance
`MaxRecords` and `MaxSteps` leave room for all its jobs, so no body is stopped by a bound
(`WorkerComesBack` would be violated if one were).

### StateCache

`cached`, `holder` and `waiting` are `_cached` and the two halves of `_lock`; `phase`, `force`,
`asked`, `began` and `got` are the locals of the requests inside `get`. `asyncio.Lock` is fair:
a request that finds others waiting queues behind them, hence `waiting` is a sequence.
`log` is aptly: the changes it has gone through, each of one part. What was read of a part is
the number of changes by then. `answer` is what `get` returned in the last step.

| Action | Code |
|---|---|
| `Ask` | a handler calls `get`; `force` is `?refresh=1` of `render` |
| `Reuse` | the lock is got, the copy is fresh and the request not forced |
| `BeginRead`, `ReadPart`, `ReadEnds` | `_read`: the five calls of `asyncio.gather`, answered in any order; the new copy |
| `ReadFails` | the except clause: the last copy, or an empty one, marked stale |
| `Change`, `Tick` | aptly changes; time passes, but a read is over after `MaxRead` |

Calls of a failed `gather` that are still under way go on and touch nothing, so they are left
out. `MaxRead` stands for the client's timeout on each call; the timeout is per socket
operation, so an aptly that trickles its answer is outside the model.

### Accounts

`users` is the table, `hasUsers` is `app.state.has_users`, `configured` the deployment's
`admin_username`, `signedIn` the browsers with a session cookie. `request` holds, for each
request being handled, how far it is and what it has loaded. Names the module gives to code:

| Action | Code |
|---|---|
| `Start`, `End` | `lifespan`: `_reconcile_admin`, `_any_user_exists`; the process ends in any way |
| `AskSetup`, `CommitSetup`, `EndSetup` | the guard lets a request through to `setup_submit`; its commit; `has_users = True` |
| `Login`, `Logout` | `login_submit`, which changes nothing else that matters here; `logout` or the cookie's age |
| `AskProvider`, `FirstVisit`, `Visit` | `oidc_callback` up to its select; its commit for a name without and with an account |
| `AskRole`, `AskActive` | the guard admits an administrator's request |
| `Load`, `Check`, `Commit` | `session.get`; the query of `_would_orphan_admins`; the commit |

A commit writes a column only if it differs from what the request loaded, as the ORM does.
`seen` is history: the administrators at the time of the check. Roles other than the
administrator's are told apart only by the guard of other paths, which is not modelled.

### DiskMargin

aptly counts a download in bytes and reports the disk in whole MiB, so `free`, `task.left` and
`adrift` are bytes and everything `check` sees is divided down. `remaining` is what a poll has
read and the guard compares a call later; in between aptly fetches on and others write.

| Action | Code |
|---|---|
| `Begin`, `Preflight` | `_update` starts; `check` without a download |
| `Post`, `Synced` | `update_mirror` for the next mirror; the loop is over |
| `Poll` | `get_task` and `task_progress`: numbers only once the download is planned |
| `GuardPasses`, `GuardStops` | `_guard_disk` asks for the storage and compares |
| `GiveUp` | a call fails or the process ends; aptly's task goes on (`adrift`) |
| `Plan`, `Fetch`, `FetchEnds`, `Drift`, `AptlyRestarts`, `OthersWrite`, `OthersDelete` | aptly and the disk |

`guarded` and `foreign` are history: the guard has passed during this task, and what others
have written since. `GuardedDownloadsFit` would be false without `foreign`: nothing reserves
the room.

### Catalogue

A name is a sequence of words, which the program joins with dashes: where the set ends and the
suite begins cannot be told from the name, so `Splits` reads them back as the code does, from
the end and with aptly's own fields. A set here has suites, components, a naming
pattern, an upstream and a filter; architectures, keyrings, and the guesses that fill in the
rest of the form are left out. Other fields of the form than the hidden ones may be edited by
the operator; the model sends a proposal as it was shown.

| Action | Code |
|---|---|
| `ReadMirrors`, `AdoptForm` | `adopt_form`: the cached mirrors, which may be old, then the rows |
| `AdoptSubmit` | `adopt_submit`, which may be sent again; the unique key of the name refuses |
| `NewSetSubmit`, `Forget` | `new_set_submit`; `set_delete` with "keep" |
| `CreateMirror` | one step of `_create` with `spec_for`; the job may stop after any |
| `OthersCreate`, `OthersDrop` | aptly's command line, and removals by other jobs |

### Migrations

A release is the number of revisions it knows. Releases up to `lastBuilt` (which one it was is
not known, so every one is tried) built missing tables from their models and recorded nothing;
later ones run `upgrade_database`. A script is a sequence of statements, each of which adds a
table or a column, and the process may end between any two.

`upgrade_database` runs in one `engine.begin()`, but Alembic leaves the transaction to the
caller, SQLAlchemy leaves it to the driver, and Python's `sqlite3` opens one before the first
INSERT, UPDATE or DELETE and never before DDL. So `tx` is `NoTx` until a revision is written:
an adopted database is upgraded in one transaction, while the scripts of a database that is new
or has a revision are committed statement by statement up to their first revision. This is
external behaviour, modelled as `Statement`, `Stamp` and `Commit`.

| Action | Code |
|---|---|
| `Deploy`, `Start`, `End` | another image; `lifespan`; the process ends |
| `BuildTable`, `Built` | `create_all` of an earlier release |
| `CheckRevision`, `RevisionUnknown` | `_prepare_and_upgrade` up to `command.upgrade`: detection and adoption; a revision of a newer release |
| `Statement`, `Collide`, `Stamp`, `Commit` | the scripts, a statement that cannot run, the revision, the end of `engine.begin()` |

`found` and `misread` are history: the start found a database as some release leaves it; a
half-built database without a revision was adopted.

## The runs

| Run | Instance | What it shows |
|---|---|---|
| `jobrunner` | 3 jobs of up to 2 steps, any number of restarts | the invariants of the lifecycle, the refinement of `JobQueue`, and that every accepted job settles. One job pending, one queued and one in hand at the same time need three |
| `workflow` | 2 jobs, 2 suites typed in the wrong order, 2 names, one set at a time, in three worlds: a set that was snapshotted once (update, switch, discard of a set and of one snapshot); one with mirrors and no snapshots (update, create, remove, forget, adopt; pages are looked at before the first job, so that a removal may decide from an old view); nothing at all (new, adopt, create, forget, remove a lone mirror) | what is published is complete, in order and what a successful switch says; complete sets can be published; rows go last; a create job that succeeds leaves all mirrors, however it was interrupted before; the total of a bar is what was announced and a success ends it; aptly has one task of the program at a time; the worker comes back; and `WorkflowInvariant`, from which most of this is proved, in every state |
| `state_cache` | 2 requests, 2 parts, 2 changes, 3 moments; a copy is fresh for one tick and a read takes at most one | one request reads while the other waits or aptly changes one part or the other; the oldest answer the properties allow needs exactly these ticks |
| `accounts` | 2 names, 2 roles, 2 requests, deployments with and without a configured administrator | two administrators demote each other, or one is promoted between the load and the commit of another request; two first accounts; a provider's account becomes the configured one |
| `disk_margin` | a MiB of 2 bytes, a GiB of 2 MiB, disks of 4 and 5 MiB, three margins, two mirrors of 0, 3 or 6 bytes, 2 bytes of others, at most 3 adrift when an update begins | a download that is guarded fits; a refusal says what was missing. Even and odd bytes and sizes make every rounding go both ways |
| `catalogue` | five starting points (a whole grid; parts of two upstreams; both namings; a name with its suite in it twice; a name that can be cut at other dashes beside a mirror without components), one mirror more or less, two definitions, 2 pages, 2 sets | adopting covers the mirrors shown with their filter, complete means exact, sets that were adopted complete never overlap, forgetting is the inverse |
| `migrations` | the five scripts, every release, every `lastBuilt`, starts cut short anywhere, steps back | whole databases are upgraded and served; being up means the schema of the release |
| `unchosen`, `forgotten`, `first_visit`, `torn_upgrade`, `name_taken` | the smallest instances (`torn_upgrade` and `name_taken`: those of `migrations` and `catalogue`) | the disagreements below |

Two jobs are enough for `workflow` because one is in hand while the other is queued, fails or
is interrupted before it, and the snapshot set of minute 0 stands for all earlier updates;
`unchosen` needs three. Two suites are enough to have a first and a later one. The worlds share
one run and differ in what the process finds and in what users ask for: all handlers on one
database are out of TLC's reach. `MaxMirrors`, `MaxForms`, `MaxChanges`, `MaxSets` of the
other modules are named where they are declared; two sets and two pages are what an overlap
takes, and a third would only repeat one of them. `migrations` has no bound: the scripts are
the real ones.

**Properties.** `OneWriter` is the claim of the single worker: until a task has been left to
itself (`strayed`), aptly never has two of the program's tasks, and the one it has is of the job in
hand, over refusals, restarts of aptly and jobs enqueued meanwhile. `HonestProgress` is about the
overall bar (`done_steps` of `total_steps`): the total never moves from what was announced, and a
job that succeeds has done it all. A create job is the exception: it has done it all but what it
skipped.
`BaseBeforeUpdates`, `SwitchMeansPublished`, `ErasedMeansGone` and `CreateMeansMirrors` say
what a step may never do; `NoHalfTakenSetPublished` and `CompleteSetsExist`
relate the rows to aptly and to each other in every state. `WorkflowInvariant` is
what all of them depend on: what the body in hand has done so far, its rows, its task, what aptly
serves. `NoHalfTakenSetPublished` excepts the snapshots in `remade`; the sequence that makes the
exception necessary is under *Disagreements*.

`FreshMeansRecent`, `ForcedAnswersAreNew` and `CopiesNeverGoBack` relate what a page shows to
the history of aptly. `AdminKeptUnlessOvertaken` says exactly how an instance can lose its last
administrator in spite of "Refuse the change that would leave nobody able to administer the
instance" (`web/app.py:1113`): by a sign-in, because `oidc_callback` does not ask, or by a
request that loaded the account, or counted the others, before another request's commit. TLC
reaches all of them; then nobody can undo it but the provider or a restart with a configured
administrator. `ConfiguredAdminOutlastsProvider` says why that restart helps for good.

`GuardedDownloadsFit` is about the margin to within one MiB, which is what rounding both figures
down costs. `CompleteMeansExact` says why comparing two numbers is enough: a mirror that is
grouped is always one of the combinations. `AdoptionsNeverOverlap` says that no mirror is adopted
twice, and of complete proposals that their grids do not meet (the grid of an incomplete one may
claim a mirror of another upstream). It excepts a name that a mirror of another suite or component
has taken over between two pages: `u-noble-updates-main` is a mirror of `u-noble` if its suite is
`updates`, and of `u` if it is `noble-updates`, so the second page proposes a second set for it.
`WholeDatabasesUpgrade`
and `ServingMeansCurrent` have the exceptions that the autocommitted DDL makes necessary, and
`torn_upgrade` shows that they are.

**Fairness.** `JobRunner` assumes that the worker, and a request between commit and put, go
on: both are tasks of an event loop, and the client bounds every call with a timeout.
`Workflow` assumes the worker's part of this and that aptly ends every task it has accepted; `_await_task` has
no limit of its own, so without this the queue does stand still. A failing poll, a crash and a
restart of the process or of aptly are possible and never assumed. Nobody has to submit or to
restart anything. `StateCache` assumes that a request that has its turn runs, and that a read
is answered or given up. `Migrations` assumes that a start goes on as long as the process is there
(one coroutine before anything is served); starts, ends and deployments are never assumed.
`Accounts`, `DiskMargin` and `Catalogue` have no liveness property and assume nothing.

## Disagreements

| Run | The document | The code |
|---|---|---|
| `unchosen` | `src/README.md:53`: nothing reaches clients until that set is published explicitly | a queued switch publishes the row that has its id by then |
| `forgotten` | `web/templates/set_delete.html:10`: forgetting a set is always safe | the running update of the set loses its row and is left saying running |
| `first_visit` | `db/models.py:111`: a new account is active; `web/app.py:805`: "That account is deactivated." | the default is applied at the commit and `oidc_callback` asks before, so the first sign-in of every provider account is refused; the second one works |
| `torn_upgrade` | `src/tests/test_migrations.py:1`: upgrading an existing database must not need a wipe | a start that ends inside a script leaves some of its columns without its revision, and every later start fails on them |
| `name_taken` | `src/README.md:9`: existing mirrors can be adopted into sets | mirrors of another upstream, or later ones, are offered under the name of a set that exists (`trixie-main` and `trixie-security-main` of Debian's two archives both give `trixie`); adopting them ends in an `IntegrityError` nobody handles |

Others were met while modelling and are not runs:

- `src/KONCEPT.md:30`, every write action has its author and result in the audit: a restart
  interrupts jobs without an entry.
- `services/jobs.py:87`, the worker task is the lock against two writers: a task outlives its
  job when the answer to its post is lost, a poll fails, the disk guard raises or the process
  ends (`strayed` becomes true in `CallIsNotAnswered`, `GiveUp` and `ProcessEnds` of `JobBodies`), and the next job posts its task beside it.
- `services/jobs.py:53`, "so the overall bar is honest from the start": `done_steps` counts
  SUCCEEDED only (`db/models.py:243`) and a create job that is run again marks what it finds SKIPPED
  (`services/jobs.py:327`), so it succeeds with its bar short of the end, at nothing of two when
  both mirrors were there. `HonestProgress` says by exactly how much.
- A job whose mirror set is gone when its turn comes (`Drop`) is returned from without a word, and
  one whose `enqueue` fails at the refresh (`RefreshFails`) is never put on the queue; the rows of
  both say queued, and their pages wait, until the next restart. `QueuedIsReachable` and
  `EveryAcceptedJobSettles` except these jobs (`left`).
- A discard names the row of its snapshot set by id. If the row is deleted while the job waits and
  its id is given to another snapshot set, the discard deletes the snapshots it was asked to, and
  then that other row (`services/jobs.py:434`): aptly keeps the snapshots, and no set has them.
- `web/app.py:976`, one snapshot of a set is never discarded by itself: it can be, when its
  discard was submitted before the update recorded it (`DiscardSubmit` between
  `CallSucceeds` and `StepDone`).
- `services/jobs.py:32`, the stamp of a snapshot name is the minute of its update: two updates
  of a set within one minute give their snapshots the same names. aptly refuses the second while
  the first exists, but an update that fails after its first snapshot leaves an incomplete record;
  a discard of that record which is interrupted after the snapshot is gone and before the row is
  leaves a record of nothing; an update in that minute makes the snapshot again and completes; and
  a switch then publishes a snapshot that an incomplete record lists. It takes four jobs in one
  minute, more than the run has, and came to light when the property without `remade` could not
  be proved.
- `src/README.md:58`, a sync gives up mid-download rather than fill the disk: the job does, and
  aptly's task goes on fetching (`adrift`).
- The docstring of `AptlyState` calls it "a consistent read of aptly at one moment"
  (`web/state.py:12`), and the parts of a copy are of different moments (`ReadPart`).
- The grid of an incomplete proposal may list as missing, and its set then claim, mirrors that
  exist with another upstream or several components.

## The proofs

`JobRunnerProofs` proves for every `MaxJobs` and `MaxSteps` (both positive naturals, the only
assumptions) what the run `jobrunner` checks for 3 and 2, except liveness.

The statements a reader wants, `QueuedIsReachable` and `OneJobInHand`, are not inductive:
`_run_job` never looks at the state of the row it is given, so that a queued id belongs to a
queued row, and only once, has to be carried along. The inductive invariant `IInv` is the
conjunction of

1. `TypeInv`: the types, and which values of `up`, `pc`, `current` and the queue go together;
2. `PlaceInv`: `OnePlacePerJob` (an id is in one of *pending*, *queue*, *hand*, *left*, and
   its row is in the state that place stands for) with the two statements above;
3. `AuditInv`: `AuditAgreesWithJob`, and where the audit stands while the worker is between
   the commits of a failure;
4. `StepsMatchOutcome`.

Each part is shown to be preserved by a lemma with one step per action; each later part uses
the earlier ones. `AppendPlaces`, `TailPlaces` and `RunningFailedProperties` say what the
queue and the failing of steps do to sequences. From `IInv` follow `TypeCorrect`, `OnePlace`,
`NoJobIsLost`, `RunningIsInHand`, `AuditAgrees`, `StepsAgree`, and `Implements`: under the
mapping `Status`, every action of `JobRunner` is an action of `JobQueue` or a stutter.
`JobQueueProofs` then proves of `JobQueue` that two jobs are never under way at once and that
an outcome is final.

`StateCacheProofs` proves the type invariant and the three safety properties of the cache for
every number of requests, parts and changes and any times (naturals, the only assumptions). The
key is `ReadInv`: what a reading request has of a part is at least as new as the cached copy
and as the request itself, because only one reads at a time and it starts with nothing; and
`RecentInv`: a change that a read has missed is no older than the read.

`AccountsProofs` proves all four properties of the accounts for any names, roles, requests and
deployments, assuming only that there is a role "admin". `AccountsInv` adds to the types what a
request in hand relies on (accounts are never removed, so what it loaded still exists);
`CarefulInv` says that a request past its check, if it may take an administrator away, has seen
another one; `ConfiguredInv` that the configured account is local and was so when a sign-in
loaded it.

`WorkflowProofs` begins with the lemma `KeepsToJobRunner`: every request, call, answer and body
step is an action of `JobRunner` or leaves its variables alone, as it is written in the modules. It
says nothing new by itself; it is what carries the theorems of `JobRunnerProofs` over to the whole
write side, and four are stated again for it. Its fairness is not part of this.

What is proved beyond that is that every safety property of `Workflow` holds for every number of jobs, steps,
names, suites, sets, records and minutes. None of them is inductive: that a switch has published a
suite when it says so, or that a row lists every snapshot when it says complete, depends on what
the body did many actions ago. `WorkflowInvariant`, together with `IInv` of `JobRunnerProofs`
(which says whose row `current` is), is what carries it along:

1. `TypeInvariant`: the types; a request names the rows its kind needs;
2. `BodyInvariant`: the plan of the body in hand is what is left of a plan known from its
   request (`Ends`), so the operations before it are known. Each has had its effect: the mirror
   is there, the snapshot is in `taken`, or published, or gone. The steps added are as many as
   there were operations with a step, plus the one under way;
3. `TaskInvariant`: a job that has not begun has no task, the job in hand only the one it waits
   for, and nobody else has any while `strayed` is false;
4. `RecordsInvariant`: a record lists snapshots of one set and one minute, no two records the
   same one (but for `remade`), and aptly holds them unless their discard has begun;
5. `PublishedInvariant`: aptly holds what it serves;
6. `NoHalfTakenSetPublished` itself;
7. `StepsInvariant`: a job has at most the steps that were announced, exactly those when it
   succeeds, and skips one only if it creates.

The difficult steps are those that change what an earlier effect was about: a delete by a task
that has outlived its job (excluded by 3 while nothing has strayed), a forgotten set whose row id is
given to another (the body keeps the name; its record is found `RecordGone`), the end of a publish
(by 4 a snapshot is listed by the row the switch read and by no other). One lemma shows
that every action keeps the types, one each for the body, the tasks, the records, what is served and
what is published (`TypesAreKept`, `BodyIsKept`, `TasksAreKept`, ...); the plans themselves need that
`OrderSuites` is a permutation by rank, `SuitesInOrder`, which is proved of `SortedBy` by counting
what comes before each element. From the invariant follow `NothingHalfTakenIsPublished`,
`CompleteSetsAreThere`, `ServedIsHeld`, `OneWriterAtATime` (from 3: the task of the job in hand is
the one operation it waits for) and `ProgressIsHonestAlways` (from 7, with `StepsMatchOutcome`: the
steps of a success are done or skipped, so counting the ones gives the others), and,
for the step at which a job ends or a publication changes, `BasesComeFirst`,
`SwitchesArePublished`, `CreationsAreComplete` and `RowsGoLast`. The assumptions on the constants
are that suites are pairs of integers and `SuiteList` a sequence of them, that bounds are naturals,
that `NoName` is no name, and that the rows found at first have different names, as the unique key
of `mirror_sets.name` says, and that the clock can reach minute 1 when a set is found synced
at minute 0. There may be no names and no suites.

`DiskMarginProofs` proves all three properties of the guard for any units, margins, disks and
sizes. `PassingMeansRoom` and `VerdictsAreExact` are the arithmetic. `DiskInv` adds
`ReadIsNotShort`: what a poll has read is not less than what is left when the guard compares
it, because a download only shrinks.

`CatalogueProofs` proves all six properties for any words, upstreams and mirrors. It assumes of
what aptly holds at first that it is finite with one mirror to a name (`FoundAssumption`), of
mirrors others make and definitions users type that they have the types of such, and of the bounds
that they are naturals. `SplitNamesTheMirror` is the round trip of a name; `OneSetPerMirror` says that a
mirror, its name cut with its own suite and components, belongs to one naming and one set only;
`CountingIsEnough` is the counting argument of `complete`: a group has as many names as mirrors,
its grid has at most as many combinations as the product, and contains the group. `CatalogueInv`
carries what a form and a row owe to the proposal they came from. `AdoptionsNeverEverOverlap`
combines them: two rows have different names because the key is unique, so a mirror both grids
contain would have been proposed under two names, which `OneSetPerMirror` excludes as long as its
suite and components are the same on both pages.

`MigrationsProofs` proves the three invariants for any scripts and markers that satisfy
`UpgradesAssumption` and `MarkerAssumption` (everything is added once, a column after its table,
a marker is something its revision adds), which TLC checks of the real ones. `AdoptionIsExact`
is about detection; `MigrationsInv` says of each place of a start what is on the disk, in the
transaction and still to come.

Only model-checked is liveness, which is out of the prover's reach: `EveryAcceptedJobSettles`,
`WorkerComesBack`, `EveryGetAnswers` and `WholeDatabasesAreServed`. Every other property of a
passing run is a theorem. No module declares a RECURSIVE operator.

## The plan

1. *(done)* `JobQueue`, `JobRunner`, `Aptly`, `JobBodies`, `Workflow`, their runs, the proofs
   of the lifecycle.
2. *(done)* `StateCache` and `Accounts`, their runs and proofs.
3. *(done)* `DiskMargin`, `Catalogue`, `Migrations`, their runs and proofs.
4. *(done)* The theorems of `JobRunnerProofs` for the whole write side.
5. *(done)* `WorkflowInvariants` and the proofs of the safety properties of `Workflow` and
   `Catalogue`.
6. *(done)* `set_delete` and `new_set_submit` in two steps, forms that are old or made up.
7. `Workflow` with views whose parts are of different moments, as `StateCache` makes them, and
   `discard_set_submit` in two steps.

## Not modelled

Templates and formatting, translations, presets, configuration, password hashing, cookies and
the protocol of the provider have no state that outlives a request, or are the business of a
library. `services/verify.py` reads what is published and changes nothing. `reconcile` of
`services/jobs.py` and the downgrades of the migrations have no caller. Architectures,
keyrings, signing keys and publication prefixes are carried from a form to aptly unchanged.

# ReliQueue: specification, model checking and proofs

TLA+ modules that model the core of ReliQueue (a job queue in Postgres: a FastAPI
service, a table of jobs, and worker processes that poll it), the TLC runs that check
them on small instances, and theorems about them that TLAPS checks for every value of
the constants. Paths such as `services/job_claiming.py` are relative to
`src/backend/app/`.

## 1. The system

### Components

| Component | State it keeps | Operations | What makes it correct |
|---|---|---|---|
| Job rows (`models/job.py`, `db/session.py`) | table `jobs`: status, owner, lease, attempts, `run_at`, `completed_at`, key | loaded into a session's objects; a commit sends `UPDATE jobs SET <changed columns> WHERE id = ?` | columns that are assigned together stay together, whoever else writes the row |
| Submission (`services/jobs.py`, `api/routes/jobs.py`, `schemas/job.py`) | `jobs.idempotency_key` (unique) | `create_job` | one job per key; equal data is replayed, other data refused; never a 500 |
| Claiming (`services/job_claiming.py`) | `jobs`, `workers.current_job_id` | `claim_next_job` under `FOR UPDATE SKIP LOCKED` | one worker per claim, attempts counted once |
| Completion, failure (`services/job_completion.py`, `services/job_failure.py`) | the same, and `run_at` | `complete_job_success`, `complete_job_failure`: unlocked read, ownership check, later commit | only the owner decides a job's end; retry while attempts are left, dead letter after |
| Lease recovery (`services/job_lease_recovery.py`) | the same | `recover_expired_leases` under `FOR UPDATE SKIP LOCKED` | no job stays `running` when its worker is gone; no live job is taken away |
| Cancellation, manual retry (`services/job_cancellation.py`, `services/job_manual_retry.py`) | the same | unlocked read, status check, later commit | cancel pending jobs only; retry dead-lettered or cancelled ones only |
| Worker loop (`worker/runner.py`) | `last_recovery_at`, the claimed job, the stop event | register; per round: recovery scan if due, heartbeat, claim, handler, completion, poll wait | every job is handled in the end; recovery is never starved; shutdown between rounds |
| Worker registry (`services/workers.py`, `models/worker.py`) | table `workers`: `current_job_id`, heartbeat, status | register, heartbeat, list, count, peek | a worker row points at the job the worker runs |
| Event timeline (`models/job_event.py`) | table `job_events`, append only | inserted by each writer in its own transaction | the event committed last explains the status |
| Retry policy (`services/retry_policy.py`) | none | `calculate_retry_delay_seconds` | a retried job is hidden for a bounded time, and only while it has attempts left |
| Metrics (`services/metrics.py`) | none | `get_metrics`: several SELECTs in one transaction | numbers of one answer fit together although each has its own snapshot |
| Handlers (`worker/handlers.py`) | none | return or raise after any time | at-least-once execution is the contract |
| Verification and load test (`scripts/verify_queue.py`, `load_test.py`) | rows fetched so far, deadline | submit, page through `GET /api/jobs`, wait, audit the claims, judge | paging misses nothing; a verdict is about the batch it names; the duplicate-claim check is right |
| Demo (`scripts/run_demo.py`, `demo_common.py`, `seed_jobs.py`) | the answer of `/api/metrics` | seed a profile, poll until idle, report | the reported mix is the one the profile's handlers imply |
| Dashboard (`static/dashboard.html`) | two selections, what each panel shows, the banner, answers under way | refresh every 5 s, clicks on rows | shows what was clicked, and the latest data; calls a worker stale only if it is down |
| Configuration, logging, migrations, health | none of the queue's | | |

### How they interact

All interaction goes through Postgres. API requests and workers are processes with
sessions of their own (`expire_on_commit=False`, isolation READ COMMITTED, the default of
both asyncpg and Postgres). Two services lock what they read (claim and recovery, with
`SKIP LOCKED`); the other four read the row, check it in Python and write it at the commit. Nothing
in an UPDATE's WHERE clause repeats the check, and there is no version column, so the
write lands on whatever the row has become.

### What is hard

* An unlocked check that is out of date at the commit: cancel against claim, retry against
  retry, completion against recovery and the next worker's claim.
* An UPDATE that writes only the changed columns: two overlapping transactions leave a *mixture*
  of rows, which no service function would ever write.
* A worker that dies between any two steps, restarts under the same id with
  `current_job_id` still set, and competes for its own old job.
* A handler that outlives its lease (nothing renews it), so that two workers run one job.
* The recovery scan shares the loop with claiming: it must not be starved, and it puts a
  job back without looking at `max_attempts`.
* A scan that locks many job rows at once and then, one by one, rows of workers that other
  transactions update too.
* A loop that does everything in turn: a long handler delays the heartbeat, the scan and the
  next claim.
* Two submissions that look up one idempotency key before either has inserted it, and an answer that is
  lost after the job has been committed.
* Claims that overlap: each skips the rows the other has locked, and one of them may be rolled back.
* A client that pages by offset through a list that grows at its front, where the count and the
  page of one answer come from two statements.
* Metrics read in several statements, two of which count the last hour only, while a job that waits for its
  retry, or runs, is about to be something else.
* Answers to a page that arrive in another order than they were asked for.

`PROJECT.json` lists each of these hazards at its line, with the properties that watch it.

## 2. The modules

| Module | Models | Extends / instantiates |
|---|---|---|
| `JobRow` | one row of `jobs`, what each service function assigns, what the UPDATE leaves | |
| `JobQueue` | requests, workers, clocks and the three tables; the properties | `JobRow`; `JobLifecycle` by refinement mapping |
| `ClaimAudit` | the same queue with the record that `verify_claims` audits | `JobQueue` |
| `JobLifecycle` | abstract: the state diagram of `src/README.md` | |
| `RowLocks` | the row locks of every transaction, statement by statement | |
| `WorkerLoop` | the loop of `run_worker` against the clock | `JobLifecycle` by refinement mapping |
| `Submission` | concurrent `POST /api/jobs` | `IdempotentStore` by refinement mapping |
| `IdempotentStore` | abstract: the idempotency rules; a job is created at one moment, its client told later or never | |
| `BatchWatch` | `load_test.py` and `verify_queue.py` waiting for a batch, and `list_jobs` under them | |
| `DemoRun` | `run_demo.py`, `get_metrics` and the queue under them | |
| `Dashboard` | the page `/dashboard` and the answers of the API | |
| `MCJobQueue`, `MCClaimAudit`, `MCRowLocks`, `MCWorkerLoop`, `MCSubmission`, `MCBatchWatch`, `MCDemoRun`, `MCDashboard` | instances for TLC | the module they are about |
| `JobQueueProofs` | theorems about the queue and its audit in any interleaving | `ClaimAudit` |
| `JobQueueRefinement` | theorems about jobs that no stale commit has written over | `JobQueueProofs` |
| `RowLocksProofs`, `WorkerLoopProofs`, `SubmissionProofs`, `BatchWatchProofs`, `DemoRunProofs`, `DashboardProofs` | theorems | the module they are about |

### `JobRow`: a row and its UPDATE

`Row` has the columns that decide anything: `status`, `locked_by`, the lease
(`locked_at` and `lease_expires_at` are always assigned together: one Boolean
`leased`), `attempts`, and whether `completed_at` is set. `ClaimedBy`, `Succeeded`, `Failed`,
`Recovered`, `Cancelled` and `ManuallyRetried` are the assignments of the six services.
`Flush(row, loaded, new)` is SQLAlchemy's UPDATE: a column changes in the stored row only
if the object's value differs from the *loaded* value. This is why a cancelled job can keep
an owner: `cancel_job` touches `status` only, and a claim may have set the rest in between.
Likewise `manual_retry_job` resets `locked_by` only if it loaded an owner.

`attempts` is compared with 0 and `max_attempts` only, so it saturates one above
`MaxAttempts`. `last_error`, `started_at`, heartbeat times and payloads decide nothing and
are left out.

### `JobQueue`: actions and code

| Action | Code |
|---|---|
| `CreateJob` | `create_job` for a new job |
| `CancelLoad`, `CancelCommit` | `cancel_job`: read and check; assign, event, commit |
| `RetryLoad`, `RetryCommit` | `manual_retry_job`, the same |
| `Abandon` | a request that fails before its commit |
| `Start`, `Stop`, `Crash` | `register_worker`; SIGTERM seen between rounds; death or an uncaught exception anywhere in a round |
| `ScanStart`, `ScanCommit` | `recover_expired_leases`: the locking SELECT and the reads of the worker rows; the commit of jobs, events and pointers |
| `Claim`, `ClaimNothing` | `claim_next_job` |
| `FinishLoad`, `GiveUp` | the handler has ended; `complete_job_*` reads the row and checks the owner |
| `CompleteSuccess`, `CompleteFailure` | the commits of `complete_job_*` |
| `LeaseLapses`, `BackoffEnds`, `ScanTimer` | the clock passes `lease_expires_at`, `run_at`, the recovery interval |

The variables `jobs`, `last_event` and `current_job` are the tables; `due` and `lapsed` hold the outcome
of comparing `run_at` and `lease_expires_at` with the clock; `pc`, `task`, `scan_due` are
the locals of `run_worker`; `scan` and `txn` are the open transactions. `overwritten` is a
history variable: the jobs that some commit has written over a row that differs from the one it had
loaded.

Reductions, each with its reason:

* **A claim is one step.** From the SELECT to the commit the row is locked; other claims
  and scans skip it, and unlocked writers wait for it. An unlocked *read* in between sees the old
  row, which is the same as reading before the claim. A worker that skips the row finds nothing, as it does
  after the claim; that it may find nothing although the claim is then rolled back costs it a poll wait, which is
  in `WorkerLoop`.
* **The flush and the commit of an unlocked writer are one step.** From the flush on the row is
  locked as above. What matters is the gap between the read and the flush, and that is
  modelled.
* **A scan is two steps**, because it reads worker rows *without* a lock after it has locked job rows:
  a worker may restart and claim another job in the gap. While it is open its jobs are
  `RowLocked`.
* **Which due job is claimed is left open**: nothing in this module reads priority or
  `created_at`.
* **One queue.** Rows of other queues never meet these workers.
* **`GET` requests and heartbeats** change nothing that is read here.

`JobLifecycle` gives each job a status, an owner and a number of tries, and one action per arrow of
the README's diagram, plus `cancelled --> pending`, which the API table of the same README
has. The refinement mapping shows a job to it as it is until it is `overwritten`; from then on nothing is
promised about it. The property `FollowsLifecycle` therefore says exactly this:
*the only way out of the documented state diagram is a stale commit.*

So it bounds the lost updates among the writers; it does not catch them.

Two modules implement it. In `WorkerLoop` claims overlap, each of the other services is one step, and nothing is
`overwritten`: there the property says that two claims never take one job, and that neither the clock nor a
scan of many jobs at once lets a job do anything else.

`last_event` is the event that was *committed* last. `GET /api/jobs/{id}/events` sorts by `created_at`, which is
the start of the transaction (`services/jobs.py:113`, `models/job_event.py:29`) and is not modelled: after a stale cancel it
lists `job_claimed` last although the job is `cancelled`, and `job_failed` and `job_retry_scheduled` of one
transaction tie. `TimelineAgrees` is about the order of the commits only.

### `ClaimAudit`

`verify_claims` (`scripts/verify_queue.py:80`) collects the attempt numbers in the `job_claimed` events
of a job and reports a number that occurs twice. `ClaimAudit` runs `JobQueue` unchanged and lets every
claim and every manual retry write the record as well; no action of the queue reads it. `DuplicateOnlyAfterRetry`
relates the column `attempts`, which recoveries, failures and stale commits write, to the events of
several transactions: a number can come again only if it was reset by hand. The order of
the events by `created_at` is left out here too; the audit counts them and does not look at their order.

### `RowLocks`

A transaction is a script of lock requests. A `SELECT ... FOR UPDATE SKIP LOCKED` takes free
rows and never waits; an UPDATE waits for the row's holder. The ORM sends UPDATEs when it
flushes: before the next query of the session, and at the commit.

| Action | Code | Locks, in this order |
|---|---|---|
| `RequestBegins`, `RequestCommits` | `cancel_job`, `manual_retry_job` | the job, at the commit |
| `HeartbeatBegins`, `HeartbeatCommits` | `register_worker`, `touch_worker_heartbeat` | the worker, at the commit |
| `ClaimBegins`, `ClaimCommits` | `claim_next_job` | the job (skipping locked ones), the worker at the commit |
| `CompletionBegins`, `CompletionCommits` | `complete_job_success`, `complete_job_failure` | the job, when the worker row is read; the worker, at the commit |
| `ScanBegins`, `ScanNext`, `ScanCommits` | `recover_expired_leases` | all lapsed jobs at once (skipping locked ones); then each worker row that points at one of them, when the next worker row is read or at the commit |
| `Lock` | the flush | one UPDATE that waits for its row |
| `RequestFails`, `Crash` | a request or a process that ends before its commit | releases all |

`todo` is what a transaction has changed and not flushed, `holds` what it has locked, `loaded` the worker rows in
a scan's session. The session's identity map holds rows weakly: a row that nothing refers to any more may be
forgotten and read again, or not (`kept`); both are allowed. Of the data only the owner, the
lapse of the lease and the pointer are kept, because they decide which rows a scan locks. Foreign keys
add no waiting: their `FOR KEY SHARE` locks are on rows the transaction has updated itself. The module
justifies the reductions of `JobQueue`: a transaction that waits for a row does so before its commit, where `JobQueue`
has the commit disabled (`RowLocked`), and no circle of waiting transactions forms.

Scans alone take several jobs and several workers, so only scans could wait for each other in a
circle, for worker rows. `ScansFitLease` is the contract that excludes it: a lease granted while a scan is open
outlives that scan (60 s against a few statements). *Without it two scans can deadlock*: scan 1 reads a
pointer before the worker claims another job, that job lapses, and scan 2, started later, comes to
clear the same worker row; two workers like this, in opposite order, need four jobs and three processes. Postgres
would end one of them, the exception would end that worker process.

### `WorkerLoop`

The races of the unlocked services are those of `JobQueue`; here each of them, and a scan, is one step. A claim is two, its SELECT
and its commit, so that the claims of several workers overlap in one moment and `SKIP LOCKED` matters. Time is
discrete: `run_at`, `lease_expires_at`, `last_recovery_at` and `last_heartbeat_at` are seconds relative to the
present (up to `Horizon`, beyond which nothing depends on them). `Tick` is possible only when no process has
anything left to do now, so the latencies shown are those of the loop itself, not of a slow machine.

| Action | Code (`worker/runner.py`) |
|---|---|
| `Submit` | `create_job`, with one of two priorities |
| `Start`, `StopOrCrash` | registration and the loop's locals; SIGTERM or death |
| `Scan` | lines 46-58: the scan, if the interval is over |
| `ClaimBegins` | the heartbeat and the SELECT of `claim_next_job`: `ORDER BY priority DESC, run_at, created_at`, past the rows that are `Locked` |
| `ClaimCommits` | the rest of `claim_next_job` |
| `ClaimNothing` | the heartbeat and a SELECT that finds every due job, if there is one, locked by another claim |
| `End`, `Retry`, `GiveUp` | the handler ends: the completion, the retry with `calculate_retry_delay_seconds`, or a refused completion; then the poll wait, which every round ends with |
| `Tick` | the clock, the handler, the poll wait |

`NominalDelay` is the doubling and the cap; `RetryDelays` every delay the jitter (a factor between one half and one)
may make of it. `LooksHealthy` is the dashboard's estimate. A crash between `ClaimBegins` and `ClaimCommits` rolls the claim back, and a
worker that skipped the row meanwhile has passed over a job that is still pending: `dropped` remembers it, and
the latencies `IdleWorkerTakesDueJobs` and `PriorityKept` are about jobs that are neither `dropped` nor being claimed
(`Waits`). `count_available_jobs` and `peek_next_available_job` of `services/workers.py` lock nothing, so they may
show a job that a claim of the same moment skips; no code path uses them and they are left out.

### `Submission`

| Action | Code |
|---|---|
| `Lookup`, `Flush`, `LookupAgain` | `create_job` between its awaits, up to the INSERT and after an `IntegrityError` |
| `Commit` | the event and the commit; from here on the job exists |
| `Respond` | `db.refresh` and the 201 |
| `GiveUp` | the client times out or loses its connection at any time; the handler goes on |
| `Fail` | the server or its session fails at any time, in the refresh after the commit too |

The unique index is external: an INSERT waits for an uncommitted INSERT of the same key, fails if
that commits and goes on if it is rolled back. A job
is named by the request that creates it. `Bodies` stands for the five fields that
`job_matches_create_request` compares. Jobs are never deleted and the key is never changed, so
their later life does not matter here.

`IdempotentStore` creates a job at one moment (`Create`) and tells the client at another (`Confirm`, `Replay`,
`Refuse`) or never (`Lose`, which may come before or after). Whoever is told nothing may have created a job; its repeat with
the same key is given that job and makes no second one. `ActsAtomically` says that the steps of `create_job` implement this: the effect
happens at the commit, and a client is told of a job only once it is there.

### `BatchWatch`

| Action | Code |
|---|---|
| `SubmitOwn`, `OtherBegins`, `OtherCommits` | `submit_load_jobs`; another client's `create_job`, visible some time after its `created_at` |
| `End`, `ManualRetry` | a worker or a request ends a job; a finished job is opened again |
| `StaleCommit` | a commit of a service that had read the row before the job ended: a success may become anything (`services/job_failure.py:57`, `services/job_cancellation.py:20`) |
| `StartFetch`, `CountJobs`, `ReadPage` | `fetch_jobs`: per page, the `COUNT` and the `SELECT ... LIMIT ... OFFSET` of `list_jobs` |
| `Sleep`, `JudgeBatch`, `JudgeCounts` | the polling loops `wait_for_batch` and `wait_for_jobs`, and the exit code of `main` |

A job is named by the rank of its `created_at`, so a page is arithmetic on ranks. `script` says which
of the two scripts is waiting. Four history variables serve the properties: `ended`,
`before` (what was true when the fetch began), `undone` (the successes of that moment which stale commits
have undone since) and `slipped` (a job became visible between a count
and the page of the same request). `NoFalseTimeout` counts the successes that are not `undone`: a timeout that
comes from a stale commit during the last fetch is one the code has. The queue stops with the script's exit. `NothingMissed` and `ReportsEndedBatch` hold of every fetch that is
not `slipped`: reading a row twice is harmless *unless* it makes up the number that the
count promised. The script's workers, subprocesses and timings are left out.

### `DemoRun`

| Action | Code |
|---|---|
| `SubmitJob`, `Seeded` | `demo_job_specs` and `submit_job_batch`, a job at a time; a job that is there already is reused |
| `Poll`, `Judge` | the loop of `wait_for_queue_idle`, its deadline, the report |
| `CountByStatus`, `ReadQueueDepth`, `CountCreated`, `CountFailures`, `AverageRuntime` | the SELECTs of `get_metrics` in the order of `Statements`, each a snapshot of its own |
| `HttpError` | a request of the script that fails |
| `Ages`, `FailureAges` | a job, or its failures, are an hour old |
| `Claim`, `Succeed`, `Fail`, `Expire`, `BackoffEnds`, `Cancel`, `ManualRetry`, `OtherClient` | workers, recovery, users and another client, each service in one step |
| `Overwrite` | a stale commit: a job becomes anything but `running` |

`MayRaise` and `MayReturn` are the handlers `sleep`, `fail_once`, `fail_always` and `random_fail`; `MaxAttempts`
is what the profile submits. `ExpectedMix` is about the script's wait for idle: it is sound because one
statement counts all statuses, and a job between two attempts is `pending` though not due. `MetricsFitTogether`
depends on the order of the statements: what explains a number is read after the number and only
grows while the request lasts. `jobs_created_last_hour` and `failures_last_hour` count what is younger than an hour, an hour that
is computed once at the head of `get_metrics`; between requests jobs and failures leave it (`old`, `failed`), so the
property compares the young jobs and adds the old ones where a number counts both. The database need not be
new. `queue_depth` may be lower than the number of due jobs, since `now` is older than the statement. The model ends
with the script. Worker counts, the health check and the verification subprocess are left out.

### `Dashboard`

Every activation of `refresh`, `loadJobDetail` or `loadWorkerDetail` that awaits an answer is an
open *call*. `Respond` computes an answer at one moment (`version` is how recent it is),
`ReceiveCards`, `RefreshFails` and `ReceiveDetail` render it at a later one, in any order. A
refresh sets its two panels to "Loading" one after the other (`Continue`). `Click` is
`selectJob` or `selectWorker`, `StartRefresh` the timer, `Change` any commit that changes what the API
would answer, `Toggle` an API that becomes unreachable or comes back. The markup is left out.

### Faulty operators

Definitions whose comment begins with "Faulty" are not used by any action. Each is the
operator that follows it with a mistake one could make in the code (a dropped guard, a missing
reset, an off-by-one). Replacing the operator's body by its faulty form must violate the property
that watches it: a property that no mistake can break would say nothing.

## 3. What is checked

| Run | Instance | Question |
|---|---|---|
| `request_races` | 1 job, 1 worker, 2 requests, `MaxAttempts` 2, handlers of any length | Which mixtures of columns can concurrent writers leave, and what does the audit report? `RunningIsRecoverable`, `FinishedIsUnlocked`, `ColumnsMoveTogether`, `TimelineAgrees`, `DuplicateOnlyAfterRetry`, `TypeOK` |
| `overrun` | 2 jobs, 2 workers, no requests, handlers of any length | Slow handlers, crashes, restarts, concurrent scans: `FollowsLifecycle`, `PointerIsOwner`, `BudgetOnlyBrokenByRecovery` |
| `progress` | 1 job, 2 workers, 1 request, handlers fit the lease, fairness | Within the documented contract: `OwnerExecutes` (no two workers run one job unless a request has written over its row), `WorkersLoseNoUpdate` (the first lost update is a request's), `EveryJobSettles`, `RecoveryIsNotStarved` |
| `row_locks` | 2 jobs, 3 workers, 1 request | Who waits for whom? `NoDeadlock`, `ScansClearDifferentWorkers`, `TypeOK` |
| `worker_loop` | 2 jobs, 2 workers, times of 1 to 3 seconds | How late, which first, and what if claims overlap? `RecoveredInTime`, `IdleWorkerTakesDueJobs`, `PriorityKept`, `BackoffWithinBounds`, `FollowsLifecycle`, `StaleMeansDown`, `TypeOK` |
| `submission` | 3 requests, 1 key (or none), 2 bodies, fairness | `OneJobPerKey`, `RejectedFindsWinner`, `ActsAtomically`, `EveryRequestAnswered`, `TypeOK` |
| `batch_watch` | batch of 2, pages of 1, 1 job of another client, any number of stale commits | What is a verdict worth? `NothingMissed`, `ReportsEndedBatch`, `NoFalseTimeout`, `TypeOK` |
| `demo` | a `fail_once` and a `fail_always` job, 1 stale commit | What does an idle queue mean, and do the numbers fit together? `ExpectedMix`, `MetricsFitTogether`, `TypeOK` |
| `dashboard` | 2 panels, 2 rows, 2 open calls, fairness | `LoadingEnds`, `SelectionWins`, `ShowsLatestData`, `BannerClears`, `TypeOK` |
| `cancel_overwrites`, `budget_overrun`, `wait_ends_early` | smallest that show it | statements of the documentation that the code does not keep (section 5) |

What a run does not show: in `progress` `MaxAttempts` is 1, so that its liveness properties see recovery and manual retry, but no
automatic retry. `OwnerExecutes` and `WorkersLoseNoUpdate` assume that handlers fit the lease, and `StaleMeansDown` that handler
and poll wait fit the page's threshold: the slow handler itself is in `overrun` and `request_races`, which show what
stays intact under it. `BudgetOnlyBrokenByRecovery` and `PointerIsOwner` exempt jobs that a stale commit has written
over. `BackoffWithinBounds` is an upper bound of the delay; that the jitter at most halves it is part of the model.

**Why the bounds are enough.** Every writer touches one job row; jobs meet only through a
worker (its pointer, its single task, its scan) so two jobs let a worker hold one job and
point at another, and one job is enough for the races on a row. Two workers give a former
and a present owner and two concurrent scans; a third would be another former owner, whose late commit is
refused or overwrites as the first's does. Two requests are the two unlocked writers
that can interleave with a third, the worker. `MaxAttempts = 2` has a retry and a dead letter; the
saturated value above it has the overrun. The runs are split by question because all
actors at once exceed what TLC explores in minutes; theorems of section 4 cover all the actors, for any
constants. Symmetry is used in runs without liveness only.

`RowLocks` needs two jobs for two scans to come to want one worker row (the worker restarted with its pointer at one
job and claimed the other), and three workers: the two that scan and that one. A *circle* of scans needs four jobs and is
beyond TLC; the theorem `DeadlockFree` covers it.

`WorkerLoop` has the shortest times that keep the order the code's defaults leave open: a handler (2) may outlive the
lease (1), the lease and the poll wait (1) are shorter than the recovery interval (2), the base delay (2) is doubled into the cap
(3) at the second of three attempts, and the threshold of the page (3) is exactly the longest handler and poll wait. Two jobs
compete by priority, by `run_at` and by age; two workers have a lease of one found by the other.

`DemoRun` has one job that fails at first and succeeds, and one that fails for good: `sleep` is a `fail_once` whose
first attempt has passed, and nothing is claimed of `random_fail`. Every other property is about one job, or a count
that one job can falsify.

`HandlersFitLease` is the contract of `docs/tradeoffs.md` section 4: "Handlers should finish
within `WORKER_LEASE_SECONDS`". With `TRUE` a lease does not lapse while its owner executes or
commits the job; a skewed clock breaks the contract just as a slow handler does, and the runs with `FALSE` cover
both.

**Fairness** (`FairSpec`). Weak fairness of each worker's loop: a process that is up runs on, its
handlers return. Weak fairness of the clocks. *Strong* fairness of the commit of
`complete_job_*`: it may wait for a row lock that scans take again and again, and Postgres queues
it; `SKIP LOCKED` does not overtake a queued waiter. No fairness for clients, and none for restarts: a
dead worker may stay dead. `EveryJobSettles` therefore assumes `StableFleet`
(every worker is up for good or down for good in the end, and one is up) and `QuietApi`
(no request stays open): without them a job could be retried by hand or its worker killed for ever. It also needs
`HandlersFitLease`: two workers whose handlers always outlive the lease take a job from each other
without end, and neither completion passes the ownership check.

`BatchWatch` shows its hazards with the smallest sizes: pages of one row put a page boundary between any two
rows, one foreign submission can fall anywhere, and two jobs of the batch are one to be read
twice and one to be missed. In `Dashboard` two open calls are enough for one answer to overtake
another, two rows for a wrong one, and the page has two panels. Its fairness: every fetch is answered or
fails, every answer is rendered (weak), and the timer fires again and again however many calls
are open (strong, because `Calls` bounds them). The liveness properties assume `StableApi`, an API that
stays reachable in the end.

`Submission`, `BatchWatch` and `DemoRun` stop when every request is answered and when the script has exited, so
their cfgs turn deadlock checking off; for `Submission`, `EveryRequestAnswered` is the stronger statement. All
other runs check that no state is without a next step; of `RowLocks` that says little, since a process may always die, and
`NoDeadlock` is the real statement.

## 4. What is proved

Every invariant and every action property that a passing run checks is a theorem: it holds for any sets of jobs,
workers and requests, any `max_attempts`, any durations, any batch and page size. The assumptions are the named ones of
the modules:

* `MaxAttemptsAssumption` (a positive natural: `schemas/job.py` has `ge=1`), `HandlersAssumption` and `ScansAssumption`
  (the two contracts are Booleans; where a theorem needs one, its statement says so);
* `NullAssumption`, `ActorsAssumption`, `EventsAssumption`, `KeysAssumption`, `RowsAssumption`: ids, event types and NULL are
  different things;
* `DurationsAssumption`: the intervals of `core/config.py` and the base and maximum delay are positive numbers of seconds, as the
  settings' defaults are; the longest handler and the page's threshold are natural numbers;
* `SizesAssumption` (batch and page are not empty: `--jobs` and the page size are at least 1) and `BatchAssumption` (the batch is
  finite and each of its jobs has one type);
* `PanelsAssumption` (the page has panels 1 and 2) and `DataAssumption`.

**`JobQueueProofs`.** `TypeCorrect`, `Recoverable`, `FinishedUnlocked`, `ColumnsCoherent`. None of the invariants is
inductive: a commit mixes the stored row with values computed from an older row, so one has
to know something about *loaded* rows too. `IInv` adds:

* `RowsOK`: every stored row is coherent (`RowOK`: lease iff owner, running implies owned,
  final implies not owned, succeeded implies completed);
* `LoadsOK`: every loaded row was coherent and passed the guard of its operation;
* `TasksOK`: an executing worker has a job.

The heart is the lemma `FlushOK`: for *any* two coherent rows, stored and loaded, the columns that the
operation changes relative to the loaded row leave a coherent stored row. No relation between
the two rows is needed, which is why the result holds for any interleaving.

`TimelineExplains` (`Spec => []TimelineAgrees`): the lemma `CommitEffect` says what a commit does to its job: it
writes all that the service has assigned, and the event that goes with it, or it marks the job as overwritten.
`NoFalseDuplicate` (`AuditSpec => []DuplicateOnlyAfterRetry`) is about the composition with the audit. What has to be known
is `AuditOK`: until a manual retry, a job's recorded attempt numbers occur once and are at most its present `attempts`;
it rests on `AttemptsGrow`, which holds of every stale commit too, because only `manual_retry_job` assigns `attempts`
without having locked the row.

**`JobQueueRefinement`.** `Implements`: `Spec => FollowsLifecycle`. `LInv` strengthens `IInv` by `ScansOK` (the rows of
an open scan stay `running` and lapsed, and no two scans share one: the meaning of the row lock). Each action maps to one
step of the lifecycle, or leaves it alone; a flush over the loaded row is the documented arrow, a flush over any other
row is `Overwrite`. `BudgetKept` (`BudgetOnlyBrokenByRecovery`) follows the same commits.

`PointersTrue` (`PointerIsOwner`) needs two facts more, together `OInv`: `TxnsOK`, that a worker's open transaction is the completion of
the task it executes and was loaded as its own row, and `ScansClear`, that a scan has noted every worker row that points at one
of its jobs, which stays true because nobody comes to point at a locked job.

`OneExecutor` (`OwnerExecutes`) and `FirstLossIsARequest` (`WorkersLoseNoUpdate`) use the contract `HandlersFitLease`. `EInv` says under
it: only its owner executes a job, nobody executes one whose lease has lapsed (`LapsedIdle`), so no scan takes it away, and
what a worker loaded to complete its job is still the row (`LoadsFresh`), so its commit is not stale. The three
hold each other up: none is inductive alone.

**`WorkerLoopProofs`.** `Implements`: `Spec => FollowsLifecycle`; the clock, the poll waits, the crashes and the SELECT of a claim are
stutters, a scan moves any number of jobs at once. It needs `ClaimsOK`: what a claim has locked is due, and no other claim has it. For any durations: `RecoveryInTime` (`RecoveredInTime`), `DueJobsAreTaken` (`IdleWorkerTakesDueJobs`),
`NoInversion` (`PriorityKept`), `BackoffBounded` (`BackoffWithinBounds`), `StaleIsDown` (`StaleMeansDown`)
and `TypeCorrect`. `TimersOK` is a potential argument: the age of the last scan
or heartbeat *plus* the time until the present wait or handler ends is bounded, by a bound that depends on
the phase; `Tick` moves a second from one to the other. A poll wait begins only when every due job is locked, and a lock ends
with the job running or `dropped` (`WaitingJobs` says how a job can come to wait); that carries `IdleWorkerTakesDueJobs`. `ChoiceOK` says of a claim
that has chosen a job of low priority what `PriorityKept` says of the job it then executes. `DelayBounds` is the arithmetic
of the retry delay, for every attempt.

**`RowLocksProofs`.** `TypeCorrect`, `DifferentWorkers` (`Spec => []ScansClearDifferentWorkers`) and
`DeadlockFree` (`Spec => []NoDeadlock`), for any number of jobs, workers and requests. A transaction that is no scan takes at
most one job, then its own worker row, and waits for nothing once it has that; a scan waits for worker rows only
(`Shape`). So every member of a circle would be a scan. What excludes a circle of scans is not a lock order (the rows come in no
order) but data: `PointersKnown` says that a worker row a scan clears, or may come to clear, still
points at a job of that scan or at one claimed since it began; the contract `ScansFitLease` says that those have not
lapsed (`RecentLive`); hence another scan, which clears rows that point at its own lapsed jobs, wants other rows
(`ClearingDisjoint`). The lemma `ScanNextStep` is where the three meet.

**`SubmissionProofs`.** `TypeCorrect`, `NoDuplicateJob`, `NoServerError` and `Atomic`. The invariant adds what the
unique index guarantees (`IndexOK`: a flushed insert is the only holder of its key),
that a rejected insert has a committed winner (`RejectedOK`), that a request has its job from its commit on and not before
(`CommitOK`), and that only finished requests are answered, while a client may know earlier that it will learn nothing
(`AnswersOK`). `Atomic` maps `Commit` to `Create`, `Respond` to `Confirm` or, if the client has given up, to a stutter.

**`BatchWatchProofs`.** `FetchIsComplete` (`NothingMissed`), `ReportIsFinal` (`ReportsEndedBatch`), `TimeoutIsTrue` (`NoFalseTimeout`) and
`TypeCorrect`, for any page size. The invariant of the paging is `PagesOK`: a job that was there when the fetch began and has not been read
is listed at the next offset or behind it. It is kept because ranks only grow as jobs appear, and because a page, whose rows go
one to one to the offsets it covers (`PageIsLimited`), never takes the next offset beyond what it has read. At the
end the rows are as many as the list is long, and every rank is below that length (`Ranks`), so nothing is left. That needs
the length to be the one counted, which is what `slipped` denies. `SuccessesAreCounted` compares the successes at the start of the fetch that no stale commit
has undone with the rows read.

**`DemoRunProofs`.** `MixIsExpected` (`ExpectedMix`), `AnswersAreConsistent` (`MetricsFitTogether`) and `TypeCorrect`, for any batch and any
number of stale commits. The lemma `Fates` says what one step can do to a job; from it follow `Implied`
(a job ends as its handler implies, in the table and in what has been read) and `SeenStays`: what the first statement read stays a lower
bound of what the later ones find, of the young jobs at least. `NumbersArePolled` says that numbers are held during a request only, so the
hour is the same for all of them. `NumbersFit` carries this through the five statements.

**`DashboardProofs`.** `TypeCorrect` and `NeverStuck`: `Spec => []LoadingEnds`. The invariant adds `CallsOK`: a call for a
panel was made for a row, because a refresh looks at the selection before each reload.

Only model-checked: liveness under fairness, which is out of the prover's reach (`EveryJobSettles`, `RecoveryIsNotStarved`,
`EveryRequestAnswered`, `SelectionWins`, `ShowsLatestData`, `BannerClears`). What the documentation says and the code does not
keep (section 5) is refuted by TLC.

## 5. Where the code and its documentation disagree

* **`cancel_overwrites`** (`services/job_cancellation.py:20`): a cancel that read `pending` commits over a claim. A
  *running* job becomes `cancelled`, keeps its owner and lease, and its handler runs on; its completion is then
  refused. `src/README.md:297` says pending only.
* **`budget_overrun`** (`services/job_lease_recovery.py:36`): recovery puts a job back whatever its
  `attempts`. A job that kills its worker every time is never dead-lettered
  (`src/README.md:39`, `:135`). `BudgetOnlyBrokenByRecovery` shows that this is the only way, stale commits aside.
* **`wait_ends_early`** (`scripts/verify_queue.py:34`): `fetch_jobs` stops when it has as many rows as the latest
  count. A submission between that count and its page moves the list by one: a row is read twice, the oldest is never read,
  and `load_test.py` stops waiting while a job of its batch is active. `src/README.md:415`: it "waits for
  completion".

Seen while modelling, without a run of their own:

* `services/job_failure.py:57`: if the lease lapses between the ownership check and the commit of a
  failure, another worker may have completed the job meanwhile; the commit reopens it, although `src/README.md:139` draws
  `succeeded` as final. The lapse must hit a window of a few milliseconds. `FollowsLifecycle` has this as `Overwrite`.
* `static/dashboard.html:434`: an answer is rendered without looking at the selection. After two clicks the panel
  can show the first row while the second is selected, until the next refresh repairs it (`SelectionWins`).
* `services/job_lease_recovery.py:44` compares `current_job_id` when it reads the worker row and clears it at its
  commit. A worker that restarted and claimed another job in between is shown without a job while it
  executes one. `PointerIsOwner` holds; its converse does not.
* Two scans can deadlock if a scan takes longer than a lease (section 2, `RowLocks`).
* `src/README.md:121` draws the poll wait in the branch without a job and `:123` the heartbeat at the end of a round. The loop
  waits after *every* round, so a worker handles at most one job per poll interval, and sends the heartbeat
  before the claim. `src/README.md:642` calls `WORKER_RECOVERY_INTERVAL_SECONDS` "how often workers scan": it is that plus
  a handler plus a poll wait (`RecoveredInTime`).
* No code path sets a worker `offline`: the count of `src/README.md:241` and the label of `:262` come from the
  column's default and the page's estimate.
* A job of high priority whose handler kills its worker is recovered with `run_at = now` each time, so it is the next to be
  claimed again, without a backoff.
* `verify_claims` raises a false alarm after a manual retry, which starts the attempt numbers again
  (`src/docs/tradeoffs.md:31` and `src/README.md:621` are about runs without one); `DuplicateOnlyAfterRetry` shows that nothing else causes one.
* `services/job_failure.py` writes `job_failed` and `job_retry_scheduled` in one transaction: their `created_at` are equal, and the order in
  which `get_job_events` shows them is not determined. Where transactions overlap the timeline may also show the
  event last that was not committed last, as `job_claimed` after a stale cancel; `src/docs/test_matrix.md:117`
  lists "Chronological order".
* A stale commit that undoes a success between the pages of `verify_queue.py`'s last fetch makes it report a timeout
  (`undone` in `BatchWatch`).
* `scripts/run_demo.py` goes on to verify, and may exit with 0, after its wait has timed out; `src/README.md:584` says it polls until idle.
* `scripts/load_test.py:196` counts rows, not jobs, of all queues: in the situation of `wait_ends_early` one success
  can count twice. `scripts/load_test.py:156` ends in an `AttributeError` when some job has no idempotency
  key, which the API allows (the outcome `crashed` of `BatchWatch`); `scripts/verify_queue.py:56` does likewise.

## 6. What is not modelled, and the plan

Not modelled: payloads and what handlers do outside the queue (at-least-once execution is the contract);
`created_at` of the events and the order it shows; `list_workers`, `count_available_jobs`, `peek_next_available_job` and the filters of
`list_jobs`, which only read;
starting and stopping worker processes in the scripts; configuration, logging, migrations and health probes, which keep
no state of the queue; the markup of the dashboard.

Possible next steps: an abstract specification of the worker registry (pointer and heartbeat) that `JobQueue` and
`WorkerLoop` both implement, and the order in which the timeline shows the events of overlapping transactions.

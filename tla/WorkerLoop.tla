----------------------------- MODULE WorkerLoop -----------------------------
(***************************************************************************)
(* The worker loop (backend/app/worker/runner.py) against the clock: how   *)
(* long jobs wait, which of the waiting jobs is next, when a lease is      *)
(* found to be over, and what a heartbeat's age says about its worker.     *)
(*                                                                         *)
(* Time is discrete.  run_at, lease_expires_at, last_recovery_at and       *)
(* last_heartbeat_at are kept relative to the present, so that the state   *)
(* space is finite; calls to the database take no time, the handler and    *)
(* the poll wait do.  Time passes only when no worker has anything left to *)
(* do now: a process that is up is never late.                             *)
(*                                                                         *)
(* A claim locks its row before it commits, so that the claims of several  *)
(* workers overlap: one SKIPs the rows LOCKED by another.  The other       *)
(* services are one step here; their races are those of module JobQueue.   *)
(***************************************************************************)
EXTENDS Integers, FiniteSets

CONSTANTS
    Workers,
    NumJobs,            \* bound: jobs, numbered in the order of created_at
    MaxAttempts,        \* jobs.max_attempts
    NULL,
    PollInterval,       \* --poll-interval
    LeaseSeconds,       \* worker_lease_seconds
    RecoveryInterval,   \* worker_recovery_interval_seconds
    MaxHandler,         \* bound: the longest any handler runs
    BaseDelay,          \* retry_base_delay_seconds
    MaxDelay,           \* retry_max_delay_seconds
    StaleSeconds        \* HEARTBEAT_STALE_SECONDS of the dashboard

ASSUME DurationsAssumption ==
    /\ {PollInterval, LeaseSeconds, RecoveryInterval, BaseDelay, MaxDelay} \subseteq Nat \ {0}
    /\ {MaxHandler, StaleSeconds, NumJobs} \subseteq Nat
    /\ MaxAttempts \in Nat \ {0}
    /\ NULL \notin Workers /\ NULL \notin 1 .. NumJobs

Jobs == 1 .. NumJobs

VARIABLES
    status,       \* of each job; "ended" stands for the three terminal ones
    urgent,       \* the jobs submitted with the higher of two priorities
    attempts,     \* counted up to MaxAttempts + 1, as in JobRow
    owner,        \* locked_by
    clock,        \* seconds until run_at (pending) or lease_expires_at (running)
    phase,        \* where each worker process is
    task,         \* the job it claims or executes
    timer,        \* seconds until its handler returns or its poll wait ends
    since_scan,   \* seconds since last_recovery_at
    since_beat,   \* seconds since last_heartbeat_at
    fresh,        \* history: workers that have not scanned since they started
    dropped       \* history: jobs whose latest claim was rolled back

jobs == <<status, urgent, attempts, owner, clock>>
vars == <<jobs, phase, task, timer, since_scan, since_beat, fresh, dropped>>

\* "waiting" is the poll wait after a claim that found nothing, "resting" the
\* one after a job: the loop waits after every round.  "claiming" is the time
\* between the SELECT of claim_next_job and its commit.
Phase == {"down", "waiting", "resting", "claiming", "executing"}
Polling(w) == phase[w] \in {"waiting", "resting"}

\* Nothing below depends on how far beyond Horizon a duration is.
Longest == RecoveryInterval - 1 + MaxHandler + PollInterval
Horizon == Longest + 1
Older(n) == IF n < Horizon THEN n + 1 ELSE n
Earlier(n) == IF n > -Horizon THEN n - 1 ELSE n

Init ==
    /\ status = [j \in Jobs |-> "none"]
    /\ urgent = {}
    /\ attempts = [j \in Jobs |-> 0]
    /\ owner = [j \in Jobs |-> NULL]
    /\ clock = [j \in Jobs |-> 0]
    /\ phase = [w \in Workers |-> "down"]
    /\ task = [w \in Workers |-> NULL]
    /\ timer = [w \in Workers |-> 0]
    /\ since_scan = [w \in Workers |-> 0]
    /\ since_beat = [w \in Workers |-> Horizon]
    /\ fresh = {} /\ dropped = {}

-----------------------------------------------------------------------------
(* Which job is next.                                                      *)

Due(j) == status[j] = "pending" /\ clock[j] <= 0

\* Faulty: first come, first served.
ServedInOrder(j, k) == clock[j] < clock[k] \/ (clock[j] = clock[k] /\ j < k)

\* ORDER BY priority DESC, run_at ASC, created_at ASC, id ASC
Precedes(j, k) ==
    \/ j \in urgent /\ k \notin urgent
    \/ /\ j \in urgent <=> k \in urgent
       /\ clock[j] < clock[k] \/ (clock[j] = clock[k] /\ j < k)

\* Faulty: no FOR UPDATE.
NeverLocked(j) == FALSE

\* FOR UPDATE: the row of a claim that has not committed.
Locked(j) == \E w \in Workers : phase[w] = "claiming" /\ task[w] = j

\* The row of claim_next_job's LIMIT 1, SKIP LOCKED.
IsNext(j) ==
    /\ Due(j) /\ ~Locked(j)
    /\ \A k \in Jobs : Due(k) /\ ~Locked(k) /\ k # j => Precedes(j, k)

-----------------------------------------------------------------------------
(* The delay of a retry.                                                   *)

\* Faulty: the cap is forgotten.
UncappedDelay(n) == BaseDelay * 2 ^ (n - 1)

\* The delay before jitter, after attempt n.
NominalDelay(n) ==
    LET grown == BaseDelay * 2 ^ (IF n > 1 THEN n - 1 ELSE 0)
    IN  IF grown < MaxDelay THEN grown ELSE MaxDelay

\* Faulty: counted from the claim, not from the failure.
RetryDelaysSinceClaim(n) ==
    {d - e : d \in 1 .. NominalDelay(n), e \in 0 .. MaxHandler}

\* Jitter multiplies by a number between one half and one.
RetryDelays(n) == {d \in 0 .. NominalDelay(n) : 2 * d >= NominalDelay(n)}

-----------------------------------------------------------------------------
(* One round of the loop.                                                  *)

Submit(j) ==
    /\ status[j] = "none"
    /\ \A k \in 1 .. (j - 1) : status[k] # "none"
    /\ status' = [status EXCEPT ![j] = "pending"]
    /\ urgent' \in {urgent, urgent \cup {j}}
    /\ UNCHANGED <<attempts, owner, clock, phase, task, timer, since_scan, since_beat, fresh, dropped>>

Start(w) ==
    /\ phase[w] = "down"
    /\ phase' = [phase EXCEPT ![w] = "waiting"]
    /\ timer' = [timer EXCEPT ![w] = 0]
    /\ since_scan' = [since_scan EXCEPT ![w] = 0]
    /\ since_beat' = [since_beat EXCEPT ![w] = 0]
    /\ fresh' = fresh \cup {w}
    /\ UNCHANGED <<jobs, task, dropped>>

\* SIGTERM ends the poll wait; during a claim or a handler it takes effect
\* after it.  A crash may come at any time, and rolls a claim back.  Neither
\* changes the status column.
StopOrCrash(w) ==
    /\ phase[w] # "down"
    /\ phase' = [phase EXCEPT ![w] = "down"]
    /\ task' = [task EXCEPT ![w] = NULL]
    /\ timer' = [timer EXCEPT ![w] = 0]
    /\ since_scan' = [since_scan EXCEPT ![w] = 0]
    /\ fresh' = fresh \ {w}
    /\ dropped' = IF phase[w] = "claiming" THEN dropped \cup {task[w]} ELSE dropped
    /\ UNCHANGED <<jobs, since_beat>>

RoundBegins(w) == Polling(w) /\ timer[w] = 0

\* Faulty: only a worker without work looks for expired leases.
ScanDueWhenIdle(w) == since_scan[w] >= RecoveryInterval /\ phase[w] = "waiting"

ScanDue(w) == since_scan[w] >= RecoveryInterval

Lapsed(j) == status[j] = "running" /\ clock[j] < 0

Scan(w) ==
    /\ RoundBegins(w)
    /\ ScanDue(w)
    /\ status' = [j \in Jobs |-> IF Lapsed(j) THEN "pending" ELSE status[j]]
    /\ owner' = [j \in Jobs |-> IF Lapsed(j) THEN NULL ELSE owner[j]]
    /\ clock' = [j \in Jobs |-> IF Lapsed(j) THEN 0 ELSE clock[j]]
    /\ since_scan' = [since_scan EXCEPT ![w] = 0]
    /\ fresh' = fresh \ {w}
    /\ UNCHANGED <<urgent, attempts, phase, task, timer, since_beat, dropped>>

\* Faulty: a worker that finds a job does not send its heartbeat.
BeatWhenIdle(w) ==
    since_beat' = [since_beat EXCEPT ![w] = IF \E j \in Jobs : Due(j) THEN @ ELSE 0]

Beat(w) == since_beat' = [since_beat EXCEPT ![w] = 0]

\* The heartbeat, and the SELECT .. FOR UPDATE of the claim.
ClaimBegins(w, j) ==
    /\ RoundBegins(w) /\ ~ScanDue(w)
    /\ IsNext(j)
    /\ Beat(w)
    /\ phase' = [phase EXCEPT ![w] = "claiming"]
    /\ task' = [task EXCEPT ![w] = j]
    /\ UNCHANGED <<jobs, timer, since_scan, fresh, dropped>>

ClaimCommits(w, j) ==
    /\ phase[w] = "claiming" /\ task[w] = j
    /\ status' = [status EXCEPT ![j] = "running"]
    /\ attempts' = [attempts EXCEPT ![j] = IF @ <= MaxAttempts THEN @ + 1 ELSE @]
    /\ owner' = [owner EXCEPT ![j] = w]
    /\ clock' = [clock EXCEPT ![j] = LeaseSeconds]
    /\ phase' = [phase EXCEPT ![w] = "executing"]
    /\ \E d \in 0 .. MaxHandler : timer' = [timer EXCEPT ![w] = d]
    /\ dropped' = dropped \ {j}
    /\ UNCHANGED <<urgent, task, since_scan, since_beat, fresh>>

\* Every due job, if there is one, is locked by the claim of another worker.
ClaimNothing(w) ==
    /\ RoundBegins(w) /\ ~ScanDue(w)
    /\ \A j \in Jobs : Due(j) => Locked(j)
    /\ Beat(w)
    /\ phase' = [phase EXCEPT ![w] = "waiting"]
    /\ timer' = [timer EXCEPT ![w] = PollInterval]
    /\ UNCHANGED <<jobs, task, since_scan, fresh, dropped>>

HandlerEnds(w) == phase[w] = "executing" /\ timer[w] = 0

Rest(w) ==
    /\ phase' = [phase EXCEPT ![w] = "resting"]
    /\ task' = [task EXCEPT ![w] = NULL]
    /\ timer' = [timer EXCEPT ![w] = PollInterval]
    /\ UNCHANGED <<urgent, attempts, since_scan, since_beat, fresh, dropped>>

Owns(w) == status[task[w]] = "running" /\ owner[task[w]] = w

\* Faulty: the lock is not cleared.
EndKeepsOwner(w) ==
    /\ HandlerEnds(w) /\ Owns(w)
    /\ status' = [status EXCEPT ![task[w]] = "ended"]
    /\ UNCHANGED owner
    /\ clock' = [clock EXCEPT ![task[w]] = 0]
    /\ Rest(w)

\* The job succeeds, or fails for the last time.
End(w) ==
    /\ HandlerEnds(w) /\ Owns(w)
    /\ status' = [status EXCEPT ![task[w]] = "ended"]
    /\ owner' = [owner EXCEPT ![task[w]] = NULL]
    /\ clock' = [clock EXCEPT ![task[w]] = 0]
    /\ Rest(w)

AttemptsLeft(j) == attempts[j] < MaxAttempts

Retry(w) ==
    /\ HandlerEnds(w) /\ Owns(w)
    /\ AttemptsLeft(task[w])
    /\ status' = [status EXCEPT ![task[w]] = "pending"]
    /\ owner' = [owner EXCEPT ![task[w]] = NULL]
    /\ \E d \in RetryDelays(attempts[task[w]]) : clock' = [clock EXCEPT ![task[w]] = d]
    /\ Rest(w)

GiveUp(w) == HandlerEnds(w) /\ ~Owns(w) /\ UNCHANGED <<status, owner, clock>> /\ Rest(w)

Tick ==
    /\ \A w \in Workers : phase[w] # "down" => timer[w] > 0
    /\ clock' = [j \in Jobs |-> IF status[j] \in {"pending", "running"} THEN Earlier(clock[j]) ELSE clock[j]]
    /\ timer' = [w \in Workers |-> IF phase[w] = "down" THEN 0 ELSE timer[w] - 1]
    /\ since_scan' = [w \in Workers |-> IF phase[w] = "down" THEN 0 ELSE Older(since_scan[w])]
    /\ since_beat' = [w \in Workers |-> Older(since_beat[w])]
    /\ UNCHANGED <<status, urgent, attempts, owner, phase, task, fresh, dropped>>

Round(w) ==
    \/ Scan(w)
    \/ \E j \in Jobs : ClaimBegins(w, j) \/ ClaimCommits(w, j)
    \/ ClaimNothing(w)
    \/ End(w) \/ Retry(w) \/ GiveUp(w)

Next ==
    \/ \E j \in Jobs : Submit(j)
    \/ \E w \in Workers : Start(w) \/ StopOrCrash(w) \/ Round(w)
    \/ Tick

Spec == Init /\ [][Next]_vars

-----------------------------------------------------------------------------
\* The types of the variables; a running job is one with an owner.
TypeOK ==
    /\ status \in [Jobs -> {"none", "pending", "running", "ended"}]
    /\ urgent \subseteq Jobs
    /\ attempts \in [Jobs -> 0 .. (MaxAttempts + 1)]
    /\ owner \in [Jobs -> Workers \cup {NULL}]
    /\ \A j \in Jobs : owner[j] # NULL <=> status[j] = "running"
    /\ clock \in [Jobs -> Int]
    /\ phase \in [Workers -> Phase]
    /\ task \in [Workers -> Jobs \cup {NULL}]
    /\ \A w \in Workers : phase[w] \in {"claiming", "executing"} <=> task[w] # NULL
    /\ timer \in [Workers -> Nat]
    /\ since_scan \in [Workers -> 0 .. Horizon]
    /\ since_beat \in [Workers -> 0 .. Horizon]
    /\ fresh \subseteq Workers /\ dropped \subseteq Jobs

\* The latency of recover_expired_leases.  The loop reaches it between two
\* rounds only, so a worker scans every RecoveryInterval + MaxHandler +
\* PollInterval at the latest, whatever work it finds, and no lease is over
\* for longer than since the last scan of any worker that is up.
RecoveredInTime ==
    \A w \in Workers : phase[w] # "down" =>
        /\ since_scan[w] <= Longest
        /\ w \notin fresh => \A j \in Jobs : Lapsed(j) => -clock[j] <= since_scan[w]

\* The jobs a claim may not pass over: those that nobody is claiming and whose
\* latest claim was not rolled back.
Waits(j) == Due(j) /\ ~Locked(j) /\ j \notin dropped

\* The latency of claim_next_job: a worker waits for the next poll only if
\* there was nothing to claim, so no job waits for longer than the poll wait of
\* an idle worker has lasted, whether it is new, retried or recovered.  What it
\* skipped because another worker held it locked is claimed, or was rolled back.
IdleWorkerTakesDueJobs ==
    \A w \in Workers : phase[w] = "waiting" /\ timer[w] > 0 =>
        \A j \in Jobs : Waits(j) => -clock[j] <= PollInterval - timer[w]

\* No priority inversion, although claims skip each other's rows: while a
\* worker executes a job of low priority, no urgent job waits that was already
\* due when the worker chose.
PriorityKept ==
    \A w \in Workers : phase[w] = "executing" /\ Owns(w) /\ task[w] \notin urgent =>
        \A j \in urgent : Waits(j) => -clock[j] <= LeaseSeconds - clock[task[w]]

\* A retried job is hidden for at most the capped exponential delay of the
\* attempt that failed, and only while it has attempts left.
BackoffWithinBounds ==
    \A j \in Jobs : status[j] = "pending" /\ clock[j] > 0 =>
        /\ attempts[j] \in 1 .. (MaxAttempts - 1)
        /\ clock[j] <= MaxDelay
        /\ clock[j] <= BaseDelay * 2 ^ (attempts[j] - 1)

\* heartbeatHealth of the dashboard: as long as handlers and the poll wait fit
\* the threshold, a worker shown as stale is down.
LooksHealthy(w) == since_beat[w] <= StaleSeconds

StaleMeansDown ==
    MaxHandler + PollInterval <= StaleSeconds =>
        \A w \in Workers : ~LooksHealthy(w) => phase[w] = "down"

\* Against the clock as in any interleaving, a job follows the lifecycle that
\* JobQueue is shown to keep: overlapping claims never take one job twice, and
\* time brings no step of its own.  The ends are not told apart; a success is
\* the one that may come at any attempt.
Lifecycle == INSTANCE JobLifecycle WITH
    max_attempts <- [j \in Jobs |-> MaxAttempts],
    status <- [j \in Jobs |-> IF status[j] = "ended" THEN "succeeded" ELSE status[j]],
    tries <- attempts

FollowsLifecycle == Lifecycle!Spec
=============================================================================

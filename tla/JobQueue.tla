------------------------------ MODULE JobQueue ------------------------------
(***************************************************************************)
(* The queue: the API's writing requests and the worker processes, as      *)
(* transactions on the tables "jobs", "job_events" and "workers".          *)
(*                                                                         *)
(* The claim and the recovery scan read job rows with FOR UPDATE SKIP      *)
(* LOCKED.  Completion, failure, cancellation and manual retry read the    *)
(* row without a lock, check it, and write it later: each is a read step   *)
(* that remembers the loaded row in txn, and a commit step that flushes    *)
(* the assigned columns over whatever the row has become (module JobRow).  *)
(* A transaction that ends before its commit leaves no trace.              *)
(*                                                                         *)
(* One queue_name is modelled: workers of other queues never meet its      *)
(* rows.  Which of the due jobs the claim's ORDER BY puts first depends on *)
(* columns that nothing here reads, so a claim takes any of them.          *)
(***************************************************************************)
EXTENDS JobRow

CONSTANTS
    Jobs,              \* job ids
    Clients,           \* concurrent cancel / retry requests
    HandlersFitLease   \* TRUE: no handler runs longer than worker_lease_seconds

ASSUME ActorsAssumption == Workers \cap Clients = {} /\ NULL \notin Jobs \cup Workers \cup Clients
ASSUME HandlersAssumption == HandlersFitLease \in BOOLEAN

VARIABLES
    jobs,         \* table jobs
    due,          \* jobs whose run_at has come
    lapsed,       \* leased jobs whose lease_expires_at has passed
    last_event,   \* event_type of each job's row in job_events that was committed last
    current_job,  \* workers.current_job_id
    pc,           \* where each worker process is in run_worker
    task,         \* the job object claim_next_job returned to run_worker
    scan_due,     \* worker_recovery_interval_seconds have passed since last_recovery_at
    scan,         \* the open transaction of recover_expired_leases
    txn,          \* the open unlocked transaction of a worker or a request
    overwritten   \* history: jobs some commit wrote over a row it had not read

store == <<jobs, due, lapsed, last_event, overwritten>>
vars == <<jobs, due, lapsed, last_event, current_job, pc, task, scan_due, scan, txn, overwritten>>

Actors == Workers \cup Clients
Operation == {"success", "failure", "cancel", "retry"}
Txn == [op : Operation, job : Jobs, loaded : Row]
Scan == [jobs : SUBSET Jobs, clears : SUBSET Workers]
NoScan == [jobs |-> {}, clears |-> {}]

JobEventType == {"job_created", "job_claimed", "job_succeeded", "job_failed",
                 "job_retry_scheduled", "job_manually_retried", "job_cancelled",
                 "job_lease_expired"}
ASSUME EventsAssumption == NULL \notin JobEventType

\* "idle": the top of the loop or the poll wait before it; "claiming": past
\* the recovery check; "executing": in the handler; "finishing": between the
\* read and the commit of complete_job_*; "scanning": between those of the scan.
WorkerState == {"down", "idle", "scanning", "claiming", "executing", "finishing"}

Init ==
    /\ jobs = [j \in Jobs |-> NoRow]
    /\ due = {}
    /\ lapsed = {}
    /\ last_event = [j \in Jobs |-> NULL]
    /\ current_job = [w \in Workers |-> NULL]
    /\ pc = [w \in Workers |-> "down"]
    /\ task = [w \in Workers |-> NULL]
    /\ scan_due = [w \in Workers |-> FALSE]
    /\ scan = [w \in Workers |-> NoScan]
    /\ txn = [a \in Actors |-> NULL]
    /\ overwritten = {}

\* The rows a scan has selected stay locked until its transaction ends.
RowLocked(j) == \E w \in Workers : j \in scan[w].jobs

Executing(w, j) == task[w] = j /\ pc[w] \in {"executing", "finishing"}

\* An UPDATE or INSERT of the row of j and the INSERT of its event.  Events are
\* kept in the order of the commits: created_at, by which GET /events sorts, is
\* the start of the transaction, and is not modelled.
Write(j, row, event) ==
    /\ jobs' = [jobs EXCEPT ![j] = row]
    /\ last_event' = [last_event EXCEPT ![j] = event]

-----------------------------------------------------------------------------
(* The API.                                                                *)

\* POST /api/jobs, for a job that is new (module Submission has the others).
CreateJob(j) ==
    /\ jobs[j].status = "none"
    /\ Write(j, NewRow, "job_created")
    /\ due' = due \cup {j}
    /\ UNCHANGED <<lapsed, current_job, pc, task, scan_due, scan, txn, overwritten>>

\* A request or a worker loads the row and passes the guards of op.
Load(a, op, j) ==
    /\ txn[a] = NULL
    /\ txn' = [txn EXCEPT ![a] = [op |-> op, job |-> j, loaded |-> jobs[j]]]

\* The commit of an unlocked transaction: it waits for the scan that holds the
\* row, if any, then writes the columns in which new differs from the loaded row.
FlushAndCommit(a, op, new, event) ==
    /\ txn[a] # NULL
    /\ txn[a].op = op
    /\ ~RowLocked(txn[a].job)
    /\ LET j == txn[a].job
           row == Flush(jobs[j], txn[a].loaded, new)
       IN  /\ Write(j, row, event)
           /\ lapsed' = IF row.leased THEN lapsed ELSE lapsed \ {j}
           /\ overwritten' = IF jobs[j] = txn[a].loaded THEN overwritten
                             ELSE overwritten \cup {j}
    /\ txn' = [txn EXCEPT ![a] = NULL]

CancelLoad(c, j) ==
    /\ jobs[j].status = "pending"
    /\ Load(c, "cancel", j)
    /\ UNCHANGED <<store, current_job, pc, task, scan_due, scan>>

CancelCommit(c) ==
    /\ FlushAndCommit(c, "cancel", Cancelled(txn[c].loaded), "job_cancelled")
    /\ UNCHANGED <<due, current_job, pc, task, scan_due, scan>>

\* Faulty: a running job may be retried.
AnyButPending == {"dead_lettered", "cancelled", "running"}

MANUAL_RETRY_STATUSES == {"dead_lettered", "cancelled"}

RetryLoad(c, j) ==
    /\ jobs[j].status \in MANUAL_RETRY_STATUSES
    /\ Load(c, "retry", j)
    /\ UNCHANGED <<store, current_job, pc, task, scan_due, scan>>

RetryCommit(c) ==
    /\ FlushAndCommit(c, "retry", ManuallyRetried(txn[c].loaded), "job_manually_retried")
    /\ due' = due \cup {txn[c].job}
    /\ UNCHANGED <<current_job, pc, task, scan_due, scan>>

\* The client disconnects or the request fails before its commit.
Abandon(c) ==
    /\ txn[c] # NULL
    /\ txn' = [txn EXCEPT ![c] = NULL]
    /\ UNCHANGED <<store, current_job, pc, task, scan_due, scan>>

-----------------------------------------------------------------------------
(* The worker process.                                                     *)

\* register_worker leaves current_job_id as the last process left it.
Start(w) ==
    /\ pc[w] = "down"
    /\ pc' = [pc EXCEPT ![w] = "idle"]
    /\ scan_due' = [scan_due EXCEPT ![w] = FALSE]
    /\ UNCHANGED <<store, current_job, task, scan, txn>>

\* SIGTERM is looked at between two rounds of the loop only.
Stop(w) ==
    /\ pc[w] = "idle"
    /\ pc' = [pc EXCEPT ![w] = "down"]
    /\ UNCHANGED <<store, current_job, task, scan_due, scan, txn>>

\* The process dies in the middle of a round; its transaction is rolled back.
\* An exception of a database call that run_worker does not catch is one way.
Crash(w) ==
    /\ pc[w] \notin {"down", "idle"}
    /\ pc' = [pc EXCEPT ![w] = "down"]
    /\ task' = [task EXCEPT ![w] = NULL]
    /\ scan' = [scan EXCEPT ![w] = NoScan]
    /\ txn' = [txn EXCEPT ![w] = NULL]
    /\ UNCHANGED <<store, current_job, scan_due>>

\* SELECT ... FOR UPDATE SKIP LOCKED of the expired leases, then the read of
\* the worker rows whose current_job_id the commit is going to clear.

\* Faulty: the lease is not compared with the clock.
AbandonedTooEarly(j) == jobs[j].status = "running" /\ jobs[j].leased

Abandoned(j) == jobs[j].status = "running" /\ jobs[j].leased /\ j \in lapsed

\* Faulty: the worker row is left alone.
ClearsNothing(found) == {}

Clears(found) ==
    {v \in Workers : current_job[v] \in found /\ jobs[current_job[v]].locked_by = v}

ScanStart(w) ==
    /\ pc[w] = "idle"
    /\ scan_due[w]
    /\ scan_due' = [scan_due EXCEPT ![w] = FALSE]
    /\ LET found == {j \in Jobs : Abandoned(j) /\ ~RowLocked(j)}
       IN  /\ pc' = [pc EXCEPT ![w] = IF found = {} THEN "claiming" ELSE "scanning"]
           /\ scan' = [scan EXCEPT ![w] = [jobs |-> found, clears |-> Clears(found)]]
    /\ UNCHANGED <<store, current_job, task, txn>>

ScanCommit(w) ==
    /\ pc[w] = "scanning"
    /\ jobs' = [j \in Jobs |-> IF j \in scan[w].jobs THEN Recovered(jobs[j]) ELSE jobs[j]]
    /\ last_event' = [j \in Jobs |-> IF j \in scan[w].jobs THEN "job_lease_expired"
                                     ELSE last_event[j]]
    /\ due' = due \cup scan[w].jobs
    /\ lapsed' = lapsed \ scan[w].jobs
    /\ current_job' = [v \in Workers |-> IF v \in scan[w].clears THEN NULL ELSE current_job[v]]
    /\ pc' = [pc EXCEPT ![w] = "claiming"]
    /\ scan' = [scan EXCEPT ![w] = NoScan]
    /\ UNCHANGED <<task, scan_due, txn, overwritten>>

\* The round reaches the claim: the recovery check is behind it, or not due.

\* Faulty: the claim does not wait for the recovery check.
AtClaimAlways(w) == pc[w] \in {"claiming", "idle"}

AtClaim(w) == pc[w] = "claiming" \/ (pc[w] = "idle" /\ ~scan_due[w])

\* Faulty: a job whose attempts are used up is never claimed.
ClaimableWithinMax(j) ==
    jobs[j].status = "pending" /\ j \in due /\ ~RowLocked(j) /\ jobs[j].attempts < MaxAttempts

Claimable(j) == jobs[j].status = "pending" /\ j \in due /\ ~RowLocked(j)

Claim(w, j) ==
    /\ AtClaim(w)
    /\ Claimable(j)
    /\ Write(j, ClaimedBy(jobs[j], w), "job_claimed")
    /\ lapsed' = lapsed \ {j}
    /\ current_job' = [current_job EXCEPT ![w] = j]
    /\ pc' = [pc EXCEPT ![w] = "executing"]
    /\ task' = [task EXCEPT ![w] = j]
    /\ UNCHANGED <<due, scan_due, scan, txn, overwritten>>

ClaimNothing(w) ==
    /\ pc[w] = "claiming"
    /\ \A j \in Jobs : ~Claimable(j)
    /\ pc' = [pc EXCEPT ![w] = "idle"]
    /\ UNCHANGED <<store, current_job, task, scan_due, scan, txn>>

Owns(w, j) == jobs[j].status = "running" /\ jobs[j].locked_by = w

\* The handler returns (op "success") or raises (op "failure"), and the worker
\* loads the row to complete the job.
FinishLoad(w, op) ==
    /\ pc[w] = "executing"
    /\ Owns(w, task[w])
    /\ Load(w, op, task[w])
    /\ pc' = [pc EXCEPT ![w] = "finishing"]
    /\ UNCHANGED <<store, current_job, task, scan_due, scan>>

\* complete_job_* returns None: the job is no longer this worker's, and
\* current_job_id stays as it is.
GiveUp(w) ==
    /\ pc[w] = "executing"
    /\ ~Owns(w, task[w])
    /\ pc' = [pc EXCEPT ![w] = "idle"]
    /\ task' = [task EXCEPT ![w] = NULL]
    /\ UNCHANGED <<store, current_job, scan_due, scan, txn>>

FinishRound(w) ==
    /\ current_job' = [current_job EXCEPT ![w] = NULL]
    /\ pc' = [pc EXCEPT ![w] = "idle"]
    /\ task' = [task EXCEPT ![w] = NULL]
    /\ UNCHANGED <<scan_due, scan>>

CompleteSuccess(w) ==
    /\ FlushAndCommit(w, "success", Succeeded(txn[w].loaded), "job_succeeded")
    /\ UNCHANGED due
    /\ FinishRound(w)

\* A retry is due after its backoff; without one the job is dead-lettered.
CompleteFailure(w) ==
    /\ FlushAndCommit(w, "failure", Failed(txn[w].loaded),
                      IF RetriesLeft(txn[w].loaded) THEN "job_retry_scheduled" ELSE "job_failed")
    /\ due' = IF RetriesLeft(txn[w].loaded) THEN due \ {txn[w].job} ELSE due
    /\ FinishRound(w)

-----------------------------------------------------------------------------
(* Time.                                                                   *)

LeaseLapses(j) ==
    /\ jobs[j].leased
    /\ j \notin lapsed
    /\ HandlersFitLease => \A w \in Workers : jobs[j].locked_by = w => ~Executing(w, j)
    /\ lapsed' = lapsed \cup {j}
    /\ UNCHANGED <<jobs, due, last_event, current_job, pc, task, scan_due, scan, txn, overwritten>>

BackoffEnds(j) ==
    /\ jobs[j].status # "none"
    /\ j \notin due
    /\ due' = due \cup {j}
    /\ UNCHANGED <<jobs, lapsed, last_event, current_job, pc, task, scan_due, scan, txn, overwritten>>

ScanTimer(w) ==
    /\ pc[w] # "down"
    /\ ~scan_due[w]
    /\ scan_due' = [scan_due EXCEPT ![w] = TRUE]
    /\ UNCHANGED <<store, current_job, pc, task, scan, txn>>

-----------------------------------------------------------------------------
Api(c) ==
    \/ \E j \in Jobs : CancelLoad(c, j) \/ RetryLoad(c, j)
    \/ CancelCommit(c)
    \/ RetryCommit(c)
    \/ Abandon(c)

\* One round of run_worker's loop, step by step.
Round(w) ==
    \/ ScanStart(w)
    \/ ScanCommit(w)
    \/ \E j \in Jobs : Claim(w, j)
    \/ ClaimNothing(w)
    \/ \E op \in {"success", "failure"} : FinishLoad(w, op)
    \/ GiveUp(w)
    \/ CompleteSuccess(w)
    \/ CompleteFailure(w)

Next ==
    \/ \E j \in Jobs : CreateJob(j) \/ LeaseLapses(j) \/ BackoffEnds(j)
    \/ \E c \in Clients : Api(c)
    \/ \E w \in Workers : Round(w) \/ Start(w) \/ Stop(w) \/ Crash(w) \/ ScanTimer(w)

Spec == Init /\ [][Next]_vars

\* A worker process that is up keeps running its loop, its handlers return,
\* and clocks advance.  A commit that waits for a row lock gets it in the end:
\* Postgres queues it, and SKIP LOCKED does not overtake the queue.  Nothing
\* restarts a worker and no client is obliged to anything.
Fairness ==
    /\ \A w \in Workers : /\ WF_vars(Round(w)) /\ WF_vars(ScanTimer(w))
                          /\ SF_vars(CompleteSuccess(w) \/ CompleteFailure(w))
    /\ \A j \in Jobs : WF_vars(LeaseLapses(j)) /\ WF_vars(BackoffEnds(j))

FairSpec == Spec /\ Fairness

-----------------------------------------------------------------------------
(* The types of the variables: the tables' columns, the worker processes'  *)
(* locals and the open transactions.                                       *)
TypeOK ==
    /\ jobs \in [Jobs -> Row]
    /\ due \subseteq Jobs
    /\ lapsed \subseteq Jobs
    /\ last_event \in [Jobs -> JobEventType \cup {NULL}]
    /\ current_job \in [Workers -> Jobs \cup {NULL}]
    /\ pc \in [Workers -> WorkerState]
    /\ task \in [Workers -> Jobs \cup {NULL}]
    /\ scan_due \in [Workers -> BOOLEAN]
    /\ scan \in [Workers -> Scan]
    /\ txn \in [Actors -> Txn \cup {NULL}]
    /\ overwritten \subseteq Jobs

\* Whatever cancel, retry, completion and recovery write over each other, a
\* running row carries the owner and the lease by which recover_expired_leases
\* finds it: no interleaving strands a job in running.
RunningIsRecoverable ==
    \A j \in Jobs : jobs[j].status = "running" => jobs[j].locked_by \in Workers /\ jobs[j].leased

\* A job in the final state of complete_job_success or complete_job_failure is
\* owned by nobody, in any interleaving: the columns they clear were loaded set.
FinishedIsUnlocked ==
    \A j \in Jobs : jobs[j].status \in {"succeeded", "dead_lettered"} =>
        jobs[j].locked_by = NULL /\ ~jobs[j].leased

\* The columns of one assignment never come apart, although every commit
\* writes only the columns its own transaction changed: an owner has a lease
\* (claim_next_job sets both, the others clear both), and a job that reads
\* succeeded carries its completed_at.
ColumnsMoveTogether ==
    \A j \in Jobs : /\ jobs[j].leased <=> jobs[j].locked_by # NULL
                    /\ jobs[j].status = "succeeded" => jobs[j].completed

\* The event that was committed last explains the row's status, even where a
\* commit wrote over a row it had not read: the new status of a writer always
\* differs from the one it has loaded, so it is in every UPDATE, beside its
\* event.  GET /events need not show that event last: it sorts by created_at,
\* the start of the transaction, so a stale cancel is listed before the claim
\* it wrote over, and the two events of a retried failure tie.
StatusOf(event) ==
    CASE event = NULL -> "none"
      [] event = "job_claimed" -> "running"
      [] event = "job_succeeded" -> "succeeded"
      [] event = "job_failed" -> "dead_lettered"
      [] event = "job_cancelled" -> "cancelled"
      [] OTHER -> "pending"

TimelineAgrees == \A j \in Jobs : jobs[j].status = StatusOf(last_event[j])

\* While handlers fit the lease, the worker that executes a job is the one the
\* row names, from the claim to the commit, unless some request wrote over the
\* row; so no two workers execute one job.
OwnerExecutes ==
    HandlersFitLease =>
        \A j \in Jobs \ overwritten, w \in Workers : Executing(w, j) => Owns(w, j)

\* While handlers fit the lease, the first commit that writes over a row it had
\* not read is a request's: among themselves the workers lose no update, for
\* all that complete_job_success and complete_job_failure read unlocked.
WorkersLoseNoUpdate ==
    [][HandlersFitLease /\ overwritten = {} /\ overwritten' # {}
         => \E c \in Clients : txn[c] # NULL /\ txn'[c] = NULL]_vars

\* A worker row points at a job only while that job runs for this worker, so
\* the dashboard never shows a worker a job that somebody else has.
PointerIsOwner ==
    \A w \in Workers : LET j == current_job[w] IN
        j \in Jobs \ overwritten => Owns(w, j)

\* The retry budget, as far as the code keeps it: a job is dead-lettered only
\* after MaxAttempts claims, and a pending job has used them up only if the
\* lease recovery, which does not look at max_attempts, put it back.
BudgetOnlyBrokenByRecovery ==
    \A j \in Jobs \ overwritten :
        /\ jobs[j].status = "dead_lettered" => jobs[j].attempts >= MaxAttempts
        /\ jobs[j].status = "pending" /\ jobs[j].attempts >= MaxAttempts
             => last_event[j] = "job_lease_expired"

-----------------------------------------------------------------------------
\* Every job follows the lifecycle of README.md, and leaves it only by a
\* commit over a row that had changed since that transaction loaded it.
Of(j, good, bad) == IF j \in overwritten THEN bad ELSE good

Lifecycle == INSTANCE JobLifecycle WITH
    max_attempts <- [j \in Jobs |-> MaxAttempts],
    status <- [j \in Jobs |-> Of(j, jobs[j].status, "overwritten")],
    owner <- [j \in Jobs |-> Of(j, jobs[j].locked_by, NULL)],
    tries <- [j \in Jobs |-> Of(j, jobs[j].attempts, 0)]

FollowsLifecycle == Lifecycle!Spec

\* In the end every worker is up for good or down for good, and one is up;
\* no request stays open.
StableFleet ==
    /\ \A w \in Workers : <>[](pc[w] = "down") \/ <>[](pc[w] # "down")
    /\ \E w \in Workers : <>[](pc[w] # "down")
QuietApi == <>[](\A c \in Clients : txn[c] = NULL)

\* No job is lost or stranded: once the fleet is stable and requests have
\* ceased, every pending or running job comes to an end, whatever crashes,
\* retries and overwritten rows came before.
EveryJobSettles ==
    StableFleet /\ QuietApi =>
        \A j \in Jobs : jobs[j].status \in {"pending", "running"}
                           ~> jobs[j].status \in {"succeeded", "dead_lettered", "cancelled"}

\* A worker that always finds another job to claim still runs its lease
\* recovery: a due scan is never put off for ever.
RecoveryIsNotStarved ==
    \A w \in Workers : scan_due[w] ~> (pc[w] = "down" \/ ~scan_due[w])

-----------------------------------------------------------------------------
(* Statements of README.md that the code does not keep.                    *)

\* "Cancel - pending only (409 if running or terminal)".
CancelsOnlyPending ==
    [][\A j \in Jobs : jobs'[j].status = "cancelled" => jobs[j].status \in {"pending", "cancelled"}]_vars

\* "Dead-letter queue after max attempts": no job is attempted more often.
AttemptsWithinMax == \A j \in Jobs : jobs[j].attempts <= MaxAttempts
=============================================================================

------------------------------ MODULE DemoRun ------------------------------
(***************************************************************************)
(* The end-to-end demo (scripts/run_demo.py): it seeds a batch of jobs of  *)
(* the kinds of a profile, polls GET /api/metrics until nothing is pending *)
(* or running, and reports the mix of outcomes, while workers execute the  *)
(* demo handlers, crash and recover, and users submit, cancel and retry.   *)
(*                                                                         *)
(* GET /api/metrics is six SELECTs in one READ COMMITTED transaction: each *)
(* sees the rows committed when it runs, so one answer mixes up to six     *)
(* moments.  The jobs move as module JobQueue shows, each service in one   *)
(* step; a stale commit may put a job anywhere, and is kept apart as       *)
(* Overwrite.                                                              *)
(*                                                                         *)
(* The database need not be new (--skip-seed, a kept volume), and two of   *)
(* the numbers count the last hour only: jobs and failures age out of it,  *)
(* but not during a request, whose hour is computed once.  The model ends  *)
(* with the script.                                                        *)
(***************************************************************************)
EXTENDS Naturals, Sequences, FiniteSets

CONSTANTS
    Sleep, FailOnce, FailAlways, RandomFail,   \* the batch, by job_type
    MaxOverwritten                             \* bound: stale commits

Jobs == Sleep \cup FailOnce \cup FailAlways \cup RandomFail

ASSUME BatchAssumption ==
    /\ IsFiniteSet(Jobs) /\ MaxOverwritten \in Nat
    /\ Sleep \cap (FailOnce \cup FailAlways \cup RandomFail) = {}
    /\ FailOnce \cap (FailAlways \cup RandomFail) = {} /\ FailAlways \cap RandomFail = {}

\* max_attempts of the profile's specs.
MaxAttempts(j) == IF j \in FailAlways THEN 2 ELSE 3

VARIABLES
    status,       \* of each job
    attempts,     \* counted up to MaxAttempts(j) + 1, as in JobRow
    backoff,      \* pending jobs whose run_at is still to come
    old,          \* jobs created more than an hour ago
    failed,       \* jobs with a job_failed event in the last hour
    overwritten,  \* history: jobs some stale commit has written over
    pc,           \* where the script is
    statement,    \* the statement of get_metrics that runs next
    seen,         \* history: the status column as the first statement read it
    answer        \* the numbers read so far

queue == <<status, attempts, backoff, old, failed, overwritten>>
script == <<pc, statement, seen, answer>>
vars == <<queue, script>>

JobStatus == {"pending", "running", "succeeded", "dead_lettered", "cancelled"}
Visible == {j \in Jobs : status[j] # "none"}
Seen(s) == {j \in Jobs : seen[j] = s}
NoStatus == [j \in Jobs |-> "none"]
NoAnswer == [queue_depth |-> 0, jobs_created |-> 0, failures |-> 0, has_runtime |-> FALSE]

\* With --skip-seed the wait begins at once.
Init ==
    /\ status = NoStatus
    /\ attempts = [j \in Jobs |-> 0]
    /\ backoff = {}
    /\ old = {} /\ failed = {}
    /\ overwritten = {}
    /\ pc \in {"seeding", "waiting"}
    /\ statement = 1
    /\ seen = NoStatus
    /\ answer = NoAnswer

-----------------------------------------------------------------------------
(* The queue.                                                              *)

Insert(j) ==
    /\ status[j] = "none"
    /\ status' = [status EXCEPT ![j] = "pending"]
    /\ UNCHANGED <<attempts, backoff, old, failed, overwritten>>

\* Another client, such as a run with the same --prefix.
OtherClient(j) == Insert(j) /\ UNCHANGED script

\* Faulty: run_at is ignored.
ClaimEarly(j) ==
    /\ status[j] = "pending"
    /\ status' = [status EXCEPT ![j] = "running"]
    /\ attempts' = [attempts EXCEPT ![j] = IF @ <= MaxAttempts(j) THEN @ + 1 ELSE @]
    /\ UNCHANGED <<backoff, old, failed, overwritten, script>>

Claim(j) ==
    /\ status[j] = "pending" /\ j \notin backoff
    /\ status' = [status EXCEPT ![j] = "running"]
    /\ attempts' = [attempts EXCEPT ![j] = IF @ <= MaxAttempts(j) THEN @ + 1 ELSE @]
    /\ UNCHANGED <<backoff, old, failed, overwritten, script>>

\* The handlers of the demo.
MayRaise(j) ==
    \/ j \in FailAlways \cup RandomFail
    \/ j \in FailOnce /\ attempts[j] = 1

MayReturn(j) ==
    \/ j \in Sleep \cup RandomFail
    \/ j \in FailOnce /\ attempts[j] # 1

Succeed(j) ==
    /\ status[j] = "running" /\ MayReturn(j)
    /\ status' = [status EXCEPT ![j] = "succeeded"]
    /\ UNCHANGED <<attempts, backoff, old, failed, overwritten, script>>

AttemptsLeft(j) == attempts[j] < MaxAttempts(j)

Fail(j) ==
    /\ status[j] = "running" /\ MayRaise(j)
    /\ failed' = failed \cup {j}
    /\ IF AttemptsLeft(j)
       THEN status' = [status EXCEPT ![j] = "pending"] /\ backoff' = backoff \cup {j}
       ELSE status' = [status EXCEPT ![j] = "dead_lettered"] /\ UNCHANGED backoff
    /\ UNCHANGED <<attempts, old, overwritten, script>>

\* The worker is gone and the lease has expired.
Expire(j) ==
    /\ status[j] = "running"
    /\ status' = [status EXCEPT ![j] = "pending"]
    /\ UNCHANGED <<attempts, backoff, old, failed, overwritten, script>>

BackoffEnds(j) ==
    /\ j \in backoff
    /\ backoff' = backoff \ {j}
    /\ UNCHANGED <<status, attempts, old, failed, overwritten, script>>

Cancel(j) ==
    /\ status[j] = "pending"
    /\ status' = [status EXCEPT ![j] = "cancelled"]
    /\ backoff' = backoff \ {j}
    /\ UNCHANGED <<attempts, old, failed, overwritten, script>>

ManualRetry(j) ==
    /\ status[j] \in {"dead_lettered", "cancelled"}
    /\ status' = [status EXCEPT ![j] = "pending"]
    /\ attempts' = [attempts EXCEPT ![j] = 0]
    /\ UNCHANGED <<backoff, old, failed, overwritten, script>>

\* A commit over a row that has changed since it was read: whatever cancel_job,
\* manual_retry_job or complete_job_* assigns, after whatever happened since.
Overwrite(j, s) ==
    /\ status[j] # "none" /\ s # status[j]
    /\ Cardinality(overwritten) < MaxOverwritten
    /\ status' = [status EXCEPT ![j] = s]
    /\ failed' = IF s = "dead_lettered" THEN failed \cup {j} ELSE failed
    /\ overwritten' = overwritten \cup {j}
    /\ backoff' = backoff \ {j}
    /\ UNCHANGED <<attempts, old, script>>

Ages(j) ==
    /\ pc # "polling"
    /\ status[j] # "none"
    /\ old' = old \cup {j}
    /\ UNCHANGED <<status, attempts, backoff, failed, overwritten, script>>

\* No failure of a job is older than the job.
FailureAges(j) ==
    /\ pc # "polling"
    /\ j \in old \cap failed
    /\ failed' = failed \ {j}
    /\ UNCHANGED <<status, attempts, backoff, old, overwritten, script>>

-----------------------------------------------------------------------------
(* The script.                                                             *)

\* submit_job_batch: a job that is there already is an idempotent reuse.
SubmitJob(j) ==
    /\ pc = "seeding"
    /\ Insert(j)
    /\ UNCHANGED script

Seeded ==
    /\ pc = "seeding"
    /\ Visible = Jobs
    /\ pc' = "waiting"
    /\ UNCHANGED <<queue, statement, seen, answer>>

\* Any request may fail; main reports it and returns 1, whatever it has read.
HttpError ==
    /\ pc \in {"seeding", "polling"}
    /\ pc' = "failed"
    /\ statement' = 1 /\ seen' = NoStatus /\ answer' = NoAnswer
    /\ UNCHANGED queue

\* The head of wait_for_queue_idle's loop.
Poll ==
    /\ pc = "waiting"
    /\ pc' = "polling"
    /\ UNCHANGED <<queue, statement, seen, answer>>

\* Faulty: the jobs are counted by status at the end.
StatusLast == <<"queue_depth", "created", "failures", "runtime", "status">>

\* The statements of get_metrics; the worker counts are left out.
Statements == <<"status", "queue_depth", "created", "failures", "runtime">>

Run(s) ==
    /\ pc = "polling"
    /\ statement <= Len(Statements)
    /\ Statements[statement] = s
    /\ statement' = statement + 1
    /\ UNCHANGED <<queue, pc>>

CountByStatus == Run("status") /\ seen' = status /\ UNCHANGED answer

\* The pending jobs whose run_at was over when the request began.
ReadQueueDepth ==
    /\ Run("queue_depth") /\ UNCHANGED seen
    /\ \E n \in 0 .. Cardinality({j \in Jobs \ backoff : status[j] = "pending"}) :
          answer' = [answer EXCEPT !.queue_depth = n]

CountCreated ==
    /\ Run("created") /\ UNCHANGED seen
    /\ answer' = [answer EXCEPT !.jobs_created = Cardinality(Visible \ old)]

\* A job may have several job_failed events; the number of jobs that have one
\* is a lower bound of their number.
CountFailures ==
    /\ Run("failures") /\ UNCHANGED seen
    /\ answer' = [answer EXCEPT !.failures = Cardinality(failed)]

\* avg() is null if no row is succeeded.
AverageRuntime ==
    /\ Run("runtime") /\ UNCHANGED seen
    /\ answer' = [answer EXCEPT !.has_runtime = \E j \in Jobs : status[j] = "succeeded"]

\* Faulty: a job that waits for its retry, or runs, is overlooked.
NoDueJobs == answer.queue_depth = 0

QueueIdle == Seen("pending") \cup Seen("running") = {}

Answered == pc = "polling" /\ statement > Len(Statements)

\* wait_for_queue_idle returns the counts or sleeps.  Any fetch may be the one
\* after the deadline, which is returned unjudged; main goes on either way.
Judge ==
    /\ Answered
    /\ pc' \in {"timed_out", IF QueueIdle THEN "idle" ELSE "waiting"}
    /\ statement' = 1
    /\ IF pc' = "waiting" THEN seen' = NoStatus /\ answer' = NoAnswer
                          ELSE UNCHANGED <<seen, answer>>
    /\ UNCHANGED queue

-----------------------------------------------------------------------------
Queue(j) ==
    \/ OtherClient(j) \/ Claim(j) \/ Succeed(j) \/ Fail(j) \/ Expire(j) \/ BackoffEnds(j)
    \/ Cancel(j) \/ ManualRetry(j) \/ Ages(j) \/ FailureAges(j)
    \/ \E s \in JobStatus \ {"running"} : Overwrite(j, s)

Script ==
    \/ \E j \in Jobs : SubmitJob(j)
    \/ Seeded \/ HttpError \/ Poll \/ Judge
    \/ CountByStatus \/ ReadQueueDepth \/ CountCreated \/ CountFailures \/ AverageRuntime

Next ==
    \/ Script
    \/ pc \notin {"idle", "timed_out", "failed"} /\ \E j \in Jobs : Queue(j)

Spec == Init /\ [][Next]_vars

-----------------------------------------------------------------------------
\* The types of the variables.
TypeOK ==
    /\ status \in [Jobs -> JobStatus \cup {"none"}]
    /\ \A j \in Jobs : attempts[j] \in 0 .. (MaxAttempts(j) + 1)
    /\ backoff \subseteq {j \in Jobs : status[j] = "pending"}
    /\ old \subseteq Visible /\ failed \subseteq Jobs /\ overwritten \subseteq Jobs
    /\ pc \in {"seeding", "waiting", "polling", "idle", "timed_out", "failed"}
    /\ statement \in 1 .. (Len(Statements) + 1)
    /\ seen \in [Jobs -> JobStatus \cup {"none"}]
    /\ answer \in [queue_depth : Nat, jobs_created : Nat, failures : Nat, has_runtime : BOOLEAN]

\* When the wait ends with an idle queue, the counts it returns are those of
\* the profile: whatever crashed or was retried, each job that was there has
\* come to the end its handler implies, except for those a user has cancelled
\* or a stale commit has written over.
ExpectedMix ==
    pc = "idle" => \A j \in Jobs \ (Seen("none") \cup Seen("cancelled") \cup overwritten) :
        /\ seen[j] \in {"succeeded", "dead_lettered"}
        /\ j \in Sleep \cup FailOnce => seen[j] = "succeeded"
        /\ j \in FailAlways => seen[j] = "dead_lettered"

\* The numbers of one answer fit together although every statement has its own
\* snapshot, because the statuses are counted first and what explains them only
\* grows while the request lasts: of the jobs created within the hour, no dead
\* letter without a failure within it and none that is not counted as created;
\* no due job but those and the older ones; no success without a runtime.
MetricsFitTogether ==
    Answered =>
        /\ Cardinality(Seen("dead_lettered") \ old) <= answer.failures
        /\ Cardinality({j \in Jobs : seen[j] # "none"} \ old) <= answer.jobs_created
        /\ answer.queue_depth <= answer.jobs_created + Cardinality(old)
        /\ Seen("succeeded") \ overwritten # {} => answer.has_runtime
=============================================================================

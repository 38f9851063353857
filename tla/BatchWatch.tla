----------------------------- MODULE BatchWatch -----------------------------
(***************************************************************************)
(* The scripts that submit a batch of jobs over HTTP and wait for its end  *)
(* (load_test.py, and verify_queue.py --expected-succeeded), while other   *)
(* clients submit jobs too and workers finish them.                        *)
(*                                                                         *)
(* GET /api/jobs counts the jobs and then reads one page of them, newest   *)
(* first, in two statements.  fetch_jobs asks for page after page until it *)
(* has as many rows as the last count.  Nothing holds the list still.      *)
(*                                                                         *)
(* A job is named by the rank of its created_at, the start of its          *)
(* transaction; other clients' jobs may become visible later than that.    *)
(*                                                                         *)
(* A cancel, a manual retry, a failure or a completion that read the row   *)
(* of a job earlier can overwrite a terminal status, also succeeded        *)
(* (JobQueue shows how): here a StaleCommit, at any time.                  *)
(***************************************************************************)
EXTENDS Naturals, FiniteSets

CONSTANTS
    BatchSize,   \* --jobs of load_test.py, --expected-succeeded of verify_queue.py
    Limit,       \* page size
    MaxOthers    \* bound: jobs of other clients

ASSUME SizesAssumption == BatchSize \in Nat \ {0} /\ Limit \in Nat \ {0} /\ MaxOthers \in Nat

VARIABLES
    begun,     \* number of submissions begun
    batch,     \* jobs whose idempotency_key has the batch's prefix
    keyless,   \* jobs without an idempotency_key
    status,    \* of each job; "none" before its commit
    ended,     \* history: jobs that have been in a terminal status
    script,    \* which script waits for the batch
    pc,        \* where it is
    last,      \* the deadline had passed when this fetch began
    total,     \* the count of the latest page
    items,     \* the rows fetched, each with the offset of its page
    before,    \* history: the jobs visible, and those succeeded, when this fetch began
    undone,    \* history: jobs that had succeeded then, until a stale commit overwrote it
    slipped    \* history: a job became visible between the count and the read of a page

jobs == <<begun, batch, keyless, status, ended>>
client == <<pc, last, total, items, before, undone, slipped>>
vars == <<jobs, script, client>>

Job == 1 .. (BatchSize + MaxOthers)
TERMINAL_STATUSES == {"succeeded", "dead_lettered", "cancelled"}
Status == {"none", "active"} \cup TERMINAL_STATUSES
Item == [offset : Nat, job : Job, status : Status \ {"none"}]
Outcome == {"ok", "shortfall", "timed_out", "crashed"}

Init ==
    /\ begun = 0
    /\ batch = {}
    /\ keyless = {}
    /\ status = [j \in Job |-> "none"]
    /\ ended = {}
    /\ script \in {"load_test", "verify_queue"}
    /\ pc = "submitting"
    /\ last = FALSE
    /\ total = 0
    /\ items = {}
    /\ before = [visible |-> {}, succeeded |-> {}]
    /\ undone = {}
    /\ slipped = FALSE

Visible == {j \in Job : status[j] # "none"}
With(s) == {j \in Job : status[j] = s}

-----------------------------------------------------------------------------
(* The queue.                                                              *)

\* The batch is submitted one by one, each after the answer to the one before.
SubmitOwn ==
    /\ pc = "submitting"
    /\ begun' = begun + 1
    /\ batch' = batch \cup {begun'}
    /\ status' = [status EXCEPT ![begun'] = "active"]
    /\ pc' = IF Cardinality(batch') = BatchSize THEN "waiting" ELSE "submitting"
    /\ UNCHANGED <<keyless, ended, script, last, total, items, before, undone, slipped>>

OtherBegins(key) ==
    /\ begun - Cardinality(batch) < MaxOthers
    /\ begun' = begun + 1
    /\ keyless' = IF key THEN keyless ELSE keyless \cup {begun'}
    /\ UNCHANGED <<batch, status, ended, script, client>>

OtherCommits(j) ==
    /\ j <= begun
    /\ status[j] = "none"
    /\ status' = [status EXCEPT ![j] = "active"]
    /\ slipped' = (slipped \/ pc = "page")
    /\ UNCHANGED <<begun, batch, keyless, ended, script, pc, last, total, items, before, undone>>

End(j, s) ==
    /\ status[j] = "active"
    /\ status' = [status EXCEPT ![j] = s]
    /\ ended' = ended \cup {j}
    /\ UNCHANGED <<begun, batch, keyless, script, client>>

ManualRetry(j) ==
    /\ status[j] \in {"dead_lettered", "cancelled"}
    /\ status' = [status EXCEPT ![j] = "active"]
    /\ UNCHANGED <<begun, batch, keyless, ended, script, client>>

\* A service that read the row before it reached its terminal status commits
\* only now.
StaleCommit(j, s) ==
    /\ status[j] \in TERMINAL_STATUSES /\ s \notin {"none", status[j]}
    /\ status' = [status EXCEPT ![j] = s]
    /\ undone' = undone \cup ({j} \cap before.succeeded)
    /\ UNCHANGED <<begun, batch, keyless, ended, script, pc, last, total, items, before, slipped>>

-----------------------------------------------------------------------------
(* The waiting script.                                                     *)

\* The head of the waiting loop; past the deadline there is one more fetch.
StartFetch ==
    /\ pc = "waiting"
    /\ pc' = "count"
    /\ last' \in BOOLEAN
    /\ before' = [visible |-> Visible, succeeded |-> With("succeeded")]
    /\ UNCHANGED <<jobs, script, total, items, undone, slipped>>

CountJobs ==
    /\ pc = "count"
    /\ pc' = "page"
    /\ total' = Cardinality(Visible)
    /\ UNCHANGED <<jobs, script, last, items, before, undone, slipped>>

\* Faulty: rows that are not committed yet are read.
PageOfBegun(offset) ==
    {j \in 1 .. begun : Cardinality({k \in 1 .. begun : k > j}) \in offset .. (offset + Limit - 1)}

\* ORDER BY created_at DESC LIMIT .. OFFSET ..
Page(offset) ==
    {j \in Visible : Cardinality({k \in Visible : k > j}) \in offset .. (offset + Limit - 1)}

\* Faulty: one row too few.
FetchedNearly(rows) == Cardinality(rows) + 1 >= total

FetchedAll(rows) == Cardinality(rows) >= total

ReadPage ==
    /\ pc = "page"
    /\ LET offset == Cardinality(items)
       IN  items' = items \cup {[offset |-> offset, job |-> j, status |-> status[j]] : j \in Page(offset)}
    /\ pc' = IF FetchedAll(items') THEN "fetched" ELSE "count"
    /\ UNCHANGED <<jobs, script, last, total, before, undone, slipped>>

OfBatch == {i \in items : i.job \in batch}
Succeeded(rows) == Cardinality({i \in rows : i.status = "succeeded"})

Conclude(outcome) ==
    /\ pc' = outcome
    /\ UNCHANGED <<jobs, script, last, total, items, before, undone, slipped>>

\* The locals of this fetch are forgotten.
Sleep ==
    /\ pc' = "waiting"
    /\ last' = FALSE /\ total' = 0 /\ items' = {} /\ slipped' = FALSE
    /\ before' = [visible |-> {}, succeeded |-> {}] /\ undone' = {}
    /\ UNCHANGED <<jobs, script>>

\* Faulty: the batch counts as finished once one of its jobs has ended.
SomeEnded ==
    Cardinality(OfBatch) >= BatchSize /\ \E i \in OfBatch : i.status \in TERMINAL_STATUSES

BatchEnded ==
    Cardinality(OfBatch) >= BatchSize /\ \A i \in OfBatch : i.status \in TERMINAL_STATUSES

\* wait_for_batch, then build_report and the exit code of main.  The prefix
\* filter fails on a row whose idempotency_key is None.
JudgeBatch ==
    /\ pc = "fetched" /\ script = "load_test"
    /\ \/ (\E i \in items : i.job \in keyless) /\ Conclude("crashed")
       \/ /\ \A i \in items : i.job \notin keyless
          /\ \/ last /\ Conclude("timed_out")
             \/ ~last /\ ~BatchEnded /\ Sleep
             \/ ~last /\ BatchEnded
                  /\ Conclude(IF Succeeded(OfBatch) = BatchSize THEN "ok" ELSE "shortfall")

\* Faulty: one more than expected is asked for.
MoreThanExpected == Succeeded(items) > BatchSize

AsExpected == Succeeded(items) >= BatchSize

\* wait_for_jobs and the exit code of main; without a prefix all jobs count.
JudgeCounts ==
    /\ pc = "fetched" /\ script = "verify_queue"
    /\ \/ AsExpected /\ Conclude("ok")
       \/ ~AsExpected /\ last /\ Conclude("timed_out")
       \/ ~AsExpected /\ ~last /\ Sleep

-----------------------------------------------------------------------------
Queue ==
    \/ \E key \in BOOLEAN : OtherBegins(key)
    \/ \E j \in Job : OtherCommits(j) \/ ManualRetry(j)
    \/ \E j \in Job, s \in TERMINAL_STATUSES : End(j, s)
    \/ \E j \in Job, s \in Status : StaleCommit(j, s)

\* What happens after the script's exit is left out.
Next ==
    \/ SubmitOwn
    \/ pc \notin Outcome /\ Queue
    \/ StartFetch \/ CountJobs \/ ReadPage
    \/ JudgeBatch \/ JudgeCounts

Spec == Init /\ [][Next]_vars

-----------------------------------------------------------------------------
\* The types of the variables.
TypeOK ==
    /\ begun \in 0 .. (BatchSize + MaxOthers)
    /\ batch \subseteq 1 .. begun /\ keyless \subseteq 1 .. begun
    /\ status \in [Job -> Status]
    /\ ended \subseteq Job
    /\ script \in {"load_test", "verify_queue"}
    /\ pc \in {"submitting", "waiting", "count", "page", "fetched"} \cup Outcome
    /\ last \in BOOLEAN /\ slipped \in BOOLEAN
    /\ total \in 0 .. (BatchSize + MaxOthers)
    /\ items \subseteq Item
    /\ before \in [visible : SUBSET Job, succeeded : SUBSET Job]
    /\ undone \subseteq Job

\* A paged fetch of the moving list misses no job that was there when it
\* began, unless a submission slips in between a count and its page: others
\* move rows to later pages, and the next count asks for those.
NothingMissed ==
    pc = "fetched" /\ ~slipped => before.visible \subseteq {i.job : i \in items}

\* With the same exception, load_test.py stops waiting only when each job of
\* the batch has ended at some time, although its pages are read at different
\* times, rows of the batch may be read twice, and a manual retry or a stale
\* commit may take an ended job back.
ReportsEndedBatch ==
    script = "load_test" /\ pc \in {"ok", "shortfall"} /\ ~slipped => batch \subseteq ended

\* With the same exception, verify_queue.py reports a timeout only if the
\* expected number of jobs had not succeeded when its last fetch began, or
\* stale commits took successes away while it was fetching.
NoFalseTimeout ==
    script = "verify_queue" /\ pc = "timed_out" /\ ~slipped =>
        Cardinality(before.succeeded \ undone) < BatchSize

-----------------------------------------------------------------------------
(* A statement of README.md that the scripts do not keep.                  *)

\* "waits for completion", whatever other clients submit.
WaitsForCompletion ==
    script = "load_test" /\ pc \in {"ok", "shortfall"} => batch \subseteq ended
=============================================================================

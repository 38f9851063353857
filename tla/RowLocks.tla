------------------------------ MODULE RowLocks ------------------------------
(***************************************************************************)
(* The row locks of the queue's transactions, statement by statement: in   *)
(* which order each locks rows of "jobs" and "workers", who waits for whom *)
(* and why nobody waits in a circle.                                       *)
(*                                                                         *)
(* SELECT ... FOR UPDATE SKIP LOCKED never waits; an UPDATE waits for the  *)
(* transaction that holds its row.  The ORM sends an UPDATE when it        *)
(* flushes: before the next query of the session, and at the commit, which *)
(* writes jobs before workers.  Locks last until the transaction ends.     *)
(* Foreign keys add no waiting: a row they refer to is one that the        *)
(* transaction has updated itself.                                         *)
(*                                                                         *)
(* Of the data only what decides about locks is kept: who a job is leased  *)
(* to, whether the lease has expired, and the job a worker row points at.  *)
(* A job without owner stands for one that is due, as it soon is again.    *)
(***************************************************************************)
EXTENDS Naturals

CONSTANTS
    Jobs, Workers, Clients, NULL,
    ScansFitLease   \* TRUE: a lease granted while a scan is open outlives the scan

ASSUME RowsAssumption ==
    /\ Jobs \cap Workers = {} /\ Jobs \cap Clients = {} /\ Workers \cap Clients = {}
    /\ NULL \notin Jobs \cup Workers \cup Clients
ASSUME ScansAssumption == ScansFitLease \in BOOLEAN

VARIABLES
    owner,    \* jobs.locked_by of a running job
    lapsed,   \* running jobs whose lease_expires_at has passed
    pointer,  \* workers.current_job_id
    task,     \* the job each worker process is executing
    op,       \* the open transaction of each worker and request
    holds,    \* the rows it has locked
    todo,     \* the rows it has changed and is going to lock when it flushes
    left,     \* of a scan: the selected jobs its loop has not come to yet
    loaded,   \* of a scan: current_job_id of the worker rows in its session
    recent    \* history, of a scan: leases granted since it began

data == <<owner, lapsed, pointer, task>>
scans == <<left, loaded, recent>>
vars == <<owner, lapsed, pointer, task, op, holds, todo, left, loaded, recent>>

Actors == Workers \cup Clients
Rows == Jobs \cup Workers

\* What a session has loaded: current_job_id of some worker rows.
Session == UNION {[V -> Jobs \cup {NULL}] : V \in SUBSET Workers}
Nothing == [v \in {} |-> NULL]

Init ==
    /\ owner = [j \in Jobs |-> NULL]
    /\ lapsed = {}
    /\ pointer = [w \in Workers |-> NULL]
    /\ task = [w \in Workers |-> NULL]
    /\ op = [a \in Actors |-> "none"]
    /\ holds = [a \in Actors |-> {}]
    /\ todo = [a \in Actors |-> {}]
    /\ left = [w \in Workers |-> {}]
    /\ loaded = [w \in Workers |-> Nothing]
    /\ recent = [w \in Workers |-> {}]

Free(r) == \A a \in Actors : r \notin holds[a]

Begin(a, o, locked, changed) ==
    /\ op[a] = "none"
    /\ op' = [op EXCEPT ![a] = o]
    /\ holds' = [holds EXCEPT ![a] = locked]
    /\ todo' = [todo EXCEPT ![a] = changed]

End(a, o) ==
    /\ op[a] = o
    /\ todo[a] = {}
    /\ op' = [op EXCEPT ![a] = "none"]
    /\ holds' = [holds EXCEPT ![a] = {}]
    /\ UNCHANGED todo

\* Faulty: the worker's row is updated before the job's.
WorkerFirst(a) == IF todo[a] \cap Workers # {} THEN todo[a] \cap Workers ELSE todo[a]

\* The rows whose UPDATE may be the next.
Wants(a) == IF todo[a] \cap Jobs # {} THEN todo[a] \cap Jobs ELSE todo[a]

Lock(a, r) ==
    /\ r \in Wants(a)
    /\ Free(r)
    /\ holds' = [holds EXCEPT ![a] = @ \cup {r}]
    /\ todo' = [todo EXCEPT ![a] = @ \ {r}]
    /\ UNCHANGED <<data, op, scans>>

-----------------------------------------------------------------------------
(* Cancel and manual retry: one UPDATE of the job.  What they write is left *)
(* open, but for the owner, which a retry may clear.                        *)

RequestBegins(c, j) == Begin(c, "request", {}, {j}) /\ UNCHANGED <<data, scans>>

RequestCommits(c) ==
    /\ End(c, "request")
    /\ \E js \in {{}, holds[c]} :
        /\ owner' = [j \in Jobs |-> IF j \in js THEN NULL ELSE owner[j]]
        /\ lapsed' = lapsed \ js
    /\ UNCHANGED <<pointer, task, scans>>

-----------------------------------------------------------------------------
(* The worker.                                                             *)

\* register_worker and touch_worker_heartbeat.
HeartbeatBegins(w) ==
    /\ task[w] = NULL
    /\ Begin(w, "heartbeat", {}, {w})
    /\ UNCHANGED <<data, scans>>

HeartbeatCommits(w) == End(w, "heartbeat") /\ UNCHANGED <<data, scans>>

Claimable(j) == owner[j] = NULL /\ Free(j)

\* The read of the worker row flushes the job, which is locked already; the
\* commit flushes the worker row.
ClaimBegins(w, j) ==
    /\ task[w] = NULL
    /\ Claimable(j)
    /\ Begin(w, "claim", {j}, {w})
    /\ UNCHANGED <<data, scans>>

ClaimCommits(w) ==
    /\ End(w, "claim")
    /\ \E j \in holds[w] \cap Jobs :
        /\ owner' = [owner EXCEPT ![j] = w]
        /\ pointer' = [pointer EXCEPT ![w] = j]
        /\ task' = [task EXCEPT ![w] = j]
        /\ recent' = [v \in Workers |-> IF op[v] = "scan" THEN recent[v] \cup {j} ELSE recent[v]]
    /\ UNCHANGED <<lapsed, left, loaded>>

\* complete_job_success and complete_job_failure: the read of the worker row
\* flushes the job, the commit flushes the worker row.
CompletionBegins(w) ==
    /\ task[w] # NULL
    /\ owner[task[w]] = w
    /\ Begin(w, "completion", {}, {task[w], w})
    /\ UNCHANGED <<data, scans>>

CompletionCommits(w) ==
    /\ End(w, "completion")
    /\ owner' = [owner EXCEPT ![task[w]] = NULL]
    /\ lapsed' = lapsed \ {task[w]}
    /\ pointer' = [pointer EXCEPT ![w] = NULL]
    /\ task' = [task EXCEPT ![w] = NULL]
    /\ UNCHANGED scans

\* complete_job_* returns None.
GiveUp(w) ==
    /\ op[w] = "none"
    /\ task[w] # NULL
    /\ owner[task[w]] # w
    /\ task' = [task EXCEPT ![w] = NULL]
    /\ UNCHANGED <<owner, lapsed, pointer, op, holds, todo, scans>>

ScanBegins(w) ==
    LET found == {j \in lapsed : Free(j)} IN
    /\ task[w] = NULL
    /\ found # {}
    /\ Begin(w, "scan", found, {})
    /\ left' = [left EXCEPT ![w] = found]
    /\ UNCHANGED <<data, loaded, recent>>

\* Faulty: the scan clears the worker row whatever it points at.
ClearsAnyway(current, j) == TRUE

PointsAt(current, j) == current = j

\* current_job_id as this transaction reads it: it sees its own UPDATE.
PointerRead(w, v) == IF v \in holds[w] THEN NULL ELSE pointer[v]

\* One turn of the loop over the selected jobs.  The session keeps a worker row
\* it has loaded while something refers to it, perhaps longer (kept); otherwise
\* the row is read, which first flushes what was changed before.
ScanNext(w, j) ==
    /\ j \in left[w]
    /\ \E kept \in BOOLEAN :
        LET v == owner[j]
            current == IF kept THEN loaded[w][v] ELSE PointerRead(w, v)
            clear == PointsAt(current, j)
        IN  /\ IF kept THEN v \in DOMAIN loaded[w] ELSE todo[w] = {}
            /\ loaded' = [loaded EXCEPT ![w] =
                             [u \in DOMAIN @ \cup {v} |->
                                 IF u # v THEN @[u] ELSE IF clear THEN NULL ELSE current]]
            /\ todo' = [todo EXCEPT ![w] = IF clear /\ v \notin holds[w] THEN @ \cup {v} ELSE @]
    /\ left' = [left EXCEPT ![w] = @ \ {j}]
    /\ UNCHANGED <<data, op, holds, recent>>

Forget(w) ==
    /\ left' = [left EXCEPT ![w] = {}]
    /\ loaded' = [loaded EXCEPT ![w] = Nothing]
    /\ recent' = [recent EXCEPT ![w] = {}]

\* Faulty: the job is released, its lease is not.
StillLapsed(w) == lapsed

LapsedAfterScan(w) == lapsed \ holds[w]

ScanCommits(w) ==
    /\ End(w, "scan")
    /\ left[w] = {}
    /\ owner' = [j \in Jobs |-> IF j \in holds[w] THEN NULL ELSE owner[j]]
    /\ lapsed' = LapsedAfterScan(w)
    /\ pointer' = [v \in Workers |-> IF v \in holds[w] THEN NULL ELSE pointer[v]]
    /\ Forget(w)
    /\ UNCHANGED task

-----------------------------------------------------------------------------
\* A request fails, or a worker dies or is restarted, at any point.
Rollback(a) ==
    /\ op' = [op EXCEPT ![a] = "none"]
    /\ holds' = [holds EXCEPT ![a] = {}]
    /\ todo' = [todo EXCEPT ![a] = {}]

RequestFails(c) == op[c] # "none" /\ Rollback(c) /\ UNCHANGED <<data, scans>>

Crash(w) ==
    /\ op[w] # "none" \/ task[w] # NULL
    /\ Rollback(w)
    /\ Forget(w)
    /\ task' = [task EXCEPT ![w] = NULL]
    /\ UNCHANGED <<owner, lapsed, pointer>>

Lapse(j) ==
    /\ owner[j] # NULL
    /\ ScansFitLease => \A w \in Workers : j \notin recent[w]
    /\ lapsed' = lapsed \cup {j}
    /\ UNCHANGED <<owner, pointer, task, op, holds, todo, scans>>

Request(c) == (\E j \in Jobs : RequestBegins(c, j)) \/ RequestCommits(c) \/ RequestFails(c)

Worker(w) ==
    \/ HeartbeatBegins(w) \/ HeartbeatCommits(w)
    \/ (\E j \in Jobs : ClaimBegins(w, j)) \/ ClaimCommits(w)
    \/ CompletionBegins(w) \/ CompletionCommits(w) \/ GiveUp(w)
    \/ ScanBegins(w) \/ (\E j \in Jobs : ScanNext(w, j)) \/ ScanCommits(w)
    \/ Crash(w)

Next ==
    \/ \E a \in Actors, r \in Rows : Lock(a, r)
    \/ \E c \in Clients : Request(c)
    \/ \E w \in Workers : Worker(w)
    \/ \E j \in Jobs : Lapse(j)

Spec == Init /\ [][Next]_vars

-----------------------------------------------------------------------------
\* The types of the variables.
TypeOK ==
    /\ owner \in [Jobs -> Workers \cup {NULL}]
    /\ lapsed \subseteq {j \in Jobs : owner[j] # NULL}
    /\ pointer \in [Workers -> Jobs \cup {NULL}]
    /\ task \in [Workers -> Jobs \cup {NULL}]
    /\ op \in [Actors -> {"none", "request", "heartbeat", "claim", "completion", "scan"}]
    /\ holds \in [Actors -> SUBSET Rows]
    /\ todo \in [Actors -> SUBSET Rows]
    /\ left \in [Workers -> SUBSET Jobs]
    /\ loaded \in [Workers -> Session]
    /\ recent \in [Workers -> SUBSET Jobs]

\* a cannot go on before b ends.
WaitsFor(a, b) == a # b /\ Wants(a) \cap holds[b] # {}

\* As long as scans fit the lease, no transactions of workers and requests ever
\* wait for each other in a circle, however scans, completions, claims,
\* heartbeats and requests meet on rows of jobs and workers.
NoDeadlock ==
    ScansFitLease =>
        \A S \in SUBSET Actors : S # {} => \E a \in S : \A b \in S : ~WaitsFor(a, b)

\* As long as scans fit the lease, no two open scans of recover_expired_leases
\* clear the same worker row, although each looks at current_job_id without a
\* lock and updates it later: only two scans could wait for each other.
ScansClearDifferentWorkers ==
    ScansFitLease =>
        \A u, v \in Workers : u # v /\ op[u] = "scan" /\ op[v] = "scan" =>
            (holds[u] \cup todo[u]) \cap (holds[v] \cup todo[v]) = {}
=============================================================================

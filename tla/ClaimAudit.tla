----------------------------- MODULE ClaimAudit -----------------------------
(***************************************************************************)
(* The queue with the record that verify_claims (scripts/verify_queue.py,  *)
(* also run by load_test.py) audits: the attempt numbers in the payloads   *)
(* of a job's job_claimed events.  A number that occurs twice is reported  *)
(* as a duplicate claim.                                                   *)
(*                                                                         *)
(* JobQueue runs unchanged; every step of it also writes the history.      *)
(* Numbers above MaxAttempts, which JobRow does not tell apart, are not    *)
(* recorded.  Events are never deleted, so an audit that reports nothing   *)
(* at some moment would have reported nothing before.                      *)
(***************************************************************************)
EXTENDS JobQueue

VARIABLES
    claims,   \* number of job_claimed events of each job by attempt, up to 2
    retried   \* jobs with a job_manually_retried event

audit == <<claims, retried>>

AuditInit ==
    /\ Init
    /\ claims = [j \in Jobs |-> [n \in 1 .. MaxAttempts |-> 0]]
    /\ retried = {}

ClaimedNow(j) == \E w \in Workers : Claim(w, j)
RetriedNow(j) == \E c \in Clients : txn[c] # NULL /\ txn[c].job = j /\ RetryCommit(c)

CountUpTo2(n) == IF n < 2 THEN n + 1 ELSE n

\* The number in the payload of job_claimed is the one the claim stores.
Record ==
    /\ claims' = [j \in Jobs |->
          IF ClaimedNow(j)
          THEN [n \in 1 .. MaxAttempts |->
                   IF n = jobs'[j].attempts THEN CountUpTo2(claims[j][n]) ELSE claims[j][n]]
          ELSE claims[j]]
    /\ retried' = retried \cup {j \in Jobs : RetriedNow(j)}

AuditNext == Next /\ Record

AuditSpec == AuditInit /\ [][AuditNext]_<<vars, audit>>

\* verify_claims: the jobs with a duplicate attempt number.
DuplicateClaims == {j \in Jobs : \E n \in 1 .. MaxAttempts : claims[j][n] > 1}

-----------------------------------------------------------------------------
\* Each job is claimed at most once per attempt, through crashes, lapsed
\* leases and stale commits: verify_claims reports a job only if it has been
\* retried by hand, which starts its numbers again from 1.
DuplicateOnlyAfterRetry == DuplicateClaims \subseteq retried
=============================================================================

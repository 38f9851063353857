---------------------------- MODULE JobLifecycle ----------------------------
(***************************************************************************)
(* What the queue promises about its jobs: the state diagram of README.md  *)
(* ("Job lifecycle"), with the owner of a running job and the number of    *)
(* attempts.  A job is "overwritten" once some commit has written over a   *)
(* row it had not read; nothing is promised about it from then on.         *)
(***************************************************************************)
EXTENDS Naturals

CONSTANTS
    Jobs, Workers, NULL,
    max_attempts    \* of each job

VARIABLES status, owner, tries

vars == <<status, owner, tries>>

Init ==
    /\ status = [j \in Jobs |-> "none"]
    /\ owner = [j \in Jobs |-> NULL]
    /\ tries = [j \in Jobs |-> 0]

Move(j, from, to) == status[j] = from /\ status'[j] = to

Create(j) == Move(j, "none", "pending") /\ owner'[j] = owner[j] /\ tries'[j] = tries[j]

\* Attempts beyond the budget are not told apart.
Claim(j) ==
    /\ Move(j, "pending", "running")
    /\ owner'[j] \in Workers
    /\ tries'[j] = IF tries[j] <= max_attempts[j] THEN tries[j] + 1 ELSE tries[j]

Release(j) == owner'[j] = NULL /\ tries'[j] = tries[j]

Succeed(j) == Move(j, "running", "succeeded") /\ Release(j)

FailAndRetry(j) == Move(j, "running", "pending") /\ tries[j] < max_attempts[j] /\ Release(j)

DeadLetter(j) == Move(j, "running", "dead_lettered") /\ tries[j] >= max_attempts[j] /\ Release(j)

\* A lease expires: the attempt is not given back, and none has to be left.
Expire(j) == Move(j, "running", "pending") /\ Release(j)

Cancel(j) == Move(j, "pending", "cancelled") /\ owner'[j] = owner[j] /\ tries'[j] = tries[j]

ManualRetry(j) ==
    /\ Move(j, "dead_lettered", "pending") \/ Move(j, "cancelled", "pending")
    /\ owner'[j] = NULL
    /\ tries'[j] = 0

Overwrite(j) ==
    /\ status[j] # "overwritten" /\ status'[j] = "overwritten"
    /\ owner'[j] = NULL
    /\ tries'[j] = 0

Stay(j) == status'[j] = status[j] /\ owner'[j] = owner[j] /\ tries'[j] = tries[j]

Step(j) ==
    \/ Create(j) \/ Claim(j) \/ Succeed(j) \/ FailAndRetry(j) \/ DeadLetter(j)
    \/ Expire(j) \/ Cancel(j) \/ ManualRetry(j) \/ Overwrite(j)

\* One recovery scan moves every job whose lease has expired.
Next == \A j \in Jobs : Stay(j) \/ Step(j)

Spec == Init /\ [][Next]_vars
=============================================================================

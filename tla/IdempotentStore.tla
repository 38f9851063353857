-------------------------- MODULE IdempotentStore --------------------------
(***************************************************************************)
(* What POST /api/jobs promises about idempotency keys (README.md,         *)
(* "Idempotency rules"): the first request with a key creates the job, at  *)
(* one moment and once; a later one with equal data is given that job, one *)
(* with other data is refused.  A client that is told nothing does not     *)
(* know: its request may have created its job, or may still create it, and *)
(* a repeat with the key finds that job then.                              *)
(***************************************************************************)
CONSTANTS Requests, Keys, NULL

VARIABLES
    request,   \* the key and the body of each request
    created,   \* the requests that have created a job, whose id they are
    answer     \* what each request was told, and about which job

vars == <<request, created, answer>>

NoAnswer == [code |-> "none", job |-> NULL]

Init == created = {} /\ answer = [r \in Requests |-> NoAnswer]

Holder(r) == {s \in created : request[s].key = request[r].key /\ request[r].key # NULL}

Tell(r, code, job) ==
    /\ answer[r] = NoAnswer
    /\ answer' = [answer EXCEPT ![r] = [code |-> code, job |-> job]]
    /\ UNCHANGED request

Unaware(r) == answer[r].code \in {"none", "lost"}

\* The job is created before its client is told, if it is ever told.
Create(r) ==
    /\ r \notin created /\ Unaware(r)
    /\ Holder(r) = {}
    /\ created' = created \cup {r}
    /\ UNCHANGED <<request, answer>>

Confirm(r) == r \in created /\ Tell(r, "created", r) /\ UNCHANGED created

Replay(r) ==
    /\ r \notin created
    /\ \E s \in Holder(r) : request[s].body = request[r].body /\ Tell(r, "existing", s)
    /\ UNCHANGED created

Refuse(r) ==
    /\ r \notin created
    /\ \E s \in Holder(r) : request[s].body # request[r].body /\ Tell(r, "conflict", s)
    /\ UNCHANGED created

Lose(r) == Tell(r, "lost", NULL) /\ UNCHANGED created

Next == \E r \in Requests : Create(r) \/ Confirm(r) \/ Replay(r) \/ Refuse(r) \/ Lose(r)

Spec == Init /\ [][Next]_vars
=============================================================================

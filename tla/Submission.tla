----------------------------- MODULE Submission -----------------------------
(***************************************************************************)
(* POST /api/jobs: create_job, from the lookup of the idempotency key to   *)
(* the commit, for requests that run concurrently.                         *)
(*                                                                         *)
(* The lookup reads committed jobs only; between it and the INSERT other   *)
(* requests may insert the same key.  The unique index on idempotency_key  *)
(* decides: an INSERT waits for an uncommitted one with its key, fails     *)
(* with IntegrityError if that commits and goes ahead if it is rolled      *)
(* back.  After the commit the row is read again (refresh) and sent: that  *)
(* read, or the response, can be lost although the job exists.  A job is   *)
(* named by the request that creates it.                                   *)
(***************************************************************************)
CONSTANTS Requests, Keys, Bodies, NULL

ASSUME KeysAssumption == NULL \notin Keys \cup Requests

VARIABLES
    request,    \* idempotency_key (or none) and the compared fields of each request
    created,    \* committed jobs
    pc,         \* how far each request's create_job is
    answer      \* what the client knows: nothing yet, 201, 200, 409, 500, or no answer will come

vars == <<request, created, pc, answer>>

Request == [key : Keys \cup {NULL}, body : Bodies]
NoAnswer == [code |-> "none", job |-> NULL]
Answer == [code : {"none", "created", "existing", "conflict", "error", "lost"},
           job : Requests \cup {NULL}]

\* "looked_up": no job has the key; "flushed": the INSERT has been executed;
\* "rejected": it failed with IntegrityError and was rolled back;
\* "committed": the job exists, its row is still to be refreshed and sent.
Progress == {"received", "looked_up", "flushed", "rejected", "committed", "done"}

Init ==
    /\ request \in [Requests -> Request]
    /\ created = {}
    /\ pc = [r \in Requests |-> "received"]
    /\ answer = [r \in Requests |-> NoAnswer]

SameKey(r, s) == request[r].key # NULL /\ request[r].key = request[s].key

\* get_job_by_idempotency_key
ByKey(r) == {s \in created : SameKey(r, s)}

\* Requests whose INSERT holds the key of r in the unique index, uncommitted.
InFlight(r) == {s \in Requests \ {r} : pc[s] = "flushed" /\ SameKey(r, s)}

\* Faulty: a response without a status code.
FinishUnlabelled(r, code, job) ==
    /\ pc' = [pc EXCEPT ![r] = "done"]
    /\ answer' = [answer EXCEPT ![r] = [code |-> NULL, job |-> job]]
    /\ UNCHANGED request

\* The request ends; a client that has given up learns nothing from it.
Finish(r, code, job) ==
    /\ pc' = [pc EXCEPT ![r] = "done"]
    /\ answer' = [answer EXCEPT ![r] = IF @ = NoAnswer THEN [code |-> code, job |-> job] ELSE @]
    /\ UNCHANGED request

\* An existing job with the key: the same data gets it, other data gets 409.
ReplayOrRefuse(r, s) ==
    IF request[s].body = request[r].body THEN Finish(r, "existing", s)
    ELSE Finish(r, "conflict", s)

Lookup(r) ==
    /\ pc[r] = "received"
    /\ UNCHANGED created
    /\ \/ /\ ByKey(r) = {}
          /\ pc' = [pc EXCEPT ![r] = "looked_up"]
          /\ UNCHANGED <<request, answer>>
       \/ \E s \in ByKey(r) : ReplayOrRefuse(r, s)

\* Faulty: no unique index.
FlushAnyway(r) ==
    /\ pc[r] = "looked_up"
    /\ pc' = [pc EXCEPT ![r] = "flushed"]
    /\ UNCHANGED <<request, created, answer>>

\* Faulty: an uncommitted INSERT with the key counts as a violation.
FlushNoWait(r) ==
    /\ pc[r] = "looked_up"
    /\ pc' = [pc EXCEPT ![r] = IF ByKey(r) \cup InFlight(r) = {} THEN "flushed" ELSE "rejected"]
    /\ UNCHANGED <<request, created, answer>>

Flush(r) ==
    /\ pc[r] = "looked_up"
    /\ InFlight(r) = {}
    /\ pc' = [pc EXCEPT ![r] = IF ByKey(r) = {} THEN "flushed" ELSE "rejected"]
    /\ UNCHANGED <<request, created, answer>>

\* The job and its job_created event are committed together.
Commit(r) ==
    /\ pc[r] = "flushed"
    /\ created' = created \cup {r}
    /\ pc' = [pc EXCEPT ![r] = "committed"]
    /\ UNCHANGED <<request, answer>>

\* Faulty: the new job is sent before it is committed.
RespondEarly(r) ==
    /\ pc[r] \in {"flushed", "committed"}
    /\ Finish(r, "created", r)
    /\ UNCHANGED created

\* The committed row is read again and sent with 201.
Respond(r) ==
    /\ pc[r] = "committed"
    /\ Finish(r, "created", r)
    /\ UNCHANGED created

\* Faulty: the rolled back request starts again instead of looking up the winner.
LookupAgainInsert(r) ==
    /\ pc[r] = "rejected"
    /\ pc' = [pc EXCEPT ![r] = "looked_up"]
    /\ UNCHANGED <<request, created, answer>>

\* After the rollback the winner's job is looked up; without one the
\* IntegrityError is raised again and the client gets a 500.
LookupAgain(r) ==
    /\ pc[r] = "rejected"
    /\ UNCHANGED created
    /\ \/ ByKey(r) = {} /\ Finish(r, "error", NULL)
       \/ \E s \in ByKey(r) : ReplayOrRefuse(r, s)

\* The client times out or loses its connection, before or after the commit;
\* the handler goes on.
GiveUp(r) ==
    /\ pc[r] # "done"
    /\ answer[r] = NoAnswer
    /\ answer' = [answer EXCEPT ![r] = [code |-> "lost", job |-> NULL]]
    /\ UNCHANGED <<request, created, pc>>

\* The server or its database session fails, at the latest in the refresh:
\* what is not committed is rolled back, a committed job stays.
Fail(r) ==
    /\ pc[r] # "done"
    /\ Finish(r, "lost", NULL)
    /\ UNCHANGED created

Step(r) == Lookup(r) \/ Flush(r) \/ Commit(r) \/ Respond(r) \/ LookupAgain(r)

Next == \E r \in Requests : Step(r) \/ GiveUp(r) \/ Fail(r)

Spec == Init /\ [][Next]_vars

\* The server goes on with every request it has received.
FairSpec == Spec /\ \A r \in Requests : WF_vars(Step(r))

-----------------------------------------------------------------------------
\* The types of the variables.
TypeOK ==
    /\ request \in [Requests -> Request]
    /\ created \subseteq Requests
    /\ pc \in [Requests -> Progress]
    /\ answer \in [Requests -> Answer]

\* Double clicks and network retries enqueue one job: no two committed jobs
\* have the same idempotency key, however lookups and inserts interleave.
OneJobPerKey == \A r, s \in created : SameKey(r, s) => r = s

\* The race with another insert never surfaces as a 500: whoever is rejected
\* by the unique index finds the winner's job.
RejectedFindsWinner == \A r \in Requests : answer[r].code # "error"

\* The server ends every request: waiting for an uncommitted insert of the same
\* key always ends, and nobody is rejected for ever.
EveryRequestAnswered == \A r \in Requests : <>(pc[r] = "done")

\* Lookup, insert, rollback and second lookup together act like one atomic
\* "create unless the key is taken": what a request does, it does once and at
\* its commit, whether or not its client is there to hear of it, so that the
\* repeat of a lost request is given the job the lost one has created.
Store == INSTANCE IdempotentStore
ActsAtomically == Store!Spec
=============================================================================

-------------------------- MODULE SubmissionProofs --------------------------
(***************************************************************************)
(* Idempotent submission for any number of requests, keys and bodies.      *)
(***************************************************************************)
EXTENDS Submission, TLAPS

\* The unique index: a flushed insert is the only holder of its key, among the
\* committed jobs and the other flushed inserts.
IndexOK ==
    \A r \in Requests : pc[r] = "flushed" => ByKey(r) = {} /\ InFlight(r) = {}

\* A rejected insert met a job that is committed, and jobs are never deleted.
RejectedOK == \A r \in Requests : pc[r] = "rejected" => ByKey(r) # {}

\* While a request runs its client has been told nothing.
AnswersOK == \A r \in Requests : pc[r] # "done" => answer[r].code \in {"none", "lost"}

NoAnswerOK == \A r \in Requests : answer[r].code = "none" => answer[r] = NoAnswer

\* A request has its job from its commit on, and not before.
CommitOK ==
    \A r \in Requests : /\ pc[r] = "committed" => r \in created
                        /\ pc[r] \in {"received", "looked_up", "flushed", "rejected"} => r \notin created

IInv == /\ TypeOK /\ OneJobPerKey /\ IndexOK /\ RejectedOK
        /\ AnswersOK /\ NoAnswerOK /\ CommitOK /\ RejectedFindsWinner

\* Requests that have just arrived.
LEMMA InitIInv == Init => IInv
BY DEF Init, IInv, TypeOK, Progress, Answer, NoAnswer, OneJobPerKey, IndexOK, RejectedOK,
   AnswersOK, NoAnswerOK, CommitOK, RejectedFindsWinner, InFlight

\* A finished request keeps its answer and disturbs nobody's insert.
LEMMA FinishIInv ==
    ASSUME IInv, NEW r \in Requests, NEW code \in {"created", "existing", "conflict", "lost"},
           NEW job \in Requests \cup {NULL}, Finish(r, code, job), created' = created
    PROVE  IInv'
<1>1. \A q \in Requests : pc'[q] = IF q = r THEN "done" ELSE pc[q]
  BY DEF Finish, IInv, TypeOK
<1>2. \A q \in Requests : answer'[q] = IF q = r /\ answer[r] = NoAnswer
                                       THEN [code |-> code, job |-> job] ELSE answer[q]
  BY DEF Finish, IInv, TypeOK
<1>3. TypeOK'
  <2>1. [code |-> code, job |-> job] \in Answer
    BY DEF Answer
  <2> QED
    BY <2>1 DEF Finish, IInv, TypeOK, Progress
<1>4. OneJobPerKey'
  BY DEF Finish, IInv, OneJobPerKey, SameKey
<1>5. IndexOK' /\ RejectedOK'
  BY <1>1 DEF Finish, IInv, TypeOK, IndexOK, RejectedOK, ByKey, InFlight, SameKey
<1>6. AnswersOK' /\ NoAnswerOK' /\ RejectedFindsWinner'
  BY <1>1, <1>2 DEF IInv, AnswersOK, NoAnswerOK, RejectedFindsWinner
<1>7. CommitOK'
  BY <1>1 DEF IInv, CommitOK
<1> QED
  BY <1>3, <1>4, <1>5, <1>6, <1>7 DEF IInv

\* The invariant is inductive.
LEMMA NextIInv == IInv /\ [Next]_vars => IInv'
<1> SUFFICES ASSUME IInv, [Next]_vars PROVE IInv'
  OBVIOUS
<1>1. ASSUME NEW r \in Requests, NEW s \in Requests, ReplayOrRefuse(r, s), created' = created
      PROVE  IInv'
  BY <1>1, FinishIInv DEF ReplayOrRefuse
<1>2. ASSUME NEW r \in Requests, Lookup(r) PROVE IInv'
  <2>1. CASE pc' = [pc EXCEPT ![r] = "looked_up"] /\ UNCHANGED <<request, created, answer>>
    BY <1>2, <2>1 DEF Lookup, IInv, TypeOK, Progress, OneJobPerKey, IndexOK, RejectedOK, AnswersOK,
       NoAnswerOK, CommitOK, RejectedFindsWinner, ByKey, InFlight, SameKey
  <2>2. CASE \E s \in ByKey(r) : ReplayOrRefuse(r, s)
    BY <1>1, <1>2, <2>2 DEF Lookup, ByKey, IInv, TypeOK
  <2> QED
    BY <1>2, <2>1, <2>2 DEF Lookup
<1>3. ASSUME NEW r \in Requests, Flush(r) PROVE IInv'
  <2>1. pc' \in [Requests -> Progress] /\ TypeOK'
    BY <1>3 DEF Flush, IInv, TypeOK, Progress
  <2>2. \A q \in Requests : pc'[q] = IF q # r THEN pc[q]
                                    ELSE IF ByKey(r) = {} THEN "flushed" ELSE "rejected"
    BY <1>3 DEF Flush, IInv, TypeOK
  <2>3. IndexOK'
    BY <1>3, <2>2 DEF Flush, IInv, IndexOK, ByKey, InFlight, SameKey
  <2>4. RejectedOK' /\ OneJobPerKey'
    BY <1>3, <2>2 DEF Flush, IInv, RejectedOK, OneJobPerKey, ByKey, SameKey
  <2>5. AnswersOK' /\ NoAnswerOK' /\ CommitOK' /\ RejectedFindsWinner'
    BY <1>3, <2>2 DEF Flush, IInv, AnswersOK, NoAnswerOK, CommitOK, RejectedFindsWinner
  <2> QED
    BY <2>1, <2>3, <2>4, <2>5 DEF IInv
<1>4. ASSUME NEW r \in Requests, Commit(r) PROVE IInv'
  <2>1. TypeOK'
    BY <1>4 DEF Commit, IInv, TypeOK, Progress
  <2>2. ByKey(r) = {} /\ InFlight(r) = {}
    BY <1>4 DEF Commit, IInv, IndexOK
  <2>3. \A q \in Requests : pc'[q] = IF q = r THEN "committed" ELSE pc[q]
    BY <1>4 DEF Commit, IInv, TypeOK
  <2>4. OneJobPerKey'
    BY <1>4, <2>2 DEF Commit, IInv, TypeOK, OneJobPerKey, ByKey, SameKey
  <2>5. IndexOK'
    BY <1>4, <2>2, <2>3 DEF Commit, IInv, IndexOK, ByKey, InFlight, SameKey
  <2>6. RejectedOK'
    BY <1>4, <2>3 DEF Commit, IInv, RejectedOK, ByKey, SameKey
  <2>7. AnswersOK' /\ NoAnswerOK' /\ CommitOK' /\ RejectedFindsWinner'
    BY <1>4, <2>3 DEF Commit, IInv, AnswersOK, NoAnswerOK, CommitOK, RejectedFindsWinner
  <2> QED
    BY <2>1, <2>4, <2>5, <2>6, <2>7 DEF IInv
<1>5. ASSUME NEW r \in Requests, Respond(r) PROVE IInv'
  BY <1>5, FinishIInv DEF Respond
<1>6. ASSUME NEW r \in Requests, LookupAgain(r) PROVE IInv'
  <2>1. ByKey(r) # {}
    BY <1>6 DEF LookupAgain, IInv, RejectedOK
  <2> QED
    BY <1>1, <1>6, <2>1 DEF LookupAgain, ByKey, IInv, TypeOK
<1>7. ASSUME NEW r \in Requests, GiveUp(r) PROVE IInv'
  <2>1. [code |-> "lost", job |-> NULL] \in Answer
    BY DEF Answer
  <2>2. TypeOK'
    BY <1>7, <2>1 DEF GiveUp, IInv, TypeOK
  <2>3. \A q \in Requests : answer'[q] = IF q = r THEN [code |-> "lost", job |-> NULL] ELSE answer[q]
    BY <1>7 DEF GiveUp, IInv, TypeOK
  <2>4. AnswersOK' /\ NoAnswerOK' /\ RejectedFindsWinner'
    BY <1>7, <2>3 DEF GiveUp, IInv, AnswersOK, NoAnswerOK, RejectedFindsWinner
  <2> QED
    BY <1>7, <2>2, <2>4 DEF GiveUp, IInv, OneJobPerKey, IndexOK, RejectedOK, CommitOK, ByKey, InFlight,
       SameKey
<1>8. ASSUME NEW r \in Requests, Fail(r) PROVE IInv'
  BY <1>8, FinishIInv DEF Fail
<1>9. CASE UNCHANGED vars
  BY <1>9 DEF vars, IInv, TypeOK, OneJobPerKey, IndexOK, RejectedOK, AnswersOK, NoAnswerOK, CommitOK,
     RejectedFindsWinner, ByKey, InFlight, SameKey
<1> QED
  BY <1>2, <1>3, <1>4, <1>5, <1>6, <1>7, <1>8, <1>9 DEF Next, Step

\* The inductive invariant holds throughout.
THEOREM Invariance == Spec => []IInv
  BY InitIInv, NextIInv, PTL DEF Spec

\* Double submission never enqueues two jobs under one key.
THEOREM NoDuplicateJob == Spec => []OneJobPerKey
<1>1. IInv => OneJobPerKey
  BY DEF IInv
<1> QED
  BY Invariance, <1>1, PTL

\* A request that loses the race for its key always finds the winner's job.
THEOREM NoServerError == Spec => []RejectedFindsWinner
<1>1. IInv => RejectedFindsWinner
  BY DEF IInv
<1> QED
  BY Invariance, <1>1, PTL

\* The table and the requests keep their types, whatever the interleaving.
THEOREM TypeCorrect == Spec => []TypeOK
<1>1. IInv => TypeOK
  BY DEF IInv
<1> QED
  BY Invariance, <1>1, PTL

\* Submission implements the atomic store: a job appears at the commit of its
\* request, its client is told afterwards or never, and every other request is
\* answered from the one job that holds its key.
THEOREM Atomic == Spec => ActsAtomically
<1>1. Init => Store!Init
  BY DEF Init, Store!Init, NoAnswer, Store!NoAnswer
<1>2. IInv /\ [Next]_vars => [Store!Next]_(Store!vars)
  <2> SUFFICES ASSUME IInv, [Next]_vars PROVE Store!Next \/ UNCHANGED <<request, created, answer>>
    BY DEF Store!vars
  <2>1. ASSUME NEW r \in Requests, NEW code, NEW job, Finish(r, code, job)
        PROVE  Store!Tell(r, code, job) \/ UNCHANGED <<request, answer>>
    BY <2>1 DEF Finish, Store!Tell, NoAnswer, Store!NoAnswer, IInv, TypeOK
  <2>2. ASSUME NEW r \in Requests, r \notin created, NEW s \in ByKey(r), ReplayOrRefuse(r, s),
               created' = created
        PROVE  Store!Next \/ UNCHANGED <<request, created, answer>>
    <3>1. s \in Store!Holder(r)
      BY <2>2 DEF ByKey, SameKey, Store!Holder
    <3> QED
      BY <2>1, <2>2, <3>1 DEF ReplayOrRefuse, Store!Next, Store!Replay, Store!Refuse
  <2>3. ASSUME NEW r \in Requests, Lookup(r) \/ LookupAgain(r)
        PROVE  Store!Next \/ UNCHANGED <<request, created, answer>>
    <3>1. (pc[r] = "rejected" => ByKey(r) # {}) /\ r \notin created
      BY <2>3 DEF Lookup, LookupAgain, IInv, RejectedOK, CommitOK
    <3> QED
      BY <2>2, <2>3, <3>1 DEF Lookup, LookupAgain
  <2>4. ASSUME NEW r \in Requests, Commit(r) PROVE Store!Next
    <3>1. Store!Holder(r) = {}
      BY <2>4 DEF Commit, IInv, IndexOK, ByKey, SameKey, Store!Holder
    <3>2. r \notin created /\ Store!Unaware(r)
      BY <2>4 DEF Commit, IInv, CommitOK, AnswersOK, Store!Unaware
    <3> QED
      BY <2>4, <3>1, <3>2 DEF Commit, Store!Next, Store!Create
  <2>5. ASSUME NEW r \in Requests, Respond(r)
        PROVE  Store!Next \/ UNCHANGED <<request, created, answer>>
    <3>1. r \in created
      BY <2>5 DEF Respond, IInv, CommitOK
    <3> QED
      BY <2>1, <2>5, <3>1 DEF Respond, Store!Next, Store!Confirm
  <2>6. ASSUME NEW r \in Requests, GiveUp(r) \/ Fail(r)
        PROVE  Store!Next \/ UNCHANGED <<request, created, answer>>
    <3>1. CASE GiveUp(r)
      BY <3>1 DEF GiveUp, Store!Next, Store!Lose, Store!Tell, NoAnswer, Store!NoAnswer
    <3>2. CASE Fail(r)
      BY <2>1, <3>2 DEF Fail, Store!Next, Store!Lose
    <3> QED
      BY <2>6, <3>1, <3>2
  <2> QED
    BY <2>3, <2>4, <2>5, <2>6 DEF Next, Step, Flush, vars
<1> QED
  BY Invariance, <1>1, <1>2, PTL DEF Spec, ActsAtomically, Store!Spec
=============================================================================

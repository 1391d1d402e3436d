---------------------------- MODULE DispatchProofs ----------------------------
(***************************************************************************)
(* For any number of replicas and requests and any prompts: the baselines  *)
(* use the replicas as these require, round robin spreads the requests     *)
(* evenly, no load is left behind, and a client whose timeout is longer    *)
(* than any answer takes has all its answers when it ends.                 *)
(***************************************************************************)
EXTENDS Dispatch, ReplicasProofs, FiniteSetTheorems

USE ReplicasAssumption, RequestsAssumption, DispatchAssumption

(* Whatever the type, a request is routed to a replica.                    *)
LEMMA ChoiceRange ==
  ASSUME type \in Baselines, counter \in Nat, NEW q \in Request
  PROVE  Choice(q) \subseteq Replica
<1>1. RoundRobin \in Replica
  BY DEF RoundRobin, Replica
<1>2. MinTtft(q) \subseteq Replica /\ MinPendingInput \subseteq Replica
  BY DEF MinTtft, MinPendingInput
<1>3. CacheAffinity(q) \in Replica
  BY DEF CacheAffinity
<1> QED
  BY <1>1, <1>2, <1>3 DEF Choice, Baselines

(* The remainder of a division by N as the dividend is counted up.         *)
LEMMA Division ==
  ASSUME NEW n \in Nat, NEW N \in Nat \ {0}
  PROVE  n = N * (n \div N) + (n % N) /\ n % N \in 0 .. N - 1 /\ n \div N \in Nat
  BY SMT

LEMMA NoMultipleBetween ==
  ASSUME NEW d \in Int, NEW N \in Nat \ {0}, -N < N * d, N * d < N
  PROVE  d = 0
<1>1. d >= 1 => N * d >= N
  BY SMT
<1>2. d <= -1 => N * d <= -N
  BY SMT
<1> QED
  BY <1>1, <1>2

LEMMA NextRemainder ==
  ASSUME NEW n \in Nat, NEW N \in Nat \ {0}
  PROVE  (n + 1) % N = IF (n % N) + 1 = N THEN 0 ELSE (n % N) + 1
<1> DEFINE k == n \div N
           m == n % N
           k1 == (n + 1) \div N
           m1 == (n + 1) % N
<1>1. /\ n = N * k + m /\ m \in 0 .. N - 1 /\ k \in Nat
      /\ n + 1 = N * k1 + m1 /\ m1 \in 0 .. N - 1 /\ k1 \in Nat
  <2>1. n + 1 \in Nat
    OBVIOUS
  <2>2. n = N * k + m /\ m \in 0 .. N - 1 /\ k \in Nat
    BY Division
  <2>3. n + 1 = N * k1 + m1 /\ m1 \in 0 .. N - 1 /\ k1 \in Nat
    BY <2>1, Division
  <2> QED
    BY <2>2, <2>3
<1> HIDE DEF k, m, k1, m1
<1>2. N * (k1 - k) = m + 1 - m1
  BY <1>1, SMT
<1>3. CASE m + 1 < N
  <2>1. k1 - k = 0
    BY <1>1, <1>2, <1>3, NoMultipleBetween
  <2>2. m1 = m + 1
    BY <1>1, <1>2, <2>1
  <2> QED
    BY <1>1, <1>3, <2>2 DEF m, m1
<1>4. CASE m + 1 = N
  <2>1. N * (k1 - k - 1) = -m1
    BY <1>1, <1>2, <1>4, SMT
  <2>2. k1 - k - 1 = 0
    BY <1>1, <2>1, NoMultipleBetween
  <2> QED
    BY <1>1, <1>4, <2>1, <2>2 DEF m, m1
<1> QED
  BY <1>1, <1>3, <1>4
-----------------------------------------------------------------------------
(* The inductive invariant.  The types are those of TypeOK, but for the    *)
(* bound of the counter, which is a matter of counting requests.           *)
DispatchTypes ==
  /\ type \in Types
  /\ task \in [Request -> Status]
  /\ target \in [Request -> Replica \union {-1}]
  /\ counter \in Nat
  /\ worker \in {"generating", "active", "ended"}
  /\ quiet \in 0 .. Timeout \union {Never}
  /\ age \in [Request -> 0 .. MaxAnswer]

(* A request has a replica from the moment it is routed.                   *)
TargetInv ==
  \A q \in Request : target[q] = -1 <=> task[q] \in {"unsent", "queued", "syncing"}

(* A replica's lists agree with the stage of the post.                     *)
HeldInv ==
  \A r \in Replica, q \in Request :
    /\ q \in pending[r] =>
         /\ target[q] = r
         /\ \/ task[q] \in {"prefill", "failed"}
            \/ EmptyAnswers /\ task[q] \in {"closing", "returned", "finished"}
    /\ q \in running[r] => target[q] = r /\ task[q] \in {"decode", "failed"}

(* Nothing has been quiet for longer than the youngest post is old, and    *)
(* the worker waits for answers only when all requests are posted.         *)
AnswersInv ==
  /\ worker # "generating" => \A q \in Request : task[q] \in Posted \union {"finished"}
  /\ \A q \in Request : task[q] \in Posted => quiet # Never /\ quiet <= age[q]
  /\ NoAnswerIsMissed

Inv == RepTypeOK /\ DispatchTypes /\ TargetInv /\ HeldInv /\ AnswersInv

LEMMA InvInit == Init => Inv
<1> SUFFICES ASSUME Init PROVE Inv
  OBVIOUS
<1>1. RepTypeOK
  BY ReplicaAssumption DEF Init, RepInit, RepTypeOK
<1>2. DispatchTypes /\ TargetInv
  BY DEF Init, DispatchTypes, TargetInv, Status, Asked
<1>3. HeldInv /\ AnswersInv
  BY DEF Init, RepInit, HeldInv, AnswersInv, NoAnswerIsMissed, Posted
<1> QED
  BY <1>1, <1>2, <1>3 DEF Inv

(* A posted request has a replica, which is the only one that may hold it. *)
LEMMA PostedHasReplica ==
  ASSUME Inv, NEW q \in Request, task[q] \in Posted
  PROVE  target[q] \in Replica /\ (task[q] = "posted" => Unowned(q))
  BY DEF Inv, DispatchTypes, TargetInv, HeldInv, Posted, Unowned

(* Every step is one the replicas allow.                                   *)
LEMMA StepsOfReplicas == Inv /\ [Next]_vars => [RepNext]_repVars
<1> SUFFICES ASSUME Inv, [Next]_vars
             PROVE  [RepNext]_repVars
  OBVIOUS
<1>1. ASSUME NEW q \in Request, Accepted(q)
      PROVE  RepNext
  <2>1. task[q] = "posted" /\ AddRequest(target[q], q)
    BY <1>1 DEF Accepted, Becomes
  <2> QED
    BY <2>1, PostedHasReplica DEF RepNext, Posted
<1>2. ASSUME NEW q \in Request, FirstContent(q)
      PROVE  RepNext
  <2>1. task[q] = "prefill" /\ CompletePrefill(target[q], q)
    BY <1>2 DEF FirstContent, Becomes
  <2> QED
    BY <2>1, PostedHasReplica DEF RepNext, Posted
<1>3. ASSUME NEW q \in Request, AnswerDone(q)
      PROVE  RepNext
  <2>1. task[q] \in {"prefill", "decode"} /\ CompleteDecode(target[q], q)
    BY <1>3 DEF AnswerDone, Becomes
  <2> QED
    BY <2>1, PostedHasReplica DEF RepNext, Posted
<1>4. ASSUME NEW q \in Request, Abort(q)
      PROVE  RepNext
  <2>1. task[q] = "failed" /\ AbortRequest(target[q], q)
    BY <1>4 DEF Abort, Becomes
  <2> QED
    BY <2>1, PostedHasReplica DEF RepNext, Posted
<1>5. ASSUME NEW q \in Request, Ask(q) \/ Sync(q) \/ Route(q) \/ AddPostingRequestTask(q)
                                \/ Succeed(q) \/ Fail(q) \/ OnRequestComplete(q)
      PROVE  UNCHANGED repVars
  BY <1>5 DEF Ask, Sync, Route, AddPostingRequestTask, Succeed, Fail, OnRequestComplete
<1>6. CASE GenerationEnds \/ WorkerLooks \/ Tick \/ UNCHANGED vars
  BY <1>6 DEF GenerationEnds, WorkerLooks, Tick, vars
<1> QED
  BY <1>1, <1>2, <1>3, <1>4, <1>5, <1>6 DEF Next, Tasks, Post

(* What a post's steps do to the dispatcher's own state.                   *)
LEMMA PostSteps ==
  ASSUME Inv, NEW q \in Request, Post(q)
  PROVE  \E to \in (Posted \ {"posted"}) :
           /\ task[q] \in Posted
           /\ task' = [task EXCEPT ![q] = to]
           /\ UNCHANGED <<type, target, counter, worker, quiet, age>>
<1>1. ASSUME NEW from, NEW to, Becomes(q, from, to), from \subseteq Posted,
             to \in Posted \ {"posted"}
      PROVE  \E x \in (Posted \ {"posted"}) :
               /\ task[q] \in Posted
               /\ task' = [task EXCEPT ![q] = x]
               /\ UNCHANGED <<type, target, counter, worker, quiet, age>>
  BY <1>1 DEF Becomes
<1>2. CASE Accepted(q)
  BY <1>1, <1>2 DEF Accepted, Posted
<1>3. CASE FirstContent(q)
  BY <1>1, <1>3 DEF FirstContent, Posted
<1>4. CASE AnswerDone(q)
  BY <1>1, <1>4 DEF AnswerDone, Posted
<1>5. CASE Succeed(q)
  BY <1>1, <1>5 DEF Succeed, Posted
<1>6. CASE Fail(q)
  BY <1>1, <1>6 DEF Fail, Posted
<1>7. CASE Abort(q)
  BY <1>1, <1>7 DEF Abort, Posted
<1> QED
  BY <1>2, <1>3, <1>4, <1>5, <1>6, <1>7 DEF Post

LEMMA TypesStep == Inv /\ [Next]_vars => DispatchTypes' /\ TargetInv'
<1> SUFFICES ASSUME Inv, [Next]_vars
             PROVE  DispatchTypes' /\ TargetInv'
  OBVIOUS
<1> USE DEF Inv, DispatchTypes, TargetInv
<1>1. ASSUME NEW q \in Request, Ask(q) \/ Sync(q)
      PROVE  DispatchTypes' /\ TargetInv'
  BY <1>1 DEF Ask, Sync, Status, Asked
<1>2. ASSUME NEW q \in Request, Route(q)
      PROVE  DispatchTypes' /\ TargetInv'
  <2>1. PICK r \in Choice(q) : target' = [target EXCEPT ![q] = r]
    BY <1>2 DEF Route
  <2>2. r \in Replica /\ r # -1
    BY <1>2, <2>1, ChoiceRange DEF Route, Replica
  <2> QED
    BY <1>2, <2>1, <2>2 DEF Route, Status, Asked
<1>3. ASSUME NEW q \in Request, AddPostingRequestTask(q)
      PROVE  DispatchTypes' /\ TargetInv'
  BY <1>3 DEF AddPostingRequestTask, Status, Posted
<1>4. ASSUME NEW q \in Request, Post(q)
      PROVE  DispatchTypes' /\ TargetInv'
  BY <1>4, PostSteps DEF Status, Posted
<1>5. ASSUME NEW q \in Request, OnRequestComplete(q)
      PROVE  DispatchTypes' /\ TargetInv'
  BY <1>5 DEF OnRequestComplete, Status
<1>6. CASE GenerationEnds \/ WorkerLooks \/ UNCHANGED vars
  BY <1>6 DEF GenerationEnds, WorkerLooks, vars, dispatchVars
<1>7. CASE Tick
  BY <1>7 DEF Tick, Never
<1> QED
  BY <1>1, <1>2, <1>3, <1>4, <1>5, <1>6, <1>7 DEF Next, Tasks

LEMMA AnswersStep == Inv /\ [Next]_vars => AnswersInv'
<1> SUFFICES ASSUME Inv, [Next]_vars
             PROVE  AnswersInv'
  OBVIOUS
<1> USE DEF Inv, DispatchTypes, AnswersInv, NoAnswerIsMissed, Never
<1>1. ASSUME NEW q \in Request, Ask(q) \/ Sync(q) \/ Route(q), worker # "ended"
      PROVE  AnswersInv'
  BY <1>1 DEF Ask, Sync, Route, Posted, Asked
<1>2. ASSUME NEW q \in Request, AddPostingRequestTask(q), worker # "ended"
      PROVE  AnswersInv'
  BY <1>2 DEF AddPostingRequestTask, Posted
<1>3. ASSUME NEW q \in Request, Post(q), worker # "ended"
      PROVE  AnswersInv'
  BY <1>3, PostSteps
<1>4. ASSUME NEW q \in Request, OnRequestComplete(q), worker # "ended"
      PROVE  AnswersInv'
  BY <1>4 DEF OnRequestComplete, Posted
<1>5. CASE GenerationEnds
  BY <1>5 DEF GenerationEnds, Status
<1>6. CASE WorkerLooks
  <2>1. quiet \in Nat /\ quiet >= Timeout
    BY <1>6 DEF WorkerLooks, IsRequestActive
  <2>2. MaxAnswer < Timeout => \A q \in Request : task[q] \notin Posted
    BY <2>1
  <2> QED
    BY <1>6, <2>2 DEF WorkerLooks
<1>7. CASE Tick /\ worker # "ended"
  BY <1>7 DEF Tick
<1>8. CASE UNCHANGED vars
  BY <1>8 DEF vars, dispatchVars
<1> QED
  BY <1>1, <1>2, <1>3, <1>4, <1>5, <1>6, <1>7, <1>8 DEF Next, Tasks

LEMMA HeldStep == Inv /\ [Next]_vars => HeldInv'
<1> SUFFICES ASSUME Inv, [Next]_vars
             PROVE  HeldInv'
  OBVIOUS
<1>0. HeldInv /\ RepTypeOK /\ DispatchTypes
  BY DEF Inv
<1> USE DEF DispatchTypes, RepTypeOK
<1>1. ASSUME NEW q \in Request, Accepted(q)
      PROVE  HeldInv'
  <2>1. /\ task[q] = "posted"
        /\ task' = [task EXCEPT ![q] = "prefill"] /\ target' = target
        /\ pending' = [pending EXCEPT ![target[q]] = @ \union {q}]
        /\ running' = running
    BY <1>1 DEF Accepted, Becomes, AddRequest
  <2>2. target[q] \in Replica /\ Unowned(q)
    BY <2>1, PostedHasReplica DEF Posted
  <2> QED
    BY <1>0, <2>1, <2>2 DEF HeldInv, Unowned
<1>2. ASSUME NEW q \in Request, FirstContent(q)
      PROVE  HeldInv'
  <2>1. /\ task[q] = "prefill"
        /\ task' = [task EXCEPT ![q] = "decode"] /\ target' = target
        /\ CompletePrefill(target[q], q)
    BY <1>2 DEF FirstContent, Becomes
  <2>2. target[q] \in Replica
    BY <2>1, PostedHasReplica DEF Posted
  <2>3. CASE q \in pending[target[q]]
    <3>1. /\ pending' = [pending EXCEPT ![target[q]] = @ \ {q}]
          /\ running' = [running EXCEPT ![target[q]] = @ \union {q}]
      BY <2>1, <2>3 DEF CompletePrefill
    <3> QED
      BY <1>0, <2>1, <2>2, <3>1 DEF HeldInv
  <2>4. CASE q \notin pending[target[q]]
    <3>1. pending' = pending /\ running' = running
      BY <2>1, <2>4 DEF CompletePrefill
    <3> QED
      BY <1>0, <2>1, <2>2, <2>4, <3>1 DEF HeldInv
  <2> QED
    BY <2>3, <2>4
<1>3. ASSUME NEW q \in Request, AnswerDone(q)
      PROVE  HeldInv'
  <2>1. /\ task[q] = "decode" \/ (EmptyAnswers /\ task[q] = "prefill")
        /\ task' = [task EXCEPT ![q] = "closing"] /\ target' = target
        /\ pending' = pending
        /\ running' = [running EXCEPT ![target[q]] = @ \ {q}]
    BY <1>3 DEF AnswerDone, Becomes, CompleteDecode
  <2>2. target[q] \in Replica
    BY <2>1, PostedHasReplica DEF Posted
  <2> QED
    BY <1>0, <2>1, <2>2 DEF HeldInv
<1>4. ASSUME NEW q \in Request, Abort(q)
      PROVE  HeldInv'
  <2>1. /\ task[q] = "failed"
        /\ task' = [task EXCEPT ![q] = "returned"] /\ target' = target
        /\ pending' = [pending EXCEPT ![target[q]] = @ \ {q}]
        /\ running' = [running EXCEPT ![target[q]] = @ \ {q}]
    BY <1>4 DEF Abort, Becomes, AbortRequest
  <2>2. target[q] \in Replica
    BY <2>1, PostedHasReplica DEF Posted
  <2> QED
    BY <1>0, <2>1, <2>2 DEF HeldInv
<1>5. ASSUME NEW q \in Request, Succeed(q) \/ Fail(q)
      PROVE  HeldInv'
  BY <1>0, <1>5 DEF Succeed, Fail, Becomes, HeldInv, repVars
<1>6. ASSUME NEW q \in Request, OnRequestComplete(q)
      PROVE  HeldInv'
  BY <1>0, <1>6 DEF OnRequestComplete, HeldInv, repVars
<1>7. ASSUME NEW q \in Request, Ask(q) \/ Sync(q) \/ AddPostingRequestTask(q)
      PROVE  HeldInv'
  BY <1>0, <1>7 DEF Ask, Sync, AddPostingRequestTask, HeldInv, repVars
<1>8. ASSUME NEW q \in Request, Route(q)
      PROVE  HeldInv'
  <2>1. /\ task[q] \in {"queued", "syncing"} /\ task' = [task EXCEPT ![q] = "chosen"]
        /\ \E r : target' = [target EXCEPT ![q] = r]
        /\ pending' = pending /\ running' = running
    BY <1>8 DEF Route, repVars
  <2> QED
    BY <1>0, <2>1 DEF HeldInv
<1>9. CASE GenerationEnds \/ WorkerLooks \/ Tick \/ UNCHANGED vars
  <2>1. UNCHANGED <<task, target, pending, running>>
    BY <1>9 DEF GenerationEnds, WorkerLooks, Tick, vars, repVars, dispatchVars
  <2> QED
    BY <1>0, <2>1 DEF HeldInv
<1> QED
  BY <1>1, <1>2, <1>3, <1>4, <1>5, <1>6, <1>7, <1>8, <1>9 DEF Next, Tasks, Post

LEMMA Invariant == Spec => []Inv
<1>1. Inv /\ [Next]_vars => RepTypeOK'
  BY RepTypeStep, StepsOfReplicas DEF Inv
<1>2. Inv /\ [Next]_vars => Inv'
  BY <1>1, TypesStep, AnswersStep, HeldStep DEF Inv
<1> QED
  BY InvInit, <1>2, PTL DEF Spec
-----------------------------------------------------------------------------
(* A client whose timeout is longer than any post takes ends with all its  *)
(* answers, although it counts time and not requests.                      *)
THEOREM AnswersAreWaitedFor == Spec => []NoAnswerIsMissed
BY Invariant, PTL DEF Inv, AnswersInv

(* The baselines hand a request to a replica only when no other has it, so *)
(* all that is proved of Replicas holds of them.                           *)
THEOREM UsesReplicas == Spec => RepSpec
<1>1. Init => RepInit
  BY DEF Init
<1> QED
  BY <1>1, Invariant, StepsOfReplicas, PTL DEF Spec, RepSpec

(* If every complete answer has content, no load is left on a replica when *)
(* no request is under way.                                                *)
THEOREM NoLoadAtRest ==
  ASSUME EmptyAnswers = FALSE
  PROVE  Spec => []UnloadedAtRest
<1>1. Inv /\ IdleHasFullBudget => UnloadedAtRest
  <2> SUFFICES ASSUME Inv, IdleHasFullBudget, \A q \in Request : task[q] \notin Posted,
                      NEW r \in Replica
               PROVE  budget[r] = SloBudget /\ pending[r] = {} /\ running[r] = {}
    BY DEF UnloadedAtRest
  <2>0. \A q \in Request : q \notin pending[r] /\ q \notin running[r]
    BY DEF Inv, HeldInv, Posted
  <2>1. pending[r] = {} /\ running[r] = {}
    BY <2>0 DEF Inv, RepTypeOK
  <2> QED
    BY <2>1 DEF IdleHasFullBudget
<1>2. Spec => []IdleHasFullBudget
  BY UsesReplicas, IdleBudgetIsFull
<1> QED
  BY <1>1, <1>2, Invariant, PTL
-----------------------------------------------------------------------------
(* Round robin.  The requests sent to each replica are as many as the      *)
(* rounds, and one more for the replicas this round has reached.           *)
Sent(r) == {q \in Request : target[q] = r}

Spread ==
  type = "round_robin" =>
    \E rounds \in Nat : \A r \in Replica :
      Cardinality(Sent(r)) = IF r < counter % NumReplicas THEN rounds + 1 ELSE rounds

LEMMA SentFinite == \A r : IsFiniteSet(Sent(r))
BY FiniteRequests, FS_Subset DEF Sent

LEMMA SpreadRoute ==
  ASSUME Inv, Spread, NEW q \in Request, Route(q)
  PROVE  Spread'
<1> SUFFICES ASSUME type = "round_robin" PROVE Spread'
  BY DEF Spread, Route
<1>m. PICK m : m = counter % NumReplicas
  OBVIOUS
<1>1. /\ type' = type /\ counter' = counter + 1 /\ counter \in Nat
      /\ target[q] = -1 /\ target \in [Request -> Replica \union {-1}]
  BY DEF Route, Inv, DispatchTypes, TargetInv
<1>2. m \in Replica /\ target' = [target EXCEPT ![q] = m]
  <2>1. Choice(q) = {m}
    BY <1>m DEF Choice, RoundRobin
  <2>2. \E x \in Choice(q) : target' = [target EXCEPT ![q] = x]
    BY DEF Route
  <2>3. m \in 0 .. NumReplicas - 1
    BY <1>m, <1>1, Division
  <2> QED
    BY <2>1, <2>2, <2>3 DEF Replica
<1>3. PICK rounds \in Nat : \A r \in Replica :
        Cardinality(Sent(r)) = IF r < m THEN rounds + 1 ELSE rounds
  BY <1>m DEF Spread
<1>4. counter' % NumReplicas = IF m + 1 = NumReplicas THEN 0 ELSE m + 1
  BY <1>m, <1>1, NextRemainder
<1>5. \A r \in Replica : -1 # r
  BY DEF Replica
<1>6. /\ Sent(m)' = Sent(m) \union {q} /\ q \notin Sent(m)
      /\ \A r \in Replica \ {m} : Sent(r)' = Sent(r)
  <2>1. m # -1
    BY <1>2, <1>5
  <2>2. target'[q] = m /\ \A x \in Request \ {q} : target'[x] = target[x]
    BY <1>1, <1>2
  <2>3. Sent(m)' = Sent(m) \union {q} /\ q \notin Sent(m)
    BY <1>1, <2>1, <2>2 DEF Sent
  <2>4. ASSUME NEW s \in Replica \ {m}
        PROVE  Sent(s)' = Sent(s)
    <3>1. s # -1
      BY <1>5
    <3> QED
      BY <1>1, <2>2, <3>1 DEF Sent
  <2> QED
    BY <2>3, <2>4
<1>7. Cardinality(Sent(m)') = rounds + 1
  <2>1. Cardinality(Sent(m)) = rounds
    BY <1>2, <1>3 DEF Replica
  <2> QED
    BY <1>6, <2>1, SentFinite, FS_AddElement
<1>8. \A r \in Replica : Cardinality(Sent(r)') = IF r < m + 1 THEN rounds + 1 ELSE rounds
  <2>1. ASSUME NEW s \in Replica, s # m
        PROVE  Cardinality(Sent(s)') = IF s < m + 1 THEN rounds + 1 ELSE rounds
    <3>1. Cardinality(Sent(s)') = IF s < m THEN rounds + 1 ELSE rounds
      BY <1>3, <1>6, <2>1
    <3>2. s < m <=> s < m + 1
      BY <1>2, <2>1 DEF Replica
    <3> QED
      BY <3>1, <3>2
  <2>2. m < m + 1
    BY <1>2 DEF Replica
  <2> QED
    BY <1>7, <2>1, <2>2
<1>9. CASE m + 1 = NumReplicas
  <2>1. \A r \in Replica :
          Cardinality(Sent(r)') = IF r < counter' % NumReplicas THEN rounds + 2 ELSE rounds + 1
    BY <1>4, <1>8, <1>9 DEF Replica
  <2> QED
    BY <2>1 DEF Spread
<1>10. CASE m + 1 # NumReplicas
  BY <1>4, <1>8, <1>10 DEF Spread
<1> QED
  BY <1>9, <1>10

LEMMA SpreadStep ==
  ASSUME Inv, Spread, [Next]_vars
  PROVE  Spread'
<1>1. ASSUME NEW q \in Request, Route(q)
      PROVE  Spread'
  BY <1>1, SpreadRoute
<1>2. CASE ~\E q \in Request : Route(q)
  <2>1. UNCHANGED <<type, target, counter>>
    BY <1>2, PostSteps DEF Next, Tasks, Ask, Sync, AddPostingRequestTask, OnRequestComplete,
                           GenerationEnds, WorkerLooks, Tick, vars, dispatchVars
  <2> QED
    BY <2>1 DEF Spread, Sent
<1> QED
  BY <1>1, <1>2

(* However the posts end, no replica is sent two requests more than        *)
(* another by round robin.                                                 *)
THEOREM RoundRobinIsEven == Spec => []EvenlySpread
<1>1. Init => Spread
  <2> SUFFICES ASSUME Init PROVE Spread
    OBVIOUS
  <2>1. \A r \in Replica : Sent(r) = {}
    BY DEF Init, Sent, Replica
  <2>2. counter % NumReplicas = 0
    BY SMT DEF Init
  <2>3. \A r \in Replica : ~(r < 0)
    BY DEF Replica
  <2>4. Cardinality({}) = 0
    BY FS_EmptySet
  <2>5. \A r \in Replica : Cardinality(Sent(r)) = 0
    BY <2>1, <2>4, Zenon
  <2> QED
    BY <2>2, <2>3, <2>5 DEF Spread
<1>2. Spread => EvenlySpread
  <2> SUFFICES ASSUME Spread, type = "round_robin", NEW r \in Replica, NEW s \in Replica
               PROVE  Cardinality(Sent(r)) <= Cardinality(Sent(s)) + 1
    BY DEF EvenlySpread, Sent
  <2>1. PICK rounds \in Nat : \A x \in Replica :
          Cardinality(Sent(x)) \in {rounds, rounds + 1}
    BY DEF Spread
  <2> QED
    BY <2>1
<1>3. Spec => []Spread
  BY <1>1, Invariant, SpreadStep, PTL DEF Spec
<1> QED
  BY <1>2, <1>3, PTL
-----------------------------------------------------------------------------
(* The counter of round robin counts routed requests.                      *)
Routed == {q \in Request : target[q] # -1}
Counted == counter <= Cardinality(Routed)

LEMMA RoutedFinite ==
  /\ IsFiniteSet(Routed) /\ Cardinality(Routed) \in Nat
  /\ Cardinality(Routed) <= NumRequests
<1>1. Routed \subseteq Request /\ IsFiniteSet(Request) /\ Cardinality(Request) = NumRequests
  BY FiniteRequests, FS_Interval DEF Routed, Request
<1> QED
  BY <1>1, FS_Subset, FS_CardinalityType

LEMMA CountedStep ==
  ASSUME Inv, Counted, [Next]_vars
  PROVE  Counted'
<1>1. ASSUME NEW q \in Request, Route(q)
      PROVE  Counted'
  <2>1. target[q] = -1 /\ target \in [Request -> Replica \union {-1}]
    BY <1>1 DEF Route, Inv, DispatchTypes, TargetInv
  <2>2. PICK x \in Choice(q) : target' = [target EXCEPT ![q] = x]
    BY <1>1 DEF Route
  <2>3. x # -1
    BY <1>1, <2>2, ChoiceRange DEF Route, Inv, DispatchTypes, Replica
  <2>4. Routed' = Routed \union {q} /\ q \notin Routed
    BY <2>1, <2>2, <2>3 DEF Routed
  <2>5. Cardinality(Routed') = Cardinality(Routed) + 1
    BY <2>4, RoutedFinite, FS_AddElement
  <2>6. counter' <= counter + 1 /\ counter \in Nat
    BY <1>1 DEF Route, Inv, DispatchTypes
  <2>7. counter' \in Nat
    BY <1>1, <2>6 DEF Route
  <2> QED
    BY <2>5, <2>6, <2>7, RoutedFinite DEF Counted
<1>2. CASE ~\E q \in Request : Route(q)
  <2>1. UNCHANGED <<target, counter>>
    BY <1>2, PostSteps DEF Next, Tasks, Ask, Sync, AddPostingRequestTask, OnRequestComplete,
                           GenerationEnds, WorkerLooks, Tick, vars, dispatchVars
  <2> QED
    BY <2>1 DEF Counted, Routed
<1> QED
  BY <1>1, <1>2

(* The state has its types; no more requests are counted than there are.   *)
THEOREM TypeCorrect == Spec => []TypeOK
<1>1. Init => Counted
  <2> SUFFICES ASSUME Init PROVE Counted
    OBVIOUS
  <2>1. counter = 0
    BY DEF Init
  <2> QED
    BY <2>1, RoutedFinite DEF Counted
<1>2. Spec => []Counted
  BY <1>1, Invariant, CountedStep, PTL DEF Spec
<1>3. Inv /\ Counted => TypeOK
  BY RoutedFinite DEF Inv, DispatchTypes, Counted, TypeOK
<1> QED
  BY <1>2, <1>3, Invariant, PTL
-----------------------------------------------------------------------------
(* The state of RequestService that a state of the experiment stands for.  *)
Waiting == {q \in Request : task[q] \in Asked}
InFlight == {q \in Request : task[q] \in Posted}
Held == [r \in Replica |-> pending[r] \union running[r]]
Finished == {q \in Request : task[q] = "finished"}

LEMMA AbstractSteps ==
  ASSUME NEW q \in Request
  PROVE  /\ Service!Accept(q) <=>
              /\ q \notin Waiting \union InFlight \union Finished
              /\ \A p \in Request : p < q => p \in Waiting \union InFlight \union Finished
              /\ Waiting' = Waiting \union {q}
              /\ UNCHANGED <<InFlight, Held, Finished>>
         /\ Service!Post(q) <=>
              /\ q \in Waiting
              /\ Waiting' = Waiting \ {q}
              /\ InFlight' = InFlight \union {q}
              /\ UNCHANGED <<Held, Finished>>
         /\ Service!Finish(q) <=>
              /\ q \in InFlight
              /\ \A s \in Replica : q \notin Held[s]
              /\ InFlight' = InFlight \ {q}
              /\ Finished' = Finished \union {q}
              /\ UNCHANGED <<Waiting, Held>>
BY DEF Service!Accept, Service!Post, Service!Finish, Service!Seen,
       Service!Replica, Service!Request, Replica, Request,
       Waiting, InFlight, Held, Finished

LEMMA AbstractHolds ==
  ASSUME NEW q \in Request, NEW r \in Replica
  PROVE  /\ Service!Hold(r, q) <=>
              /\ q \in InFlight
              /\ \A s \in Replica : q \notin Held[s]
              /\ Held' = [Held EXCEPT ![r] = @ \union {q}]
              /\ UNCHANGED <<Waiting, InFlight, Finished>>
         /\ Service!Release(r, q) <=>
              /\ q \in InFlight
              /\ q \in Held[r]
              /\ Held' = [Held EXCEPT ![r] = @ \ {q}]
              /\ UNCHANGED <<Waiting, InFlight, Finished>>
BY DEF Service!Hold, Service!Release, Service!Replica, Replica,
       Waiting, InFlight, Held, Finished

(* A step within a post leaves the request where it is in the service.     *)
LEMMA StaysInFlight ==
  ASSUME Inv, NEW q \in Request, Post(q)
  PROVE  q \in InFlight /\ UNCHANGED <<Waiting, InFlight, Finished>>
<1>1. PICK to \in Posted : task[q] \in Posted /\ task' = [task EXCEPT ![q] = to]
  BY PostSteps
<1>2. task \in [Request -> Status]
  BY DEF Inv, DispatchTypes
<1>3. \A s \in Posted : s \notin Asked /\ s # "finished"
  BY DEF Posted, Asked
<1> QED
  BY <1>1, <1>2, <1>3 DEF Waiting, InFlight, Finished

(* What releasing q at its replica does to the abstract state.             *)
LEMMA Releases ==
  ASSUME Inv, NEW q \in Request, Post(q), target[q] \in Replica,
         \A s \in Replica :
           pending'[s] \union running'[s] =
             IF s = target[q] THEN (pending[s] \union running[s]) \ {q}
                              ELSE pending[s] \union running[s]
  PROVE  Service!Release(target[q], q) \/ UNCHANGED <<Waiting, InFlight, Held, Finished>>
<1>1. Held' = [Held EXCEPT ![target[q]] = @ \ {q}]
  BY DEF Held
<1>2. CASE q \in Held[target[q]]
  BY <1>1, <1>2, StaysInFlight, AbstractHolds
<1>3. CASE q \notin Held[target[q]]
  <2>1. Held' = Held
    BY <1>1, <1>3 DEF Held
  <2> QED
    BY <2>1, StaysInFlight
<1> QED
  BY <1>2, <1>3

(* With empty answers ruled out every step of an experiment is a step of   *)
(* RequestService or changes nothing in it.                                *)
LEMMA ServiceStep ==
  ASSUME EmptyAnswers = FALSE
  PROVE  Inv /\ [Next]_vars => [Service!ServiceNext]_(Service!serviceVars)
<1> SUFFICES ASSUME Inv, [Next]_vars
             PROVE  [Service!ServiceNext]_(Service!serviceVars)
  OBVIOUS
<1> DEFINE AbstractStep ==
      \/ \E q \in Request :
           \/ Service!Accept(q) \/ Service!Post(q) \/ Service!Finish(q)
           \/ \E r \in Replica : Service!Hold(r, q) \/ Service!Release(r, q)
      \/ UNCHANGED <<Waiting, InFlight, Held, Finished>>
<1>s. SUFFICES AbstractStep
  BY DEF Service!ServiceNext, Service!serviceVars, Service!Replica, Service!Request,
         Replica, Request, Waiting, InFlight, Held, Finished
<1>0. /\ task \in [Request -> Status] /\ HeldInv
      /\ pending \in [Replica -> SUBSET Request] /\ running \in [Replica -> SUBSET Request]
  BY DEF Inv, DispatchTypes, RepTypeOK
<1>1. ASSUME NEW q \in Request, Ask(q)
      PROVE  Service!Accept(q)
  <2>1. /\ task[q] = "unsent"
        /\ \A p \in Request : p < q => task[p] # "unsent"
        /\ task' = [task EXCEPT ![q] = "queued"]
    BY <1>1 DEF Ask
  <2>2. Held' = Held
    BY <1>1 DEF Ask, repVars, Held
  <2>3. /\ q \notin Waiting \union InFlight \union Finished
        /\ \A p \in Request : p < q => p \in Waiting \union InFlight \union Finished
        /\ Waiting' = Waiting \union {q}
        /\ UNCHANGED <<InFlight, Finished>>
    BY <1>0, <2>1 DEF Waiting, InFlight, Finished, Status, Asked, Posted
  <2> QED
    BY <2>2, <2>3, AbstractSteps
<1>2. ASSUME NEW q \in Request, AddPostingRequestTask(q)
      PROVE  Service!Post(q)
  <2>1. task[q] = "chosen" /\ task' = [task EXCEPT ![q] = "posted"]
    BY <1>2 DEF AddPostingRequestTask
  <2>2. Held' = Held
    BY <1>2 DEF AddPostingRequestTask, repVars, Held
  <2>3. /\ q \in Waiting
        /\ Waiting' = Waiting \ {q}
        /\ InFlight' = InFlight \union {q}
        /\ Finished' = Finished
    BY <1>0, <2>1 DEF Waiting, InFlight, Finished, Status, Asked, Posted
  <2> QED
    BY <2>2, <2>3, AbstractSteps
<1>3. ASSUME NEW q \in Request, Accepted(q)
      PROVE  AbstractStep
  <2>1. /\ task[q] = "posted"
        /\ pending' = [pending EXCEPT ![target[q]] = @ \union {q}]
        /\ running' = running
    BY <1>3 DEF Accepted, Becomes, AddRequest
  <2>2. target[q] \in Replica /\ Unowned(q)
    BY <2>1, PostedHasReplica DEF Posted
  <2>3. /\ Held' = [Held EXCEPT ![target[q]] = @ \union {q}]
        /\ \A s \in Replica : q \notin Held[s]
    BY <1>0, <2>1, <2>2 DEF Held, Unowned
  <2>4. q \in InFlight /\ UNCHANGED <<Waiting, InFlight, Finished>>
    BY <1>3, StaysInFlight DEF Post
  <2>5. Service!Hold(target[q], q)
    BY <2>2, <2>3, <2>4, AbstractHolds
  <2> QED
    BY <2>2, <2>5
<1>4. ASSUME NEW q \in Request, FirstContent(q)
      PROVE  AbstractStep
  <2>1. task[q] = "prefill" /\ CompletePrefill(target[q], q)
    BY <1>4 DEF FirstContent, Becomes
  <2>2. target[q] \in Replica
    BY <2>1, PostedHasReplica DEF Posted
  <2>3. \/ /\ q \in pending[target[q]]
           /\ pending' = [pending EXCEPT ![target[q]] = @ \ {q}]
           /\ running' = [running EXCEPT ![target[q]] = @ \union {q}]
        \/ pending' = pending /\ running' = running
    BY <2>1 DEF CompletePrefill
  <2>4. \A s \in Replica : pending'[s] \union running'[s] = pending[s] \union running[s]
    BY <1>0, <2>2, <2>3
  <2>5. Held' = Held
    BY <2>4 DEF Held
  <2>6. UNCHANGED <<Waiting, InFlight, Finished>>
    BY <1>4, StaysInFlight DEF Post
  <2> QED
    BY <2>5, <2>6
<1>5. ASSUME NEW q \in Request, AnswerDone(q)
      PROVE  AbstractStep
  <2>1. /\ task[q] = "decode"
        /\ pending' = pending
        /\ running' = [running EXCEPT ![target[q]] = @ \ {q}]
    BY <1>5 DEF AnswerDone, Becomes, CompleteDecode
  <2>2. target[q] \in Replica
    BY <2>1, PostedHasReplica DEF Posted
  <2>3. \A s \in Replica : q \notin pending[s]
    BY <1>0, <2>1 DEF HeldInv
  <2>4. \A s \in Replica :
          pending'[s] \union running'[s] =
            IF s = target[q] THEN (pending[s] \union running[s]) \ {q}
                             ELSE pending[s] \union running[s]
    BY <1>0, <2>1, <2>2, <2>3
  <2> QED
    BY <1>5, <2>2, <2>4, Releases DEF Post
<1>6. ASSUME NEW q \in Request, Abort(q)
      PROVE  AbstractStep
  <2>1. /\ task[q] = "failed"
        /\ pending' = [pending EXCEPT ![target[q]] = @ \ {q}]
        /\ running' = [running EXCEPT ![target[q]] = @ \ {q}]
    BY <1>6 DEF Abort, Becomes, AbortRequest
  <2>2. target[q] \in Replica
    BY <2>1, PostedHasReplica DEF Posted
  <2>3. \A s \in Replica :
          pending'[s] \union running'[s] =
            IF s = target[q] THEN (pending[s] \union running[s]) \ {q}
                             ELSE pending[s] \union running[s]
    BY <1>0, <2>1, <2>2
  <2> QED
    BY <1>6, <2>2, <2>3, Releases DEF Post
<1>7. ASSUME NEW q \in Request, Succeed(q) \/ Fail(q)
      PROVE  AbstractStep
  <2>1. Held' = Held
    BY <1>7 DEF Succeed, Fail, repVars, Held
  <2> QED
    BY <1>7, <2>1, StaysInFlight DEF Post
<1>8. ASSUME NEW q \in Request, OnRequestComplete(q)
      PROVE  Service!Finish(q)
  <2>1. task[q] = "returned" /\ task' = [task EXCEPT ![q] = "finished"]
    BY <1>8 DEF OnRequestComplete
  <2>2. Held' = Held
    BY <1>8 DEF OnRequestComplete, repVars, Held
  <2>3. \A s \in Replica : q \notin Held[s]
    BY <1>0, <2>1 DEF HeldInv, Held
  <2>4. /\ q \in InFlight
        /\ InFlight' = InFlight \ {q}
        /\ Finished' = Finished \union {q}
        /\ Waiting' = Waiting
    BY <1>0, <2>1 DEF Waiting, InFlight, Finished, Status, Asked, Posted
  <2> QED
    BY <2>2, <2>3, <2>4, AbstractSteps
<1>9. ASSUME NEW q \in Request, Sync(q) \/ Route(q)
      PROVE  AbstractStep
  <2>1. /\ task[q] \in Asked
        /\ \E to \in Asked : task' = [task EXCEPT ![q] = to]
    BY <1>9 DEF Sync, Route, Asked
  <2>2. UNCHANGED <<Waiting, InFlight, Finished>>
    BY <1>0, <2>1 DEF Waiting, InFlight, Finished, Asked, Posted
  <2>3. Held' = Held
    BY <1>9 DEF Sync, Route, repVars, Held
  <2> QED
    BY <2>2, <2>3
<1>10. CASE GenerationEnds \/ WorkerLooks \/ Tick \/ UNCHANGED vars
  <2>1. UNCHANGED <<task, pending, running>>
    BY <1>10 DEF GenerationEnds, WorkerLooks, Tick, vars, dispatchVars, repVars
  <2> QED
    BY <2>1 DEF Waiting, InFlight, Held, Finished
<1> QED
  BY <1>1, <1>2, <1>3, <1>4, <1>5, <1>6, <1>7, <1>8, <1>9, <1>10 DEF Next, Tasks, Post

(* With a baseline scheduler a client is promised what it is promised with *)
(* DualMap, whichever replica is chosen and however the posts end.         *)
THEOREM Implementation ==
  ASSUME EmptyAnswers = FALSE
  PROVE  Spec => ServiceSpec
<1>1. Init => Service!ServiceInit
  BY DEF Init, RepInit, Asked, Posted, Service!ServiceInit, Service!Replica, Replica
<1> QED
  BY <1>1, Invariant, ServiceStep, PTL DEF Spec, ServiceSpec, Service!ServiceSpec
===============================================================================

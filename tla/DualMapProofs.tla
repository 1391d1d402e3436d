--------------------------- MODULE DualMapProofs ---------------------------
(***************************************************************************)
(* For any number of replicas and requests, any prompts, thresholds and    *)
(* balance type: the dispatcher uses its components as they require, is    *)
(* type correct, and never forgets a waiting request.                      *)
(***************************************************************************)
EXTENDS DualMap, ReplicasProofs

(***************************************************************************)
(* The global request queue, under any dispatcher that uses it as          *)
(* QueueSpec says: the token counters by which the scheduler judges load   *)
(* never drift from the queues, however requests are pushed, popped and    *)
(* moved with changing hit estimates.                                      *)
(***************************************************************************)
(* The inductive invariant: a queue is finite and holds a request at most  *)
(* once, so an arriving entry is new to the queue whose counter it joins.  *)
QueuesFinite == \A r \in Replica : IsFiniteSet(queues[r])

QueueInv ==
  /\ QueueTypeOK
  /\ QueuesFinite
  /\ QueuedOnce
  /\ CountersMatchQueues

(* What an entry contributes to the two counters.                          *)
LEMMA Contributions ==
  ASSUME NEW e \in Entry
  PROVE  /\ Tokens(e) \in Nat /\ TokensOf[e] = Tokens(e)
         /\ Prefill[e.req] \in Nat /\ InputOf[e] = Prefill[e.req]
BY ReplicasAssumption, RequestsAssumption DEF Entry, Tokens, TokensOf, InputOf

(* Any hit up to the whole prompt makes an entry.                          *)
LEMMA EntryForType ==
  ASSUME NEW q \in Request, NEW hit \in 0 .. Prefill[q]
  PROVE  EntryFor(q, hit) \in Entry /\ EntryFor(q, hit).req = q
BY DEF EntryFor, Entry

(* One queue gains a new entry and its counters are incremented.           *)
LEMMA CountersGain ==
  ASSUME NEW S \in SUBSET Entry, IsFiniteSet(S), NEW e \in Entry, e \notin S,
         NEW a \in Int, NEW b \in Int,
         Totals(S, TokensOf, a), Totals(S, InputOf, b)
  PROVE  /\ IsFiniteSet(S \union {e})
         /\ Totals(S \union {e}, TokensOf, a + Tokens(e))
         /\ Totals(S \union {e}, InputOf, b + Prefill[e.req])
<1>1. a \in Nat /\ b \in Nat
  BY TotalsNat
<1>2. /\ TokensOf[e] \in Nat /\ TokensOf[e] = Tokens(e)
      /\ InputOf[e] \in Nat /\ InputOf[e] = Prefill[e.req]
  BY Contributions
<1>3. IsFiniteSet(S \union {e})
  BY FS_AddElement
<1>4. Totals(S \union {e}, TokensOf, a + TokensOf[e])
  BY <1>1, <1>2, TotalsAdd
<1>5. Totals(S \union {e}, InputOf, b + InputOf[e])
  BY <1>1, <1>2, TotalsAdd
<1> QED
  BY <1>2, <1>3, <1>4, <1>5

(* One queue loses an entry and its counters are decremented.              *)
LEMMA CountersLose ==
  ASSUME NEW S \in SUBSET Entry, IsFiniteSet(S), NEW e \in S,
         NEW a \in Int, NEW b \in Int,
         Totals(S, TokensOf, a), Totals(S, InputOf, b)
  PROVE  /\ IsFiniteSet(S \ {e})
         /\ Totals(S \ {e}, TokensOf, a - Tokens(e))
         /\ Totals(S \ {e}, InputOf, b - Prefill[e.req])
<1>1. a \in Nat /\ b \in Nat
  BY TotalsNat
<1>2. \A y \in S : TokensOf[y] \in Nat /\ InputOf[y] \in Nat
  BY Contributions
<1>3. TokensOf[e] = Tokens(e) /\ InputOf[e] = Prefill[e.req]
  BY Contributions
<1>4. IsFiniteSet(S \ {e})
  BY FS_RemoveElement
<1>5. Totals(S \ {e}, TokensOf, a - TokensOf[e])
  BY <1>1, <1>2, TotalsRemove
<1>6. Totals(S \ {e}, InputOf, b - InputOf[e])
  BY <1>1, <1>2, TotalsRemove
<1> QED
  BY <1>3, <1>4, <1>5, <1>6

(* The invariant holds of empty queues and is kept by each operation.      *)
LEMMA QueueInvInit == QueueInit => QueueInv
<1> SUFFICES ASSUME QueueInit
             PROVE  QueueInv
  OBVIOUS
<1>1. QueueTypeOK /\ QueuedOnce
  BY DEF QueueInit, QueueTypeOK, QueuedOnce
<1>2. QueuesFinite
  BY FS_EmptySet DEF QueueInit, QueuesFinite
<1>3. CountersMatchQueues
  BY TotalsEmpty DEF QueueInit, CountersMatchQueues
<1> QED
  BY <1>1, <1>2, <1>3 DEF QueueInv

(* push of a request that is in no queue.                                  *)
LEMMA PushPreserves ==
  ASSUME QueueInv, NEW r \in Replica, NEW q \in Request,
         NEW hit \in 0 .. Prefill[q], ~Queued(q), Push(r, q, hit)
  PROVE  QueueInv'
<1> USE DEF QueueInv, QueueTypeOK
<1> DEFINE e == EntryFor(q, hit)
<1>1. e \in Entry /\ e.req = q
  BY EntryForType
<1>2. /\ queues' = [queues EXCEPT ![r] = @ \union {e}]
      /\ waitingTokens' = [waitingTokens EXCEPT ![r] = @ + Tokens(e)]
      /\ inputTokens' = [inputTokens EXCEPT ![r] = @ + Prefill[e.req]]
  BY <1>1 DEF Push
<1>3. \A s \in Replica : \A d \in queues[s] : d.req # q
  BY DEF Queued
<1> HIDE DEF e
<1>4. Tokens(e) \in Int /\ Prefill[e.req] \in Int
  BY <1>1, Contributions
<1>5. QueueTypeOK'
  BY <1>1, <1>2, <1>4
<1>6. QueuedOnce'
  BY <1>1, <1>2, <1>3 DEF QueuedOnce
<1>7. ASSUME NEW s \in Replica
      PROVE  /\ IsFiniteSet(queues'[s])
             /\ Totals(queues'[s], TokensOf, waitingTokens'[s])
             /\ Totals(queues'[s], InputOf, inputTokens'[s])
  <2>1. /\ IsFiniteSet(queues[s])
        /\ Totals(queues[s], TokensOf, waitingTokens[s])
        /\ Totals(queues[s], InputOf, inputTokens[s])
    BY DEF QueuesFinite, CountersMatchQueues
  <2>2. CASE s # r
    BY <1>2, <2>1, <2>2
  <2>3. CASE s = r
    <3>1. e \notin queues[s]
      BY <1>1, <1>3
    <3>2. /\ IsFiniteSet(queues[s] \union {e})
          /\ Totals(queues[s] \union {e}, TokensOf, waitingTokens[s] + Tokens(e))
          /\ Totals(queues[s] \union {e}, InputOf, inputTokens[s] + Prefill[e.req])
      BY <1>1, <2>1, <3>1, CountersGain
    <3> QED
      BY <1>2, <2>3, <3>2
  <2> QED
    BY <2>2, <2>3
<1>8. TokensOf' = TokensOf /\ InputOf' = InputOf
  BY DEF TokensOf, InputOf, Tokens, Entry
<1> QED
  BY <1>5, <1>6, <1>7, <1>8 DEF QueuesFinite, CountersMatchQueues

(* One turn of pop_schedulable.                                            *)
LEMMA PopPreserves ==
  ASSUME QueueInv, NEW r \in Replica, NEW e \in queues[r], Pop(r, e)
  PROVE  QueueInv'
<1> USE DEF QueueInv, QueueTypeOK
<1>1. e \in Entry /\ Tokens(e) \in Int /\ Prefill[e.req] \in Int
  BY Contributions
<1>2. /\ queues' = [queues EXCEPT ![r] = @ \ {e}]
      /\ waitingTokens' = [waitingTokens EXCEPT ![r] = @ - Tokens(e)]
      /\ inputTokens' = [inputTokens EXCEPT ![r] = @ - Prefill[e.req]]
  BY DEF Pop
<1>3. QueueTypeOK'
  BY <1>1, <1>2
<1>4. QueuedOnce'
  BY <1>2 DEF QueuedOnce
<1>5. ASSUME NEW s \in Replica
      PROVE  /\ IsFiniteSet(queues'[s])
             /\ Totals(queues'[s], TokensOf, waitingTokens'[s])
             /\ Totals(queues'[s], InputOf, inputTokens'[s])
  <2>1. /\ IsFiniteSet(queues[s])
        /\ Totals(queues[s], TokensOf, waitingTokens[s])
        /\ Totals(queues[s], InputOf, inputTokens[s])
    BY DEF QueuesFinite, CountersMatchQueues
  <2>2. CASE s # r
    BY <1>2, <2>1, <2>2
  <2>3. CASE s = r
    <3>1. /\ IsFiniteSet(queues[s] \ {e})
          /\ Totals(queues[s] \ {e}, TokensOf, waitingTokens[s] - Tokens(e))
          /\ Totals(queues[s] \ {e}, InputOf, inputTokens[s] - Prefill[e.req])
      BY <2>1, <2>3, CountersLose
    <3> QED
      BY <1>2, <2>3, <3>1
  <2> QED
    BY <2>2, <2>3
<1>6. TokensOf' = TokensOf /\ InputOf' = InputOf
  BY DEF TokensOf, InputOf, Tokens, Entry
<1> QED
  BY <1>3, <1>4, <1>5, <1>6 DEF QueuesFinite, CountersMatchQueues

(* del_req and push: two queues and their counters change together.        *)
LEMMA MovePreserves ==
  ASSUME QueueInv, NEW src \in Replica, NEW dst \in Replica, src # dst,
         NEW e \in queues[src], NEW hit \in 0 .. Prefill[e.req],
         Move(src, dst, e, hit)
  PROVE  QueueInv'
<1> USE DEF QueueInv, QueueTypeOK
<1> DEFINE n == EntryFor(e.req, hit)
<1>1. e \in Entry /\ e.req \in Request
  BY DEF Entry
<1>2. n \in Entry /\ n.req = e.req
  BY <1>1, EntryForType
<1>3. /\ queues' = [queues EXCEPT ![src] = @ \ {e}, ![dst] = @ \union {n}]
      /\ waitingTokens' = [waitingTokens EXCEPT ![src] = @ - Tokens(e),
                                                ![dst] = @ + Tokens(n)]
      /\ inputTokens' = [inputTokens EXCEPT ![src] = @ - Prefill[e.req],
                                            ![dst] = @ + Prefill[n.req]]
  BY <1>2 DEF Move
<1> HIDE DEF n
<1>4. /\ Tokens(e) \in Int /\ Prefill[e.req] \in Int
      /\ Tokens(n) \in Int /\ Prefill[n.req] \in Int
  BY <1>1, <1>2, Contributions
<1>5. QueueTypeOK'
  BY <1>2, <1>3, <1>4
<1>6. n \notin queues[dst]
  BY <1>2 DEF QueuedOnce
<1>7. QueuedOnce'
  <2> SUFFICES ASSUME NEW r \in Replica, NEW s \in Replica,
                      NEW c \in queues'[r], NEW d \in queues'[s], c.req = d.req
               PROVE  r = s /\ c = d
    BY DEF QueuedOnce
  <2>1. \A t \in Replica : \A x \in queues'[t] :
          \/ x \in queues[t] /\ x # e
          \/ t = dst /\ x = n
    BY <1>3 DEF QueuedOnce
  <2>2. \A t \in Replica : \A x \in queues[t] :
          x.req = e.req => t = src /\ x = e
    BY DEF QueuedOnce
  <2>3. \A t \in Replica : \A x \in queues'[t] :
          x.req = e.req => t = dst /\ x = n
    BY <2>1, <2>2
  <2>4. CASE c.req = e.req
    BY <2>3, <2>4
  <2>5. CASE c.req # e.req
    <3>1. c \in queues[r] /\ d \in queues[s]
      BY <1>2, <2>1, <2>5
    <3> QED
      BY <3>1 DEF QueuedOnce
  <2> QED
    BY <2>4, <2>5
<1>8. ASSUME NEW s \in Replica
      PROVE  /\ IsFiniteSet(queues'[s])
             /\ Totals(queues'[s], TokensOf, waitingTokens'[s])
             /\ Totals(queues'[s], InputOf, inputTokens'[s])
  <2>1. /\ IsFiniteSet(queues[s])
        /\ Totals(queues[s], TokensOf, waitingTokens[s])
        /\ Totals(queues[s], InputOf, inputTokens[s])
    BY DEF QueuesFinite, CountersMatchQueues
  <2>2. CASE s \notin {src, dst}
    BY <1>3, <2>1, <2>2
  <2>3. CASE s = src
    <3>1. /\ IsFiniteSet(queues[s] \ {e})
          /\ Totals(queues[s] \ {e}, TokensOf, waitingTokens[s] - Tokens(e))
          /\ Totals(queues[s] \ {e}, InputOf, inputTokens[s] - Prefill[e.req])
      BY <2>1, <2>3, CountersLose
    <3> QED
      BY <1>3, <2>3, <3>1
  <2>4. CASE s = dst
    <3>1. /\ IsFiniteSet(queues[s] \union {n})
          /\ Totals(queues[s] \union {n}, TokensOf, waitingTokens[s] + Tokens(n))
          /\ Totals(queues[s] \union {n}, InputOf, inputTokens[s] + Prefill[n.req])
      BY <1>2, <1>6, <2>1, <2>4, CountersGain
    <3> QED
      BY <1>3, <2>4, <3>1
  <2> QED
    BY <2>2, <2>3, <2>4
<1>9. TokensOf' = TokensOf /\ InputOf' = InputOf
  BY DEF TokensOf, InputOf, Tokens, Entry
<1> QED
  BY <1>5, <1>7, <1>8, <1>9 DEF QueuesFinite, CountersMatchQueues

(* Every step keeps the invariant.                                         *)
LEMMA QueueInvStep == QueueInv /\ [QueueNext]_queueVars => QueueInv'
<1> SUFFICES ASSUME QueueInv, [QueueNext]_queueVars
             PROVE  QueueInv'
  OBVIOUS
<1>1. ASSUME NEW r \in Replica, NEW q \in Request, NEW hit \in 0 .. Prefill[q],
             ~Queued(q), Push(r, q, hit)
      PROVE  QueueInv'
  BY <1>1, PushPreserves
<1>2. ASSUME NEW r \in Replica, NEW e \in queues[r], Pop(r, e)
      PROVE  QueueInv'
  BY <1>2, PopPreserves
<1>3. ASSUME NEW src \in Replica, NEW dst \in Replica, NEW e \in queues[src],
             NEW hit \in 0 .. Prefill[e.req], src # dst,
             Move(src, dst, e, hit)
      PROVE  QueueInv'
  BY <1>3, MovePreserves
<1>4. CASE UNCHANGED queueVars
  <2>1. UNCHANGED <<queues, waitingTokens, inputTokens>>
    BY <1>4 DEF queueVars
  <2>2. TokensOf' = TokensOf /\ InputOf' = InputOf
    BY DEF TokensOf, InputOf, Tokens, Entry
  <2> QED
    BY <2>1, <2>2 DEF QueueInv, QueueTypeOK, QueuesFinite, QueuedOnce,
                      CountersMatchQueues
<1> QED
  BY <1>1, <1>2, <1>3, <1>4 DEF QueueNext

(* The inductive invariant is an invariant.                                *)
LEMMA QueueInvariant == QueueSpec => []QueueInv
BY QueueInvInit, QueueInvStep, PTL DEF QueueSpec

(* Queues hold requests with estimates, and counters are numbers.          *)
THEOREM QueueTypeCorrect == QueueSpec => []QueueTypeOK
BY QueueInvariant, PTL DEF QueueInv

(* The two counters of each queue always equal the sums they stand for.    *)
THEOREM CountersNeverDrift == QueueSpec => []CountersMatchQueues
BY QueueInvariant, PTL DEF QueueInv

(* No request ever waits twice.                                            *)
THEOREM NeverQueuedTwice == QueueSpec => []QueuedOnce
BY QueueInvariant, PTL DEF QueueInv

(* Within a queue service follows (hit, arrival) order.                    *)
THEOREM PopsFollowTheHeap == QueueSpec => PopsInOrder
<1>1. QueueInv /\ [QueueNext]_queueVars =>
        [\A r \in Replica : \A e \in queues[r] \ queues'[r] :
           (\A s \in Replica : queues'[s] \subseteq queues[s])
             => \A d \in queues'[r] : Before(e, d)]_queueVars
  <2> SUFFICES ASSUME QueueInv, QueueNext,
                      NEW r \in Replica, NEW e \in queues[r] \ queues'[r],
                      \A s \in Replica : queues'[s] \subseteq queues[s],
                      NEW d \in queues'[r]
               PROVE  Before(e, d)
    OBVIOUS
  <2> USE DEF QueueInv, QueueTypeOK
  <2>1. ASSUME NEW s \in Replica, NEW q \in Request,
               NEW hit \in 0 .. Prefill[q], ~Queued(q), Push(s, q, hit)
        PROVE  FALSE
    BY <2>1 DEF Push
  <2>2. ASSUME NEW s \in Replica, NEW f \in queues[s], AtHead(s, f), Pop(s, f)
        PROVE  Before(e, d)
    <3>1. s = r /\ f = e
      BY <2>2 DEF Pop
    <3> QED
      BY <2>2, <3>1 DEF AtHead
  <2>3. ASSUME NEW src \in Replica, NEW dst \in Replica, NEW f \in queues[src],
               NEW hit \in 0 .. Prefill[f.req], src # dst,
               Move(src, dst, f, hit)
        PROVE  FALSE
    <3>1. EntryFor(f.req, hit) \in queues'[dst]
      BY <2>3 DEF Move
    <3>2. EntryFor(f.req, hit) \in queues[dst] /\ EntryFor(f.req, hit).req = f.req
      BY <3>1 DEF EntryFor
    <3> QED
      BY <2>3, <3>2 DEF QueuedOnce
  <2> QED
    BY <2>1, <2>2, <2>3 DEF QueueNext
<1> QED
  BY <1>1, QueueInvariant, PTL DEF QueueSpec, PopsInOrder
-----------------------------------------------------------------------------
(***************************************************************************)
(* The dispatcher.                                                         *)
(***************************************************************************)
(* With at least one replica the second hash is a replica as well.         *)
LEMMA CandidateReplicas ==
  ASSUME NEW q \in Request
  PROVE  First(q) \in Replica /\ Second(q) \in Replica
<1>1. Hash1[q] \in Replica /\ Hash2[q] \in Replica
  BY RequestsAssumption
<1>2. (Hash1[q] + 1) % NumReplicas \in 0 .. NumReplicas - 1
  BY <1>1, ReplicasAssumption DEF Replica
<1> QED
  BY <1>1, <1>2 DEF First, Second, Replica

(* Whatever the metrics say, a request's two replicas are chosen from.     *)
LEMMA ChosenReplicas ==
  ASSUME NEW q \in Request
  PROVE  Chosen(q) \in Replica \X Replica
<1>1. \A metric : Select(q, metric) \in Replica \X Replica
  BY CandidateReplicas DEF Select
<1> QED
  BY <1>1 DEF Chosen

(* The hit a request is queued with is part of its prompt.                 *)
LEMMA HitRange ==
  ASSUME NEW r \in Replica, NEW q \in Request
  PROVE  Prefill[q] - Recompute(r, q) \in 0 .. Prefill[q]
<1>1. Recompute(r, q) \in 1 .. Prefill[q] /\ Prefill[q] \in Nat
  BY RecomputeRange, RequestsAssumption
<1> QED
  BY <1>1

(* A migration never leads back to the replica it relieves.                *)
LEMMA TargetsDiffer ==
  ASSUME NEW m \in Migrations
  PROVE  /\ m = <<m[1], m[2]>>
         /\ m[1] \in queues[rebalance.src]
         /\ m[2] \in Replica
         /\ m[2] # rebalance.src
         /\ Fits(m[2], m[1].req)
<1>1. m \in queues[rebalance.src] \X Replica /\ m[2] \in MigrationTargets(m[1].req)
  BY DEF Migrations
<1> QED
  BY <1>1 DEF MigrationTargets
-----------------------------------------------------------------------------
(* The inductive invariant.  HeldInv ties a replica's lists to the stage   *)
(* of the post: it says when a request can be handed to a replica, and     *)
(* that only an empty answer outlives its post in pending_requests.        *)
HeldInv ==
  \A r \in Replica, q \in Request :
    /\ q \in pending[r] =>
         /\ primary[q] = r
         /\ \/ task[q] \in {"prefill", "failed"}
            \/ EmptyAnswers /\ task[q] \in {"closing", "returned", "finished"}
    /\ q \in running[r] => primary[q] = r /\ task[q] \in {"decode", "failed"}

(* The locals of schedule() are in use only in their own loops.            *)
LocalsInv ==
  /\ adding # NoRequest <=> phase = "add"
  /\ adding # NoRequest => task[adding.req] = "queued"
  /\ rebalance # NotRebalancing => phase \in {"add", "sweep"}
  /\ quota # NotPopping => phase = "dispatch"

(* Only a request that is still being added has no replica.                *)
PlacedInv ==
  \A q \in Request :
    \/ task[q] = "unsent"
    \/ adding # NoRequest /\ adding.req = q
    \/ primary[q] \in Replica

Inv ==
  /\ TypeOK
  /\ QueueInv
  /\ QueuedIsWaiting
  /\ HeldInv
  /\ LocalsInv
  /\ PlacedInv

(* Nothing is sent, queued or held when the dispatcher starts.            *)
LEMMA InvInit == Init => Inv
<1> SUFFICES ASSUME Init
             PROVE  Inv
  OBVIOUS
<1>1. RepTypeOK
  BY RequestsAssumption, ReplicaAssumption DEF Init, RepInit, RepTypeOK
<1>2. QueueInv
  BY QueueInvInit DEF Init
<1>3. TypeOK
  BY <1>1, <1>2, ReplicasAssumption, RequestsAssumption
     DEF Init, TypeOK, TaskTypeOK, ScheduleTypeOK, Status, QueueInv
<1>4. QueuedIsWaiting
  BY DEF Init, QueueInit, QueuedIsWaiting, Queued
<1>5. HeldInv
  BY DEF Init, RepInit, HeldInv
<1>6. LocalsInv /\ PlacedInv
  BY DEF Init, LocalsInv, PlacedInv
<1> QED
  BY <1>2, <1>3, <1>4, <1>5, <1>6 DEF Inv

(* A posted request has a replica, and one that is not yet accepted is on  *)
(* no replica's lists.                                                     *)
LEMMA PostedHasReplica ==
  ASSUME Inv, NEW q \in Request, phase = "idle", task[q] # "unsent"
  PROVE  /\ primary[q] \in Replica
         /\ task[q] = "posted" => Unowned(q)
<1>1. primary[q] \in Replica
  BY DEF Inv, LocalsInv, PlacedInv
<1>2. ASSUME task[q] = "posted", NEW r \in Replica
      PROVE  q \notin pending[r] /\ q \notin running[r]
  BY <1>2 DEF Inv, HeldInv
<1> QED
  BY <1>1, <1>2 DEF Unowned

(* Every step of the dispatcher is a step the replicas allow.              *)
LEMMA StepsOfReplicas == Inv /\ [Next]_vars => [RepNext]_repVars
<1> SUFFICES ASSUME Inv, [Next]_vars
             PROVE  [RepNext]_repVars
  OBVIOUS
<1>1. ASSUME NEW q \in Request, Accepted(q)
      PROVE  RepNext
  <2>1. /\ phase = "idle" /\ task[q] = "posted"
        /\ AddRequest(primary[q], q)
    BY <1>1 DEF Accepted, Becomes
  <2>2. primary[q] \in Replica /\ Unowned(q)
    BY <2>1, PostedHasReplica
  <2> QED
    BY <2>1, <2>2 DEF RepNext
<1>2. ASSUME NEW q \in Request, FirstContent(q)
      PROVE  RepNext
  <2>1. phase = "idle" /\ task[q] = "prefill" /\ CompletePrefill(primary[q], q)
    BY <1>2 DEF FirstContent, Becomes
  <2>2. primary[q] \in Replica
    BY <2>1, PostedHasReplica
  <2> QED
    BY <2>1, <2>2 DEF RepNext
<1>3. ASSUME NEW q \in Request, AnswerDone(q)
      PROVE  RepNext
  <2>1. /\ phase = "idle" /\ task[q] \in {"prefill", "decode"}
        /\ CompleteDecode(primary[q], q)
    BY <1>3 DEF AnswerDone, Becomes
  <2>2. primary[q] \in Replica
    BY <2>1, PostedHasReplica
  <2> QED
    BY <2>1, <2>2 DEF RepNext
<1>4. ASSUME NEW q \in Request, Abort(q)
      PROVE  RepNext
  <2>1. phase = "idle" /\ task[q] = "failed" /\ AbortRequest(primary[q], q)
    BY <1>4 DEF Abort, Becomes
  <2>2. primary[q] \in Replica
    BY <2>1, PostedHasReplica
  <2> QED
    BY <2>1, <2>2 DEF RepNext
<1>5. ASSUME NEW q \in Request, Post(q)
      PROVE  [RepNext]_repVars
  BY <1>1, <1>2, <1>3, <1>4, <1>5 DEF Post, Succeed, Fail
<1>6. ASSUME NEW q \in Request, ScheduleNew(q) \/ OnRequestComplete(q)
      PROVE  UNCHANGED repVars
  BY <1>6 DEF ScheduleNew, OnRequestComplete
<1>7. CASE Schedule \/ Tick
  BY <1>7 DEF Schedule, Tick, RebalanceAdded, AssignReplicas, Sweep, EndSweep,
              Migrate, EndRebalance, Serve, PopAndPost, Return
<1>8. CASE UNCHANGED vars
  BY <1>8 DEF vars
<1> QED
  BY <1>5, <1>6, <1>7, <1>8 DEF Next

(* Every step of the dispatcher is a step the queues allow: only a request *)
(* in no queue is pushed, the head is popped, a move has two ends.         *)
LEMMA StepsOfQueue == Inv /\ [Next]_vars => [QueueNext]_queueVars
<1> SUFFICES ASSUME Inv, [Next]_vars
             PROVE  [QueueNext]_queueVars
  OBVIOUS
<1>1. ASSUME NEW q \in Request, ScheduleNew(q)
      PROVE  QueueNext
  <2>1. PICK pair \in Replica \X Replica :
          Push(pair[1], q, Prefill[q] - Recompute(pair[1], q))
    BY <1>1, ChosenReplicas DEF ScheduleNew
  <2>2. ~Queued(q)
    BY <1>1 DEF ScheduleNew, Inv, QueuedIsWaiting
  <2>3. pair[1] \in Replica
    OBVIOUS
  <2>4. Prefill[q] - Recompute(pair[1], q) \in 0 .. Prefill[q]
    BY <2>3, HitRange
  <2> QED
    BY <2>1, <2>2, <2>3, <2>4 DEF QueueNext
<1>2. CASE Migrate
  <2>1. PICK m \in Cheapest :
          Move(rebalance.src, m[2], m[1], Prefill[m[1].req] - Recompute(m[2], m[1].req))
    BY <1>2 DEF Migrate
  <2>2. m \in Migrations
    BY DEF Cheapest
  <2>3. rebalance.src \in Replica
    BY <1>2 DEF Migrate, Inv, TypeOK, ScheduleTypeOK
  <2>4. /\ m[1] \in queues[rebalance.src]
        /\ m[2] \in Replica
        /\ m[2] # rebalance.src
    BY <2>2, TargetsDiffer
  <2>5. m[1].req \in Request
    BY <2>3, <2>4 DEF Inv, QueueInv, QueueTypeOK, Entry
  <2>6. Prefill[m[1].req] - Recompute(m[2], m[1].req) \in 0 .. Prefill[m[1].req]
    BY <2>4, <2>5, HitRange
  <2> QED
    BY <2>1, <2>3, <2>4, <2>6 DEF QueueNext
<1>3. CASE PopAndPost
  <2>1. quota.rep \in Replica
    BY <1>3 DEF PopAndPost, Inv, TypeOK, ScheduleTypeOK
  <2>2. \E e \in queues[quota.rep] : AtHead(quota.rep, e) /\ Pop(quota.rep, e)
    BY <1>3 DEF PopAndPost
  <2> QED
    BY <2>1, <2>2 DEF QueueNext
<1>4. CASE \/ RebalanceAdded \/ AssignReplicas \/ Sweep \/ EndSweep
           \/ EndRebalance \/ Serve \/ Return \/ Tick
  BY <1>4 DEF RebalanceAdded, AssignReplicas, Sweep, EndSweep, EndRebalance,
              Serve, Return, Tick
<1>5. ASSUME NEW q \in Request, Post(q) \/ OnRequestComplete(q)
      PROVE  UNCHANGED queueVars
  BY <1>5 DEF Post, Accepted, FirstContent, AnswerDone, Succeed, Fail, Abort,
              Becomes, OnRequestComplete
<1>6. CASE UNCHANGED vars
  BY <1>6 DEF vars
<1> QED
  BY <1>1, <1>2, <1>3, <1>4, <1>5, <1>6 DEF Next, Schedule
-----------------------------------------------------------------------------
(* What the queue operations do to the set of waiting requests.            *)
LEMMA PushQueues ==
  ASSUME QueueInv, NEW r \in Replica, NEW q \in Request, NEW hit, Push(r, q, hit)
  PROVE  \A p \in Request : Queued(p)' <=> (Queued(p) \/ p = q)
<1>1. /\ queues \in [Replica -> SUBSET Entry]
      /\ queues' = [queues EXCEPT ![r] = @ \union {EntryFor(q, hit)}]
      /\ EntryFor(q, hit).req = q
  BY DEF QueueInv, QueueTypeOK, Push, EntryFor
<1> QED
  BY <1>1 DEF Queued

(* A move neither adds a waiting request nor drops one.                   *)
LEMMA MoveQueues ==
  ASSUME QueueInv, NEW src \in Replica, NEW dst \in Replica, src # dst,
         NEW e \in queues[src], NEW hit, Move(src, dst, e, hit)
  PROVE  \A p \in Request : Queued(p)' <=> Queued(p)
<1>1. /\ queues \in [Replica -> SUBSET Entry]
      /\ queues' = [queues EXCEPT ![src] = @ \ {e},
                                  ![dst] = @ \union {EntryFor(e.req, hit)}]
      /\ EntryFor(e.req, hit).req = e.req
  BY DEF QueueInv, QueueTypeOK, Move, EntryFor
<1>2. /\ queues'[src] = queues[src] \ {e}
      /\ queues'[dst] = queues[dst] \union {EntryFor(e.req, hit)}
      /\ \A r \in Replica \ {src, dst} : queues'[r] = queues[r]
  BY <1>1
<1>3. ASSUME NEW p \in Request, Queued(p)
      PROVE  Queued(p)'
  <2>0. PICK r \in Replica : \E f \in queues[r] : f.req = p
    BY <1>3 DEF Queued
  <2>1. PICK f \in queues[r] : f.req = p
    BY <2>0
  <2>2. CASE f = e
    BY <1>1, <1>2, <2>1, <2>2 DEF Queued
  <2>3. CASE f # e
    <3>1. f \in queues'[r]
      BY <1>2, <2>3
    <3> QED
      BY <2>1, <3>1 DEF Queued
  <2> QED
    BY <2>2, <2>3
<1>4. ASSUME NEW p \in Request, Queued(p)'
      PROVE  Queued(p)
  <2>0. PICK r \in Replica : \E f \in queues'[r] : f.req = p
    BY <1>4 DEF Queued
  <2>1. PICK f \in queues'[r] : f.req = p
    BY <2>0
  <2>2. f \in queues[r] \/ f = EntryFor(e.req, hit)
    BY <1>2
  <2> QED
    BY <1>1, <2>1, <2>2 DEF Queued
<1> QED
  BY <1>3, <1>4

(* A pop takes away the request of its entry and no other.                *)
LEMMA PopQueues ==
  ASSUME QueueInv, NEW r \in Replica, NEW e \in queues[r], Pop(r, e)
  PROVE  /\ e.req \in Request
         /\ \A p \in Request : Queued(p)' <=> (Queued(p) /\ p # e.req)
<1>1. /\ queues \in [Replica -> SUBSET Entry]
      /\ queues' = [queues EXCEPT ![r] = @ \ {e}]
      /\ QueuedOnce
  BY DEF QueueInv, QueueTypeOK, Pop
<1>2. e.req \in Request
  BY <1>1 DEF Entry
<1>3. ASSUME NEW p \in Request, Queued(p), p # e.req
      PROVE  Queued(p)'
  BY <1>1, <1>3 DEF Queued
<1>4. ASSUME NEW p \in Request, Queued(p)'
      PROVE  Queued(p) /\ p # e.req
  <2>0. PICK s \in Replica : \E f \in queues'[s] : f.req = p
    BY <1>4 DEF Queued
  <2>1. PICK f \in queues'[s] : f.req = p
    BY <2>0
  <2>2. f \in queues[s] /\ (s = r => f # e)
    BY <1>1
  <2> QED
    BY <1>1, <2>1, <2>2 DEF Queued, QueuedOnce
<1> QED
  BY <1>2, <1>3, <1>4
-----------------------------------------------------------------------------
(* Loads are integers: counters may not go below 0, but that is not needed *)
(* to schedule.                                                            *)
LEMMA LoadTypes ==
  ASSUME TypeOK
  PROVE  \A r \in Replica :
           /\ Load(r) \in Int
           /\ \A q \in Request : Virtual(r, q) \in Int
<1> SUFFICES ASSUME NEW r \in Replica
             PROVE  /\ Load(r) \in Int
                    /\ \A q \in Request : Virtual(r, q) \in Int
  OBVIOUS
<1>1. waitingTokens[r] \in Int /\ budget[r] \in Int
  BY DEF TypeOK, RepTypeOK, QueueTypeOK
<1>2. PendingTokens(r) \in Int
  BY <1>1, ReplicaAssumption DEF PendingTokens
<1>3. Load(r) \in Int
  BY <1>1, <1>2 DEF Load
<1>4. \A q \in Request : Recompute(r, q) \in Int
  <2>1. \A q \in Request : Prefill[q] \in Nat
    BY RequestsAssumption
  <2> QED
    BY <2>1, RecomputeRange
<1> QED
  BY <1>3, <1>4 DEF Virtual

(* What ScheduleNew adds is a request with its two replicas.               *)
LEMMA AddingType ==
  ASSUME TypeOK, NEW q \in Request, ScheduleNew(q)
  PROVE  /\ adding' \in [req : Request, pair : Replica \X Replica, need : Int \X Int]
         /\ adding'.req = q
         /\ adding' # NoRequest
<1> DEFINE pair == Chosen(q)
           n1 == Virtual(pair[1], q) - RebalanceThreshold
           n2 == Load(pair[2]) + (IF pair[2] = pair[1]
                                    THEN Recompute(pair[2], q) ELSE 0)
                   - RebalanceThreshold
<1>1. adding' = [req |-> q, pair |-> pair, need |-> <<n1, n2>>]
  BY DEF ScheduleNew
<1>2. pair \in Replica \X Replica
  BY ChosenReplicas
<1>3. pair[1] \in Replica /\ pair[2] \in Replica
  BY <1>2
<1>4. n1 \in Int
  BY <1>3, LoadTypes, DualMapAssumption
<1>5. n2 \in Int
  <2>1. Recompute(pair[2], q) \in 1 .. Prefill[q] /\ Prefill[q] \in Nat
    BY <1>3, RecomputeRange, RequestsAssumption
  <2>2. Load(pair[2]) \in Int /\ RebalanceThreshold \in Int
    BY <1>3, LoadTypes, DualMapAssumption
  <2> QED
    BY <2>1, <2>2
<1> HIDE DEF pair, n1, n2
<1>6. adding'.req = q /\ q # 0
  BY <1>1 DEF Request
<1>7. NoRequest.req = 0
  BY DEF NoRequest
<1> QED
  BY <1>1, <1>2, <1>4, <1>5, <1>6, <1>7

(* Rebalancing begins with locals of their types.                          *)
LEMMA RebalanceType ==
  ASSUME TypeOK, NEW src \in Replica, NEW need \in Int, BeginRebalance(src, need)
  PROVE  rebalance' \in [src : Replica, need : Int, moved : Int,
                         waiting : [Replica -> Int], late : SUBSET Replica]
BY DEF BeginRebalance, TypeOK, QueueTypeOK

(* A migration is the move of a queued entry to another replica, with the  *)
(* hit that replica is estimated to have.                                  *)
LEMMA MigrateMoves ==
  ASSUME Inv, Migrate
  PROVE  \E e \in queues[rebalance.src], dst \in Replica :
           /\ rebalance.src \in Replica
           /\ e.req \in Request
           /\ dst # rebalance.src
           /\ Fits(dst, e.req)
           /\ Move(rebalance.src, dst, e, Prefill[e.req] - Recompute(dst, e.req))
           /\ rebalance' = Moved(dst, e.req)
           /\ primary' = [primary EXCEPT ![e.req] = dst]
<1>1. PICK m \in Cheapest :
        /\ Move(rebalance.src, m[2], m[1], Prefill[m[1].req] - Recompute(m[2], m[1].req))
        /\ rebalance' = Moved(m[2], m[1].req)
        /\ primary' = [primary EXCEPT ![m[1].req] = m[2]]
  BY DEF Migrate
<1>2. m \in Migrations
  BY DEF Cheapest
<1>3. rebalance.src \in Replica
  BY DEF Migrate, Inv, TypeOK, ScheduleTypeOK
<1>4. /\ m[1] \in queues[rebalance.src]
      /\ m[2] \in Replica
      /\ m[2] # rebalance.src
      /\ Fits(m[2], m[1].req)
  BY <1>2, TargetsDiffer
<1>5. m[1].req \in Request
  BY <1>3, <1>4 DEF Inv, QueueInv, QueueTypeOK, Entry
<1> QED
  BY <1>1, <1>3, <1>4, <1>5

(* What is popped is the head of the queue that is being served.           *)
LEMMA PopAndPostPops ==
  ASSUME Inv, PopAndPost
  PROVE  \E e \in queues[quota.rep] :
           /\ quota.rep \in Replica
           /\ e.req \in Request
           /\ Pop(quota.rep, e)
           /\ quota' = QuotaAfter(e)
           /\ task' = [task EXCEPT ![e.req] = "posted"]
<1>1. PICK e \in queues[quota.rep] :
        /\ Pop(quota.rep, e)
        /\ quota' = QuotaAfter(e)
        /\ task' = [task EXCEPT ![e.req] = "posted"]
  BY DEF PopAndPost
<1>2. quota.rep \in Replica
  BY DEF PopAndPost, Inv, TypeOK, ScheduleTypeOK
<1>3. e.req \in Request
  BY <1>2 DEF Inv, QueueInv, QueueTypeOK, Entry
<1> QED
  BY <1>1, <1>2, <1>3

(* The progress of the requests is typed after every step.                 *)
LEMMA TaskTypeStep == Inv /\ [Next]_vars => TaskTypeOK'
<1> SUFFICES ASSUME Inv, [Next]_vars
             PROVE  TaskTypeOK'
  OBVIOUS
<1> USE DEF TaskTypeOK, Status, Posted
<1>0. TaskTypeOK
  BY DEF Inv, TypeOK
<1>1. ASSUME NEW q \in Request, ScheduleNew(q)
      PROVE  TaskTypeOK'
  BY <1>0, <1>1 DEF ScheduleNew
<1>2. ASSUME NEW q \in Request, Post(q)
      PROVE  TaskTypeOK'
  BY <1>0, <1>2 DEF Post, Accepted, FirstContent, AnswerDone, Succeed, Fail, Abort, Becomes
<1>3. ASSUME NEW q \in Request, OnRequestComplete(q)
      PROVE  TaskTypeOK'
  BY <1>0, <1>3 DEF OnRequestComplete
<1>4. CASE AssignReplicas
  <2>1. adding.req \in Request /\ adding.pair \in Replica \X Replica
    BY <1>4 DEF AssignReplicas, Inv, LocalsInv, TypeOK, ScheduleTypeOK
  <2>2. adding.pair[1] \in Replica
    BY <2>1
  <2> QED
    BY <1>0, <1>4, <2>1, <2>2 DEF AssignReplicas
<1>5. CASE Migrate
  <2>1. PICK q \in Request, dst \in Replica : primary' = [primary EXCEPT ![q] = dst]
    BY <1>5, MigrateMoves
  <2>2. UNCHANGED <<task, staleBelow>>
    BY <1>5 DEF Migrate
  <2> QED
    BY <1>0, <2>1, <2>2
<1>6. CASE PopAndPost
  <2>1. PICK q \in Request : task' = [task EXCEPT ![q] = "posted"]
    BY <1>6, PopAndPostPops
  <2>2. UNCHANGED <<primary, staleBelow>>
    BY <1>6 DEF PopAndPost
  <2> QED
    BY <1>0, <2>1, <2>2
<1>7. CASE Tick
  <2>1. staleBelow + 1 \in 1 .. NumRequests + 1
    BY <1>0, <1>7, RequestsAssumption DEF Tick
  <2> QED
    BY <1>0, <1>7, <2>1 DEF Tick
<1>8. CASE RebalanceAdded \/ Sweep \/ EndSweep \/ EndRebalance \/ Serve \/ Return
  BY <1>0, <1>8 DEF RebalanceAdded, Sweep, EndSweep, EndRebalance, Serve, Return
<1>9. CASE UNCHANGED vars
  BY <1>0, <1>9 DEF vars
<1> QED
  BY <1>1, <1>2, <1>3, <1>4, <1>5, <1>6, <1>7, <1>8, <1>9 DEF Next, Schedule

(* The locals of schedule() are typed after every step.                    *)
LEMMA ScheduleTypeStep == Inv /\ [Next]_vars => ScheduleTypeOK'
<1> SUFFICES ASSUME Inv, [Next]_vars
             PROVE  ScheduleTypeOK'
  OBVIOUS
<1>0. TypeOK /\ ScheduleTypeOK
  BY DEF Inv, TypeOK
<1>r. NumReplicas \in Nat \ {0}
  BY ReplicasAssumption
<1>1. ASSUME NEW q \in Request, ScheduleNew(q)
      PROVE  ScheduleTypeOK'
  <2>1. adding' \in [req : Request, pair : Replica \X Replica, need : Int \X Int]
    BY <1>0, <1>1, AddingType
  <2>2. phase' = "add" /\ turn' \in {0, 2} /\ UNCHANGED <<rebalance, quota>>
    BY <1>1 DEF ScheduleNew
  <2>3. turn' \in 0 .. NumReplicas + 2
    BY <1>r, <2>2
  <2> QED
    BY <1>0, <2>1, <2>2, <2>3 DEF ScheduleTypeOK
<1>2. CASE RebalanceAdded
  <2>1. PICK i \in turn + 1 .. 2 :
          BeginRebalance(adding.pair[i], adding.need[i]) /\ turn' = i
    BY <1>2 DEF RebalanceAdded
  <2>2. i \in 1 .. 2 /\ i \in 0 .. NumReplicas + 2
    BY <1>0, <1>r DEF ScheduleTypeOK
  <2>3. adding.pair \in Replica \X Replica /\ adding.need \in Int \X Int
    BY <1>2 DEF RebalanceAdded, Inv, LocalsInv, TypeOK, ScheduleTypeOK
  <2>4. adding.pair[i] \in Replica /\ adding.need[i] \in Int
    BY <2>2, <2>3
  <2>5. rebalance' \in [src : Replica, need : Int, moved : Int,
                        waiting : [Replica -> Int], late : SUBSET Replica]
    BY <1>0, <2>1, <2>4, RebalanceType
  <2>6. UNCHANGED <<phase, adding, quota>>
    BY <1>2 DEF RebalanceAdded
  <2> QED
    BY <1>0, <2>1, <2>2, <2>5, <2>6 DEF ScheduleTypeOK
<1>3. CASE Sweep
  <2>1. PICK r \in turn .. NumReplicas - 1 :
          BeginRebalance(r, Load(r) - RebalanceThreshold) /\ turn' = r + 1
    BY <1>3 DEF Sweep
  <2>2. r \in Replica /\ r + 1 \in 0 .. NumReplicas + 2
    BY <1>0, <1>r DEF ScheduleTypeOK, Replica
  <2>3. Load(r) - RebalanceThreshold \in Int
    BY <1>0, <2>2, LoadTypes, DualMapAssumption
  <2>4. rebalance' \in [src : Replica, need : Int, moved : Int,
                        waiting : [Replica -> Int], late : SUBSET Replica]
    BY <1>0, <2>1, <2>2, <2>3, RebalanceType
  <2>5. UNCHANGED <<phase, adding, quota>>
    BY <1>3 DEF Sweep
  <2> QED
    BY <1>0, <2>1, <2>2, <2>4, <2>5 DEF ScheduleTypeOK
<1>4. CASE Migrate
  <2>1. PICK q \in Request, dst \in Replica : rebalance' = Moved(dst, q)
    BY <1>4, MigrateMoves
  <2>2. rebalance \in [src : Replica, need : Int, moved : Int,
                       waiting : [Replica -> Int], late : SUBSET Replica]
    BY <1>0, <1>4 DEF Migrate, ScheduleTypeOK
  <2>3. Recompute(rebalance.src, q) \in Int /\ Recompute(dst, q) \in Int
    BY <2>2, RecomputeRange, RequestsAssumption
  <2>4. Moved(dst, q) \in [src : Replica, need : Int, moved : Int,
                           waiting : [Replica -> Int], late : SUBSET Replica]
    BY <2>2, <2>3 DEF Moved
  <2>5. UNCHANGED <<phase, turn, adding, quota>>
    BY <1>4 DEF Migrate
  <2> QED
    BY <1>0, <2>1, <2>4, <2>5 DEF ScheduleTypeOK
<1>5. CASE Serve
  <2>1. PICK r \in turn .. NumReplicas - 1 :
          /\ quota' = [rep |-> r, budget |-> budget[r],
                       num |-> PendingThreshold - Cardinality(pending[r])]
          /\ turn' = r + 1
    BY <1>5 DEF Serve
  <2>2. r \in Replica /\ r + 1 \in 0 .. NumReplicas + 2
    BY <1>0, <1>r DEF ScheduleTypeOK, Replica
  <2>3. budget[r] \in Int /\ pending[r] \in SUBSET Request
    BY <1>0, <2>2 DEF TypeOK, RepTypeOK
  <2>4. PendingThreshold - Cardinality(pending[r]) \in Int
    BY <2>3, FiniteRequests, FS_CardinalityType, DualMapAssumption
  <2>5. quota' \in [rep : Replica, num : Int, budget : Int]
    BY <2>1, <2>2, <2>3, <2>4
  <2>6. UNCHANGED <<phase, adding, rebalance>>
    BY <1>5 DEF Serve
  <2> QED
    BY <1>0, <2>1, <2>2, <2>5, <2>6 DEF ScheduleTypeOK
<1>6. CASE PopAndPost
  <2>1. PICK e \in queues[quota.rep] : quota' = QuotaAfter(e) /\ quota.rep \in Replica
    BY <1>6, PopAndPostPops
  <2>2. quota \in [rep : Replica, num : Int, budget : Int]
    BY <1>0, <1>6 DEF PopAndPost, ScheduleTypeOK
  <2>3. e \in Entry
    BY <1>0, <2>1 DEF TypeOK, QueueTypeOK
  <2>4. Tokens(e) \in Int
    BY <2>3, Contributions
  <2>5. QuotaAfter(e) \in [rep : Replica, num : Int, budget : Int] \union {NotPopping}
    BY <2>2, <2>4 DEF QuotaAfter
  <2>6. UNCHANGED <<phase, turn, adding, rebalance>>
    BY <1>6 DEF PopAndPost
  <2> QED
    BY <1>0, <2>1, <2>5, <2>6 DEF ScheduleTypeOK
<1>7. CASE AssignReplicas \/ EndSweep \/ EndRebalance \/ Return \/ Tick
  BY <1>0, <1>7, <1>r DEF AssignReplicas, EndSweep, EndRebalance, Return, Tick,
                          scheduleVars, ScheduleTypeOK
<1>8. ASSUME NEW q \in Request, Post(q)
      PROVE  ScheduleTypeOK'
  BY <1>0, <1>8 DEF Post, Accepted, FirstContent, AnswerDone, Succeed, Fail, Abort,
                    Becomes, scheduleVars, ScheduleTypeOK
<1>9. ASSUME NEW q \in Request, OnRequestComplete(q)
      PROVE  ScheduleTypeOK'
  BY <1>0, <1>9, <1>r DEF OnRequestComplete, ScheduleTypeOK
<1>10. CASE UNCHANGED vars
  BY <1>0, <1>10 DEF vars, scheduleVars, ScheduleTypeOK
<1> QED
  BY <1>1, <1>2, <1>3, <1>4, <1>5, <1>6, <1>7, <1>8, <1>9, <1>10 DEF Next, Schedule
-----------------------------------------------------------------------------
(* A request enters the queues when it starts to wait and leaves them when *)
(* it is posted; migration is neither.                                     *)
LEMMA QueuedIsWaitingStep == Inv /\ [Next]_vars => QueuedIsWaiting'
<1> SUFFICES ASSUME Inv, [Next]_vars
             PROVE  QueuedIsWaiting'
  OBVIOUS
<1>0. QueueInv /\ QueuedIsWaiting /\ task \in [Request -> Status]
  BY DEF Inv, TypeOK, TaskTypeOK
<1>1. ASSUME NEW q \in Request, ScheduleNew(q)
      PROVE  QueuedIsWaiting'
  <2>1. PICK r \in Replica, hit \in Int : Push(r, q, hit)
    <3>1. Chosen(q)[1] \in Replica
      BY ChosenReplicas
    <3>2. Prefill[q] - Recompute(Chosen(q)[1], q) \in Int
      BY <3>1, HitRange, RequestsAssumption
    <3> QED
      BY <1>1, <3>1, <3>2 DEF ScheduleNew
  <2>2. \A p \in Request : Queued(p)' <=> (Queued(p) \/ p = q)
    BY <1>0, <2>1, PushQueues
  <2>3. task' = [task EXCEPT ![q] = "queued"]
    BY <1>1 DEF ScheduleNew
  <2> QED
    BY <1>0, <2>2, <2>3 DEF QueuedIsWaiting
<1>2. CASE Migrate
  <2>1. PICK e \in queues[rebalance.src], dst \in Replica :
          /\ rebalance.src \in Replica
          /\ dst # rebalance.src
          /\ Move(rebalance.src, dst, e, Prefill[e.req] - Recompute(dst, e.req))
    BY <1>2, MigrateMoves
  <2>2. \A p \in Request : Queued(p)' <=> Queued(p)
    BY <1>0, <2>1, MoveQueues
  <2>3. task' = task
    BY <1>2 DEF Migrate
  <2> QED
    BY <1>0, <2>2, <2>3 DEF QueuedIsWaiting
<1>3. CASE PopAndPost
  <2>1. PICK e \in queues[quota.rep] :
          /\ quota.rep \in Replica
          /\ e.req \in Request
          /\ Pop(quota.rep, e)
          /\ task' = [task EXCEPT ![e.req] = "posted"]
    BY <1>3, PopAndPostPops
  <2>2. \A p \in Request : Queued(p)' <=> (Queued(p) /\ p # e.req)
    BY <1>0, <2>1, PopQueues
  <2> QED
    BY <1>0, <2>1, <2>2 DEF QueuedIsWaiting
<1>4. ASSUME NEW q \in Request, Post(q) \/ OnRequestComplete(q)
      PROVE  QueuedIsWaiting'
  <2>1. /\ queues' = queues
        /\ \E s \in Status \ {"queued"} :
             task[q] # "queued" /\ task' = [task EXCEPT ![q] = s]
    BY <1>4 DEF Post, Accepted, FirstContent, AnswerDone, Succeed, Fail, Abort,
                Becomes, OnRequestComplete, queueVars, Status, Posted
  <2> QED
    BY <1>0, <2>1 DEF QueuedIsWaiting, Queued
<1>5. CASE \/ RebalanceAdded \/ AssignReplicas \/ Sweep \/ EndSweep
           \/ EndRebalance \/ Serve \/ Return \/ Tick \/ UNCHANGED vars
  <2>1. queues' = queues /\ task' = task
    BY <1>5 DEF RebalanceAdded, AssignReplicas, Sweep, EndSweep, EndRebalance,
                Serve, Return, Tick, vars, queueVars
  <2> QED
    BY <1>0, <2>1 DEF QueuedIsWaiting, Queued
<1> QED
  BY <1>1, <1>2, <1>3, <1>4, <1>5 DEF Next, Schedule

(* The replicas' lists follow the stage of the post: each of its steps     *)
(* hands the request on before the next one can run, and a request that    *)
(* waits, and whose replica may still change, is on no list.               *)
LEMMA HeldInvStep == Inv /\ [Next]_vars => HeldInv'
<1> SUFFICES ASSUME Inv, [Next]_vars
             PROVE  HeldInv'
  OBVIOUS
<1>0. HeldInv /\ RepTypeOK /\ TaskTypeOK
  BY DEF Inv, TypeOK
<1> USE DEF TaskTypeOK, RepTypeOK
<1>1. ASSUME NEW q \in Request, Accepted(q)
      PROVE  HeldInv'
  <2>1. /\ phase = "idle" /\ task[q] = "posted"
        /\ task' = [task EXCEPT ![q] = "prefill"] /\ primary' = primary
        /\ pending' = [pending EXCEPT ![primary[q]] = @ \union {q}]
        /\ running' = running
    BY <1>1 DEF Accepted, Becomes, AddRequest
  <2>2. primary[q] \in Replica /\ Unowned(q)
    BY <2>1, PostedHasReplica
  <2> QED
    BY <1>0, <2>1, <2>2 DEF HeldInv, Unowned
<1>2. ASSUME NEW q \in Request, FirstContent(q)
      PROVE  HeldInv'
  <2>1. /\ phase = "idle" /\ task[q] = "prefill"
        /\ task' = [task EXCEPT ![q] = "decode"] /\ primary' = primary
        /\ CompletePrefill(primary[q], q)
    BY <1>2 DEF FirstContent, Becomes
  <2>2. primary[q] \in Replica
    BY <2>1, PostedHasReplica
  <2>3. CASE q \in pending[primary[q]]
    <3>1. /\ pending' = [pending EXCEPT ![primary[q]] = @ \ {q}]
          /\ running' = [running EXCEPT ![primary[q]] = @ \union {q}]
      BY <2>1, <2>3 DEF CompletePrefill
    <3> QED
      BY <1>0, <2>1, <2>2, <3>1 DEF HeldInv
  <2>4. CASE q \notin pending[primary[q]]
    <3>1. pending' = pending /\ running' = running
      BY <2>1, <2>4 DEF CompletePrefill
    <3> QED
      BY <1>0, <2>1, <2>2, <2>4, <3>1 DEF HeldInv
  <2> QED
    BY <2>3, <2>4
<1>3. ASSUME NEW q \in Request, AnswerDone(q)
      PROVE  HeldInv'
  <2>1. /\ phase = "idle"
        /\ task[q] = "decode" \/ (EmptyAnswers /\ task[q] = "prefill")
        /\ task' = [task EXCEPT ![q] = "closing"] /\ primary' = primary
        /\ pending' = pending
        /\ running' = [running EXCEPT ![primary[q]] = @ \ {q}]
    BY <1>3 DEF AnswerDone, Becomes, CompleteDecode
  <2>2. primary[q] \in Replica
    BY <2>1, PostedHasReplica
  <2> QED
    BY <1>0, <2>1, <2>2 DEF HeldInv
<1>4. ASSUME NEW q \in Request, Abort(q)
      PROVE  HeldInv'
  <2>1. /\ phase = "idle" /\ task[q] = "failed"
        /\ task' = [task EXCEPT ![q] = "returned"] /\ primary' = primary
        /\ pending' = [pending EXCEPT ![primary[q]] = @ \ {q}]
        /\ running' = [running EXCEPT ![primary[q]] = @ \ {q}]
    BY <1>4 DEF Abort, Becomes, AbortRequest
  <2>2. primary[q] \in Replica
    BY <2>1, PostedHasReplica
  <2> QED
    BY <1>0, <2>1, <2>2 DEF HeldInv
<1>5. ASSUME NEW q \in Request, Succeed(q) \/ Fail(q)
      PROVE  HeldInv'
  BY <1>0, <1>5 DEF Succeed, Fail, Becomes, HeldInv, repVars
<1>6. ASSUME NEW q \in Request, OnRequestComplete(q)
      PROVE  HeldInv'
  BY <1>0, <1>6 DEF OnRequestComplete, HeldInv, repVars
<1>7. ASSUME NEW q \in Request, ScheduleNew(q)
      PROVE  HeldInv'
  BY <1>0, <1>7 DEF ScheduleNew, HeldInv, repVars
<1>8. CASE AssignReplicas
  <2>1. adding.req \in Request /\ task[adding.req] = "queued"
    BY <1>8 DEF AssignReplicas, Inv, LocalsInv, TypeOK, ScheduleTypeOK
  <2> QED
    BY <1>0, <1>8, <2>1 DEF AssignReplicas, HeldInv, repVars
<1>9. CASE Migrate
  <2>1. PICK e \in queues[rebalance.src], dst \in Replica :
          /\ rebalance.src \in Replica
          /\ e.req \in Request
          /\ primary' = [primary EXCEPT ![e.req] = dst]
    BY <1>9, MigrateMoves
  <2>2. task[e.req] = "queued"
    BY <2>1 DEF Inv, QueuedIsWaiting, Queued
  <2>3. task' = task /\ pending' = pending /\ running' = running
    BY <1>9 DEF Migrate, repVars
  <2> QED
    BY <1>0, <2>1, <2>2, <2>3 DEF HeldInv
<1>10. CASE PopAndPost
  <2>1. PICK e \in queues[quota.rep] :
          /\ quota.rep \in Replica
          /\ e.req \in Request
          /\ task' = [task EXCEPT ![e.req] = "posted"]
    BY <1>10, PopAndPostPops
  <2>2. task[e.req] = "queued"
    BY <2>1 DEF Inv, QueuedIsWaiting, Queued
  <2>3. primary' = primary /\ pending' = pending /\ running' = running
    BY <1>10 DEF PopAndPost, repVars
  <2> QED
    BY <1>0, <2>1, <2>2, <2>3 DEF HeldInv
<1>11. CASE \/ RebalanceAdded \/ Sweep \/ EndSweep \/ EndRebalance
            \/ Serve \/ Return \/ Tick \/ UNCHANGED vars
  <2>1. UNCHANGED <<task, primary, pending, running>>
    BY <1>11 DEF RebalanceAdded, Sweep, EndSweep, EndRebalance, Serve, Return,
                 Tick, vars, repVars
  <2> QED
    BY <1>0, <2>1 DEF HeldInv
<1> QED
  BY <1>1, <1>2, <1>3, <1>4, <1>5, <1>6, <1>7, <1>8, <1>9, <1>10, <1>11
     DEF Next, Post, Schedule

(* Each loop of schedule() sets its locals on entry and clears them on     *)
(* exit, and what is being added stays queued until it is placed.          *)
LEMMA LocalsInvStep == Inv /\ [Next]_vars => LocalsInv'
<1> SUFFICES ASSUME Inv, [Next]_vars
             PROVE  LocalsInv'
  OBVIOUS
<1>0. LocalsInv /\ TaskTypeOK
  BY DEF Inv, TypeOK
<1> USE DEF TaskTypeOK
<1>1. ASSUME NEW q \in Request, ScheduleNew(q)
      PROVE  LocalsInv'
  <2>1. adding'.req = q /\ adding' # NoRequest
    BY <1>1, AddingType DEF Inv
  <2>2. /\ phase = "idle" /\ phase' = "add"
        /\ task' = [task EXCEPT ![q] = "queued"]
        /\ UNCHANGED <<rebalance, quota>>
    BY <1>1 DEF ScheduleNew
  <2> QED
    BY <1>0, <2>1, <2>2 DEF LocalsInv
<1>2. ASSUME NEW q \in Request, Post(q)
      PROVE  LocalsInv'
  <2>1. phase = "idle" /\ UNCHANGED scheduleVars
    BY <1>2 DEF Post, Accepted, FirstContent, AnswerDone, Succeed, Fail, Abort, Becomes
  <2> QED
    BY <1>0, <2>1 DEF LocalsInv, scheduleVars
<1>3. ASSUME NEW q \in Request, OnRequestComplete(q)
      PROVE  LocalsInv'
  BY <1>0, <1>3 DEF OnRequestComplete, LocalsInv
<1>4. CASE PopAndPost
  <2>1. /\ phase = "dispatch" /\ adding = NoRequest /\ rebalance = NotRebalancing
        /\ UNCHANGED <<phase, adding, rebalance>>
    BY <1>0, <1>4 DEF PopAndPost, LocalsInv
  <2> QED
    BY <2>1 DEF LocalsInv
<1>5. CASE \/ RebalanceAdded \/ Sweep \/ EndSweep \/ AssignReplicas
           \/ Migrate \/ EndRebalance \/ Serve \/ Return \/ Tick
  BY <1>0, <1>5 DEF RebalanceAdded, Sweep, EndSweep, AssignReplicas, Migrate,
                    EndRebalance, Serve, Return, Tick, scheduleVars, LocalsInv
<1>6. CASE UNCHANGED vars
  BY <1>0, <1>6 DEF vars, scheduleVars, LocalsInv
<1> QED
  BY <1>1, <1>2, <1>3, <1>4, <1>5, <1>6 DEF Next, Schedule

(* Whoever is added is given a replica before schedule() goes on, and is   *)
(* never without one again.                                                *)
LEMMA PlacedInvStep == Inv /\ [Next]_vars => PlacedInv'
<1> SUFFICES ASSUME Inv, [Next]_vars
             PROVE  PlacedInv'
  OBVIOUS
<1>0. PlacedInv /\ LocalsInv /\ TaskTypeOK
  BY DEF Inv, TypeOK
<1> USE DEF TaskTypeOK
<1>1. ASSUME NEW q \in Request, ScheduleNew(q)
      PROVE  PlacedInv'
  <2>1. adding'.req = q /\ adding' # NoRequest
    BY <1>1, AddingType DEF Inv
  <2>2. /\ phase = "idle" /\ primary' = primary
        /\ task' = [task EXCEPT ![q] = "queued"]
    BY <1>1 DEF ScheduleNew
  <2> QED
    BY <1>0, <2>1, <2>2 DEF PlacedInv, LocalsInv
<1>2. ASSUME NEW q \in Request, Post(q) \/ OnRequestComplete(q)
      PROVE  PlacedInv'
  <2>1. /\ task[q] # "unsent"
        /\ \E s \in Status : task' = [task EXCEPT ![q] = s]
        /\ UNCHANGED <<primary, adding>>
    BY <1>2 DEF Post, Accepted, FirstContent, AnswerDone, Succeed, Fail, Abort,
                Becomes, OnRequestComplete, scheduleVars, Status, Posted
  <2> QED
    BY <1>0, <2>1 DEF PlacedInv
<1>3. CASE AssignReplicas
  <2>1. adding.req \in Request /\ adding.pair \in Replica \X Replica
    BY <1>3 DEF AssignReplicas, Inv, LocalsInv, TypeOK, ScheduleTypeOK
  <2>2. adding.pair[1] \in Replica
    BY <2>1
  <2> QED
    BY <1>0, <1>3, <2>1, <2>2 DEF AssignReplicas, PlacedInv
<1>4. CASE Migrate
  <2>1. PICK q \in Request, dst \in Replica : primary' = [primary EXCEPT ![q] = dst]
    BY <1>4, MigrateMoves
  <2>2. UNCHANGED <<task, adding>>
    BY <1>4 DEF Migrate
  <2> QED
    BY <1>0, <2>1, <2>2 DEF PlacedInv
<1>5. CASE PopAndPost
  <2>1. PICK e \in queues[quota.rep] :
          /\ quota.rep \in Replica
          /\ e.req \in Request
          /\ task' = [task EXCEPT ![e.req] = "posted"]
    BY <1>5, PopAndPostPops
  <2>2. task[e.req] = "queued"
    BY <2>1 DEF Inv, QueuedIsWaiting, Queued
  <2>3. UNCHANGED <<primary, adding>>
    BY <1>5 DEF PopAndPost
  <2> QED
    BY <1>0, <2>1, <2>2, <2>3 DEF PlacedInv
<1>6. CASE \/ RebalanceAdded \/ Sweep \/ EndSweep \/ EndRebalance
           \/ Serve \/ Return \/ Tick \/ UNCHANGED vars
  <2>1. UNCHANGED <<task, primary, adding>>
    BY <1>6 DEF RebalanceAdded, Sweep, EndSweep, EndRebalance, Serve, Return,
                Tick, vars, scheduleVars
  <2> QED
    BY <1>0, <2>1 DEF PlacedInv
<1> QED
  BY <1>1, <1>2, <1>3, <1>4, <1>5, <1>6 DEF Next, Schedule

(* The invariant is inductive.                                             *)
LEMMA InvStep == Inv /\ [Next]_vars => Inv'
<1>1. Inv /\ [Next]_vars => RepTypeOK'
  BY RepTypeStep, StepsOfReplicas DEF Inv, TypeOK
<1>2. Inv /\ [Next]_vars => QueueInv' /\ QueueTypeOK'
  BY QueueInvStep, StepsOfQueue DEF Inv, QueueInv
<1> QED
  BY <1>1, <1>2, TaskTypeStep, ScheduleTypeStep, QueuedIsWaitingStep, HeldInvStep,
     LocalsInvStep, PlacedInvStep DEF Inv, TypeOK

LEMMA Invariant == Spec => []Inv
BY InvInit, InvStep, PTL DEF Spec
-----------------------------------------------------------------------------
(* Type correctness of the dispatcher: in particular every request that is *)
(* posted has a replica to be posted to.                                   *)
THEOREM TypeCorrect == Spec => []TypeOK
BY Invariant, PTL DEF Inv

(* The dispatcher hands a request to a replica only when no other has it,  *)
(* so all that is proved of Replicas holds of it.                          *)
THEOREM UsesReplicas == Spec => RepSpec
<1>1. Init => RepInit
  BY DEF Init
<1> QED
  BY <1>1, Invariant, StepsOfReplicas, PTL DEF Spec, RepSpec

(* The dispatcher pushes only requests that do not wait, pops heads, and   *)
(* moves between different queues, so all that is proved of                *)
(* GlobalRequestQueue holds of it.                                         *)
THEOREM UsesQueues == Spec => QueueSpec
<1>1. Init => QueueInit
  BY DEF Init
<1> QED
  BY <1>1, Invariant, StepsOfQueue, PTL DEF Spec, QueueSpec

(* A request is in a queue exactly while it waits: never lost by a         *)
(* migration, never left behind by a pop.                                  *)
THEOREM QueuesHoldTheWaiting == Spec => []QueuedIsWaiting
BY Invariant, PTL DEF Inv

(* If every complete answer has content, whatever a replica holds is being *)
(* served by it: nothing is left behind by any order of answers, failures  *)
(* and aborts.                                                             *)
THEOREM NothingLeftBehind ==
  ASSUME EmptyAnswers = FALSE
  PROVE  Spec => []HeldWhileServed
<1>1. Inv => HeldWhileServed
  BY DEF Inv, HeldInv, HeldWhileServed, TypeOK, RepTypeOK
<1> QED
  BY <1>1, Invariant, PTL
-----------------------------------------------------------------------------
(* A replica needs no attention if nothing waits there, if something is in *)
(* flight whose completion calls schedule() again, or if an empty answer   *)
(* blocks it.                                                              *)
Busy == \E q \in Request : task[q] \in Posted
Attended(s) ==
  queues[s] = {} \/ Busy \/ \E q \in pending[s] : task[q] = "finished"

(* The second loop attends to one replica after the other.                 *)
WakeInv ==
  /\ phase = "dispatch" =>
       \A s \in Replica :
         s < turn => Attended(s) \/ (quota # NotPopping /\ quota.rep = s)
  /\ phase = "idle" => \A s \in Replica : Attended(s)

(* A replica that the second loop may pass over needs no attention: if it  *)
(* prefills nothing it has its whole budget, and is served unless nothing  *)
(* waits; and if it prefills something that is in flight, or an empty      *)
(* answer.                                                                 *)
LEMMA PassedOver ==
  ASSUME Inv, IdleHasFullBudget, NEW s \in Replica, ~MustServe(s)
  PROVE  Attended(s)
<1>1. CASE pending[s] = {}
  <2>1. budget[s] = SloBudget /\ SloBudget > 0
    BY <1>1, ReplicaAssumption DEF IdleHasFullBudget
  <2>2. Cardinality(pending[s]) = 0 /\ 0 < PendingThreshold
    BY <1>1, FS_EmptySet, DualMapAssumption
  <2> QED
    BY <1>1, <2>1, <2>2 DEF MustServe, MayServe, Attended
<1>2. CASE pending[s] # {}
  <2>1. PICK q \in pending[s] : TRUE
    BY <1>2
  <2>2. q \in Request
    BY <2>1 DEF Inv, TypeOK, RepTypeOK
  <2>3. task[q] \in {"prefill", "failed", "closing", "returned", "finished"}
    BY <2>1, <2>2 DEF Inv, HeldInv
  <2> QED
    BY <2>1, <2>2, <2>3 DEF Attended, Busy, Posted
<1> QED
  BY <1>1, <1>2

LEMMA WakeInvStep ==
  Inv /\ IdleHasFullBudget /\ WakeInv /\ [Next]_vars => WakeInv'
<1> SUFFICES ASSUME Inv, IdleHasFullBudget, WakeInv, [Next]_vars
             PROVE  WakeInv'
  OBVIOUS
<1>0. TaskTypeOK /\ LocalsInv
  BY DEF Inv, TypeOK
<1>1. ASSUME NEW q \in Request, ScheduleNew(q) \/ OnRequestComplete(q)
      PROVE  WakeInv'
  <2>1. phase' \notin {"dispatch", "idle"}
    BY <1>1 DEF ScheduleNew, OnRequestComplete
  <2> QED
    BY <2>1 DEF WakeInv
<1>2. ASSUME NEW q \in Request, Post(q)
      PROVE  WakeInv'
  <2>1. /\ phase' = "idle"
        /\ \E to \in Posted : task' = [task EXCEPT ![q] = to]
    BY <1>2 DEF Post, Accepted, FirstContent, AnswerDone, Succeed, Fail, Abort,
                Becomes, scheduleVars, Posted
  <2>2. Busy'
    BY <1>0, <2>1 DEF Busy, TaskTypeOK
  <2> QED
    BY <2>1, <2>2 DEF WakeInv, Attended
<1>3. CASE Serve
  <2>1. PICK r \in turn .. NumReplicas - 1 :
          /\ \A s \in turn .. r - 1 : ~MustServe(s)
          /\ quota' = [rep |-> r, budget |-> budget[r],
                       num |-> PendingThreshold - Cardinality(pending[r])]
          /\ turn' = r + 1
    BY <1>3 DEF Serve
  <2>2. /\ phase = "dispatch" /\ phase' = "dispatch" /\ quota = NotPopping
        /\ UNCHANGED <<queues, task, pending>>
    BY <1>3 DEF Serve, repVars, queueVars
  <2>3. quota'.rep = r /\ NotPopping.rep = -1 /\ turn \in Int /\ r \in Int /\ r >= 0
    BY <2>1 DEF NotPopping, Inv, TypeOK, ScheduleTypeOK
  <2>4. ASSUME NEW s \in Replica, s < turn', s # r
        PROVE  Attended(s)
    <3>1. s \in Int /\ (s < turn \/ s \in turn .. r - 1)
      BY <2>1, <2>3, <2>4 DEF Replica
    <3>2. CASE s < turn
      BY <2>2, <3>2 DEF WakeInv
    <3>3. CASE s \in turn .. r - 1
      BY <2>1, <3>3, PassedOver
    <3> QED
      BY <3>1, <3>2, <3>3
  <2>5. \A s \in Replica : Attended(s)' <=> Attended(s)
    BY <2>2 DEF Attended, Busy
  <2>6. quota' # NotPopping
    BY <2>3
  <2> QED
    BY <2>2, <2>3, <2>4, <2>5, <2>6 DEF WakeInv
<1>4. CASE PopAndPost
  <2>1. PICK q \in Request : task' = [task EXCEPT ![q] = "posted"]
    BY <1>4, PopAndPostPops
  <2>2. Busy'
    BY <1>0, <2>1 DEF Busy, TaskTypeOK, Posted
  <2> QED
    BY <2>2 DEF WakeInv, Attended
<1>5. CASE Return
  <2>1. /\ phase = "dispatch" /\ phase' = "idle" /\ quota = NotPopping
        /\ \A s \in turn .. NumReplicas - 1 : ~MustServe(s)
        /\ UNCHANGED <<queues, task, pending>>
    BY <1>5 DEF Return, repVars, queueVars
  <2>2. ASSUME NEW s \in Replica
        PROVE  Attended(s)
    <3>1. s < turn \/ s \in turn .. NumReplicas - 1
      BY ReplicasAssumption DEF Replica, Inv, TypeOK, ScheduleTypeOK
    <3> QED
      BY <2>1, <3>1, PassedOver DEF WakeInv
  <2> QED
    BY <2>1, <2>2 DEF WakeInv, Attended, Busy
<1>6. CASE EndSweep
  <2>1. phase' = "dispatch" /\ turn' = 0
    BY <1>6 DEF EndSweep
  <2> QED
    BY <2>1 DEF WakeInv, Replica
<1>7. CASE RebalanceAdded \/ AssignReplicas \/ Sweep \/ Migrate \/ EndRebalance
  <2>1. phase' \notin {"dispatch", "idle"}
    BY <1>0, <1>7 DEF RebalanceAdded, AssignReplicas, Sweep, Migrate, EndRebalance, LocalsInv
  <2> QED
    BY <2>1 DEF WakeInv
<1>8. CASE Tick \/ UNCHANGED vars
  <2>1. UNCHANGED <<queues, task, pending, phase, turn, quota>>
    BY <1>8 DEF Tick, vars, scheduleVars, repVars, queueVars
  <2> QED
    BY <2>1 DEF WakeInv, Attended, Busy
<1> QED
  BY <1>1, <1>2, <1>3, <1>4, <1>5, <1>6, <1>7, <1>8 DEF Next, Schedule

LEMMA WakeInvariant == Spec => []WakeInv
<1>1. Init => WakeInv
  BY DEF Init, QueueInit, WakeInv, Attended
<1>2. Spec => []IdleHasFullBudget
  BY UsesReplicas, IdleBudgetIsFull
<1> QED
  BY <1>1, <1>2, Invariant, WakeInvStep, PTL DEF Spec

(* If every complete answer has content, schedule() never returns leaving  *)
(* a request that no later call will look at.                              *)
THEOREM WakeupsAreNotLost ==
  ASSUME EmptyAnswers = FALSE
  PROVE  Spec => []NoLostWakeup
<1>1. Inv /\ WakeInv => NoLostWakeup
  <2> SUFFICES ASSUME Inv, WakeInv, phase = "idle",
                      NEW r \in Replica, queues[r] # {}
               PROVE  \E q \in Request : task[q] \in Posted
    BY DEF NoLostWakeup
  <2>1. \A q \in pending[r] : q \in Request /\ task[q] # "finished"
    BY DEF Inv, HeldInv, TypeOK, RepTypeOK
  <2> QED
    BY <2>1 DEF WakeInv, Attended, Busy
<1> QED
  BY <1>1, Invariant, WakeInvariant, PTL

(* And if an answer may be empty, only such an answer can leave a request  *)
(* waiting when nothing is in flight, and only at its own replica.         *)
THEOREM StarvationHasOneCause == Spec => []OnlyEmptyAnswersStarve
<1>1. WakeInv => OnlyEmptyAnswersStarve
  BY DEF WakeInv, Attended, Busy, OnlyEmptyAnswersStarve
<1> QED
  BY <1>1, WakeInvariant, PTL
-----------------------------------------------------------------------------
(* While one replica is relieved, the snapshot on which that is decided    *)
(* keeps up with the counters of all the others.                           *)
SnapshotInv ==
  rebalance # NotRebalancing =>
    \A r \in Replica \ {rebalance.src} : rebalance.waiting[r] = waitingTokens[r]
(* A migration adds the same tokens to both, and no more than it checked   *)
(* that the target has room for.                                           *)
LEMMA MigrationAdds ==
  ASSUME Inv, SnapshotInv, Migrate
  PROVE  \E dst \in Replica :
           /\ rebalance'.src = rebalance.src
           /\ \A r \in Replica \ {rebalance.src} :
                rebalance'.waiting[r] = waitingTokens'[r]
           /\ waitingTokens'[dst] + PendingTokens(dst) <= RebalanceThreshold
           /\ \A r \in Replica \ {dst} : queues'[r] \subseteq queues[r]
<1>1. PICK e \in queues[rebalance.src], dst \in Replica :
        /\ rebalance.src \in Replica
        /\ e.req \in Request
        /\ dst # rebalance.src
        /\ Fits(dst, e.req)
        /\ Move(rebalance.src, dst, e, Prefill[e.req] - Recompute(dst, e.req))
        /\ rebalance' = Moved(dst, e.req)
  BY MigrateMoves
<1> DEFINE src == rebalance.src
           waiting == rebalance.waiting
           n == Recompute(dst, e.req)
           new == EntryFor(e.req, Prefill[e.req] - n)
<1>2. /\ waitingTokens \in [Replica -> Int]
      /\ queues \in [Replica -> SUBSET Entry]
      /\ waiting \in [Replica -> Int]
      /\ \A r \in Replica \ {src} : waiting[r] = waitingTokens[r]
  BY DEF Inv, TypeOK, QueueTypeOK, ScheduleTypeOK, Migrate, SnapshotInv
<1>3. n \in Int /\ Prefill[e.req] \in Int
  BY <1>1, RecomputeRange, RequestsAssumption
<1>4. Tokens(new) = n
  <2>1. Tokens(new) = Prefill[e.req] - (Prefill[e.req] - n)
    BY DEF Tokens, EntryFor
  <2> QED
    BY <1>3, <2>1
<1>5. /\ waitingTokens' = [waitingTokens EXCEPT ![src] = @ - Tokens(e),
                                                ![dst] = @ + Tokens(new)]
      /\ queues' = [queues EXCEPT ![src] = @ \ {e}, ![dst] = @ \union {new}]
  BY <1>1 DEF Move
<1>6. /\ rebalance'.src = src
      /\ rebalance'.waiting = [waiting EXCEPT ![dst] = @ + n]
  BY <1>1 DEF Moved
<1>7. waiting[dst] + PendingTokens(dst) + n <= RebalanceThreshold
  BY <1>1 DEF Fits
<1>8. src \in Replica /\ dst \in Replica /\ src # dst
  BY <1>1
<1> HIDE DEF n, src, waiting, new
<1>9. waitingTokens'[dst] = waiting[dst] + n
  BY <1>2, <1>4, <1>5, <1>8
<1>10. \A r \in Replica \ {src} : rebalance'.waiting[r] = waitingTokens'[r]
  <2>1. ASSUME NEW r \in Replica \ {src, dst}
        PROVE  waitingTokens'[r] = waitingTokens[r] /\ rebalance'.waiting[r] = waiting[r]
    BY <1>2, <1>5, <1>6, <1>8
  <2>2. rebalance'.waiting[dst] = waiting[dst] + n
    BY <1>2, <1>6, <1>8
  <2> QED
    BY <1>2, <1>9, <2>1, <2>2
<1>11. waitingTokens'[dst] + PendingTokens(dst) <= RebalanceThreshold
  <2>1. budget[dst] \in Int
    BY <1>8 DEF Inv, TypeOK, RepTypeOK
  <2>2. PendingTokens(dst) \in Int /\ waiting[dst] \in Int /\ RebalanceThreshold \in Int
    BY <1>2, <1>8, <2>1, ReplicaAssumption, DualMapAssumption DEF PendingTokens
  <2> QED
    BY <1>3, <1>7, <1>9, <2>2
<1>12. \A r \in Replica \ {dst} : queues'[r] \subseteq queues[r]
  BY <1>2, <1>5, <1>8
<1> QED
  BY <1>6, <1>10, <1>11, <1>12 DEF src

LEMMA SnapshotInvStep == Inv /\ SnapshotInv /\ [Next]_vars => SnapshotInv'
<1> SUFFICES ASSUME Inv, SnapshotInv, [Next]_vars
             PROVE  SnapshotInv'
  OBVIOUS
<1>0. LocalsInv
  BY DEF Inv
<1>1. CASE Migrate
  <2>1. /\ rebalance # NotRebalancing
        /\ rebalance'.src = rebalance.src
        /\ \A r \in Replica \ {rebalance.src} : rebalance'.waiting[r] = waitingTokens'[r]
    BY <1>1, MigrationAdds DEF Migrate
  <2> QED
    BY <2>1 DEF SnapshotInv
<1>2. CASE RebalanceAdded \/ Sweep
  <2>1. /\ \E src, need : BeginRebalance(src, need)
        /\ waitingTokens' = waitingTokens
    BY <1>2 DEF RebalanceAdded, Sweep, queueVars
  <2>2. rebalance'.waiting = waitingTokens
    BY <2>1 DEF BeginRebalance
  <2> QED
    BY <2>1, <2>2 DEF SnapshotInv
<1>3. CASE EndRebalance
  BY <1>3 DEF EndRebalance, SnapshotInv
<1>4. CASE PopAndPost \/ \E q \in Request : ScheduleNew(q)
  <2>1. rebalance = NotRebalancing /\ rebalance' = rebalance
    BY <1>0, <1>4 DEF PopAndPost, ScheduleNew, LocalsInv
  <2> QED
    BY <2>1 DEF SnapshotInv
<1>5. ASSUME NEW q \in Request, Post(q) \/ OnRequestComplete(q)
      PROVE  SnapshotInv'
  <2>1. UNCHANGED <<rebalance, waitingTokens>>
    BY <1>5 DEF Post, Accepted, FirstContent, AnswerDone, Succeed, Fail, Abort,
                Becomes, OnRequestComplete, scheduleVars, queueVars
  <2> QED
    BY <2>1 DEF SnapshotInv
<1>6. CASE AssignReplicas \/ EndSweep \/ Serve \/ Return \/ Tick \/ UNCHANGED vars
  <2>1. UNCHANGED <<rebalance, waitingTokens>>
    BY <1>6 DEF AssignReplicas, EndSweep, Serve, Return, Tick, vars, scheduleVars, queueVars
  <2> QED
    BY <2>1 DEF SnapshotInv
<1> QED
  BY <1>1, <1>2, <1>3, <1>4, <1>5, <1>6 DEF Next, Schedule

(* However many requests a rebalancing moves, to one replica or several,   *)
(* none ends up with more real load than the threshold because of it.      *)
THEOREM MigrationsFit == Spec => MigrationRespectsThreshold
<1>1. Init => SnapshotInv
  BY DEF Init, SnapshotInv
<1>2. Inv /\ SnapshotInv /\ [Next]_vars =>
        [\A r \in Replica :
           rebalance # NotRebalancing /\ queues'[r] \ queues[r] # {}
             => waitingTokens'[r] + PendingTokens(r) <= RebalanceThreshold]_vars
  <2> SUFFICES ASSUME Inv, SnapshotInv, Next, rebalance # NotRebalancing,
                      NEW r \in Replica, ~(queues'[r] \subseteq queues[r])
               PROVE  waitingTokens'[r] + PendingTokens(r) <= RebalanceThreshold
    OBVIOUS
  <2>1. Migrate
    <3>1. phase \in {"add", "sweep"}
      BY DEF Inv, LocalsInv
    <3>2. ~PopAndPost /\ ~\E q \in Request : ScheduleNew(q)
      BY <3>1 DEF PopAndPost, ScheduleNew, Inv, LocalsInv
    <3>3. queues' # queues
      OBVIOUS
    <3>4. ~\E q \in Request : Post(q) \/ OnRequestComplete(q)
      BY <3>3 DEF Post, Accepted, FirstContent, AnswerDone, Succeed, Fail, Abort,
                  Becomes, OnRequestComplete, queueVars
    <3>5. ~(\/ RebalanceAdded \/ AssignReplicas \/ Sweep \/ EndSweep
            \/ EndRebalance \/ Serve \/ Return \/ Tick)
      BY <3>3 DEF RebalanceAdded, AssignReplicas, Sweep, EndSweep, EndRebalance,
                  Serve, Return, Tick, queueVars
    <3> QED
      BY <3>2, <3>4, <3>5 DEF Next, Schedule
  <2> QED
    BY <2>1, MigrationAdds
<1>3. Spec => []SnapshotInv
  BY <1>1, Invariant, SnapshotInvStep, PTL DEF Spec
<1> QED
  BY <1>2, <1>3, Invariant, PTL DEF Spec, MigrationRespectsThreshold
-----------------------------------------------------------------------------
(* The state of RequestService that a state of the dispatcher stands for.  *)
Waiting == {q \in Request : Queued(q)}
InFlight == {q \in Request : task[q] \in Posted}
Held == [r \in Replica |-> pending[r] \union running[r]]
Finished == {q \in Request : task[q] = "finished"}

LEMMA AbstractSteps ==
  ASSUME NEW q \in Request
  PROVE  /\ Service!Accept(q) <=>
              /\ q \notin Waiting \union InFlight \union Finished
              /\ \A p \in Request : p < q => p \in Waiting \union InFlight \union Finished
              /\ Waiting' = Waiting \union {q}
              /\ UNCHANGED <<InFlight, Held, Finished>>
         /\ Service!Post(q) <=>
              /\ q \in Waiting
              /\ Waiting' = Waiting \ {q}
              /\ InFlight' = InFlight \union {q}
              /\ UNCHANGED <<Held, Finished>>
         /\ Service!Finish(q) <=>
              /\ q \in InFlight
              /\ \A s \in Replica : q \notin Held[s]
              /\ InFlight' = InFlight \ {q}
              /\ Finished' = Finished \union {q}
              /\ UNCHANGED <<Waiting, Held>>
BY DEF Service!Accept, Service!Post, Service!Finish, Service!Seen,
       Service!Replica, Service!Request, Replica, Request,
       Waiting, InFlight, Held, Finished

LEMMA AbstractHolds ==
  ASSUME NEW q \in Request, NEW r \in Replica
  PROVE  /\ Service!Hold(r, q) <=>
              /\ q \in InFlight
              /\ \A s \in Replica : q \notin Held[s]
              /\ Held' = [Held EXCEPT ![r] = @ \union {q}]
              /\ UNCHANGED <<Waiting, InFlight, Finished>>
         /\ Service!Release(r, q) <=>
              /\ q \in InFlight
              /\ q \in Held[r]
              /\ Held' = [Held EXCEPT ![r] = @ \ {q}]
              /\ UNCHANGED <<Waiting, InFlight, Finished>>
BY DEF Service!Hold, Service!Release, Service!Replica, Replica,
       Waiting, InFlight, Held, Finished

(* With empty answers ruled out every step of the dispatcher is a step of  *)
(* RequestService or changes nothing in it.                                *)
LEMMA ServiceStep ==
  ASSUME EmptyAnswers = FALSE
  PROVE  Inv /\ [Next]_vars => [Service!ServiceNext]_(Service!serviceVars)
<1> SUFFICES ASSUME Inv, [Next]_vars
             PROVE  [Service!ServiceNext]_(Service!serviceVars)
  OBVIOUS
<1> DEFINE AbstractStep ==
      \/ \E q \in Request :
           \/ Service!Accept(q) \/ Service!Post(q) \/ Service!Finish(q)
           \/ \E r \in Replica : Service!Hold(r, q) \/ Service!Release(r, q)
      \/ UNCHANGED <<Waiting, InFlight, Held, Finished>>
<1>s. SUFFICES AbstractStep
  BY DEF Service!ServiceNext, Service!serviceVars, Service!Replica, Service!Request,
         Replica, Request, Waiting, InFlight, Held, Finished
<1>0. /\ TaskTypeOK /\ HeldInv /\ RepTypeOK /\ LocalsInv
      /\ QueuedIsWaiting /\ QueuedIsWaiting'
  BY InvStep DEF Inv, TypeOK
<1>w. /\ Waiting = {q \in Request : task[q] = "queued"}
      /\ Waiting' = {q \in Request : task'[q] = "queued"}
  BY <1>0 DEF Waiting, QueuedIsWaiting
<1> USE DEF InFlight, Finished, TaskTypeOK, Status, Posted
<1>1. ASSUME NEW q \in Request, ScheduleNew(q)
      PROVE  Service!Accept(q)
  <2>1. /\ task[q] = "unsent"
        /\ \A p \in Request : p < q => task[p] # "unsent"
        /\ task' = [task EXCEPT ![q] = "queued"]
    BY <1>1 DEF ScheduleNew
  <2>2. Held' = Held
    BY <1>1 DEF ScheduleNew, repVars, Held
  <2>3. q \notin Waiting \union InFlight \union Finished
    BY <1>w, <2>1
  <2>4. \A p \in Request : p < q => p \in Waiting \union InFlight \union Finished
    BY <1>0, <1>w, <2>1
  <2>5. /\ Waiting' = Waiting \union {q}
        /\ UNCHANGED <<InFlight, Finished>>
    BY <1>0, <1>w, <2>1
  <2> QED
    BY <2>2, <2>3, <2>4, <2>5, AbstractSteps
<1>2. CASE PopAndPost
  <2>1. PICK q \in Request :
          task[q] = "queued" /\ task' = [task EXCEPT ![q] = "posted"]
    <3>1. PICK e \in queues[quota.rep] :
            /\ quota.rep \in Replica
            /\ e.req \in Request
            /\ task' = [task EXCEPT ![e.req] = "posted"]
      BY <1>2, PopAndPostPops
    <3>2. task[e.req] = "queued"
      BY <1>0, <3>1 DEF QueuedIsWaiting, Queued
    <3> QED
      BY <3>1, <3>2
  <2>2. Held' = Held
    BY <1>2 DEF PopAndPost, repVars, Held
  <2>3. /\ q \in Waiting
        /\ Waiting' = Waiting \ {q}
        /\ InFlight' = InFlight \union {q}
        /\ Finished' = Finished
    BY <1>0, <1>w, <2>1
  <2>4. Service!Post(q)
    BY <2>2, <2>3, AbstractSteps
  <2> QED
    BY <2>4
<1>3. ASSUME NEW q \in Request, Accepted(q)
      PROVE  AbstractStep
  <2>1. /\ phase = "idle" /\ task[q] = "posted"
        /\ task' = [task EXCEPT ![q] = "prefill"]
        /\ pending' = [pending EXCEPT ![primary[q]] = @ \union {q}]
        /\ running' = running
    BY <1>3 DEF Accepted, Becomes, AddRequest
  <2>2. primary[q] \in Replica /\ Unowned(q)
    BY <2>1, PostedHasReplica
  <2>3. /\ Held' = [Held EXCEPT ![primary[q]] = @ \union {q}]
        /\ \A s \in Replica : q \notin Held[s]
    BY <1>0, <2>1, <2>2 DEF Held, Unowned, RepTypeOK
  <2>4. q \in InFlight /\ UNCHANGED <<Waiting, InFlight, Finished>>
    BY <1>0, <1>w, <2>1
  <2>5. Service!Hold(primary[q], q)
    BY <2>2, <2>3, <2>4, AbstractHolds
  <2> QED
    BY <2>2, <2>5
<1>4. ASSUME NEW q \in Request, FirstContent(q)
      PROVE  AbstractStep
  <2>1. /\ phase = "idle" /\ task[q] = "prefill"
        /\ task' = [task EXCEPT ![q] = "decode"]
        /\ CompletePrefill(primary[q], q)
    BY <1>4 DEF FirstContent, Becomes
  <2>2. primary[q] \in Replica
    BY <2>1, PostedHasReplica
  <2>3. \/ /\ q \in pending[primary[q]]
           /\ pending' = [pending EXCEPT ![primary[q]] = @ \ {q}]
           /\ running' = [running EXCEPT ![primary[q]] = @ \union {q}]
        \/ pending' = pending /\ running' = running
    BY <2>1 DEF CompletePrefill
  <2>4. \A s \in Replica : pending'[s] \union running'[s] = pending[s] \union running[s]
    BY <1>0, <2>2, <2>3 DEF RepTypeOK
  <2>5. Held' = Held
    BY <2>4 DEF Held
  <2>6. UNCHANGED <<Waiting, InFlight, Finished>>
    BY <1>0, <1>w, <2>1
  <2> QED
    BY <2>5, <2>6
<1>5. ASSUME NEW q \in Request, AnswerDone(q)
      PROVE  AbstractStep
  <2>1. /\ phase = "idle" /\ task[q] = "decode"
        /\ task' = [task EXCEPT ![q] = "closing"]
        /\ pending' = pending
        /\ running' = [running EXCEPT ![primary[q]] = @ \ {q}]
    BY <1>5 DEF AnswerDone, Becomes, CompleteDecode
  <2>2. primary[q] \in Replica
    BY <2>1, PostedHasReplica
  <2>3. \A s \in Replica : q \notin pending[s]
    BY <1>0, <2>1 DEF HeldInv
  <2>r. running \in [Replica -> SUBSET Request]
    BY <1>0 DEF RepTypeOK
  <2>h. \A s \in Replica :
          pending'[s] \union running'[s] =
            IF s = primary[q] THEN (pending[s] \union running[s]) \ {q}
                              ELSE pending[s] \union running[s]
    BY <2>1, <2>2, <2>3, <2>r
  <2>4. Held' = [Held EXCEPT ![primary[q]] = @ \ {q}]
    BY <2>2, <2>h DEF Held
  <2>5. q \in InFlight /\ UNCHANGED <<Waiting, InFlight, Finished>>
    BY <1>0, <1>w, <2>1
  <2>6. CASE q \in Held[primary[q]]
    BY <2>2, <2>4, <2>5, <2>6, AbstractHolds
  <2>7. CASE q \notin Held[primary[q]]
    <3>1. Held' = Held
      BY <2>2, <2>4, <2>7 DEF Held
    <3> QED
      BY <2>5, <3>1
  <2> QED
    BY <2>6, <2>7
<1>6. ASSUME NEW q \in Request, Abort(q)
      PROVE  AbstractStep
  <2>1. /\ phase = "idle" /\ task[q] = "failed"
        /\ task' = [task EXCEPT ![q] = "returned"]
        /\ pending' = [pending EXCEPT ![primary[q]] = @ \ {q}]
        /\ running' = [running EXCEPT ![primary[q]] = @ \ {q}]
    BY <1>6 DEF Abort, Becomes, AbortRequest
  <2>2. primary[q] \in Replica
    BY <2>1, PostedHasReplica
  <2>4. Held' = [Held EXCEPT ![primary[q]] = @ \ {q}]
    BY <1>0, <2>1, <2>2 DEF Held, RepTypeOK
  <2>5. q \in InFlight /\ UNCHANGED <<Waiting, InFlight, Finished>>
    BY <1>0, <1>w, <2>1
  <2>6. CASE q \in Held[primary[q]]
    BY <2>2, <2>4, <2>5, <2>6, AbstractHolds
  <2>7. CASE q \notin Held[primary[q]]
    <3>1. Held' = Held
      BY <2>2, <2>4, <2>7 DEF Held
    <3> QED
      BY <2>5, <3>1
  <2> QED
    BY <2>6, <2>7
<1>7. ASSUME NEW q \in Request, Succeed(q) \/ Fail(q)
      PROVE  AbstractStep
  <2>1. /\ task[q] \in Posted
        /\ \E to \in Posted : task' = [task EXCEPT ![q] = to]
    BY <1>7 DEF Succeed, Fail, Becomes
  <2>2. Held' = Held
    BY <1>7 DEF Succeed, Fail, repVars, Held
  <2>3. UNCHANGED <<Waiting, InFlight, Finished>>
    BY <1>0, <1>w, <2>1
  <2> QED
    BY <2>2, <2>3
<1>8. ASSUME NEW q \in Request, OnRequestComplete(q)
      PROVE  Service!Finish(q)
  <2>1. task[q] = "returned" /\ task' = [task EXCEPT ![q] = "finished"]
    BY <1>8 DEF OnRequestComplete
  <2>2. Held' = Held
    BY <1>8 DEF OnRequestComplete, repVars, Held
  <2>3. \A s \in Replica : q \notin Held[s]
    BY <1>0, <2>1 DEF HeldInv, Held
  <2>4. /\ q \in InFlight
        /\ InFlight' = InFlight \ {q}
        /\ Finished' = Finished \union {q}
        /\ Waiting' = Waiting
    BY <1>0, <1>w, <2>1
  <2> QED
    BY <2>2, <2>3, <2>4, AbstractSteps
<1>9. CASE \/ RebalanceAdded \/ AssignReplicas \/ Sweep \/ EndSweep \/ Migrate
           \/ EndRebalance \/ Serve \/ Return \/ Tick \/ UNCHANGED vars
  <2>1. UNCHANGED <<task, pending, running>>
    BY <1>9 DEF RebalanceAdded, AssignReplicas, Sweep, EndSweep, Migrate,
                EndRebalance, Serve, Return, Tick, vars, repVars
  <2> QED
    BY <1>w, <2>1 DEF Held
<1> HIDE DEF InFlight, Finished
<1> QED
  BY <1>1, <1>2, <1>3, <1>4, <1>5, <1>6, <1>7, <1>8, <1>9 DEF Next, Post, Schedule

(* The dispatcher implements RequestService: whatever it does with hashing,*)
(* budgets, caches and migration, a request is accepted in order, posted   *)
(* once, held by one replica at a time while its post is under way, and    *)
(* finished once, held by none.                                            *)
THEOREM Implementation ==
  ASSUME EmptyAnswers = FALSE
  PROVE  Spec => ServiceSpec
<1>1. Init => Service!ServiceInit
  BY DEF Init, RepInit, QueueInit, Queued, Posted, Service!ServiceInit,
         Service!Replica, Replica
<1> QED
  BY <1>1, Invariant, ServiceStep, PTL DEF Spec, ServiceSpec, Service!ServiceSpec
-----------------------------------------------------------------------------
(* With empty answers ruled out, no load is left anywhere once all that    *)
(* was sent is finished: no order of pushes, migrations, pops, answers and *)
(* aborts lets a counter or a budget drift.                                *)
THEOREM NoLoadIsLeft ==
  ASSUME EmptyAnswers = FALSE
  PROVE  Spec => []QuiescentIsUnloaded
<1>1. Inv /\ IdleHasFullBudget => QuiescentIsUnloaded
  <2> SUFFICES ASSUME Inv, IdleHasFullBudget, NEW r \in Replica,
                      \A q \in Request : task[q] \in {"unsent", "finished"}
               PROVE  /\ Load(r) = 0
                      /\ inputTokens[r] = 0
                      /\ queues[r] = {} /\ pending[r] = {} /\ running[r] = {}
    BY DEF QuiescentIsUnloaded
  <2>1. pending[r] = {} /\ running[r] = {}
    BY DEF Inv, HeldInv, TypeOK, RepTypeOK
  <2>2. queues[r] = {}
    <3>1. \A e \in queues[r] : e.req \in Request
      BY DEF Inv, QueueInv, QueueTypeOK, Entry
    <3>2. \A q \in Request : ~Queued(q)
      BY DEF Inv, QueuedIsWaiting
    <3> QED
      BY <3>1, <3>2 DEF Queued
  <2>3. waitingTokens[r] = 0 /\ inputTokens[r] = 0
    BY <2>2, TotalsEmpty DEF Inv, QueueInv, CountersMatchQueues
  <2>4. PendingTokens(r) = 0
    BY <2>1, ReplicaAssumption DEF IdleHasFullBudget, PendingTokens
  <2> QED
    BY <2>1, <2>2, <2>3, <2>4 DEF Load
<1>2. Spec => []IdleHasFullBudget
  BY UsesReplicas, IdleBudgetIsFull
<1> QED
  BY <1>1, <1>2, Invariant, PTL
=============================================================================

------------------------------ MODULE DualMap ------------------------------
(***************************************************************************)
(* The DualMap dispatcher: double_hash_global_scheduler.py and its utils,  *)
(* driving the replicas of Replicas and the queues of GlobalRequestQueue,  *)
(* together with the posting tasks of shared.py and open_ai.py.            *)
(*                                                                         *)
(* schedule() contains awaits but only of locks nobody holds across an     *)
(* await, so it never yields: phase, turn, adding, rebalance and quota are *)
(* its local variables between two of its steps, and nothing else moves    *)
(* while it runs (a call reads one time).  The steps of the posting tasks  *)
(* interleave freely with whole calls of schedule().                       *)
(*                                                                         *)
(* Times to first token are compared as token counts (the code multiplies  *)
(* by prefill_tpot and rounds to 4 digits, which keeps the order of        *)
(* different counts when prefill_tpot > 0.0001); waiting times are         *)
(* abstracted to which requests have waited too long.                      *)
(***************************************************************************)
EXTENDS Replicas, GlobalRequestQueue

CONSTANTS
  BalanceType,          \* how a new request's primary replica is chosen
  FirstThreshold,       \* dh_first_balance_ttft_thredhold, in tokens
  RebalanceThreshold,   \* dh_rebalance_thredhold, in tokens
  PendingThreshold,     \* dh_replica_pending_req_threshold
  EmptyAnswers,         \* can an answer be complete and have no content?
  Fallible              \* the requests whose post can fail

BalanceTypes ==
  { "dualmap", "dualmap_no_rebalance", "dualmap_least_loaded",
    "dualmap_cache_affinity", "dualmap_min_ttft" }

ASSUME DualMapAssumption ==
  /\ BalanceType \in BalanceTypes
  /\ FirstThreshold \in Nat
  /\ RebalanceThreshold \in Nat
  /\ PendingThreshold \in Nat \ {0}
  /\ EmptyAnswers \in BOOLEAN
  /\ Fallible \subseteq Request

VARIABLES
  task,          \* [Request -> how far the request has come]
  primary,       \* [Request -> _primary_replica]
  staleBelow,    \* the requests before it have waited the latency threshold
  phase,         \* which loop of schedule() is running
  turn,          \* where that loop stands
  adding,        \* the request being added and the rebalancing it asked for
  rebalance,     \* locals of rebalance_replica_global_waiting_reqs
  quota          \* locals of pop_schedulable

scheduleVars == <<phase, turn, adding, rebalance, quota>>
vars == <<repVars, queueVars, task, primary, staleBelow, scheduleVars>>

(* "posted": a task exists and the replica has not answered; "prefill":    *)
(* answered 200, no content yet; "decode": content has arrived; "closing": *)
(* [DONE] has arrived; "failed": the task has caught an exception, a bad   *)
(* status or the end of the answer before [DONE]; "returned": the task is  *)
(* over and its callback is not.                                           *)
Posted == {"posted", "prefill", "decode", "closing", "failed", "returned"}
Status == {"unsent", "queued", "finished"} \union Posted

NoRequest == [req |-> 0]
NotRebalancing == [src |-> -1]
NotPopping == [rep |-> -1]

TaskTypeOK ==
  /\ task \in [Request -> Status]
  /\ primary \in [Request -> Replica \union {-1}]
  /\ staleBelow \in 1 .. NumRequests + 1

ScheduleTypeOK ==
  /\ phase \in {"idle", "add", "sweep", "dispatch"}
  /\ turn \in 0 .. NumReplicas + 2
  /\ adding \in [req : Request, pair : Replica \X Replica, need : Int \X Int]
                  \union {NoRequest}
  /\ rebalance \in [src : Replica, need : Int, moved : Int,
                    waiting : [Replica -> Int], late : SUBSET Replica]
                     \union {NotRebalancing}
  /\ quota \in [rep : Replica, num : Int, budget : Int] \union {NotPopping}

TypeOK == RepTypeOK /\ QueueTypeOK /\ TaskTypeOK /\ ScheduleTypeOK

Init ==
  /\ RepInit
  /\ QueueInit
  /\ task = [q \in Request |-> "unsent"]
  /\ primary = [q \in Request |-> -1]
  /\ staleBelow = 1
  /\ phase = "idle" /\ turn = 0
  /\ adding = NoRequest /\ rebalance = NotRebalancing /\ quota = NotPopping
-----------------------------------------------------------------------------
Delayed(r) == \E e \in queues[r] : e.req < staleBelow

(* num_virtual_pending_tokens_list: the tokens r prefills before it        *)
(* answers q if q is queued last.                                          *)
Load(r) == waitingTokens[r] + PendingTokens(r)
Virtual(r, q) == Load(r) + Recompute(r, q)

InputTokens(r) ==
  inputTokens[r] + MapThenSumSet(LAMBDA q : Prefill[q], pending[r])
RunningBlocks(r) == MapThenSumSet(LAMBDA q : Blocks[q], running[r])

(* select_replicas_based_on_metrics: of q's two replicas the one with the  *)
(* smaller metric first, then the one decoding fewer blocks; the seeded    *)
(* sample that breaks a full tie keeps the order.                          *)
Select(q, metric) ==
  LET a == First(q)
      b == Second(q)
  IN  IF \/ metric[b] < metric[a]
         \/ metric[b] = metric[a] /\ RunningBlocks(b) < RunningBlocks(a)
        THEN <<b, a>> ELSE <<a, b>>

(* <<primary, second>>, per balance type.  The largest cache hit is the    *)
(* least to recompute.  dualmap keeps to the cache until the replica that  *)
(* has it is overloaded.                                                   *)
Chosen(q) ==
  LET recompute == [r \in Replica |-> Recompute(r, q)]
      ttft == [r \in Replica |-> Virtual(r, q)]
      affine == Select(q, recompute)
  IN  CASE BalanceType = "dualmap_least_loaded" ->
             Select(q, [r \in Replica |-> InputTokens(r)])
        [] BalanceType = "dualmap_cache_affinity" -> affine
        [] BalanceType = "dualmap_min_ttft" -> Select(q, ttft)
        [] OTHER -> IF ttft[affine[1]] > FirstThreshold
                      THEN Select(q, ttft) ELSE affine
-----------------------------------------------------------------------------
(* schedule(q) for a new request q, up to the first loop of                *)
(* add_request_to_best_global_queue: choose, push, and ask for rebalancing *)
(* if both replicas are overloaded.  q's tokens count at the primary only. *)
ScheduleNew(q) ==
  /\ phase = "idle"
  /\ task[q] = "unsent"
  /\ \A p \in Request : p < q => task[p] # "unsent"
  /\ LET pair == Chosen(q)
         need == << Virtual(pair[1], q) - RebalanceThreshold,
                    Load(pair[2]) + (IF pair[2] = pair[1]
                                       THEN Recompute(pair[2], q) ELSE 0)
                      - RebalanceThreshold >>
         overloaded == \A i \in 1 .. 2 : need[i] > 0 \/ Delayed(pair[i])
     IN  /\ Push(pair[1], q, Prefill[q] - Recompute(pair[1], q))
         /\ adding' = [req |-> q, pair |-> pair, need |-> need]
         /\ turn' = IF overloaded THEN 0 ELSE 2
  /\ task' = [task EXCEPT ![q] = "queued"]
  /\ phase' = "add"
  /\ UNCHANGED <<repVars, primary, staleBelow, rebalance, quota>>

(* The start of rebalance_replica_global_waiting_reqs: it returns at once  *)
(* unless there is something to move, and takes the snapshot on which the  *)
(* migrations below are decided.                                           *)
CanRebalance(src) == BalanceType = "dualmap" /\ Cardinality(queues[src]) > 1

BeginRebalance(src, need) ==
  /\ CanRebalance(src)
  /\ rebalance' = [src |-> src, need |-> need, moved |-> 0,
                   waiting |-> waitingTokens, late |-> {r \in Replica : Delayed(r)}]

(* Primary first, then second.                                             *)
RebalanceAdded ==
  /\ phase = "add" /\ rebalance = NotRebalancing
  /\ \E i \in turn + 1 .. 2 :
       /\ \A j \in turn + 1 .. i - 1 : ~CanRebalance(adding.pair[j])
       /\ BeginRebalance(adding.pair[i], adding.need[i])
       /\ turn' = i
  /\ UNCHANGED <<repVars, queueVars, task, primary, staleBelow, phase, adding, quota>>

(* The end of add_request_to_best_global_queue.  The rebalancing above may *)
(* have moved the request; what was chosen for it is written all the same. *)
AssignReplicas ==
  /\ phase = "add" /\ rebalance = NotRebalancing
  /\ \A j \in turn + 1 .. 2 : ~CanRebalance(adding.pair[j])
  /\ primary' = [primary EXCEPT ![adding.req] = adding.pair[1]]
  /\ adding' = NoRequest
  /\ phase' = "sweep" /\ turn' = 0
  /\ UNCHANGED <<repVars, queueVars, task, staleBelow, rebalance, quota>>

(* First loop of get_schedulable_waiting_req_list, on to the next replica  *)
(* that is overloaded and has something to move.                           *)
Hotspot(r) ==
  /\ Load(r) > RebalanceThreshold \/ Delayed(r)
  /\ CanRebalance(r)

Sweep ==
  /\ phase = "sweep" /\ rebalance = NotRebalancing
  /\ \E r \in turn .. NumReplicas - 1 :
       /\ \A s \in turn .. r - 1 : ~Hotspot(s)
       /\ Hotspot(r)
       /\ BeginRebalance(r, Load(r) - RebalanceThreshold)
       /\ turn' = r + 1
  /\ UNCHANGED <<repVars, queueVars, task, primary, staleBelow, phase, adding, quota>>

EndSweep ==
  /\ phase = "sweep" /\ rebalance = NotRebalancing
  /\ \A s \in turn .. NumReplicas - 1 : ~Hotspot(s)
  /\ phase' = "dispatch" /\ turn' = 0
  /\ UNCHANGED <<repVars, queueVars, task, primary, staleBelow, adding, rebalance, quota>>
-----------------------------------------------------------------------------
(* Would q fit at r, by the snapshot?  Pending tokens do not change while  *)
(* schedule() runs, so the current ones are those of the snapshot.         *)
Fits(r, q) ==
  /\ rebalance.waiting[r] + PendingTokens(r) + Recompute(r, q) <= RebalanceThreshold
  /\ r \notin rebalance.late

(* q's other replica, or if q does not fit there a neighbour: the replica  *)
(* after the source, or if that is one of the two the one after the other. *)
OtherReplica(q) == IF rebalance.src = First(q) THEN Second(q) ELSE First(q)

Neighbour(q) ==
  LET after == (rebalance.src + 1) % NumReplicas
  IN  IF after \in {rebalance.src, OtherReplica(q)}
        THEN (OtherReplica(q) + 1) % NumReplicas ELSE after

MigrationTargets(q) ==
  IF OtherReplica(q) # rebalance.src /\ Fits(OtherReplica(q), q)
    THEN {OtherReplica(q)}
    ELSE {r \in {Neighbour(q)} : r \notin {rebalance.src, OtherReplica(q)} /\ Fits(r, q)}

(* Tokens until q is prefilled if it waits at r.                           *)
TokensUntil(r, q) ==
  PendingTokens(r) + TokensAhead(r, q, Prefill[q] - Recompute(r, q)) + Recompute(r, q)

Migrations ==
  {m \in queues[rebalance.src] \X Replica : m[2] \in MigrationTargets(m[1].req)}
Cost(m) == TokensUntil(m[2], m[1].req) - TokensUntil(rebalance.src, m[1].req)

(* Equal costs are decided by rounding and by position in the heap array:  *)
(* any of them may come first.                                             *)
Cheapest == {m \in Migrations : \A n \in Migrations : Cost(m) <= Cost(n)}
MovedEnough == rebalance.need > 0 /\ rebalance.moved >= rebalance.need

(* The locals after q has moved to dst: its tokens there, and the tokens   *)
(* it has relieved the source of.                                          *)
Moved(dst, q) ==
  [src |-> rebalance.src, need |-> rebalance.need, late |-> rebalance.late,
   moved |-> rebalance.moved + Recompute(rebalance.src, q),
   waiting |-> [rebalance.waiting EXCEPT ![dst] = @ + Recompute(dst, q)]]

(* Mutant of Migrate: the snapshot is not updated for the next turn.       *)
MigrateOnOldSnapshot ==
  /\ rebalance # NotRebalancing /\ ~MovedEnough
  /\ \E m \in Cheapest :
       /\ Cost(m) <= 0
       /\ Move(rebalance.src, m[2], m[1], Prefill[m[1].req] - Recompute(m[2], m[1].req))
       /\ rebalance' = [rebalance EXCEPT !.moved = Moved(m[2], m[1].req).moved]
       /\ primary' = [primary EXCEPT ![m[1].req] = m[2]]
  /\ UNCHANGED <<repVars, task, staleBelow, phase, turn, adding, quota>>

(* One turn of the loop that moves a request.  A cost of no tokens may     *)
(* round to less than nothing.                                             *)
Migrate ==
  /\ rebalance # NotRebalancing /\ ~MovedEnough
  /\ \E m \in Cheapest :
       LET e == m[1]
           dst == m[2]
       IN  /\ Cost(m) <= 0
           /\ Move(rebalance.src, dst, e, Prefill[e.req] - Recompute(dst, e.req))
           /\ rebalance' = Moved(dst, e.req)
           /\ primary' = [primary EXCEPT ![e.req] = dst]
  /\ UNCHANGED <<repVars, task, staleBelow, phase, turn, adding, quota>>

EndRebalance ==
  /\ rebalance # NotRebalancing
  /\ \/ MovedEnough
     \/ Migrations = {}
     \/ \E m \in Cheapest : Cost(m) >= 0
  /\ rebalance' = NotRebalancing
  /\ UNCHANGED <<repVars, queueVars, task, primary, staleBelow, phase, turn, adding, quota>>
-----------------------------------------------------------------------------
(* Second loop of get_schedulable_waiting_req_list.  A replica that is     *)
(* prefilling below the threshold (at it the code pops nothing) is served  *)
(* if its last prefill was recent: the clock may say either.               *)
MayServe(r) ==
  /\ queues[r] # {}
  /\ budget[r] > 0
  /\ Cardinality(pending[r]) < PendingThreshold

MustServe(r) == MayServe(r) /\ pending[r] = {}

(* On to the next replica that is served.                                  *)
Serve ==
  /\ phase = "dispatch" /\ quota = NotPopping
  /\ \E r \in turn .. NumReplicas - 1 :
       /\ \A s \in turn .. r - 1 : ~MustServe(s)
       /\ MayServe(r)
       /\ quota' = [rep |-> r, budget |-> budget[r],
                    num |-> PendingThreshold - Cardinality(pending[r])]
       /\ turn' = r + 1
  /\ UNCHANGED <<repVars, queueVars, task, primary, staleBelow, phase, adding, rebalance>>

(* What may still be popped after e.                                       *)
QuotaAfter(e) ==
  LET left == [rep |-> quota.rep, num |-> quota.num - 1,
               budget |-> quota.budget - Tokens(e)]
  IN  IF left.num > 0 /\ left.budget > 0 /\ queues[left.rep] # {e}
        THEN left ELSE NotPopping

(* Mutant of PopAndPost: any waiting request, not the head of the heap.    *)
PopAndPostAny ==
  /\ quota # NotPopping
  /\ \E e \in queues[quota.rep] :
       /\ Pop(quota.rep, e)
       /\ quota' = QuotaAfter(e)
       /\ task' = [task EXCEPT ![e.req] = "posted"]
  /\ UNCHANGED <<repVars, primary, staleBelow, phase, turn, adding, rebalance>>

(* One turn of pop_schedulable.  schedule() posts what was popped once all *)
(* replicas have been served; nothing reads the tasks in between, so they  *)
(* are posted here.  The task keeps primary[q], which nothing changes from *)
(* then on.                                                                *)
PopAndPost ==
  /\ quota # NotPopping
  /\ \E e \in queues[quota.rep] :
       /\ AtHead(quota.rep, e)
       /\ Pop(quota.rep, e)
       /\ quota' = QuotaAfter(e)
       /\ task' = [task EXCEPT ![e.req] = "posted"]
  /\ UNCHANGED <<repVars, primary, staleBelow, phase, turn, adding, rebalance>>

Return ==
  /\ phase = "dispatch" /\ quota = NotPopping
  /\ \A s \in turn .. NumReplicas - 1 : ~MustServe(s)
  /\ phase' = "idle" /\ turn' = 0
  /\ UNCHANGED <<repVars, queueVars, task, primary, staleBelow, adding, rebalance, quota>>

Schedule ==
  \/ RebalanceAdded \/ AssignReplicas \/ Sweep \/ EndSweep
  \/ Migrate \/ EndRebalance
  \/ Serve \/ PopAndPost \/ Return
-----------------------------------------------------------------------------
(* async_send_request, between two awaits of which other tasks may run.    *)
Becomes(q, from, to) ==
  /\ phase = "idle"
  /\ task[q] \in from
  /\ task' = [task EXCEPT ![q] = to]
  /\ UNCHANGED <<queueVars, primary, staleBelow, scheduleVars>>

(* Status 200.                                                             *)
Accepted(q) == Becomes(q, {"posted"}, "prefill") /\ AddRequest(primary[q], q)

(* The first content.                                                      *)
FirstContent(q) == Becomes(q, {"prefill"}, "decode") /\ CompletePrefill(primary[q], q)

(* [DONE].  When it is the first thing to arrive the prefill is never      *)
(* completed.                                                              *)
AnswerDone(q) ==
  /\ Becomes(q, IF EmptyAnswers THEN {"prefill", "decode"} ELSE {"decode"}, "closing")
  /\ CompleteDecode(primary[q], q)

(* The answer ends after [DONE].                                           *)
Succeed(q) == Becomes(q, {"closing"}, "returned") /\ UNCHANGED repVars

(* Mutant of Fail: post again instead of reporting the failure.            *)
FailRetries(q) ==
  /\ q \in Fallible
  /\ Becomes(q, {"posted", "prefill", "decode", "closing"}, "posted")
  /\ UNCHANGED repVars

(* A status other than 200, an exception, the client's timeout, or an      *)
(* answer that ends before [DONE].                                         *)
Fail(q) ==
  /\ q \in Fallible
  /\ Becomes(q, {"posted", "prefill", "decode", "closing"}, "failed")
  /\ UNCHANGED repVars

(* Mutant of Abort: the replica is not told.                               *)
AbortUntold(q) == Becomes(q, {"failed"}, "returned") /\ UNCHANGED repVars

(* The failure is reported to the replica only after the metrics may have  *)
(* been saved.                                                             *)
Abort(q) == Becomes(q, {"failed"}, "returned") /\ AbortRequest(primary[q], q)

Post(q) ==
  \/ Accepted(q) \/ FirstContent(q) \/ AnswerDone(q) \/ Succeed(q) \/ Fail(q) \/ Abort(q)

(* Mutant of OnRequestComplete: schedule(None) is not called.              *)
OnRequestCompleteSilent(q) ==
  /\ Becomes(q, {"returned"}, "finished")
  /\ UNCHANGED repVars

(* handle_task_completion and on_request_complete: the task is forgotten,  *)
(* its output queued for the router, and schedule(None) called.            *)
OnRequestComplete(q) ==
  /\ phase = "idle"
  /\ task[q] = "returned"
  /\ task' = [task EXCEPT ![q] = "finished"]
  /\ phase' = "sweep" /\ turn' = 0
  /\ UNCHANGED <<repVars, queueVars, primary, staleBelow, adding, rebalance, quota>>

(* Time passes: the oldest request that had not, has now waited longer     *)
(* than dh_rebalance_waiting_latency_thredhold.  The next request to be    *)
(* scheduled may have begun to wait at the router.                         *)
Tick ==
  /\ phase = "idle"
  /\ staleBelow <= NumRequests
  /\ \A p \in Request : p < staleBelow => task[p] # "unsent"
  /\ staleBelow' = staleBelow + 1
  /\ UNCHANGED <<repVars, queueVars, task, primary, scheduleVars>>

Next ==
  \/ \E q \in Request : ScheduleNew(q) \/ Post(q) \/ OnRequestComplete(q)
  \/ Schedule
  \/ Tick

Spec == Init /\ [][Next]_vars

(* The event loop runs whatever is ready; the generator sends its whole    *)
(* dataset; and a post ends, if only by the client's total timeout.        *)
Fairness ==
  /\ WF_vars(Schedule)
  /\ \A q \in Request :
       WF_vars(ScheduleNew(q)) /\ WF_vars(Post(q)) /\ WF_vars(OnRequestComplete(q))

FairSpec == Spec /\ Fairness
-----------------------------------------------------------------------------
(* The dispatcher works only when a request arrives or one completes, so   *)
(* when schedule() returns with requests left in a queue, something must   *)
(* still be in flight: its completion is the only call that will ever look *)
(* at the queue again (on_request_complete).  Holds when every complete    *)
(* answer has content.                                                     *)
NoLostWakeup ==
  phase = "idle" =>
    \A r \in Replica : queues[r] # {} => \E q \in Request : task[q] \in Posted

(* The same when answers may be empty: such an answer leaves its request   *)
(* in pending_requests for ever, and with it nothing less can keep a queue *)
(* waiting when nothing is in flight.                                      *)
OnlyEmptyAnswersStarve ==
  phase = "idle" /\ (\A q \in Request : task[q] \notin Posted) =>
    \A r \in Replica :
      queues[r] # {} => \E q \in pending[r] : task[q] = "finished"

(* A replica holds a request only while its post is under way, and it is   *)
(* the replica the request was posted to: no order of answers, failures    *)
(* and aborts leaves a request behind in pending_requests or               *)
(* running_requests.                                                       *)
HeldWhileServed ==
  \A r \in Replica : \A q \in pending[r] \union running[r] :
    primary[q] = r /\ task[q] \in {"prefill", "decode", "failed"}

(* Once all that was sent is finished no load is left anywhere: neither    *)
(* the budgets nor the queue counters have drifted on the way.             *)
QuiescentIsUnloaded ==
  (\A q \in Request : task[q] \in {"unsent", "finished"}) =>
    \A r \in Replica : /\ Load(r) = 0
                       /\ inputTokens[r] = 0
                       /\ queues[r] = {} /\ pending[r] = {} /\ running[r] = {}

(* A request is in a queue exactly while it is waiting, so that it is      *)
(* never posted twice and never lost.                                      *)
QueuedIsWaiting ==
  \A q \in Request : Queued(q) <=> task[q] = "queued"

(* Rebalancing relieves one replica without overloading another: what it   *)
(* moves to a replica leaves that replica's real load within the threshold *)
(* although it decides on a snapshot.                                      *)
MigrationRespectsThreshold ==
  [][\A r \in Replica :
       rebalance # NotRebalancing /\ queues'[r] \ queues[r] # {}
         => waitingTokens'[r] + PendingTokens(r) <= RebalanceThreshold]_vars

(* Whenever the queues are popped, a request waits in the queue of the     *)
(* replica it will be posted to: the pop spends that replica's budget.     *)
PostedWhereQueued ==
  phase \in {"idle", "dispatch"} =>
    \A r \in Replica : \A e \in queues[r] : primary[e.req] = r

(* Every request that is sent is finished, under the fairness above.       *)
EveryRequestFinishes == \A q \in Request : <>(task[q] = "finished")
-----------------------------------------------------------------------------
(* The dispatcher implements RequestService.                               *)
Service == INSTANCE RequestService WITH
  waiting <- {q \in Request : Queued(q)},
  posted <- {q \in Request : task[q] \in Posted},
  held <- [r \in Replica |-> pending[r] \union running[r]],
  finished <- {q \in Request : task[q] = "finished"}

ServiceSpec == Service!ServiceSpec
=============================================================================

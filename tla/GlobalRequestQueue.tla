------------------------- MODULE GlobalRequestQueue -------------------------
(***************************************************************************)
(* GlobalRequestQueue of double_hash_global_scheduler_utils.py: for each   *)
(* replica the requests that wait at the dispatcher, and two running token *)
(* counters.  A heap item (-hit, arrived_at, request) is an entry          *)
(* [req, hit]; the heap order is Before, and the array's own order, which  *)
(* nothing depends on, is left out.  hit is the cache hit estimated when   *)
(* the request was queued.                                                 *)
(***************************************************************************)
EXTENDS Workload, TokenSums, FiniteSetsExt

VARIABLES
  queues,        \* [Replica -> set of entries]
  waitingTokens, \* queues_global_actual_waiting_tokens_count
  inputTokens    \* queues_global_input_waiting_tokens_count

queueVars == <<queues, waitingTokens, inputTokens>>

Entry == {e \in [req : Request, hit : Nat] : e.hit <= Prefill[e.req]}

QueueTypeOK ==
  /\ queues \in [Replica -> SUBSET Entry]
  /\ waitingTokens \in [Replica -> Int]
  /\ inputTokens \in [Replica -> Int]

QueueInit ==
  /\ queues = [r \in Replica |-> {}]
  /\ waitingTokens = [r \in Replica |-> 0]
  /\ inputTokens = [r \in Replica |-> 0]
-----------------------------------------------------------------------------
EntryFor(q, hit) == [req |-> q, hit |-> hit]

(* _get_request_actual_prefill_tokens: what the entry leaves to prefill.   *)
Tokens(e) == Prefill[e.req] - e.hit

(* Heap order: the larger cache hit first, then the earlier arrival.       *)
Before(d, e) == d.hit > e.hit \/ (d.hit = e.hit /\ d.req < e.req)

(* e is the root of r's heap.                                              *)
AtHead(r, e) == \A d \in queues[r] : d = e \/ Before(e, d)

Queued(q) == \E r \in Replica : \E e \in queues[r] : e.req = q

(* get_num_global_actual_waiting_tokens: the tokens of the entries that    *)
(* would be served before q if q were queued at r with that hit.  When q   *)
(* is already there the count stops at whichever of its two items is met   *)
(* first.                                                                  *)
TokensAhead(r, q, hit) ==
  LET own == {e \in queues[r] : e.req = q} \union {EntryFor(q, hit)}
  IN  MapThenSumSet(Tokens,
        {e \in queues[r] : \A m \in own : Before(e, m)})
-----------------------------------------------------------------------------
(* Mutant of Push: the hit is not deducted from what is waiting.           *)
PushWholePrompt(r, q, hit) ==
  /\ queues' = [queues EXCEPT ![r] = @ \union {EntryFor(q, hit)}]
  /\ waitingTokens' = [waitingTokens EXCEPT ![r] = @ + Prefill[q]]
  /\ inputTokens' = [inputTokens EXCEPT ![r] = @ + Prefill[q]]

Push(r, q, hit) ==
  /\ queues' = [queues EXCEPT ![r] = @ \union {EntryFor(q, hit)}]
  /\ waitingTokens' = [waitingTokens EXCEPT ![r] = @ + Tokens(EntryFor(q, hit))]
  /\ inputTokens' = [inputTokens EXCEPT ![r] = @ + Prefill[q]]

(* Mutant of Pop: the counters keep the tokens of what was popped.         *)
PopUncounted(r, e) ==
  /\ queues' = [queues EXCEPT ![r] = @ \ {e}]
  /\ UNCHANGED <<waitingTokens, inputTokens>>

(* One turn of the loop of pop_schedulable, which takes the head e.        *)
Pop(r, e) ==
  /\ queues' = [queues EXCEPT ![r] = @ \ {e}]
  /\ waitingTokens' = [waitingTokens EXCEPT ![r] = @ - Tokens(e)]
  /\ inputTokens' = [inputTokens EXCEPT ![r] = @ - Prefill[e.req]]

(* Mutant of Move: the entry stays at the source as well.                  *)
MoveCopies(src, dst, e, hit) ==
  /\ queues' = [queues EXCEPT ![dst] = @ \union {EntryFor(e.req, hit)}]
  /\ waitingTokens' =
       [waitingTokens EXCEPT ![dst] = @ + Tokens(EntryFor(e.req, hit))]
  /\ inputTokens' = [inputTokens EXCEPT ![dst] = @ + Prefill[e.req]]

(* del_req at the source, then push at the target with a new estimate:     *)
(* how rebalancing moves a request.  del_req takes the item out of the     *)
(* middle of the heap's array and restores the heap with heapify; a queue  *)
(* here is what heapq promises of the result.                              *)
Move(src, dst, e, hit) ==
  /\ queues' = [queues EXCEPT ![src] = @ \ {e},
                              ![dst] = @ \union {EntryFor(e.req, hit)}]
  /\ waitingTokens' =
       [waitingTokens EXCEPT ![src] = @ - Tokens(e),
                             ![dst] = @ + Tokens(EntryFor(e.req, hit))]
  /\ inputTokens' = [inputTokens EXCEPT ![src] = @ - Prefill[e.req],
                                        ![dst] = @ + Prefill[e.req]]
-----------------------------------------------------------------------------
QueueNext ==
  \/ \E r \in Replica, q \in Request : \E hit \in 0 .. Prefill[q] :
       ~Queued(q) /\ Push(r, q, hit)
  \/ \E r \in Replica : \E e \in queues[r] : AtHead(r, e) /\ Pop(r, e)
  \/ \E src, dst \in Replica : \E e \in queues[src] :
       \E hit \in 0 .. Prefill[e.req] :
         src # dst /\ Move(src, dst, e, hit)

QueueSpec == QueueInit /\ [][QueueNext]_queueVars
-----------------------------------------------------------------------------
TokensOf == [e \in Entry |-> Tokens(e)]
InputOf == [e \in Entry |-> Prefill[e.req]]

(* Both counters equal the sums over the queue they stand for, however     *)
(* requests were pushed, popped and migrated with estimates that differ    *)
(* from one queue to the next.  All load decisions read the counters; the  *)
(* recount _recount_pending_tokens is never called.                        *)
CountersMatchQueues ==
  \A r \in Replica :
    /\ Totals(queues[r], TokensOf, waitingTokens[r])
    /\ Totals(queues[r], InputOf, inputTokens[r])

(* A request waits in at most one queue, and once: del_req and the         *)
(* position count look a request up by identity and stop at the first.     *)
QueuedOnce ==
  \A r, s \in Replica : \A d \in queues[r], e \in queues[s] :
    d.req = e.req => r = s /\ d = e

(* A pop never overtakes: when a queue loses an entry and no queue gains   *)
(* one, that entry was first in (hit, arrival) order among all it shared   *)
(* the queue with.                                                         *)
PopsInOrder ==
  [][\A r \in Replica : \A e \in queues[r] \ queues'[r] :
        (\A s \in Replica : queues'[s] \subseteq queues[s])
          => \A d \in queues'[r] : Before(e, d)]_queueVars
=============================================================================

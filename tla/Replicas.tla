------------------------------ MODULE Replicas ------------------------------
(***************************************************************************)
(* The dispatcher's view of each replica (entities/replica.py): which      *)
(* requests it is prefilling and decoding, how much of its TTFT budget is  *)
(* left, and which prefixes its KV cache should hold.  Every method of     *)
(* Replica runs under Replica.lock and awaits nothing while holding it, so *)
(* each is one atomic step of the event loop.                              *)
(*                                                                         *)
(* The KV cache is abstracted to the set of prompt families it can serve.  *)
(***************************************************************************)
EXTENDS Workload, TokenSums

CONSTANTS
  SloBudget,     \* replica_slo_budget, in tokens
  Evicts         \* can a save push other families out of the cache?

ASSUME ReplicaAssumption == SloBudget \in Nat \ {0} /\ Evicts \in BOOLEAN

VARIABLES
  pending,       \* [Replica -> requests accepted whose prefill is not complete]
  running,       \* [Replica -> requests being decoded]
  budget,        \* [Replica -> current_budget]
  actual,        \* [Request -> _actual_num_prefill_tokens]
  cached         \* [Replica -> families in the prefix KV cache]

repVars == <<pending, running, budget, actual, cached>>

RepTypeOK ==
  /\ pending \in [Replica -> SUBSET Request]
  /\ running \in [Replica -> SUBSET Request]
  /\ budget \in [Replica -> Int]
  /\ actual \in [Request -> Nat]
  /\ cached \in [Replica -> SUBSET Sessions]

RepInit ==
  /\ pending = [r \in Replica |-> {}]
  /\ running = [r \in Replica |-> {}]
  /\ budget = [r \in Replica |-> SloBudget]
  /\ actual = Prefill
  /\ cached = [r \in Replica |-> {}]
-----------------------------------------------------------------------------
CachedTokens(r, q) == IF SessionOf[q] \in cached[r] THEN Shared[q] ELSE 0

(* Mutant of Recompute: the operands of the difference are swapped.        *)
RecomputeSwapped(r, q) ==
  IF CachedTokens(r, q) > 0 /\ CachedTokens(r, q) < Prefill[q]
  THEN CachedTokens(r, q) - Prefill[q]
  ELSE Prefill[q]

(* The tokens r must prefill for q.  A prompt that is cached to its last   *)
(* token counts as not cached at all.                                      *)
Recompute(r, q) ==
  IF CachedTokens(r, q) > 0 /\ CachedTokens(r, q) < Prefill[q]
  THEN Prefill[q] - CachedTokens(r, q)
  ELSE Prefill[q]

(* Tokens of r's budget that are taken.                                    *)
PendingTokens(r) ==
  IF SloBudget > budget[r] THEN SloBudget - budget[r] ELSE 0

(* Writing q's blocks into r's cache can evict the blocks of others.       *)
Save(r, q) ==
  \E kept \in (IF Evicts THEN SUBSET cached[r] ELSE {cached[r]}) :
    cached' = [cached EXCEPT ![r] = kept \union {SessionOf[q]}]
-----------------------------------------------------------------------------
(* Mutant of AddRequest: charge the tokens of the whole prompt.            *)
AddRequestUncached(r, q) ==
  /\ q \notin pending[r]
  /\ actual' = [actual EXCEPT ![q] = Recompute(r, q)]
  /\ budget' = [budget EXCEPT ![r] = @ - Prefill[q]]
  /\ pending' = [pending EXCEPT ![r] = @ \union {q}]
  /\ UNCHANGED <<running, cached>>

(* add_request: the replica has answered 200 and owns the request.         *)
AddRequest(r, q) ==
  /\ q \notin pending[r]
  /\ actual' = [actual EXCEPT ![q] = Recompute(r, q)]
  /\ budget' = [budget EXCEPT ![r] = @ - Recompute(r, q)]
  /\ pending' = [pending EXCEPT ![r] = @ \union {q}]
  /\ UNCHANGED <<running, cached>>

(* Mutant of CompletePrefill: the request is not removed from pending.     *)
CompletePrefillKeepsPending(r, q) ==
  /\ Save(r, q)
  /\ IF q \in pending[r]
       THEN /\ budget' = [budget EXCEPT ![r] = @ + actual[q]]
            /\ running' = [running EXCEPT ![r] = @ \union {q}]
       ELSE UNCHANGED <<budget, running>>
  /\ UNCHANGED <<pending, actual>>

(* complete_request_prefill: the first content of the answer has arrived.  *)
(* The blocks are saved whether or not q is still pending.                 *)
CompletePrefill(r, q) ==
  /\ Save(r, q)
  /\ IF q \in pending[r]
       THEN /\ budget' = [budget EXCEPT ![r] = @ + actual[q]]
            /\ pending' = [pending EXCEPT ![r] = @ \ {q}]
            /\ running' = [running EXCEPT ![r] = @ \union {q}]
       ELSE UNCHANGED <<budget, pending, running>>
  /\ UNCHANGED actual

(* complete_request_decode: the answer is complete.  A request that never  *)
(* left pending stays there.                                               *)
CompleteDecode(r, q) ==
  /\ running' = [running EXCEPT ![r] = @ \ {q}]
  /\ Save(r, q)
  /\ UNCHANGED <<pending, budget, actual>>

(* abort_request: the post failed, at whatever point it had reached.       *)
AbortRequest(r, q) ==
  /\ budget' = IF q \in pending[r]
                 THEN [budget EXCEPT ![r] = @ + actual[q]]
                 ELSE budget
  /\ pending' = [pending EXCEPT ![r] = @ \ {q}]
  /\ running' = [running EXCEPT ![r] = @ \ {q}]
  /\ UNCHANGED <<actual, cached>>
-----------------------------------------------------------------------------
(* The one rule the replicas rely on: a request is posted to one replica,  *)
(* so it is not handed to a second one while the first still has it.       *)
Unowned(q) == \A r \in Replica : q \notin pending[r] \union running[r]

RepNext ==
  \E r \in Replica, q \in Request :
    \/ Unowned(q) /\ AddRequest(r, q)
    \/ CompletePrefill(r, q)
    \/ CompleteDecode(r, q)
    \/ AbortRequest(r, q)

RepSpec == RepInit /\ [][RepNext]_repVars
-----------------------------------------------------------------------------
(* What add_request, complete_request_prefill and abort_request each log   *)
(* and hope to be True: the budget a replica has spent is the sum of the   *)
(* prefill tokens its pending requests were charged.                       *)
BudgetAccounting ==
  \A r \in Replica : Totals(pending[r], actual, SloBudget - budget[r])

(* A replica prefilling nothing has all of its budget: no sequence of      *)
(* completions, aborts and cache changes may leak any of it.  The          *)
(* scheduler pops for a replica only while budget is left.                 *)
IdleHasFullBudget ==
  \A r \in Replica : pending[r] = {} => budget[r] = SloBudget

(* A request is on at most one of all pending and running lists.           *)
OneOwner ==
  \A q \in Request, r, s \in Replica :
    /\ q \in pending[r] => q \notin running[s]
    /\ q \in pending[r] /\ q \in pending[s] => r = s
    /\ q \in running[r] /\ q \in running[s] => r = s
=============================================================================

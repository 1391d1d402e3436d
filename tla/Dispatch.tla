------------------------------ MODULE Dispatch ------------------------------
(***************************************************************************)
(* An experiment with one of the baseline schedulers: the generator hands  *)
(* requests to the router one at a time and posts them itself, posting     *)
(* tasks talk to the replicas of Replicas, and the worker waits until      *)
(* nothing has happened for a while (request_generator.py,                 *)
(* request_router_proxy.py, shared.py, launcher.py, the baselines'         *)
(* schedule() and _async_worker of start_up.py).  What is not awaited is   *)
(* one action; everything else interleaves.                                *)
(*                                                                         *)
(* Time is counted in ticks, as ages up to the bounds that are compared    *)
(* with them.                                                              *)
(***************************************************************************)
EXTENDS Replicas, FiniteSetsExt

CONSTANTS
  Types,         \* the values global_scheduler_type may have
  Syncs,         \* requests whose _id is a multiple of 10
  Fallible,      \* the requests whose post can fail
  EmptyAnswers,  \* can an answer be complete and have no content?
  Timeout,       \* request_active_timeout
  MaxAnswer      \* ticks in which a post ends, one way or the other

Baselines == {"round_robin", "cache_affinity", "min_ttft", "min_pending_input"}

ASSUME DispatchAssumption ==
  /\ Syncs \subseteq Request /\ Fallible \subseteq Request
  /\ EmptyAnswers \in BOOLEAN
  /\ Timeout \in Nat \ {0} /\ MaxAnswer \in Nat

VARIABLES
  type,          \* global_scheduler_type
  task,          \* [Request -> how far the request has come]
  target,        \* [Request -> the replica schedule() has answered]
  counter,       \* _request_counter of round robin
  worker,        \* _async_worker: waiting for the generator, for answers, ended
  quiet,         \* ticks since last_request_time
  age            \* [Request -> ticks since it was posted]

dispatchVars == <<type, task, target, counter, worker, quiet, age>>
vars == <<repVars, dispatchVars>>

(* "queued": in runtime_request_queue; "syncing": the router saves the     *)
(* metrics first; "chosen": the event is set and the generator has not     *)
(* resumed.  From "posted" on as in DualMap.                               *)
Asked == {"queued", "syncing", "chosen"}
Posted == {"posted", "prefill", "decode", "closing", "failed", "returned"}
Status == {"unsent", "finished"} \union Asked \union Posted
Never == -1

TypeOK ==
  /\ RepTypeOK
  /\ type \in Types
  /\ task \in [Request -> Status]
  /\ target \in [Request -> Replica \union {-1}]
  /\ counter \in 0 .. NumRequests
  /\ worker \in {"generating", "active", "ended"}
  /\ quiet \in 0 .. Timeout \union {Never}
  /\ age \in [Request -> 0 .. MaxAnswer]

Init ==
  /\ RepInit
  /\ type \in Types
  /\ task = [q \in Request |-> "unsent"]
  /\ target = [q \in Request |-> -1]
  /\ counter = 0
  /\ worker = "generating"
  /\ quiet = Never
  /\ age = [q \in Request |-> 0]
-----------------------------------------------------------------------------
GeneratorWaits == \E q \in Request : task[q] \in Asked

(* _generate_request_helper, up to the wait for the event.                 *)
Ask(q) ==
  /\ worker = "generating" /\ ~GeneratorWaits
  /\ task[q] = "unsent"
  /\ \A p \in Request : p < q => task[p] # "unsent"
  /\ task' = [task EXCEPT ![q] = "queued"]
  /\ UNCHANGED <<repVars, type, target, counter, worker, quiet, age>>

(* The router saves the metrics before it schedules some requests.  For a  *)
(* type it does not know there is no scheduler, and no router task.        *)
Sync(q) ==
  /\ type \in Baselines
  /\ task[q] = "queued" /\ q \in Syncs
  /\ task' = [task EXCEPT ![q] = "syncing"]
  /\ UNCHANGED <<repVars, type, target, counter, worker, quiet, age>>

(* The most budget left after q; a tie is decided by the seeded random.    *)
MinTtft(q) ==
  LET left == [r \in Replica |-> budget[r] - Recompute(r, q)]
  IN  {r \in Replica : \A s \in Replica : left[s] <= left[r]}

(* The first of those with the fewest input tokens pending.                *)
MinPendingInput ==
  LET input == [r \in Replica |-> MapThenSumSet(LAMBDA q : Prefill[q], pending[r])]
  IN  {r \in Replica : \A s \in Replica :
         \/ input[r] < input[s]
         \/ input[r] = input[s] /\ r <= s}

RoundRobin == counter % NumReplicas

(* The ring position of the request's shortest prefix.                     *)
CacheAffinity(q) == Hash1[q]

(* The replicas schedule(request) may answer, by global_scheduler_type.    *)
Choice(q) ==
  CASE type = "round_robin" -> {RoundRobin}
    [] type = "cache_affinity" -> {CacheAffinity(q)}
    [] type = "min_ttft" -> MinTtft(q)
    [] type = "min_pending_input" -> MinPendingInput

(* Mutant of Route: the request that made the router save is dropped.      *)
RouteDropsSynced(q) ==
  /\ type \in Baselines
  /\ task[q] = "queued"
  /\ \E r \in Choice(q) : target' = [target EXCEPT ![q] = r]
  /\ counter' = IF type = "round_robin" THEN counter + 1 ELSE counter
  /\ task' = [task EXCEPT ![q] = "chosen"]
  /\ UNCHANGED <<repVars, type, worker, quiet, age>>

(* Mutant of Route: the counter counts the requests that were not synced.  *)
RouteCountsUnsynced(q) ==
  /\ type \in Baselines
  /\ task[q] = (IF q \in Syncs THEN "syncing" ELSE "queued")
  /\ \E r \in Choice(q) : target' = [target EXCEPT ![q] = r]
  /\ counter' = IF type = "round_robin" /\ q \notin Syncs THEN counter + 1 ELSE counter
  /\ task' = [task EXCEPT ![q] = "chosen"]
  /\ UNCHANGED <<repVars, type, worker, quiet, age>>

(* The router schedules q, stores the replica and sets the event.          *)
Route(q) ==
  /\ type \in Baselines
  /\ task[q] = (IF q \in Syncs THEN "syncing" ELSE "queued")
  /\ \E r \in Choice(q) : target' = [target EXCEPT ![q] = r]
  /\ counter' = IF type = "round_robin" THEN counter + 1 ELSE counter
  /\ task' = [task EXCEPT ![q] = "chosen"]
  /\ UNCHANGED <<repVars, type, worker, quiet, age>>

(* Mutant of AddPostingRequestTask: the timeout runs from the last answer. *)
AddPostingRequestTaskUntimed(q) ==
  /\ task[q] = "chosen"
  /\ task' = [task EXCEPT ![q] = "posted"]
  /\ UNCHANGED <<repVars, type, target, counter, worker, quiet, age>>

(* The generator resumes and posts q to the replica, whatever has happened *)
(* to the replicas since it was chosen.                                    *)
AddPostingRequestTask(q) ==
  /\ task[q] = "chosen"
  /\ quiet' = 0
  /\ task' = [task EXCEPT ![q] = "posted"]
  /\ UNCHANGED <<repVars, type, target, counter, worker, age>>

(* The end of the dataset.                                                 *)
GenerationEnds ==
  /\ worker = "generating"
  /\ \A q \in Request : task[q] \notin Asked \union {"unsent"}
  /\ worker' = "active"
  /\ UNCHANGED <<repVars, type, task, target, counter, quiet, age>>
-----------------------------------------------------------------------------
(* async_send_request, between two awaits.                                 *)
Becomes(q, from, to) ==
  /\ task[q] \in from
  /\ task' = [task EXCEPT ![q] = to]
  /\ UNCHANGED <<type, target, counter, worker, quiet, age>>

Accepted(q) == Becomes(q, {"posted"}, "prefill") /\ AddRequest(target[q], q)
FirstContent(q) == Becomes(q, {"prefill"}, "decode") /\ CompletePrefill(target[q], q)

AnswerDone(q) ==
  /\ Becomes(q, IF EmptyAnswers THEN {"prefill", "decode"} ELSE {"decode"}, "closing")
  /\ CompleteDecode(target[q], q)

Succeed(q) == Becomes(q, {"closing"}, "returned") /\ UNCHANGED repVars

(* A bad status, an exception, the client's timeout, or no [DONE].         *)
Fail(q) ==
  /\ q \in Fallible
  /\ Becomes(q, {"posted", "prefill", "decode", "closing"}, "failed")
  /\ UNCHANGED repVars

(* Mutant of Abort: another replica is told.                               *)
AbortElsewhere(q) ==
  Becomes(q, {"failed"}, "returned") /\ AbortRequest((target[q] + 1) % NumReplicas, q)

Abort(q) == Becomes(q, {"failed"}, "returned") /\ AbortRequest(target[q], q)

Post(q) ==
  \/ Accepted(q) \/ FirstContent(q) \/ AnswerDone(q) \/ Succeed(q) \/ Fail(q) \/ Abort(q)

(* handle_task_completion and on_request_complete: the task is forgotten   *)
(* and the timeout starts again.  The baselines have no scheduler callback.*)
OnRequestComplete(q) ==
  /\ task[q] = "returned"
  /\ quiet' = 0
  /\ task' = [task EXCEPT ![q] = "finished"]
  /\ age' = [age EXCEPT ![q] = 0]
  /\ UNCHANGED <<repVars, type, target, counter, worker>>
-----------------------------------------------------------------------------
(* is_request_active: a run that never posted anything is active.          *)
IsRequestActive == quiet = Never \/ quiet < Timeout

(* The worker looks; once nothing was posted or completed for as long as   *)
(* the timeout it ends, and the event loop is closed with all its tasks.   *)
(* That a failed health check ends it, too, is modelled in Services        *)
(* (WorkerChecks); here the servers stay up.                               *)
WorkerLooks ==
  /\ worker = "active"
  /\ ~IsRequestActive
  /\ worker' = "ended"
  /\ UNCHANGED <<repVars, type, task, target, counter, quiet, age>>

Tick ==
  /\ \A q \in Request : task[q] \in Posted => age[q] < MaxAnswer
  /\ quiet' = IF quiet \in 0 .. Timeout - 1 THEN quiet + 1 ELSE quiet
  /\ age' = [q \in Request |-> IF task[q] \in Posted THEN age[q] + 1 ELSE age[q]]
  /\ UNCHANGED <<repVars, type, task, target, counter, worker>>

Tasks(q) ==
  \/ Ask(q) \/ Sync(q) \/ Route(q) \/ AddPostingRequestTask(q)
  \/ Post(q) \/ OnRequestComplete(q)

Next ==
  /\ worker # "ended"
  /\ \/ \E q \in Request : Tasks(q)
     \/ GenerationEnds \/ WorkerLooks \/ Tick

Spec == Init /\ [][Next]_vars

(* The event loop runs whatever is ready, and time passes.                 *)
Fairness ==
  /\ \A q \in Request : WF_vars(worker # "ended" /\ Tasks(q))
  /\ WF_vars(GenerationEnds) /\ WF_vars(WorkerLooks)
  /\ WF_vars(worker # "ended" /\ Tick)

FairSpec == Spec /\ Fairness
-----------------------------------------------------------------------------
(* Round robin spreads the requests evenly, whatever becomes of them.      *)
EvenlySpread ==
  LET sent(r) == Cardinality({q \in Request : target[q] = r})
  IN  type = "round_robin" => \A r, s \in Replica : sent(r) <= sent(s) + 1

(* The run is declared over by a timeout that starts again with each post  *)
(* and each completion, not by counting requests.  Still no answer is      *)
(* missed if every post ends sooner than the timeout after it was made.    *)
(* The defaults do not ensure that: a post may last 360000 s               *)
(* (open_ai.py:99), and the timeout is 60 s (start_up.py:88), so that      *)
(* slower answers may be lost.                                             *)
NoAnswerIsMissed ==
  MaxAnswer < Timeout /\ worker = "ended" =>
    \A q \in Request : task[q] = "finished"

(* When no request is under way no load is left on any replica, although   *)
(* each is told of a request by the task that posted it only.              *)
UnloadedAtRest ==
  (\A q \in Request : task[q] \notin Posted) =>
    \A r \in Replica : budget[r] = SloBudget /\ pending[r] = {} /\ running[r] = {}

(* The client ends, request_active_timeout (start_up.py:88) after the last *)
(* post or completion.                                                     *)
ClientEnds == <>(worker = "ended")
-----------------------------------------------------------------------------
(* The baselines implement RequestService, as DualMap does.                *)
Service == INSTANCE RequestService WITH
  waiting <- {q \in Request : task[q] \in Asked},
  posted <- {q \in Request : task[q] \in Posted},
  held <- [r \in Replica |-> pending[r] \union running[r]],
  finished <- {q \in Request : task[q] = "finished"}

ServiceSpec == Service!ServiceSpec
=============================================================================

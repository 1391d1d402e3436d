# A specification of DualMap

DualMap is a dispatcher for LLM inference instances ("replicas"). It reads requests from a
dataset, maps each to two replicas by hashing the request's prefix with two hash rings, keeps
the requests in one queue per replica on its own side, and posts them to the replicas over
HTTP as their TTFT budgets allow, moving waiting requests between queues when replicas become
hot. The repository also holds five baseline schedulers and the driver that starts servers and
runs experiments. This directory holds TLA+ modules for these, the TLC configurations that
check them on small instances, and TLAPS proofs about them for every instance. File names below
are relative to `src/dualmap/`, but for `src/start_up.py`; `utils` is
`scheduler/utils/double_hash_global_scheduler_utils.py`.

## 1. The system

An experiment runs in one asyncio event loop; code between two awaits that really suspend is
atomic. The servers and the process that starts them are processes of their own.

| Component | State | Operations | What makes it correct |
|---|---|---|---|
| Request generator (`request_generator/`) | file position, activity timeout | filters records, sends a request and waits until `schedule()` has returned for it | sends every valid record, in order; ends when the work is done |
| Lazy prefix table (`scheduler/utils/lazy_prefix_table.py`) | prefix lengths, hot-prefix counts | `lookup`, `process` | the prefix that is hashed grows where traffic is hot, and only there |
| Router (`scheduler/global_scheduler/request_router_proxy.py`) | two tasks | takes a request, calls `schedule(request)`, wakes the generator; feeds finished outputs back | one request at a time; an error does not stop it |
| DualMap scheduler (`double_hash_global_scheduler.py`, `utils`) | none between calls but the queues | `schedule(request or None)`: add, rebalance, sweep, dispatch | no waiting request is forgotten; a migration does not overload its target; a request is posted where it waited |
| Global request queue (`utils` 11-161) | per replica a heap and two token counters | push, pop_schedulable, del_req, position count | counters equal the queues; heap order; no duplicates |
| Posting tasks (`scheduler/utils/shared.py`, `client/open_ai.py`) | a task per posted request | post, 200, first content, [DONE], failure, abort, completion callback | every post ends by telling its replica and by calling `schedule(None)` |
| Replica bookkeeping (`entities/replica.py`) | pending and running lists, budget, KV cache model | add_request, complete_request_prefill, complete_request_decode, abort_request | the budget is what the pending requests were charged |
| Prefix KV cache (`cache_manager/kvcache_store/`) | blocks by chained hash, LRU order | hit count, save, evict | LRU and block table agree; no block id is lost; eviction ends and spares what is being saved |
| Metrics (`metrics/metrics_store.py`) | rows, dirty flag, CSV file | insert, update, save | no row is lost |
| Round robin, cache affinity, min TTFT, min pending input (`scheduler/global_scheduler/`) | a counter | `schedule(request)` names a replica | a request is posted once; loads return to zero; round robin is even |
| Preble (`preble_global_scheduler.py`, its `utils`, `cache_manager/global_lru_cache_preble.py`) | radix tree, allocations, sliding window | `schedule(request)`: insert, choose, count, expire, evict, move nodes; `finish_request` | tree, window and allocations agree; what is in use stays cached; a hit goes where the prefix is |
| Client (`launcher.py`, `_async_worker`) | activity timeout | builds the scheduler; waits until nothing has happened for a while | ends, and not before the answers are there |
| Service management (`src/start_up.py`) | PIDs per port, in two processes | stop, start, retry, health check, watch | an experiment runs on live servers of its own, or is skipped |
| Dataset scripts, plots | | | offline, no interacting state |

How they interact: the generator puts a request into `runtime_request_queue` and waits for an
event; the router calls `schedule(request)`, which pushes it into a queue, may rebalance, and
creates posting tasks for what it pops; each task talks to one replica and updates that
replica's bookkeeping at 200, first content, [DONE] and failure; when the task returns, its
callback calls `schedule(None)`. Those two calls are the only ones that look at the queues.
With a baseline the scheduler only answers with a replica, the router sets the event, and the
generator posts the request itself. Router, posting tasks and launcher all save the metrics.

What is hard: tasks interleave at every await; `schedule()` decides on loads that posted but
unanswered requests are not part of, and on snapshots; a failure may strike at any stage of a
post; token counters are only ever incremented and decremented; saves of one file overlap; the
radix tree splits nodes that a window, a count and an allocation refer to; servers die while
others are started or stopped. `PROJECT.json` lists each
hazard at its line.

## 2. Modules

| Module | Models | |
|---|---|---|
| `Workload` | `entities/request.py`, hash rings | constants and their assumptions; a request is its arrival number |
| `TokenSums` | | what it means that a counter is the sum over a container |
| `Replicas` | `entities/replica.py` | one action per method |
| `GlobalRequestQueue` | `utils` 11-161 | one action per operation that has a caller |
| `DualMap` | `schedule()`, `utils` 163-582, `shared.py` 88-156, `open_ai.py` | extends the two above and drives them |
| `KvCache` | `cache_manager/kvcache_store/` | by itself; `Replicas` uses an abstraction of it |
| `RequestService` | what clients may rely on | abstract specification, implemented by `DualMap` and by `Dispatch` |
| `Dispatch` | the four simple baselines, generator, router, `shared.py` 88-156, `open_ai.py`, `launcher.py`, `_async_worker` | extends `Replicas` and drives it |
| `LazyPrefixTable` | `scheduler/utils/lazy_prefix_table.py` | by itself; decides what `Workload` calls a session |
| `Generator` | `request_generator.py` 47-198 | by itself; which records are sent, where `Dispatch` has how |
| `MetricsStore` | `metrics_store.py` and its callers | by itself |
| `RadixCache` | `global_lru_cache_preble.py` | one action per method |
| `Preble` | the Preble scheduler | extends `RadixCache` and drives it |
| `Services` | `src/start_up.py` 58-740 | by itself |
| `ReplicasProofs` | | proofs about `TokenSums` and `Replicas` |
| `DualMapProofs` | | proofs about `GlobalRequestQueue` and `DualMap` |
| `PrebleProofs` | | proofs about `RadixCache` and `Preble` |
| `GeneratorProofs` | | proofs about `Generator` and `LazyPrefixTable` |
| `KvCacheProofs`, `DispatchProofs`, `MetricsStoreProofs`, `ServicesProofs` | | proofs about the module of that name |
| `MC*` | | instances for TLC |

Composition. A component's actions speak only of its own variables (`repVars`, `queueVars`), so
`DualMap` extends the components and conjoins their actions with its own. Each component also
states, as a specification of its own (`RepSpec`, `QueueSpec`, `RadixSpec`), in which orders it
expects to be used; that `DualMap`, `Dispatch` and `Preble` keep to them is checked, for the
first two also proved, and gives them the components' invariants.

### Replicas

`pending`, `running`, `budget`, `actual` are the fields of the same name (`current_budget`,
`request._actual_num_prefill_tokens`). Methods run under `Replica.lock` and await nothing under it:
each is one action. The KV cache is the set of prompt families ("sessions") it can serve; `Shared` is what a cached
family saves, and a save may evict any other families when `Evicts`. `RepNext` lets the
methods come in any order, with one rule: a request is not handed to a replica while one has it.

### GlobalRequestQueue

A heap item `(-hit, arrived_at, request)` is an entry `[req, hit]`; the order is `Before`; the
array layout is left out. `Pop` is one turn of the loop of `pop_schedulable`. `Move` is
`del_req` followed by `push`, which the only caller of `del_req` does without a break.

### DualMap

`task` says how far a request has come, from "unsent" through "queued", "posted", "prefill",
"decode", "closing" to "returned" and "finished", with "failed" for a post that will be aborted.
A call of `schedule()` is a sequence of actions, since its loops change the queues they read.
No other action runs while `phase # "idle"`: every `await` inside takes a lock that nobody
holds across a suspension, and `asyncio` does not switch tasks for a free lock.

| Code | Actions |
|---|---|
| `add_request_to_best_global_queue` | `ScheduleNew` (select, push), `RebalanceAdded`, `AssignReplicas` |
| `rebalance_replica_global_waiting_reqs` | `BeginRebalance` (snapshot), `Migrate`, `EndRebalance` |
| `get_schedulable_waiting_req_list` | `Sweep`, `EndSweep`; `Serve`, `PopAndPost` |
| `schedule` | `PopAndPost` (posting), `Return` |
| `async_send_request` | `Accepted`, `FirstContent`, `AnswerDone`, `Succeed`, `Fail`, `Abort` |
| `on_request_complete` | `OnRequestComplete` |
| the clock | `Tick` |

`Sweep` and `Serve` go straight to the next replica for which the loop body does something.

Abstractions, and why they are sound:
- *Time to first token* is a number of tokens. The code multiplies by `prefill_tpot` and rounds
  to four digits; for `prefill_tpot > 0.0001` (0.000127 by default, 0.00016 in the README) two different
  counts keep their order. In `rebalance_...` one side is rounded and the other is not, so equal
  counts may come out either way: `Migrate` and `EndRebalance` are then both possible.
- *Waiting time* is `staleBelow`: requests arrive in order, so those that have waited beyond
  `dh_rebalance_waiting_latency_thredhold` are a prefix. A call of `schedule()` reads one time.
- *`busy_prefill_interval`* is a clock comparison on a replica that is prefilling: either
  outcome (`MayServe` without `MustServe`). `dh_replica_pending_req_threshold` is 1 in
  `start_up.py`, for which this branch pops nothing; the refinement run uses 2.
- `_second_replica` is written and never read, and is left out.
- The branch of `schedule()` for a popped request without a replica (line 36) is left out: `_primary_replica`
  is set before anything is popped.

### KvCache

The block table (`_cached_blocks`, `_free_block_indices`) and the LRU are two structures kept
side by side. A block is named by its chained hash, which fixes the prompt up to its end
(`ChainAssumption`); hashes do not collide and are not 0. `save_prefill` awaits nothing, so a
save is a run of actions with nothing in between: `Save` enters it, `Touch` is a block that is
cached, `Reclaim`, `Evict` (one turn of the loop of `_evict`) and `Allocate` one that is not. On an empty LRU the loop
turns for ever, and so does the action. `CacheAssumption` asks for a watermark of at least one block, that
is a cache of 100 blocks or more, which `start_exp` gives; `put` on a full LRU, which raises, is modelled and unreachable.

### RequestService

Requests are accepted in order, wait, are posted once, are held by at most one replica at a
time and only while posted, and are finished when no replica holds them. The mapping is in
`DualMap` and in `Dispatch` (`Service`): waiting is read from the queues, or from the hand-over
between generator and router; held from the replicas' lists; posted and finished from the tasks.

### Dispatch

`task` begins with the hand-over: "queued" (in `runtime_request_queue`), "syncing" (the router
saves the metrics first, for every tenth request), "chosen" (the event is set and the generator
has not resumed), and goes on as in `DualMap`. The replica is chosen in `Route` and used in
`AddPostingRequestTask`, with other tasks in between. `Choice` is `schedule()` of the scheduler that
`_init_router` has built; for a type it does not know there is none and the router task ends.
Time is a number of ticks: `quiet` since the last post or completion, `age` since each post. A
post lasts at most `MaxAnswer` ticks, which stands for `aiohttp`'s total timeout.

### LazyPrefixTable, Generator

An entry of `LRUCapBucket` at level *d* always points to *d* + 1, so a bucket is a sequence of
prefixes in LRU order. `Process` is one request's `lookup` and `process`, which await nothing.
`Generator` has the whole dataset file as a value, any of a set; a line is its number, and a record
is what the filters look at, and what makes them raise: a key that is missing or a session id that is no number, which ends
the loop (`Raises`). `Read` is one turn of the reading loop, `SendRecord` one request.

### MetricsStore

A row is absent, as inserted, or complete. `save_cache` waits twice, for a thread that opens and one
that writes the file, so a save is `SaveCache` (snapshot), `Truncate`, `Write`, `Saved` (clears
`dirty`) or `SaveFails`, for each caller that can be inside it: the router, a request that saves,
the launcher. The generator and the scheduler are what they mean to the store: requests are routed
in order, and each is inserted, answered or failed, and closed at times of its own.

### RadixCache, Preble

A tree node is named by the tokens from the root to its end; parent, children and number of tokens
follow from that, and a split is the appearance of a shorter name on an edge (`Fork`, `Common`).
The heap of an eviction is a set popped in the order of `__lt__`, which compares the counts of all
gpus from the first on. `Evict` is one turn of the loop. `Preble`'s `schedule()` holds one lock
throughout and is a run of actions with nothing between them: `Arrive` (insert, split updates),
`Route`, `Expire`, `BeginEviction`, `Evicting`, `BeginSteal`, `Steal`, `Return`. Which replica
is cheapest, or overloaded, is a measured time, so any answer is possible.

### Services

A process is a server (the shell and interpreter of one command, with the search pattern in the
command line) or the worker it forks (without); `orphans` records the workers a stop cannot know of: left behind by
their server before the list of a stop was made, or forked behind it. `pc` is where the launcher is: `ListPids`, `Terminate`,
`ForceKill`, `Verify` stop; `Spawn`, `GetPids` start one port after the other; `HealthCheck` ends
an attempt; `WorkerChecks` is the other process's look at its copy of `server_list`. Servers fork and
die at any time, `pgrep` may fail where its failure is handled. Whether a port answers `/health` within its
time makes no difference to the code, and none to the model.

## 3. What is checked

| Run | Instance | Shows |
|---|---|---|
| `dualmap` | 2 replicas, prompts 2, 9, 2, 2, three of one session, request 2 may fail | the dispatcher's invariants where a drained replica attracts migrations; counters exact; the queues used as `QueueSpec` allows, in order |
| `dualmap_refines` | 2 replicas, 3 requests that may all fail, evictions, 2 pending per replica | `DualMap` implements `RepSpec` and `RequestService`; budget accounting and one owner; every request finishes |
| `dualmap_neighbour` | 3 replicas, prompts 5, 9, 2, 3, answers may be empty | migrations beyond a request's two replicas count; the only way a queue starves |
| `kv_cache` | 6 blocks, watermark 1, 2 evicted at a time; 5 prompts, two sharing a prefix, one longer than what survives an eviction | the cache's structures agree, eviction ends, a saved prompt can be hit |
| `dispatch` | 2 replicas, 3 requests, each simple baseline, one post may fail | they implement `RequestService`; the client ends, with all its answers |
| `prefix_table` | 4 prompts that begin with each other, window 6, one entry per level | counts are those of the window; a request never shortens its own prefix, and but for evictions only a shorter prompt another's |
| `generator` | every file of up to 4 lines of 9 kinds, two of which raise while they are sent, 2 requests asked for, from line 2 on | usable records, in order, up to the end of a group; an exception costs only what is behind it; it ends |
| `metrics` | 3 requests, 2 that save and may fail; two of the four savers may raise | the file of a run whose requests were answered is complete; else what is lost was changed during a save |
| `preble` | 2 gpus, 4 requests of which the third may fail, prompts 1111, 111 and 12, room for 1 token | counts, sizes, paths, window and allocations agree through splits and evictions, which end; `Preble` uses the tree as `RadixSpec` allows |
| `services` | 2 ports, 2 attempts, 2 experiments | of the old processes only orphans survive a stop; runs have all their servers; starts end; a dead server ends its run |
| `dualmap_misposted`, `preble_hit` | 3 replicas each | the violations below |

Bounds. `NumRequests` bounds arrivals and `Fallible` the requests whose post may fail; nothing
else is cut. Four requests are the fewest for which a replica holds
one, two more wait in its queue and another replica drains, so that rebalancing migrates; three of
one session are the fewest for which a later request has a larger hit than an earlier one beside it; three
replicas are the fewest with a neighbour outside a request's two; the prompts of `dualmap_neighbour` are
such that the two migrated requests fit a target one at a time and not together. All thresholds
are 4 tokens, as `start_exp` sets the three of them to one value. In the other modules: two saving requests
besides the router's and the launcher's save are the fewest with which three saves overlap; the
three prompts of `preble` split an edge that carries a load and make inner nodes that are prompts and that are
not, so that a node is evicted below one that is in use; four requests are the fewest with two nodes to move; a second experiment and a second attempt are what meets
the leftovers of a first. The prefix table's window of 6 is filled and wraps, its levels of one entry evict
all the time; its thresholds are scaled to the window.
Deadlock is not checked where the system stops: when the dataset is served or read, the run
is over, or the requests of an instance are used up. It is checked for `Services`, whose last state says `Done`,
for the KV cache and for the prefix table, which go on for ever.

Fairness (`dualmap_refines`). `schedule()` runs on (`WF(Schedule)`); the generator sends its whole
dataset; a post ends because `aiohttp`'s total timeout ends it if nothing else does; a
completion callback runs once its task is done. Nothing is assumed of the clock. In `kv_cache` a
save that can go on does (`WF(Step)`): it is one uninterrupted piece of Python, as is the loop of an
eviction in `preble` (`WF(Evicting)`). In `dispatch` each task that can go on does, the worker looks again and again, and
time passes, while a post is at most `MaxAnswer` old. In `generator` reading goes on. In
`services` every wait of the launcher has a timeout and the worker process looks once a minute; nothing is assumed
of the servers, and `pgrep` is not assumed to fail: a run may stay active for ever.

Type invariants are part of the invariant a run checks (`TypeOK` of `DualMap`, and inside `TreeIsExact`,
`HistogramIsExact`, `MetricsInv`, `TableInv`, `GeneratorInv`); those of `Replicas`, `GlobalRequestQueue`,
`KvCache`, `Dispatch` and `Services` are proved, as are `QueuedOnce`, `PopsInOrder` and `IdleHasFullBudget`, and no run
repeats them.

Each property of a passing run has a mutant, a plausible bug in a mapped definition, under
which the run fails; the mutants stand before the definitions they change.

### Findings

`dualmap_misposted`: if both replicas of a new request are overloaded, the request is pushed and
both queues are rebalanced before `add_request_to_best_global_queue` returns. The new request
can itself be moved to a neighbour (`utils` 574-581); line 412 then overwrites
`_primary_replica` with the replica chosen before the move. The request waits in the neighbour's
queue, is popped when the neighbour has budget, and is posted to the overloaded replica. With two
replicas there is no neighbour.

`preble_hit`: `calculate_min_load_cost` returns a position in the list of candidate gpus, used as a gpu id. With
candidates {0, 2} the choice of the second is gpu 1, which holds nothing of the prefix, and the log calls it
a cache hit. With two replicas the two coincide.

Behaviours to know of, which the models show and no run is kept for:
- An answer that is complete without content leaves its request in `pending_requests` and its budget
  taken. With the default threshold of one pending request the replica is never served again, and requests may
  wait with nothing in flight. `NoLostWakeup` therefore holds, and is proved, for answers with content;
  `OnlyEmptyAnswersStarve` says that there is no other cause.
- `save_cache` clears `dirty` after its write, so rows that changed since the snapshot are marked clean. A later
  change sets the flag again, but if the request that saves fails there may be none, and the last save
  writes nothing: `RunIsRecorded` fails, which is why `AnswersAreRecorded` asks for answers. A save that raises
  between opening the file and writing it may empty what an overlapping one has just written and marks as
  saved; `OnlyRacedRowsAreLost` excepts it.
- `is_request_active` stays true while nothing was ever posted: with `NumRequests = 0` `ClientEnds` fails,
  whatever `request_active_timeout`.
- A comma-separated `--global_scheduler_type`, as documented at `start_up.py:769`, is used as one name; there is then
  no scheduler and no request is routed: with such a type in `Types` `ClientEnds` fails.
- `request_num` is compared between groups of equal timestamps, so more may be sent (`ExcessIsOfOneGroup`).
- `stop_all_vllm_services` says of itself that it stops recursively (`start_up.py:348`). What a dead server leaves
  behind is no longer anybody's child and does not match the pattern, so no stop finds it; nor is what a server
  forks behind the list of a stop on that list. `OnlyOrphansSurviveAStop` says that nothing else survives one; that
  nothing at all does is false.
- A port whose server lives and never answers `/health` is entered as started when `pgrep` finds the process
  (`start_up.py:502`), and passes every later check, which look at processes only: an experiment runs with it.
  `EveryPortIsServed` and `DeadServiceEndsRun` are about processes.
- The activity timeout (60 s, `start_up.py:88`) is far below the total timeout of a post (360000 s, `open_ai.py:99`).
  `NoAnswerIsMissed` holds, and is proved, for answers faster than the activity timeout; with nothing else posted
  or completed meanwhile a slower one is lost with the event loop.
- A request of Preble that fails is never told to `finish_request`, so the tree counts it as in use on its replica
  for good (`request_router_proxy.py:38`); `TreeIsExact` and `InUseStaysCached` count it as the code does.
- A baseline chooses a replica by loads that do not contain requests chosen and not yet accepted
  (`shared.py:120`): any choice is within what `RequestService` promises, so the models allow it and no property excludes it.

## 4. What is proved

For any number of replicas and requests, any prompts, hash positions, cache behaviour,
thresholds and balance type; any timeouts; any dataset files, and any capacities and thresholds of the prefix table;
any requests that save, and saves that fail; any number of ports, attempts and experiments. The only
assumptions are the named ones on the constants, which every run of the module evaluates, and,
where said, that complete answers have content (`EmptyAnswers = FALSE`), or that the launcher's save does not
fail (`Launcher \notin Unreliable`).

| Theorem | Establishes |
|---|---|
| `RepTypeCorrect`, `RequestsHaveOneOwner`, `BudgetIsAccounted`, `IdleBudgetIsFull` | types, `OneOwner`, `BudgetAccounting`, `IdleHasFullBudget` of `RepSpec` |
| `QueueTypeCorrect`, `CountersNeverDrift`, `NeverQueuedTwice`, `PopsFollowTheHeap` | `QueueTypeOK`, `CountersMatchQueues`, `QueuedOnce`, `PopsInOrder` of `QueueSpec` |
| `UsesReplicas`, `UsesQueues` | `Spec` implements `RepSpec` and `QueueSpec`, so all of the above holds of the dispatcher |
| `TypeCorrect`, `QueuesHoldTheWaiting`, `MigrationsFit`, `StarvationHasOneCause` | `TypeOK`, `QueuedIsWaiting`, `MigrationRespectsThreshold`, `OnlyEmptyAnswersStarve` |
| `NothingLeftBehind`, `WakeupsAreNotLost`, `NoLoadIsLeft`, `Implementation` | without empty answers: `HeldWhileServed`, `NoLostWakeup`, `QuiescentIsUnloaded`, and `Spec => ServiceSpec` |
| `LruAndTableAgree`, `IdsAreKept`, `EvictionFindsABlock` (and `TypeCorrect`) of `KvCacheProofs` | `LruMatchesTable`, `NoIdLeaks`, and that the loop of `_evict` never meets an empty LRU, from `CacheAssumption` |
| `SavedIsHit` of `KvCacheProofs` | `SavedCanBeHit` |
| `TreeStaysExact`, `InUseIsNeverEvicted`, `EvictionFreesEnough` | `TreeIsExact`, `InUseStaysCached`, `EvictsAllItNeeds` of `RadixSpec` |
| `SchedulerRefinesTree`, `SchedulerKeepsTree` | `Preble`'s `Spec` implements `RadixSpec`, so the three above hold of it |
| `HistogramStaysExact` | `HistogramIsExact` |
| `GeneratorKeepsOrder`, `GeneratorSendsEnough` | `GeneratorInv`, `SentEnough` |
| `PrefixTableInvariant`, `ShrinksForShorterPrompts` | `TableInv`, `OnlyShorterPromptsShrink` |
| `TypeCorrect`, `AnswersAreWaitedFor`, `RoundRobinIsEven`, `UsesReplicas` of `DispatchProofs` | `TypeOK`, `NoAnswerIsMissed`, `EvenlySpread`; `Spec` implements `RepSpec` |
| `NoLoadAtRest`, `Implementation` of `DispatchProofs` | without empty answers: `UnloadedAtRest`, and `Spec => ServiceSpec` |
| `MetricsCorrect`; `AnswersReachFile` | `MetricsInv`; if the launcher's save does not fail, `AnswersAreRecorded` |
| `ServicesTypeCorrect`, `PortsAreServed`, `StopsAreComplete` | `TypeOK`, `EveryPortIsServed`, `OnlyOrphansSurviveAStop` |

*Sums.* Counters are compared with sums over sets. A recursive sum would need an induction on
the set, so `TokenSums` says what a sum is by exhibiting an order in which to add the set up,
and `ReplicasProofs` shows that adding an element to the set, or removing one, changes that sum
by its value (`TotalsAdd`, `TotalsRemove`) and that only 0 is the sum of nothing. Each queue and
replica operation is then a short argument, and the budget of an idle replica follows.

*The dispatcher.* `TypeOK` and `QueuedIsWaiting` are not inductive alone: that a request is
accepted by a replica nobody else has it at, and that there is a replica to accept it, depends
on how far its post has come. `Inv` in `DualMapProofs` therefore adds `HeldInv` (which
stages a request on a replica's list can be in, and at which replica), `LocalsInv` (which loop
of `schedule()` uses which locals) and `PlacedInv` (all but the request being added have a
replica), next to the queue's own invariant `QueueInv`. `Inv` makes every step a step the
components allow (`StepsOfReplicas`, `StepsOfQueue`), which in turn preserves the components'
part of it.

*Wake-ups.* `WakeInv` says of the second loop of `schedule()` that each replica it has passed
has nothing waiting, or something is in flight, or an empty answer blocks it. The one hard step
is that a replica which may be passed over needs no attention (`PassedOver`): if it prefills
nothing then, because budgets are accounted for, it has all of its budget, so only an empty queue
excuses it; and what it prefills is, by `HeldInv`, in flight.

*Migration.* `SnapshotInv` says that while one replica is relieved the snapshot agrees with the
counters of all the others.

*KV cache.* A free block id exists when a block is allocated because the stages of a save
remember it (`StageInv`); that the LRU has room, and more blocks than are to be evicted, follows
from `Room`: the LRU's positions are in bijection with the ids that are not free, so its size
and theirs add up to the cache. `SavedCanBeHit` speaks of a save that has returned; `RecentInv` says of
every stage of one that the blocks done so far are the newest in the LRU, in the order of the prompt. An eviction
takes from the other end, and stops (`size - toEvict` stays above `Kept`) before it reaches them if
the prompt has no more than `Kept` blocks. For a longer one this is false: its first blocks are the first to go.

*The radix tree.* The code adds and subtracts lengths; in the model the tokens of a set of nodes are themselves a
set (`Tokens`), of which the sizes kept per replica are cardinalities, so that a change is a set of
elements that come or go. `RadixInv` says that a node's edges to its children begin differently, which makes
the paths of two prompts the same up to where they part; that the counts of a node are those of the requests
whose path it is on, that all of that path is cached where they run, and that the sizes are
those of what is cached. A split leaves all of this as it was because the
new inner node takes over its child's counts and the front of its tokens. `EvictsAllItNeeds` needs more of an
eviction under way: every node it could take, cached on its replica and in use there by nobody, is still on the heap
(`EvictionIsComplete`), and the root, at which the loop stops, counts more requests on each
replica than any other node (`RootIsBusiest`), so it comes off the heap last.

*The window.* `Preble` only makes calls that `RadixNext` allows because of what each step of `schedule()` has yet to
do (`ScheduleInv`). `HistogramInv` adds that allocations are kept for exactly the nodes of the tree, but for the one being
routed, and `Matches`: the load and the number of requests of a node are those of its entries in the window. The
hard step is a split, where entries of the child are renamed to the new parent, or stay, and
the two dictionaries have to follow.

*The generator.* That nothing wanted is lost needs an account of where every record is: sent, in the group, or the one
that ended it (`NoneForgotten`); that nothing is sent twice or early, the order of the three
(`GroupIsNext`, `NextIsLast`). Neither a record that raises nor anything behind it is
wanted (`NothingWantedBehind`), and while the loop runs no record read so far, but those still to be sent, has raised (`NoneRaised`).
`RestIsOfOneGroup` carries the excess: when the number is reached within a group, the rest
has its timestamp.

*The prefix table.* `PrefixInv` holds one conjunct per bucket and one for the detector (`Bucket`, `Detector`); a counter is the
number of positions of its prefix in the window, which moves when the oldest is dropped. `ShrinksForShorterPrompts`
then follows from what a step does to the levels: each but the one that is deleted keeps its prefixes, or loses one to
an eviction.

*Baselines.* `HeldInv` and `TargetInv` of `DispatchProofs` play the part of `HeldInv` and `PlacedInv`
above. `NoAnswerIsMissed` is inductive with `AnswersInv`: nothing has been quiet for longer than any post
under way is old, so a worker that has waited longer than a post can last has none left. `EvenlySpread` needs to
know where the next request goes: `Spread` says that the replicas before the counter's remainder have
one request more than the others, and `NextRemainder` how that remainder moves, which takes arithmetic
the solver does not do by itself.

*Metrics.* `FileAgrees` is inductive with `SnapshotsAgree` (a snapshot differs from the store in raced
rows only): while somebody has the file truncated nothing is said of it, and whoever writes it makes it
agree. That nothing is lost when all are answered rests on `SaverIsUnanswered`: the router saves before a
request it has not scheduled, a request before it records its answer, so whoever clears the flag has a row yet to
change, and the last answer leaves the flag set for the launcher, which then saves alone.

*Services.* `StartInv` says that while ports are being started each earlier port has an entry with its
server's PID or is a failed one, so that an attempt without failures has an entry for every port, and the health
check, which keeps only live PIDs, decides. For stops, each living worker has its server beside it or is an orphan
(`Accounted`), so the list of a stop holds every living process but orphans (`ListedIsAll`), and after the
list has been killed nothing but orphans runs; `ListsAreComplete` says so of every stage. `orphans` is a history
variable: no guard reads it.

Only model-checked: liveness (`EveryRequestFinishes`, `SavesReturn`, `ClientEnds`, `EvictionEnds`,
`GenerationEnds`, `EveryStartEnds`, `DeadServiceEndsRun`), which is out of the prover's reach, as are fairness and
what is enabled. Every safety property of a passing run is proved.

## 5. What is not modelled, and the plan

Not modelled, and why:
- the `rb_cost1` and `nb_cost1` balance types, which need a measured request rate, and with them the rate window
  and `last_ttft` of a replica;
- Preble's costs, overload detector and node depths: measured times, of which any outcome is possible (a split between
  entering the window and leaving it may also push `unshare_prefix_ratio`, which enters the costs, out of [0, 1],
  `preble_sliding_window_histogram.py:69`);
- pacing of the generator and warm-up: only the order of events matters to the models;
- hash collisions, and prefixes whose digits coincide when they are joined (`request_generator.py:93`):
  two prompts then share their replicas, which costs balance only;
- an exception out of `schedule()` or of a posting task: nothing in the modelled states raises one (one raised while
  a record is sent is modelled: it ends generation);
- the array of a queue's heap, and `heapify` after `del_req` has taken an item out of its middle: that the head is the
  least item then is the contract of `heapq`. `PopsInOrder` is about the entries and the counters that change around it;
- methods without a caller (`pop`, `peek`, `discard_expired`, `abort_posting_request_tasks`, `load_cache`,
  `evict`, `_evict_by_node`, `snapshot_counts`, the signal handler of `start_up.py`) and starting without services;
- dataset scripts and plots: offline, no state that interacts.

Prompt text, sampling options and log output are abstracted everywhere.

What could follow, in order of importance: `KvCache` as an implementation of the set-of-families cache of
`Replicas`; a safety argument for termination, that is a measure that each step of an eviction, a save
and a generator reading its file makes smaller; the request-rate balance types.

------------------------------- MODULE Preble -------------------------------
(***************************************************************************)
(* The Preble baseline (preble_global_scheduler.py and its utils): a       *)
(* request whose prompt is mostly a known prefix goes to a replica that    *)
(* prefix is allocated to, any other goes where the load is least; nodes   *)
(* are later moved from a heavily loaded replica to a light one.           *)
(* schedule() runs under one lock and awaits nothing: its loops are        *)
(* actions here, and while step is not "idle" nothing else happens.        *)
(*                                                                         *)
(* Costs are times computed from medians of measured token times; any      *)
(* replica may have the least.  The counters that only the unused          *)
(* current_prefill_decode_load_cost_per_gpu reads, and the sums behind     *)
(* unshare_prefix_ratio, only feed costs and are left out.                 *)
(***************************************************************************)
EXTENDS RadixCache

CONSTANTS
  StealAfter,    \* requests before nodes are moved: 50 for each gpu
  Fallible       \* the requests whose post may fail

ASSUME PrebleAssumption == StealAfter \in Nat /\ Fallible \subseteq Request

VARIABLES
  alloc,         \* gpu_allocations: [nodes it has a key for -> sets of gpus]
  window,        \* histogram.timestamps: [node, leaf] in order of time
  load,          \* histogram.histogram: tokens of the requests in the window
  num,           \* num_requests_for_node_maps
  failed,        \* users whose request has failed: finish_request ignores it
  step,          \* where schedule() is
  prompt,        \* ... with which prompt
  light,         \* light_gpu while nodes are moved
  heavies        \* gpus that have not been heavy_gpu

schedVars == <<alloc, window, load, num, failed, step, prompt, light, heavies>>
vars == <<radixVars, schedVars>>
histVars == <<window, load, num>>
stealVars == <<light, heavies>>

Step == {"idle", "route", "expire", "evict", "steal"}

TypeOK ==
  /\ DOMAIN alloc \subseteq nodes /\ \A n \in DOMAIN alloc : alloc[n] \subseteq Gpu
  /\ window \in Seq([node : nodes, leaf : nodes])
  /\ DOMAIN load = DOMAIN num /\ DOMAIN load \subseteq nodes
  /\ \A n \in DOMAIN load : load[n] \in Nat /\ num[n] \in Nat
  /\ failed \subseteq users
  /\ step \in Step /\ prompt \in Prompts \union {Root}
  /\ light \in Gpu \union {NoGpu} /\ heavies \subseteq Gpu

NoNodes == [n \in {} |-> 0]

Init ==
  /\ RadixInit
  /\ alloc = NoNodes /\ window = << >> /\ load = NoNodes /\ num = NoNodes
  /\ failed = {}
  /\ step = "idle" /\ prompt = Root
  /\ light = NoGpu /\ heavies = {}
-----------------------------------------------------------------------------
(* is_unshare_prefix_over_50_percent_for_node, in the tree with nodes N.   *)
ImportantIn(N, n) == 2 * Len(ParentIn(N, n)) < Len(n)

(* get_nearest_ancestor_node_with_low_share_prefix_ratio: the deepest      *)
(* important node of the path.                                             *)
Nearest(p) ==
  CHOOSE n \in Path(p) : /\ ImportantIn(nodes, n)
                         /\ \A m \in Path(p) : ImportantIn(nodes, m) => Len(m) <= Len(n)

(* More than half of the prompt is on the nodes above the leaf.            *)
MostlyShared(p) == 2 * Len(Parent(p)) > Len(p)

(* get_parent_gpu_allocation: of the deepest node that has one.            *)
Allocation(p) ==
  LET Held == {n \in Path(p) \intersect DOMAIN alloc : alloc[n] # {}}
  IN  IF Held = {} THEN Gpu
      ELSE alloc[CHOOSE n \in Held : \A m \in Held : Len(m) <= Len(n)]

(* calculate_min_load_cost: the position, in the list it is given, of the  *)
(* gpu with the least cost.                                                *)
MinLoadCost(selected) == 0 .. Cardinality(selected) - 1

Selected(p) ==
  IF MostlyShared(p) /\ Cardinality(Allocation(p)) = 1 THEN Allocation(p)
  ELSE MinLoadCost(IF MostlyShared(p) THEN Allocation(p) ELSE Gpu)

(* f with m in place of c.                                                 *)
Renamed(f, c, m) ==
  [n \in (DOMAIN f \ {c}) \union {m} |-> IF n = m THEN f[c] ELSE f[n]]
-----------------------------------------------------------------------------
(* Mutant of SplitUpdates: the window does not follow the histogram.       *)
SplitUpdatesHistogramOnly(p) ==
  IF p \in nodes \/ Fork(p) = {}
    THEN UNCHANGED <<alloc, histVars>>
    ELSE LET c == CHOOSE n \in Fork(p) : TRUE
             m == Common(c, p)
         IN  /\ alloc' = [n \in DOMAIN alloc \union {m} |->
                            IF n = m THEN alloc[c] ELSE alloc[n]]
             /\ IF /\ ImportantIn(nodes', m) /\ ~ImportantIn(nodes', c)
                   /\ c \in DOMAIN load
                  THEN /\ load' = Renamed(load, c, m) /\ num' = Renamed(num, c, m)
                       /\ UNCHANGED window
                  ELSE UNCHANGED histVars

(* update_gpu_allocations_with_split_nodes and                             *)
(* update_histogram_with_split_node: a node split off c gets a copy of its *)
(* allocation, and its window if it is important and c no longer is.       *)
SplitUpdates(p) ==
  IF p \in nodes \/ Fork(p) = {}
    THEN UNCHANGED <<alloc, histVars>>
    ELSE LET c == CHOOSE n \in Fork(p) : TRUE
             m == Common(c, p)
         IN  /\ alloc' = [n \in DOMAIN alloc \union {m} |->
                            IF n = m THEN alloc[c] ELSE alloc[n]]
             /\ IF /\ ImportantIn(nodes', m) /\ ~ImportantIn(nodes', c)
                   /\ c \in DOMAIN load
                  THEN /\ load' = Renamed(load, c, m) /\ num' = Renamed(num, c, m)
                       /\ window' = [i \in 1 .. Len(window) |->
                            IF window[i].node = c THEN [window[i] EXCEPT !.node = m]
                                                  ELSE window[i]]
                  ELSE UNCHANGED histVars

(* schedule() begins: the prompt enters the tree.                          *)
Arrive(p) ==
  /\ step = "idle" /\ admitted < NumRequests
  /\ Insert(p)
  /\ SplitUpdates(p)
  /\ prompt' = p /\ step' = "route"
  /\ UNCHANGED <<failed, stealVars>>

(* A replica is chosen.  The path is allocated to it and counted, and the  *)
(* request enters the window under its nearest important node.             *)
Route(g) ==
  /\ step = "route"
  /\ g \in Selected(prompt)
  /\ alloc' = [n \in DOMAIN alloc \union Path(prompt) |->
       (IF n \in DOMAIN alloc THEN alloc[n] ELSE {})
         \union (IF Extends(prompt, n) THEN {g} ELSE {})]
  /\ UpdateCacheMetadata(prompt, g)
  /\ LET n == Nearest(prompt)
         Added(f, k) == [m \in DOMAIN f \union {n} |->
           (IF m \in DOMAIN f THEN f[m] ELSE 0) + (IF m = n THEN k ELSE 0)]
     IN  /\ window' = Append(window, [node |-> n, leaf |-> prompt])
         /\ load' = Added(load, Len(prompt))
         /\ num' = Added(num, 1)
  /\ step' = "expire"
  /\ UNCHANGED <<failed, prompt, stealVars>>

(* A node whose last request leaves the window loses its allocation.       *)
Forget(n, l) ==
  IF l <= 0 THEN alloc' = [alloc EXCEPT ![n] = {}] ELSE UNCHANGED alloc

(* One turn of the loop of _remove_old_entries.  The entry just added is   *)
(* never old.                                                              *)
Expire ==
  /\ step = "expire" /\ Len(window) > 1
  /\ LET n == Head(window).node
         l == load[n] - Len(Head(window).leaf)
         Kept == IF l <= 0 THEN DOMAIN load \ {n} ELSE DOMAIN load
     IN  /\ window' = Tail(window)
         /\ load' = [m \in Kept |-> IF m = n THEN l ELSE load[m]]
         /\ num' = [m \in Kept |-> IF m = n THEN num[m] - 1 ELSE num[m]]
         /\ Forget(n, l)
  /\ UNCHANGED <<radixVars, failed, step, prompt, stealVars>>

Chosen == (CHOOSE u \in users : u.req = admitted).gpu

(* Mutant of BeginEviction: the limit is not looked at.                    *)
BeginEvictionAlways ==
  /\ step = "expire"
  /\ victim' = Chosen /\ heap' = CachedNodes(Chosen)
  /\ toEvict' = allocated[Chosen] - MaxTokens
  /\ step' = "evict"
  /\ UNCHANGED <<nodes, uncompleted, cachedOn, allocated, admitted, users>>
  /\ UNCHANGED <<alloc, histVars, failed, prompt, stealVars>>

(* handle_cache_eviction_for_gpu of the replica chosen.                    *)
BeginEviction ==
  /\ step = "expire"
  /\ IF allocated[Chosen] > MaxTokens THEN BeginEvict(Chosen) ELSE UNCHANGED radixVars
  /\ step' = "evict"
  /\ UNCHANGED <<alloc, histVars, failed, prompt, stealVars>>

Evicting ==
  /\ step = "evict" /\ (Evict \/ EndEvict)
  /\ UNCHANGED schedVars
-----------------------------------------------------------------------------
(* handle_important_node_stealing: not before there have been enough       *)
(* requests, and not for deep leaves (either outcome: depths are left out).*)
BeginSteal ==
  /\ step = "evict" /\ victim = NoGpu
  /\ admitted >= StealAfter
  /\ light' \in Gpu /\ heavies' = Gpu \ {light'}
  /\ step' = "steal"
  /\ UNCHANGED <<radixVars, alloc, histVars, failed, prompt>>

Return ==
  /\ step \in {"evict", "steal"} /\ victim = NoGpu
  /\ step' = "idle" /\ prompt' = Root
  /\ light' = NoGpu /\ heavies' = {}
  /\ UNCHANGED <<radixVars, alloc, histVars, failed>>

Stealable(heavy) ==
  {n \in DOMAIN load : heavy \in alloc[n] /\ ImportantIn(nodes, n) /\ num[n] > 1}

(* One level of handle_important_node_stealing_recursive.  One node that   *)
(* is overloaded is shared with the light replica; of several, some are    *)
(* moved there with all that is below them.                                *)
Steal(heavy) ==
  /\ step = "steal" /\ heavy \in heavies
  /\ heavies' = heavies \ {heavy}
  /\ IF Cardinality(Stealable(heavy)) = 1
       THEN \E n \in Stealable(heavy), share \in BOOLEAN :
              alloc' = IF share THEN [alloc EXCEPT ![n] = @ \union {light}] ELSE alloc
       ELSE \E S \in SUBSET Stealable(heavy) :
              alloc' = [n \in DOMAIN alloc |->
                IF \E s \in S : Extends(n, s) THEN {light} ELSE alloc[n]]
  /\ UNCHANGED <<radixVars, histVars, failed, step, prompt, light>>
-----------------------------------------------------------------------------
(* finish_request, from the router's queue of finished requests.           *)
FinishRequest(u) ==
  /\ step = "idle" /\ u \notin failed
  /\ RemoveCompleted(u)
  /\ UNCHANGED schedVars

(* ... which ignores a request that failed: it stays counted.              *)
IgnoreFailed(u) ==
  /\ step = "idle" /\ u.req \in Fallible /\ u \notin failed
  /\ failed' = failed \union {u}
  /\ UNCHANGED <<radixVars, alloc, histVars, step, prompt, stealVars>>

Schedule ==
  \/ \E p \in Prompts : Arrive(p)
  \/ \E g \in Gpu : Route(g) \/ Steal(g)
  \/ Expire \/ BeginEviction \/ Evicting \/ BeginSteal \/ Return

Next == Schedule \/ \E u \in users : FinishRequest(u) \/ IgnoreFailed(u)

(* The loop of an eviction runs on.                                        *)
Spec == Init /\ [][Next]_vars /\ WF_vars(Evicting)
-----------------------------------------------------------------------------
(* The load of the window, kept by adding what enters and subtracting what *)
(* leaves while splits move it between nodes, is that of the entries; a    *)
(* node is known exactly while it has some.                                *)
LoadMatchesWindow ==
  LET At(n) == {i \in 1 .. Len(window) : window[i].node = n}
  IN  /\ DOMAIN load = {window[i].node : i \in 1 .. Len(window)}
      /\ \A n \in DOMAIN load :
           /\ num[n] = Cardinality(At(n))
           /\ load[n] = Cardinality(UNION {{i} \X (1 .. Len(window[i].leaf)) : i \in At(n)})

(* The load of a node counts for the replicas it is allocated to.  None is *)
(* lost: a node with load has a replica, through splits, expiry and moves. *)
LoadIsSomewhere ==
  \A n \in DOMAIN load : n \in DOMAIN alloc /\ alloc[n] # {}

(* The tree and the dictionary beside it are updated at three places: the  *)
(* copy a split makes (utils:52, which would raise) finds its entry.       *)
NodesHaveAllocations == step # "route" => nodes = DOMAIN alloc \union {Root}

(* The four structures that refer to nodes - tree, allocation, window and  *)
(* its sums - follow every split, expiry and move together.                *)
HistogramIsExact ==
  TypeOK /\ LoadMatchesWindow /\ LoadIsSomewhere /\ NodesHaveAllocations

(* The log of schedule() calls a prompt with a known prefix a "cache hit"  *)
(* of the replica it chose (preble_global_scheduler.py:50): a prompt that  *)
(* is mostly known prefix goes to a replica its prefix is allocated to.    *)
HitsGoToTheirReplica ==
  [][\A g \in Gpu : Route(g) /\ MostlyShared(prompt) => g \in Allocation(prompt)]_vars

(* The scheduler uses the tree as its methods expect.                      *)
Tree == RadixSpec
=============================================================================

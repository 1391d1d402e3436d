----------------------------- MODULE RadixCache -----------------------------
(***************************************************************************)
(* The global radix tree of the Preble scheduler                           *)
(* (cache_manager/global_lru_cache_preble.py): which prefixes the replicas *)
(* ("gpus") hold, and how many unfinished requests run through each.  A    *)
(* node is named by the tokens from the root to its end (context_length is *)
(* their number); parents and children follow from that, and num_tokens is *)
(* what a node adds to its parent.  has_cached_gpu(g) is g \in cachedOn[n]:*)
(* g leaves evicted_gpus when it enters cached_gpus, and the reverse.      *)
(***************************************************************************)
EXTENDS Integers, FiniteSets, Sequences, SequencesExt, FiniteSetsExt

CONSTANTS
  NumGpus,
  NumRequests,
  Token,
  Prompts,       \* the _input_ids requests may have
  MaxTokens      \* max_tokens_for_gpu_list

Gpu == 0 .. NumGpus - 1
NoGpu == -1
Request == 1 .. NumRequests
Root == << >>

ASSUME RadixAssumption ==
  /\ NumGpus \in Nat \ {0} /\ NumRequests \in Nat /\ MaxTokens \in Nat
  /\ Prompts \subseteq Seq(Token)
  /\ Root \notin Prompts

VARIABLES
  nodes,         \* all_nodes
  uncompleted,   \* [nodes -> num_uncompleted_request_for_gpu_map]
  cachedOn,      \* [nodes -> cached_gpus]
  allocated,     \* allocated_size_for_gpus_list
  admitted,      \* requests counted so far
  users,         \* those that have not been discounted: [req, prompt, gpu]
  victim,        \* the gpu evict_with_runtime_id_without_removing runs for
  heap,          \* its heap of nodes
  toEvict        \* num_tokens_to_evict - num_evicted

radixVars == <<nodes, uncompleted, cachedOn, allocated, admitted, users, victim, heap, toEvict>>
evictVars == <<victim, heap, toEvict>>

User == [req : Request, prompt : Prompts, gpu : Gpu]

(* n is a prefix of p.                                                     *)
Extends(p, n) == IsPrefix(n, p)

Path(p) == {n \in nodes : Extends(p, n)}

RadixTypeOK ==
  /\ Root \in nodes
  /\ nodes \subseteq UNION {{SubSeq(p, 1, k) : k \in 0 .. Len(p)} : p \in Prompts \union {Root}}
  /\ uncompleted \in [nodes -> [Gpu -> Nat]]
  /\ cachedOn \in [nodes -> SUBSET Gpu]
  /\ allocated \in [Gpu -> Nat]
  /\ admitted \in 0 .. NumRequests
  /\ users \subseteq User
  /\ victim \in Gpu \union {NoGpu} /\ heap \subseteq nodes /\ toEvict \in Int

(* The root's counts start at 1, which keeps it from being evicted.        *)
RadixInit ==
  /\ nodes = {Root}
  /\ uncompleted = [n \in {Root} |-> [g \in Gpu |-> 1]]
  /\ cachedOn = [n \in {Root} |-> {}]
  /\ allocated = [g \in Gpu |-> 0]
  /\ admitted = 0 /\ users = {}
  /\ victim = NoGpu /\ heap = {} /\ toEvict = 0
-----------------------------------------------------------------------------
(* The deepest node on the way to p that is shorter than p.                *)
ParentIn(N, p) ==
  LET Ends == {k \in 0 .. Len(p) : SubSeq(p, 1, k) \in N /\ (k < Len(p) \/ p = Root)}
  IN  SubSeq(p, 1, Max(Ends))

Parent(n) == ParentIn(nodes, n)
NumTokens(n) == Len(n) - Len(Parent(n))
Children(n) == {c \in nodes \ {Root} : Parent(c) = n}

(* The sum of num_tokens over N: the tokens of a node are its positions    *)
(* behind its parent's.                                                    *)
Tokens(N) == UNION {{n} \X (Len(Parent(n)) + 1 .. Len(n)) : n \in N}
NumTokensOf(N) == Cardinality(Tokens(N))

CachedNodes(g) == {n \in nodes : g \in cachedOn[n]}

(* match: the tokens c and p have in common.                               *)
Common(c, p) ==
  LET Agree(k) == \A i \in 1 .. k : c[i] = p[i]
  IN  SubSeq(p, 1, CHOOSE k \in 0 .. Len(p) :
        /\ k <= Len(c) /\ Agree(k)
        /\ \A j \in 0 .. Len(p) : j <= Len(c) /\ Agree(j) => j <= k)

(* The child on the edge that p takes from its deepest node, if any: its   *)
(* edge starts with p's next token and does not end on the way to p.       *)
Fork(p) ==
  {c \in nodes : /\ Parent(c) = Parent(p) /\ c # Root /\ ~Extends(p, c)
                 /\ Len(Common(c, p)) > Len(Parent(p))}

(* Mutant of Grown: the new inner node starts with counts of its own.      *)
GrownForgetful(f, p, zero) ==
  [n \in nodes \union {Common(c, p) : c \in Fork(p)} \union {p} |->
     IF n \in nodes THEN f[n] ELSE zero]

(* What insert does to a field of the nodes: the node split off takes the  *)
(* value of the child it was split from, a new leaf gets a fresh one.      *)
Grown(f, p, zero) ==
  [n \in nodes \union {Common(c, p) : c \in Fork(p)} \union {p} |->
     CASE n \in nodes -> f[n]
       [] n \notin nodes /\ \E c \in Fork(p) : n = Common(c, p) ->
            f[CHOOSE c \in Fork(p) : n = Common(c, p)]
       [] OTHER -> zero]
-----------------------------------------------------------------------------
(* insert: p becomes a node; an edge that p leaves in the middle is split. *)
Insert(p) ==
  /\ uncompleted' = IF p \in nodes THEN uncompleted
                                   ELSE Grown(uncompleted, p, [g \in Gpu |-> 0])
  /\ cachedOn' = IF p \in nodes THEN cachedOn ELSE Grown(cachedOn, p, {})
  /\ nodes' = DOMAIN uncompleted'
  /\ UNCHANGED <<allocated, admitted, users, evictVars>>

(* update_cache_metadada: from the leaf to the root, count and cache.      *)
UpdateCacheMetadata(p, g) ==
  /\ uncompleted' = [n \in nodes |->
       IF Extends(p, n) THEN [uncompleted[n] EXCEPT ![g] = @ + 1] ELSE uncompleted[n]]
  /\ allocated' = [allocated EXCEPT ![g] = @ + NumTokensOf(Path(p) \ CachedNodes(g))]
  /\ cachedOn' = [n \in nodes |->
       IF Extends(p, n) THEN cachedOn[n] \union {g} ELSE cachedOn[n]]
  /\ admitted' = admitted + 1
  /\ users' = users \union {[req |-> admitted', prompt |-> p, gpu |-> g]}
  /\ UNCHANGED <<nodes, evictVars>>

(* remove_completed_input_ids: find_node, then from the leaf up to, and    *)
(* not including, the root.                                                *)
RemoveCompleted(u) ==
  /\ uncompleted' = [n \in nodes |->
       IF Extends(u.prompt, n) /\ n # Root
         THEN [uncompleted[n] EXCEPT ![u.gpu] = @ - 1]
         ELSE uncompleted[n]]
  /\ users' = users \ {u}
  /\ UNCHANGED <<nodes, cachedOn, allocated, admitted, evictVars>>
-----------------------------------------------------------------------------
(* __lt__ on lists of counts: the first gpu on which they differ decides.  *)
(* Nodes with equal counts are in the order of their last access; which    *)
(* of them comes first makes no difference here.                           *)
CountsBefore(n, m) ==
  \E g \in Gpu :
    /\ uncompleted[n][g] < uncompleted[m][g]
    /\ \A h \in Gpu : h < g => uncompleted[n][h] = uncompleted[m][h]

(* Mutant of BeginEvict: the heap starts with the leaves of the tree.      *)
BeginEvictLeaves(g) ==
  /\ victim = NoGpu
  /\ allocated[g] > MaxTokens
  /\ victim' = g
  /\ toEvict' = allocated[g] - MaxTokens
  /\ allocated' = [allocated EXCEPT ![g] = NumTokensOf(CachedNodes(g))]
  /\ heap' = {n \in CachedNodes(g) : uncompleted[n][g] = 0 /\ Children(n) = {}}
  /\ UNCHANGED <<nodes, uncompleted, cachedOn, admitted, users>>

(* handle_cache_eviction_for_gpu and collected_nodes_with_runtime_idx: the *)
(* heap gets every node of g, inner ones too, that nobody uses on g.       *)
BeginEvict(g) ==
  /\ victim = NoGpu
  /\ allocated[g] > MaxTokens
  /\ victim' = g
  /\ toEvict' = allocated[g] - MaxTokens
  /\ allocated' = [allocated EXCEPT ![g] = NumTokensOf(CachedNodes(g))]
  /\ heap' = {n \in CachedNodes(g) : uncompleted[n][g] = 0}
  /\ UNCHANGED <<nodes, uncompleted, cachedOn, admitted, users>>

(* Mutant of MustSkip: a node is evicted whoever uses it.                  *)
MustSkipNothing(n) == victim \notin cachedOn[n]

(* A popped node is passed over: used by a request, or evicted already.    *)
MustSkip(n) == uncompleted[n][victim] > 0 \/ victim \notin cachedOn[n]

(* What is pushed once n is evicted: its parent, when no sibling is left.  *)
Uncovered(n) ==
  IF \E c \in Children(Parent(n)) \ {n} : victim \in cachedOn[c] THEN {} ELSE {Parent(n)}

(* Mutant of Evict: a node that is passed over stays in the heap.          *)
EvictPeeks ==
  /\ victim # NoGpu /\ toEvict > 0
  /\ \E n \in heap \ {Root} :
       /\ \A m \in heap : ~CountsBefore(m, n)
       /\ IF MustSkip(n)
            THEN UNCHANGED <<heap, cachedOn, allocated, toEvict>>
            ELSE /\ cachedOn' = [cachedOn EXCEPT ![n] = @ \ {victim}]
                 /\ allocated' = [allocated EXCEPT ![victim] = @ - NumTokens(n)]
                 /\ toEvict' = toEvict - NumTokens(n)
                 /\ heap' = (heap \ {n}) \union Uncovered(n)
  /\ UNCHANGED <<nodes, uncompleted, admitted, users, victim>>

(* One turn of the loop of evict_with_runtime_id_without_removing.         *)
Evict ==
  /\ victim # NoGpu /\ toEvict > 0
  /\ \E n \in heap \ {Root} :
       /\ \A m \in heap : ~CountsBefore(m, n)
       /\ IF MustSkip(n)
            THEN heap' = heap \ {n} /\ UNCHANGED <<cachedOn, allocated, toEvict>>
            ELSE /\ cachedOn' = [cachedOn EXCEPT ![n] = @ \ {victim}]
                 /\ allocated' = [allocated EXCEPT ![victim] = @ - NumTokens(n)]
                 /\ toEvict' = toEvict - NumTokens(n)
                 /\ heap' = (heap \ {n}) \union Uncovered(n)
  /\ UNCHANGED <<nodes, uncompleted, admitted, users, victim>>

(* The loop ends: enough is evicted, the heap is empty, or the root is     *)
(* popped.                                                                 *)
EndEvict ==
  /\ victim # NoGpu
  /\ \/ toEvict <= 0 \/ heap = {}
     \/ Root \in heap /\ \A m \in heap : ~CountsBefore(m, Root)
  /\ victim' = NoGpu /\ heap' = {} /\ toEvict' = 0
  /\ UNCHANGED <<nodes, uncompleted, cachedOn, allocated, admitted, users>>
-----------------------------------------------------------------------------
(* How the tree may be used: a request is counted on the node its prompt   *)
(* was inserted as, and nothing else happens during an eviction.           *)
RadixNext ==
  \/ victim = NoGpu /\ \E p \in Prompts : Insert(p)
  \/ /\ victim = NoGpu /\ admitted < NumRequests
     /\ \E p \in Prompts \intersect nodes, g \in Gpu : UpdateCacheMetadata(p, g)
  \/ victim = NoGpu /\ \E u \in users : RemoveCompleted(u)
  \/ \E g \in Gpu : BeginEvict(g)
  \/ Evict
  \/ EndEvict

RadixSpec == RadixInit /\ [][RadixNext]_radixVars
-----------------------------------------------------------------------------
(* The counts are incremented and decremented along a path that splits may *)
(* have lengthened in between.  Still each is the number of requests that  *)
(* run through the node, so the assertion that none drops below 0 holds.   *)
CountsAreExact ==
  \A n \in nodes \ {Root}, g \in Gpu :
    uncompleted[n][g] = Cardinality({u \in users : u.gpu = g /\ Extends(u.prompt, n)})

(* The prompt of a request that has not finished is a node, and the whole  *)
(* path to it stays cached where it runs, whatever is evicted.             *)
InUseStaysCached ==
  \A u \in users :
    /\ u.prompt \in nodes
    /\ \A n \in nodes : Extends(u.prompt, n) => u.gpu \in cachedOn[n]

(* The size kept per gpu is that of the nodes cached there, through splits *)
(* and evictions.                                                          *)
AllocatedIsExact ==
  \A g \in Gpu : allocated[g] = NumTokensOf(CachedNodes(g))

(* The children of a node are told apart by their first token, the key of  *)
(* the dictionary they are in.                                             *)
ChildrenDiffer ==
  \A n, m \in nodes \ {Root} :
    n # m /\ Parent(n) = Parent(m) => n[Len(Parent(n)) + 1] # m[Len(Parent(n)) + 1]

(* What the tree keeps beside the prompts stays true of them, through      *)
(* splits, completions and evictions in any order.                         *)
TreeIsExact == RadixTypeOK /\ ChildrenDiffer /\ CountsAreExact /\ AllocatedIsExact

(* An eviction that ends above the limit has left nothing it could evict:  *)
(* the order of the heap never lets it meet the root too early.            *)
EvictsAllItNeeds ==
  [][EndEvict => \/ allocated[victim] <= MaxTokens
                 \/ \A n \in CachedNodes(victim) : uncompleted[n][victim] > 0]_radixVars

(* The loop ends although it pushes nodes back while it pops: an eviction  *)
(* that did not end would keep the scheduler's lock.                       *)
EvictionEnds == victim # NoGpu ~> victim = NoGpu
=============================================================================

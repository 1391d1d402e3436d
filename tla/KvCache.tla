------------------------------ MODULE KvCache ------------------------------
(***************************************************************************)
(* The dispatcher's model of a replica's prefix KV cache                   *)
(* (cache_manager/kvcache_store): which blocks it should hold and which it *)
(* will evict next.  A full block of a prompt is identified by its chained *)
(* hash, which determines the block and everything before it; a prompt is  *)
(* the sequence of these.  Hashes are taken to be free of collisions and   *)
(* never 0.  A save awaits nothing, so it runs from its first step to its  *)
(* last while nothing else happens; save and save_prefill are the same.    *)
(***************************************************************************)
EXTENDS Integers, FiniteSets, Sequences

CONSTANTS
  Block,         \* chained hashes
  Prompts,       \* the prompts as sequences of full blocks
  NumBlocks,     \* cache_capacity // (kv_cache_per_token * block_size)
  Watermark,     \* _min_watermark, 1% of the blocks rounded down
  EvictBlocks    \* num_evict_blocks, 80 in the code

BlockId == 0 .. NumBlocks - 1
Length == 0 .. NumBlocks
NoId == -1

(* A cache of less than 100 blocks would have a watermark of 0 and never   *)
(* evict; start_exp sizes it in GB, which is 146 blocks each.              *)
ASSUME CacheAssumption ==
  /\ NumBlocks \in Nat /\ Watermark \in Nat \ {0} /\ EvictBlocks \in Nat
  /\ Watermark + EvictBlocks < NumBlocks
  /\ Prompts \subseteq Seq(Block)

ASSUME ChainAssumption ==
  \A p, q \in Prompts : \A i \in 1 .. Len(p), j \in 1 .. Len(q) :
    p[i] = q[j] => i = j /\ SubSeq(p, 1, i) = SubSeq(q, 1, i)

VARIABLES
  lru,           \* dict_data of the LRU, the oldest block first
  size,          \* its size_
  ids,           \* _cached_blocks: [the blocks cached -> block ids]
  free,          \* _free_block_indices
  prompt,        \* the prompt of the last save
  next,          \* the block of it to be saved next
  stage,         \* where _save is with that block
  toEvict        \* num_evict_blocks while it evicts

cacheVars == <<lru, size, ids, free, prompt, next, stage, toEvict>>

InLru == {lru[i] : i \in 1 .. Len(lru)}
Cached == DOMAIN ids

TypeOK ==
  /\ lru \in Seq(Block) /\ size \in Length
  /\ Cached \subseteq Block /\ ids \in [Cached -> BlockId]
  /\ free \subseteq BlockId
  /\ prompt \in Prompts \union {<< >>} /\ next \in 1 .. Len(prompt) + 1
  /\ stage \in {"look", "evict", "allocate"}
  /\ toEvict \in -1 .. EvictBlocks

Init ==
  /\ lru = << >> /\ size = 0
  /\ ids = [b \in {} |-> NoId] /\ free = BlockId
  /\ prompt = << >> /\ next = 1
  /\ stage = "look" /\ toEvict = -1
-----------------------------------------------------------------------------
(* get_num_cached_blocks: the leading blocks of p that are cached.         *)
Hit(p) ==
  CHOOSE n \in 0 .. Len(p) :
    /\ \A i \in 1 .. n : p[i] \in Cached \intersect InLru
    /\ n < Len(p) => p[n + 1] \notin Cached \intersect InLru

Saving == next <= Len(prompt)

(* Positions of s but i, in order.                                         *)
Without(s, i) == [j \in 1 .. Len(s) - 1 |-> IF j < i THEN s[j] ELSE s[j + 1]]

(* Mutant of MoveToEnd: the order is that of insertion.                    *)
KeepOrder(b) == lru

MoveToEnd(b) ==
  IF b \in InLru
    THEN LET i == CHOOSE j \in 1 .. Len(lru) : lru[j] = b
         IN  Append(Without(lru, i), b)
    ELSE lru
-----------------------------------------------------------------------------
Save(p) ==
  /\ ~Saving
  /\ prompt' = p /\ next' = 1
  /\ UNCHANGED <<lru, size, ids, free, stage, toEvict>>

(* A block that is cached becomes the most recently used.                  *)
Touch ==
  /\ Saving /\ stage = "look"
  /\ prompt[next] \in Cached
  /\ lru' = MoveToEnd(prompt[next])
  /\ next' = next + 1
  /\ UNCHANGED <<size, ids, free, prompt, stage, toEvict>>

(* One that is not needs a block, and perhaps _check_and_reclaim_cache.    *)
Reclaim ==
  /\ Saving /\ stage = "look"
  /\ prompt[next] \notin Cached
  /\ lru' = MoveToEnd(prompt[next])
  /\ IF Cardinality(free) < Watermark
       THEN stage' = "evict" /\ toEvict' = EvictBlocks
       ELSE stage' = "allocate" /\ UNCHANGED toEvict
  /\ UNCHANGED <<size, ids, free, prompt, next>>

(* Mutant of Evict: the block is taken off the LRU and not freed.          *)
EvictUnfreed ==
  /\ stage = "evict"
  /\ lru # << >>
  /\ lru' = Tail(lru) /\ size' = size - 1
  /\ toEvict' = toEvict - 1
  /\ stage' = IF toEvict' < 0 THEN "allocate" ELSE "evict"
  /\ UNCHANGED <<ids, free, prompt, next>>

(* Mutant of FreeBlock: the block leaves the table, its id is not returned. *)
FreeBlockKeepsId(b) ==
  /\ ids' = [c \in Cached \ {b} |-> ids[c]]
  /\ UNCHANGED free

(* What _free_block does to the table and the free ids.                    *)
FreeBlock(b) ==
  /\ ids' = [c \in Cached \ {b} |-> ids[c]]
  /\ free' = free \union {ids[b]}

(* One turn of the loop of _evict.  On an empty LRU it turns for ever.     *)
Evict ==
  /\ stage = "evict"
  /\ IF lru = << >>
       THEN UNCHANGED <<lru, size, ids, free, toEvict>>
       ELSE LET b == Head(lru)
            IN  /\ lru' = Tail(lru) /\ size' = size - 1
                /\ IF b \in Cached
                     THEN FreeBlock(b) /\ toEvict' = toEvict - 1
                     ELSE UNCHANGED <<ids, free, toEvict>>
  /\ stage' = IF toEvict' < 0 THEN "allocate" ELSE "evict"
  /\ UNCHANGED <<prompt, next>>

(* Any free id: which one makes no difference.  A put on a full LRU takes  *)
(* the new block off again and raises, which ends the save.                *)
Allocate ==
  /\ stage = "allocate"
  /\ LET b == prompt[next]
         id == IF free = {} THEN NoId ELSE CHOOSE i \in free : TRUE
     IN  /\ ids' = [c \in Cached \union {b} |-> IF c = b THEN id ELSE ids[c]]
         /\ free' = free \ {id}
         /\ CASE b \in InLru ->
                   lru' = MoveToEnd(b) /\ size' = size /\ next' = next + 1
              [] b \notin InLru /\ size # NumBlocks ->
                   lru' = Append(lru, b) /\ size' = size + 1 /\ next' = next + 1
              [] OTHER ->
                   UNCHANGED <<lru, size>> /\ next' = Len(prompt) + 1
  /\ stage' = "look"
  /\ UNCHANGED <<prompt, toEvict>>

Step == Touch \/ Reclaim \/ Evict \/ Allocate

Next == (\E p \in Prompts : Save(p)) \/ Step

Spec == Init /\ [][Next]_cacheVars
FairSpec == Spec /\ WF_cacheVars(Step)
-----------------------------------------------------------------------------
(* The LRU and the block table, two structures updated one after the other *)
(* at three places, always list the same blocks, each once.                *)
LruMatchesTable ==
  /\ InLru = Cached
  /\ size = Len(lru)
  /\ \A i, j \in 1 .. Len(lru) : lru[i] = lru[j] => i = j

(* No block id is lost or given to two blocks, through any number of       *)
(* evictions.                                                              *)
NoIdLeaks ==
  /\ free \union {ids[b] : b \in Cached} = BlockId
  /\ \A b \in Cached : ids[b] \notin free
  /\ \A b, c \in Cached : ids[b] = ids[c] => b = c

(* A save that evicts does not evict what it has just saved: of a prompt   *)
(* with room beside what one eviction frees, every block can be hit when   *)
(* the save returns.                                                       *)
SavedCanBeHit ==
  ~Saving /\ Len(prompt) <= NumBlocks - Watermark - EvictBlocks
    => Hit(prompt) = Len(prompt)

(* Every save returns: eviction never runs out of blocks to evict.  While  *)
(* one does not, the whole event loop stands still.                        *)
SavesReturn == Saving ~> ~Saving
=============================================================================

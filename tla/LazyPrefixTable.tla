-------------------------- MODULE LazyPrefixTable --------------------------
(***************************************************************************)
(* How much of a prompt the generator hashes                               *)
(* (scheduler/utils/lazy_prefix_table.py): one block, or more where        *)
(* traffic is hot.  A prefix with an entry at its level is expanded: the   *)
(* entry of level d always points to level d + 1.  Entries are named by    *)
(* the blocks of the prefix: their 64-bit rolling hash is taken to have no *)
(* collisions within a level.                                              *)
(***************************************************************************)
EXTENDS Integers, Sequences, FiniteSets, FiniteSetsExt

CONSTANTS
  HashId,        \* hash ids of blocks
  Prompts,       \* the hash_ids requests may have
  Capacity,      \* cap_per_level
  WindowSize,    \* window_size
  MinSamples,    \* min_samples
  RatioFrom,     \* a ratio is 0 up to so many samples: 20
  HotPercent,    \* hot_ratio, in percent
  ColdPercent    \* the ratio below which a prefix is shrunk: 2 percent

ASSUME PrefixTableAssumption ==
  /\ Prompts \subseteq Seq(HashId) \ {<< >>}
  /\ Capacity \in Nat \ {0} /\ WindowSize \in Nat \ {0}
  /\ MinSamples \in Nat /\ RatioFrom \in Nat
  /\ HotPercent \in Nat /\ ColdPercent \in Nat

VARIABLES
  buckets,       \* [levels -> expanded prefixes, least recently used first]
  window,        \* the detector's window, oldest first
  counts         \* [prefixes in the window -> how often]

tableVars == <<buckets, window, counts>>

Prefix(p, d) == SubSeq(p, 1, d)
Level == UNION {1 .. Len(p) : p \in Prompts}
Prefixes == UNION {{Prefix(p, d) : d \in 1 .. Len(p)} : p \in Prompts}
Items(s) == {s[i] : i \in 1 .. Len(s)}

TableTypeOK ==
  /\ buckets \in [Level -> Seq(Prefixes)]
  /\ \A d \in Level : /\ Len(buckets[d]) <= Capacity
                      /\ Cardinality(Items(buckets[d])) = Len(buckets[d])
                      /\ \A x \in Items(buckets[d]) : Len(x) = d
  /\ window \in Seq(Prefixes) /\ Len(window) <= WindowSize
  /\ DOMAIN counts \subseteq Prefixes /\ \A x \in DOMAIN counts : counts[x] \in Nat

TableInit ==
  /\ buckets = [d \in Level |-> << >>]
  /\ window = << >>
  /\ counts = [x \in {} |-> 0]
-----------------------------------------------------------------------------
(* The levels at which a lookup of p finds no entry.                       *)
Gaps(p) == {d \in 1 .. Len(p) : Prefix(p, d) \notin Items(buckets[d])}

(* lookup: the first level without an entry, or all of p.                  *)
Lookup(p) == IF Gaps(p) = {} THEN Len(p) ELSE Min(Gaps(p))

(* LRUCapBucket: delete, get and put.                                      *)
Without(bucket, x) ==
  LET i == CHOOSE j \in 1 .. Len(bucket) : bucket[j] = x
  IN  IF x \in Items(bucket)
        THEN [j \in 1 .. Len(bucket) - 1 |-> IF j < i THEN bucket[j] ELSE bucket[j + 1]]
        ELSE bucket

Touched(bucket, x) ==
  IF x \in Items(bucket) THEN Append(Without(bucket, x), x) ELSE bucket

Put(bucket, x) ==
  LET longer == Append(Without(bucket, x), x)
  IN  IF Len(longer) > Capacity THEN Tail(longer) ELSE longer

(* What lookup(p) does to the buckets it visits.                           *)
LookedUp(p) ==
  [d \in Level |-> IF d <= Lookup(p) THEN Touched(buckets[d], Prefix(p, d))
                                     ELSE buckets[d]]
-----------------------------------------------------------------------------
Counted(c, x) ==
  [y \in DOMAIN c \union {x} |->
     (IF y \in DOMAIN c THEN c[y] ELSE 0) + (IF y = x THEN 1 ELSE 0)]

(* Mutant of Uncounted: a counter that reaches 0 is kept.                  *)
UncountedKeepsZero(c, x) == [c EXCEPT ![x] = @ - 1]

Uncounted(c, x) ==
  LET left == [c EXCEPT ![x] = @ - 1]
  IN  [y \in {z \in DOMAIN c : left[z] > 0} |-> left[y]]

(* observe, on a detector [window, counts].                                *)
Observed(det, x) ==
  LET w == Append(det.window, x)
      c == Counted(det.counts, x)
  IN  IF Len(w) > WindowSize
        THEN [window |-> Tail(w), counts |-> Uncounted(c, Head(w))]
        ELSE [window |-> w, counts |-> c]

(* The ratio observe returns, times total.                                 *)
Ratio(det, x) ==
  IF Len(det.window) < MinSamples \/ Len(det.window) <= RatioFrom
    THEN 0 ELSE det.counts[x]

Hot(det, x) ==
  /\ Len(det.window) >= MinSamples
  /\ 100 * Ratio(det, x) >= HotPercent * Len(det.window)

Cold(det, x) == 100 * Ratio(det, x) < ColdPercent * Len(det.window)
-----------------------------------------------------------------------------
(* Mutant of Process: what is shrunk is the level that led here.           *)
ProcessShrinksPath(p) ==
  LET d == Lookup(p)
      seen == Observed([window |-> window, counts |-> counts], Prefix(p, d))
      expanded == IF Hot(seen, Prefix(p, d)) /\ d < Len(p)
                    THEN [LookedUp(p) EXCEPT ![d] = Put(@, Prefix(p, d))]
                    ELSE LookedUp(p)
      above == IF d > 1 THEN Observed(seen, Prefix(p, d - 1)) ELSE seen
  IN  /\ buckets' = IF d > 1 /\ Cold(above, Prefix(p, d - 1))
                      THEN [expanded EXCEPT ![d - 1] = Without(@, Prefix(p, d - 1))]
                      ELSE expanded
      /\ window' = above.window /\ counts' = above.counts

(* generate_request_offline: lookup(p), whose result is the prefix that is *)
(* hashed, then process(p): the prefix is observed and, if hot, expanded;  *)
(* the prefix above it is observed and, if cold, p is shrunk.              *)
Process(p) ==
  LET d == Lookup(p)
      seen == Observed([window |-> window, counts |-> counts], Prefix(p, d))
      expanded == IF Hot(seen, Prefix(p, d)) /\ d < Len(p)
                    THEN [LookedUp(p) EXCEPT ![d] = Put(@, Prefix(p, d))]
                    ELSE LookedUp(p)
      above == IF d > 1 THEN Observed(seen, Prefix(p, d - 1)) ELSE seen
  IN  /\ buckets' = IF d > 1 /\ Cold(above, Prefix(p, d - 1))
                      THEN [expanded EXCEPT ![d] = Without(@, Prefix(p, d))]
                      ELSE expanded
      /\ window' = above.window /\ counts' = above.counts

TableNext == \E p \in Prompts : Process(p)

TableSpec == TableInit /\ [][TableNext]_tableVars
-----------------------------------------------------------------------------
(* The counters, which are what is asked for a ratio, are those of the     *)
(* window: entries that come and go twice per request leave no remainder.  *)
CountsMatchWindow ==
  /\ DOMAIN counts = Items(window)
  /\ \A x \in DOMAIN counts :
       counts[x] = Cardinality({i \in 1 .. Len(window) : window[i] = x})

(* The levels stay within their capacity, without duplicates, and the      *)
(* detector's counters are those of its window.                            *)
TableInv == TableTypeOK /\ CountsMatchWindow

(* A step of p that evicts no other prompt's entry.                        *)
EvictsNothing(p) ==
  \A d \in Level : Items(buckets[d]) \ Items(buckets'[d]) \subseteq
                     (IF d <= Len(p) THEN {Prefix(p, d)} ELSE {})

(* A prompt is hashed by a shorter prefix next time only through a request *)
(* other than its own: what process() shrinks is the level it found, never *)
(* the one that led there.  But for evictions that request is for a        *)
(* shorter prompt that it begins with, which takes away what the longer    *)
(* one was expanded by.                                                    *)
OnlyShorterPromptsShrink ==
  [][\A p, q \in Prompts :
       Process(p) /\ Lookup(q)' < Lookup(q) =>
         /\ p # q
         /\ EvictsNothing(p) => Len(p) < Len(q) /\ Prefix(q, Len(p)) = p]_tableVars
=============================================================================

--------------------------- MODULE KvCacheProofs ---------------------------
(***************************************************************************)
(* For any cache size, watermark and prompts: the LRU and the block table  *)
(* stay in step, no block id is lost, eviction always finds a block, and   *)
(* takes none of the prompt that is being saved.                           *)
(***************************************************************************)
EXTENDS KvCache, FiniteSetTheorems, TLAPS

USE CacheAssumption

(* s lists the blocks S, each once.                                        *)
Lists(s, S) ==
  /\ s \in Seq(Block)
  /\ {s[i] : i \in 1 .. Len(s)} = S
  /\ \A i, j \in 1 .. Len(s) : s[i] = s[j] => i = j

(* While blocks are evicted, more are on the LRU than are still to go.     *)
NeverSpins == stage = "evict" => lru # << >>

StageInv ==
  /\ stage # "look" => Saving /\ prompt[next] \notin Cached
  /\ stage = "evict" => toEvict >= 0 /\ toEvict < size
  /\ stage = "allocate" => free # {}

Inv == TypeOK /\ LruMatchesTable /\ NoIdLeaks /\ StageInv
-----------------------------------------------------------------------------
(* The oldest block leaves the list.                                       *)
LEMMA ListsTail ==
  ASSUME NEW S, NEW s, Lists(s, S), s # << >>
  PROVE  /\ Head(s) \in S
         /\ Len(Tail(s)) = Len(s) - 1
         /\ Lists(Tail(s), S \ {Head(s)})
<1>1. /\ s \in Seq(Block) /\ Len(s) \in Nat \ {0}
      /\ Tail(s) \in Seq(Block) /\ Len(Tail(s)) = Len(s) - 1
      /\ Head(s) = s[1]
  BY DEF Lists
<1>2. \A i \in 1 .. Len(Tail(s)) : Tail(s)[i] = s[i + 1] /\ i + 1 \in 1 .. Len(s)
  BY <1>1
<1>3. Head(s) \in S
  BY <1>1 DEF Lists
<1>4. {Tail(s)[i] : i \in 1 .. Len(Tail(s))} = S \ {Head(s)}
  <2>1. ASSUME NEW b \in S \ {Head(s)}
        PROVE  \E i \in 1 .. Len(Tail(s)) : Tail(s)[i] = b
    <3>1. PICK j \in 1 .. Len(s) : s[j] = b
      BY DEF Lists
    <3>2. j - 1 \in 1 .. Len(Tail(s))
      BY <1>1, <3>1
    <3> QED
      BY <1>2, <3>1, <3>2
  <2>2. ASSUME NEW i \in 1 .. Len(Tail(s))
        PROVE  Tail(s)[i] \in S \ {Head(s)}
    <3>1. 1 \in 1 .. Len(s) /\ i + 1 # 1
      BY <1>1
    <3> QED
      BY <1>1, <1>2, <3>1 DEF Lists
  <2> QED
    BY <2>1, <2>2
<1>5. \A i, j \in 1 .. Len(Tail(s)) : Tail(s)[i] = Tail(s)[j] => i = j
  <2> SUFFICES ASSUME NEW i \in 1 .. Len(Tail(s)), NEW j \in 1 .. Len(Tail(s)),
                      s[i + 1] = s[j + 1]
               PROVE  i = j
    BY <1>2
  <2>1. i + 1 = j + 1
    BY <1>2 DEF Lists
  <2> QED
    BY <2>1
<1> QED
  BY <1>1, <1>3, <1>4, <1>5 DEF Lists

(* A new block joins it as the newest.                                     *)
LEMMA ListsAppend ==
  ASSUME NEW S, NEW s, Lists(s, S), NEW b \in Block, b \notin S
  PROVE  /\ Len(Append(s, b)) = Len(s) + 1
         /\ Lists(Append(s, b), S \union {b})
<1> DEFINE t == Append(s, b)
<1>1. /\ s \in Seq(Block) /\ Len(s) \in Nat
      /\ t \in Seq(Block) /\ Len(t) = Len(s) + 1
  BY DEF Lists
<1>2. /\ \A i \in 1 .. Len(s) : t[i] = s[i] /\ i \in 1 .. Len(t)
      /\ t[Len(s) + 1] = b /\ Len(s) + 1 \in 1 .. Len(t)
  BY <1>1
<1>3. \A i \in 1 .. Len(t) : i \in 1 .. Len(s) \/ i = Len(s) + 1
  BY <1>1
<1> HIDE DEF t
<1>4. \A i \in 1 .. Len(s) : s[i] \in S
  BY DEF Lists
<1>5. {t[i] : i \in 1 .. Len(t)} = S \union {b}
  <2>1. ASSUME NEW c \in S \union {b}
        PROVE  \E i \in 1 .. Len(t) : t[i] = c
    <3>1. CASE c = b
      BY <3>1, <1>2
    <3>2. CASE c \in S
      <4>1. PICK i \in 1 .. Len(s) : s[i] = c
        BY <3>2 DEF Lists
      <4> QED
        BY <4>1, <1>2
    <3> QED
      BY <3>1, <3>2
  <2>2. ASSUME NEW i \in 1 .. Len(t)
        PROVE  t[i] \in S \union {b}
    BY <1>2, <1>3, <1>4
  <2> QED
    BY <2>1, <2>2
<1>6. \A i, j \in 1 .. Len(t) : t[i] = t[j] => i = j
  <2>1. \A i, j \in 1 .. Len(s) : s[i] = s[j] => i = j
    BY DEF Lists
  <2> QED
    BY <1>2, <1>3, <1>4, <2>1
<1> QED
  BY <1>1, <1>5, <1>6 DEF Lists, t

(* A block leaves it from anywhere.                                        *)
LEMMA ListsWithout ==
  ASSUME NEW S, NEW s, Lists(s, S), NEW k \in 1 .. Len(s)
  PROVE  /\ Len(Without(s, k)) = Len(s) - 1
         /\ Lists(Without(s, k), S \ {s[k]})
<1> DEFINE t == Without(s, k)
           Old(i) == IF i < k THEN i ELSE i + 1
<1>1. s \in Seq(Block) /\ Len(s) \in Nat \ {0} /\ Len(s) - 1 \in Nat
  BY DEF Lists
<1>2. /\ Len(t) = Len(s) - 1
      /\ \A i \in 1 .. Len(t) : t[i] = s[Old(i)]
  BY <1>1 DEF Without
<1>3. \A i \in 1 .. Len(t) : Old(i) \in 1 .. Len(s) \ {k}
  BY <1>1, <1>2
<1>4. \A i \in 1 .. Len(s) : s[i] \in Block
  BY <1>1
<1>5. t \in Seq(Block)
  <2>1. \A i \in 1 .. Len(s) - 1 : (IF i < k THEN s[i] ELSE s[i + 1]) \in Block
    BY <1>1, <1>4
  <2> QED
    BY <1>1, <2>1 DEF Without
<1>6. \A i, j \in 1 .. Len(t) : Old(i) = Old(j) => i = j
  BY <1>1, <1>2
<1>7. \A j \in 1 .. Len(s) \ {k} : \E i \in 1 .. Len(t) : Old(i) = j
  <2> TAKE j \in 1 .. Len(s) \ {k}
  <2>1. CASE j < k
    <3>1. j \in 1 .. Len(t) /\ Old(j) = j
      BY <2>1, <1>1, <1>2
    <3> QED
      BY <3>1
  <2>2. CASE j > k
    <3>1. j - 1 \in 1 .. Len(t) /\ Old(j - 1) = j
      BY <2>2, <1>1, <1>2
    <3> QED
      BY <3>1
  <2> QED
    BY <2>1, <2>2
<1> HIDE DEF t, Old
<1>8. {t[i] : i \in 1 .. Len(t)} = S \ {s[k]}
  <2>1. ASSUME NEW c \in S \ {s[k]}
        PROVE  \E i \in 1 .. Len(t) : t[i] = c
    <3>1. PICK j \in 1 .. Len(s) : s[j] = c
      BY DEF Lists
    <3>2. PICK i \in 1 .. Len(t) : Old(i) = j
      BY <3>1, <1>7
    <3> QED
      BY <3>1, <3>2, <1>2
  <2>2. ASSUME NEW i \in 1 .. Len(t)
        PROVE  t[i] \in S \ {s[k]}
    BY <1>2, <1>3 DEF Lists
  <2> QED
    BY <2>1, <2>2
<1>9. \A i, j \in 1 .. Len(t) : t[i] = t[j] => i = j
  <2> SUFFICES ASSUME NEW i \in 1 .. Len(t), NEW j \in 1 .. Len(t), t[i] = t[j]
               PROVE  i = j
    OBVIOUS
  <2>1. Old(i) = Old(j)
    BY <1>2, <1>3 DEF Lists
  <2> QED
    BY <2>1, <1>6
<1> QED
  BY <1>2, <1>5, <1>8, <1>9 DEF Lists, t

(* A touch changes the order and nothing else.                             *)
LEMMA MoveToEndLists ==
  ASSUME Lists(lru, InLru), NEW b \in Block
  PROVE  /\ Lists(MoveToEnd(b), InLru)
         /\ Len(MoveToEnd(b)) = Len(lru)
<1>1. CASE b \in InLru
  <2> DEFINE i == CHOOSE j \in 1 .. Len(lru) : lru[j] = b
  <2>1. i \in 1 .. Len(lru) /\ lru[i] = b
    BY <1>1 DEF InLru
  <2>2. MoveToEnd(b) = Append(Without(lru, i), b)
    BY <1>1 DEF MoveToEnd
  <2> HIDE DEF i
  <2>3. Len(Without(lru, i)) = Len(lru) - 1 /\ Lists(Without(lru, i), InLru \ {b})
    BY <2>1, ListsWithout
  <2>4. /\ Len(MoveToEnd(b)) = Len(Without(lru, i)) + 1
        /\ Lists(MoveToEnd(b), (InLru \ {b}) \union {b})
    BY <2>2, <2>3, ListsAppend
  <2>5. (InLru \ {b}) \union {b} = InLru
    BY <1>1
  <2>6. Len(lru) \in Nat
    BY DEF Lists
  <2>7. Len(MoveToEnd(b)) = Len(lru)
    BY <2>3, <2>4, <2>6
  <2> QED
    BY <2>4, <2>5, <2>7, Zenon
<1>2. CASE b \notin InLru
  BY <1>2 DEF MoveToEnd
<1> QED
  BY <1>1, <1>2
-----------------------------------------------------------------------------
(* The invariant of the LRU, in these terms.                               *)
LEMMA LruLists ==
  LruMatchesTable /\ TypeOK => Lists(lru, InLru) /\ InLru = Cached /\ size = Len(lru)
BY DEF LruMatchesTable, TypeOK, Lists, InLru

(* And back.                                                               *)
LEMMA ListsGiveLru ==
  Lists(lru, Cached) /\ size = Len(lru) => LruMatchesTable
BY DEF LruMatchesTable, Lists, InLru

(* Blocks on the LRU and free ids together make up the cache, so the size  *)
(* of one tells that of the other.                                         *)
LEMMA Room ==
  ASSUME TypeOK, LruMatchesTable, NoIdLeaks
  PROVE  /\ IsFiniteSet(free) /\ Cardinality(free) \in Nat
         /\ size + Cardinality(free) = NumBlocks
<1>1. /\ IsFiniteSet(BlockId) /\ Cardinality(BlockId) = NumBlocks
  <2>1. 0 \in Int /\ NumBlocks - 1 \in Int
    OBVIOUS
  <2>2. /\ IsFiniteSet(0 .. NumBlocks - 1)
        /\ Cardinality(0 .. NumBlocks - 1) =
             IF 0 > NumBlocks - 1 THEN 0 ELSE NumBlocks - 1 - 0 + 1
    BY <2>1, FS_Interval, Zenon
  <2> QED
    BY <2>2 DEF BlockId
<1>2. free \in SUBSET BlockId /\ BlockId \intersect free = free
  BY DEF TypeOK
<1>3. IsFiniteSet(free) /\ Cardinality(free) \in Nat
  BY <1>1, <1>2, FS_Subset, FS_CardinalityType
<1>4. Cardinality(BlockId \ free) = NumBlocks - Cardinality(free)
  BY <1>1, <1>2, FS_Difference
<1> DEFINE idAt == [i \in 1 .. size |-> ids[lru[i]]]
<1>5. Lists(lru, Cached) /\ size = Len(lru) /\ size \in Nat
  BY LruLists DEF TypeOK, Length
<1>6. \A i \in 1 .. size : lru[i] \in Cached
  BY <1>5 DEF Lists
<1>7. idAt \in [1 .. size -> BlockId \ free]
  BY <1>6 DEF NoIdLeaks, TypeOK
<1>8. \A i, j \in 1 .. size : idAt[i] = idAt[j] => i = j
  BY <1>5, <1>6 DEF NoIdLeaks, Lists
<1>9. \A n \in BlockId \ free : \E i \in 1 .. size : idAt[i] = n
  <2> TAKE n \in BlockId \ free
  <2>1. PICK b \in Cached : ids[b] = n
    BY DEF NoIdLeaks
  <2>2. PICK i \in 1 .. size : lru[i] = b
    BY <1>5, <2>1 DEF Lists
  <2> QED
    BY <2>1, <2>2
<1>10. ExistsBijection(1 .. size, BlockId \ free)
  <2>1. idAt \in Bijection(1 .. size, BlockId \ free)
    BY <1>7, <1>8, <1>9 DEF Bijection, Injection, Surjection, IsInjective
  <2> QED
    BY <2>1 DEF ExistsBijection
<1>11. IsFiniteSet(1 .. size) /\ Cardinality(1 .. size) = size
  <2>1. 1 \in Int /\ size \in Int
    BY <1>5
  <2>2. /\ IsFiniteSet(1 .. size)
        /\ Cardinality(1 .. size) = IF 1 > size THEN 0 ELSE size - 1 + 1
    BY <2>1, FS_Interval, Zenon
  <2> QED
    BY <1>5, <2>2
<1>12. Cardinality(BlockId \ free) = size
  BY <1>10, <1>11, FS_Bijection
<1> QED
  BY <1>3, <1>4, <1>5, <1>12

(* The block a save has come to is a block.                                *)
LEMMA CurrentBlock ==
  ASSUME TypeOK, Saving
  PROVE  prompt[next] \in Block /\ next + 1 \in 1 .. Len(prompt) + 1
<1>1. prompt \in Seq(Block)
  <2>1. CASE prompt \in Prompts
    BY <2>1
  <2>2. CASE prompt = << >>
    BY <2>2
  <2> QED
    BY <2>1, <2>2 DEF TypeOK
<1>2. next \in 1 .. Len(prompt)
  BY <1>1 DEF TypeOK, Saving
<1> QED
  BY <1>1, <1>2
-----------------------------------------------------------------------------
(* The empty cache.                                                        *)
LEMMA InitInv == Init => Inv
<1> SUFFICES ASSUME Init PROVE Inv
  OBVIOUS
<1> USE DEF Init
<1>1. Cached = {} /\ Len(lru) = 0 /\ InLru = {}
  BY DEF Cached, InLru
<1>2. TypeOK
  BY <1>1 DEF TypeOK, Length, BlockId
<1>3. LruMatchesTable
  BY <1>1 DEF LruMatchesTable
<1>4. NoIdLeaks
  BY <1>1 DEF NoIdLeaks
<1>5. StageInv
  BY DEF StageInv
<1> QED
  BY <1>2, <1>3, <1>4, <1>5 DEF Inv

(* A save begins.                                                          *)
LEMMA SaveInv ==
  ASSUME Inv, NEW p \in Prompts, Save(p)
  PROVE  Inv'
<1> USE DEF Save
<1>1. Cached' = Cached /\ InLru' = InLru
  BY DEF Cached, InLru
<1>2. TypeOK'
  <2>1. 1 \in 1 .. Len(p) + 1
    OBVIOUS
  <2> QED
    BY <1>1, <2>1 DEF Inv, TypeOK
<1>3. LruMatchesTable' /\ NoIdLeaks'
  BY <1>1 DEF Inv, LruMatchesTable, NoIdLeaks
<1>4. StageInv'
  BY DEF Inv, StageInv
<1> QED
  BY <1>2, <1>3, <1>4 DEF Inv

(* A block that is cached is touched.                                      *)
LEMMA TouchInv ==
  ASSUME Inv, Touch
  PROVE  Inv'
<1> USE DEF Touch
<1>1. Cached' = Cached
  BY DEF Cached
<1>2. prompt[next] \in Block /\ next + 1 \in 1 .. Len(prompt) + 1
  BY CurrentBlock DEF Inv
<1>3. Lists(lru', Cached) /\ size' = Len(lru')
  BY <1>2, LruLists, MoveToEndLists DEF Inv
<1>4. LruMatchesTable'
  BY <1>1, <1>3 DEF LruMatchesTable, Lists, InLru
<1>5. NoIdLeaks'
  BY <1>1 DEF Inv, NoIdLeaks
<1>6. TypeOK'
  BY <1>1, <1>2, <1>3 DEF Inv, TypeOK, Lists
<1>7. StageInv'
  BY DEF Inv, StageInv
<1> QED
  BY <1>4, <1>5, <1>6, <1>7 DEF Inv

(* One that is not finds enough blocks to evict, or a free id.             *)
LEMMA ReclaimInv ==
  ASSUME Inv, Reclaim
  PROVE  Inv'
<1> USE DEF Reclaim
<1>1. Cached' = Cached
  BY DEF Cached
<1>2. prompt[next] \in Block
  BY CurrentBlock DEF Inv
<1>3. Lists(lru', Cached) /\ size' = Len(lru')
  BY <1>2, LruLists, MoveToEndLists DEF Inv
<1>4. LruMatchesTable'
  BY <1>1, <1>3 DEF LruMatchesTable, Lists, InLru
<1>5. NoIdLeaks'
  BY <1>1 DEF Inv, NoIdLeaks
<1>6. TypeOK'
  BY <1>1, <1>3 DEF Inv, TypeOK, Lists
<1>7. StageInv'
  <2>1. /\ IsFiniteSet(free) /\ Cardinality(free) \in Nat
        /\ size + Cardinality(free) = NumBlocks
    BY Room DEF Inv
  <2>2. Saving' /\ prompt'[next'] \notin Cached'
    BY <1>1 DEF Saving
  <2>3. CASE Cardinality(free) < Watermark
    <3>1. EvictBlocks < size
      BY <2>1, <2>3 DEF Inv, TypeOK, Length
    <3> QED
      BY <2>2, <2>3, <3>1 DEF StageInv
  <2>4. CASE ~(Cardinality(free) < Watermark)
    <3>1. Cardinality(free) # 0
      BY <2>1, <2>4
    <3>2. free # {}
      BY <3>1, FS_EmptySet
    <3> QED
      BY <2>2, <2>4, <3>2 DEF StageInv
  <2> QED
    BY <2>3, <2>4
<1> QED
  BY <1>4, <1>5, <1>6, <1>7 DEF Inv

(* A block is evicted, and its id freed.                                   *)
LEMMA EvictInv ==
  ASSUME Inv, Evict
  PROVE  Inv'
<1> DEFINE b == Head(lru)
<1>1. Lists(lru, Cached) /\ size = Len(lru) /\ size \in Nat /\ NumBlocks \in Nat
  BY LruLists DEF Inv, TypeOK, Length
<1>2. lru # << >> /\ toEvict >= 0 /\ toEvict < size /\ toEvict \in Int
  BY <1>1 DEF Inv, StageInv, TypeOK, Evict
<1>3. /\ b \in Cached
      /\ Len(Tail(lru)) = size - 1 /\ Lists(Tail(lru), Cached \ {b})
  BY <1>1, <1>2, ListsTail
<1>4. /\ lru' = Tail(lru) /\ size' = size - 1
      /\ ids' = [c \in Cached \ {b} |-> ids[c]]
      /\ free' = free \union {ids[b]}
      /\ toEvict' = toEvict - 1
      /\ stage' = IF toEvict' < 0 THEN "allocate" ELSE "evict"
      /\ prompt' = prompt /\ next' = next
  BY <1>2, <1>3 DEF Evict, FreeBlock
<1>5. Cached' = Cached \ {b}
  BY <1>4 DEF Cached
<1>6. ids[b] \in BlockId /\ \A c \in Cached' : ids'[c] = ids[c] /\ c \in Cached
  BY <1>3, <1>4, <1>5 DEF Inv, TypeOK
<1> HIDE DEF b
<1>7. LruMatchesTable'
  BY <1>1, <1>3, <1>4, <1>5 DEF LruMatchesTable, Lists, InLru
<1>8. NoIdLeaks'
  <2>1. free' \union {ids'[c] : c \in Cached'} = BlockId
    BY <1>3, <1>4, <1>5, <1>6 DEF Inv, NoIdLeaks
  <2>2. \A c \in Cached' : ids'[c] \notin free'
    BY <1>3, <1>4, <1>5, <1>6 DEF Inv, NoIdLeaks
  <2>3. \A c, d \in Cached' : ids'[c] = ids'[d] => c = d
    BY <1>6 DEF Inv, NoIdLeaks
  <2> QED
    BY <2>1, <2>2, <2>3 DEF NoIdLeaks
<1>9. TypeOK'
  <2>1. lru' \in Seq(Block) /\ size' \in Length
    BY <1>1, <1>2, <1>3, <1>4 DEF Lists, Length, Inv, TypeOK
  <2>2. ids' \in [Cached' -> BlockId] /\ Cached' \subseteq Block /\ free' \subseteq BlockId
    BY <1>4, <1>5, <1>6 DEF Inv, TypeOK
  <2>3. toEvict' \in -1 .. EvictBlocks
    BY <1>2, <1>4 DEF Inv, TypeOK
  <2> QED
    BY <1>4, <2>1, <2>2, <2>3 DEF Inv, TypeOK
<1>10. StageInv'
  <2>1. Saving' /\ prompt'[next'] \notin Cached'
    BY <1>4, <1>5 DEF Inv, StageInv, Saving, Evict
  <2>2. free' # {}
    BY <1>4
  <2> QED
    BY <1>1, <1>2, <1>4, <2>1, <2>2 DEF StageInv
<1> QED
  BY <1>7, <1>8, <1>9, <1>10 DEF Inv

(* An id is free and the LRU has room for the block, so the put does not   *)
(* raise.                                                                  *)
LEMMA AllocateInv ==
  ASSUME Inv, Allocate
  PROVE  Inv'
<1> DEFINE b == prompt[next]
           id == CHOOSE i \in free : TRUE
<1>1. Lists(lru, Cached) /\ InLru = Cached /\ size = Len(lru) /\ size \in Nat
  BY LruLists DEF Inv, TypeOK, Length
<1>2. free # {} /\ b \notin Cached /\ Saving
  BY DEF Inv, StageInv, Allocate
<1>3. b \in Block /\ next + 1 \in 1 .. Len(prompt) + 1
  BY <1>2, CurrentBlock DEF Inv
<1>4. size < NumBlocks
  <2>1. /\ IsFiniteSet(free) /\ Cardinality(free) \in Nat
        /\ size + Cardinality(free) = NumBlocks
    BY Room DEF Inv
  <2>2. Cardinality(free) # 0
    BY <1>2, <2>1, FS_EmptySet
  <2> QED
    BY <1>1, <2>1, <2>2
<1>5. id \in free /\ id \in BlockId
  BY <1>2 DEF Inv, TypeOK
<1>6. /\ ids' = [c \in Cached \union {b} |-> IF c = b THEN id ELSE ids[c]]
      /\ free' = free \ {id}
      /\ lru' = Append(lru, b) /\ size' = size + 1 /\ next' = next + 1
      /\ stage' = "look" /\ prompt' = prompt /\ toEvict' = toEvict
  BY <1>1, <1>2, <1>4 DEF Allocate
<1> HIDE DEF b, id
<1>7. Cached' = Cached \union {b}
  BY <1>6 DEF Cached
<1>8. Lists(lru', Cached \union {b}) /\ Len(lru') = size + 1
  BY <1>1, <1>2, <1>3, <1>6, ListsAppend
<1>9. /\ ids'[b] = id /\ b \in Cached'
      /\ \A c \in Cached : ids'[c] = ids[c] /\ c # b /\ c \in Cached'
      /\ \A c \in Cached' : c \in Cached \/ c = b
  BY <1>2, <1>6, <1>7
<1>10. LruMatchesTable'
  BY <1>6, <1>7, <1>8 DEF LruMatchesTable, Lists, InLru
<1>11. NoIdLeaks'
  <2>1. \A n \in BlockId : n \in free' \/ \E c \in Cached' : ids'[c] = n
    BY <1>6, <1>9 DEF Inv, NoIdLeaks
  <2>2. free' \subseteq BlockId /\ \A c \in Cached' : ids'[c] \in BlockId
    BY <1>5, <1>6, <1>9 DEF Inv, TypeOK
  <2>3. \A c \in Cached' : ids'[c] \notin free'
    BY <1>6, <1>9 DEF Inv, NoIdLeaks
  <2>4. \A c, d \in Cached' : ids'[c] = ids'[d] => c = d
    BY <1>5, <1>9 DEF Inv, NoIdLeaks
  <2>5. free' \union {ids'[c] : c \in Cached'} = BlockId
    BY <2>1, <2>2
  <2> QED
    BY <2>3, <2>4, <2>5 DEF NoIdLeaks
<1>12. TypeOK'
  <2>1. ids' \in [Cached' -> BlockId] /\ Cached' \subseteq Block
    BY <1>3, <1>5, <1>6, <1>7 DEF Inv, TypeOK
  <2>2. size' \in Length
    BY <1>1, <1>4, <1>6 DEF Length
  <2>3. free' \subseteq BlockId
    BY <1>6 DEF Inv, TypeOK
  <2> QED
    BY <1>3, <1>6, <1>8, <2>1, <2>2, <2>3 DEF Inv, TypeOK, Lists
<1>13. StageInv'
  BY <1>6 DEF StageInv
<1> QED
  BY <1>10, <1>11, <1>12, <1>13 DEF Inv

(* Nothing happens.                                                        *)
LEMMA StutterInv ==
  ASSUME Inv, UNCHANGED cacheVars
  PROVE  Inv'
BY DEF Inv, TypeOK, LruMatchesTable, NoIdLeaks, StageInv, InLru, Cached, Saving, cacheVars

(* Every reachable state satisfies the inductive invariant.                *)
THEOREM Invariance == Spec => []Inv
<1>1. Inv /\ [Next]_cacheVars => Inv'
  BY SaveInv, TouchInv, ReclaimInv, EvictInv, AllocateInv, StutterInv DEF Next, Step
<1> QED
  BY InitInv, <1>1, PTL DEF Spec

(* All state of the cache has its types; no id outside the cache is used.  *)
THEOREM TypeCorrect == Spec => []TypeOK
BY Invariance, PTL DEF Inv

(* The LRU and the table list the same blocks, each once.                  *)
THEOREM LruAndTableAgree == Spec => []LruMatchesTable
BY Invariance, PTL DEF Inv

(* Block ids are neither lost nor given out twice.                         *)
THEOREM IdsAreKept == Spec => []NoIdLeaks
BY Invariance, PTL DEF Inv

(* The loop of _evict never meets an empty LRU, whatever the watermark and *)
(* the number of blocks to evict, if the two fit the cache.                *)
THEOREM EvictionFindsABlock == Spec => []NeverSpins
<1>1. Inv => NeverSpins
  <2> SUFFICES ASSUME Inv, stage = "evict" PROVE lru # << >>
    BY DEF NeverSpins
  <2>1. size = Len(lru) /\ size \in Nat /\ size > 0
    BY DEF Inv, LruMatchesTable, StageInv, TypeOK, Length
  <2> QED
    BY <2>1
<1> QED
  BY Invariance, <1>1, PTL
-----------------------------------------------------------------------------
Kept == NumBlocks - Watermark - EvictBlocks

(* Eviction leaves as many blocks as a prompt with room has; and what is   *)
(* saved of such a prompt is what was used last.                           *)
RecentInv ==
  /\ stage = "evict" => size - toEvict > Kept
  /\ Len(prompt) <= Kept =>
       /\ next - 1 <= Len(lru)
       /\ \A i \in 1 .. next - 1 : lru[Len(lru) - (next - 1) + i] = prompt[i]

(* No block is twice in a prompt.                                          *)
LEMMA PromptBlocks ==
  ASSUME TypeOK
  PROVE  /\ Len(prompt) \in Nat /\ next \in Nat \ {0} /\ Len(lru) \in Nat
         /\ \A i, j \in 1 .. Len(prompt) : prompt[i] = prompt[j] => i = j
<1>1. CASE prompt \in Prompts
  <2>1. Len(prompt) \in Nat
    BY <1>1
  <2>2. \A i, j \in 1 .. Len(prompt) : prompt[i] = prompt[j] => i = j
    BY <1>1, ChainAssumption
  <2> QED
    BY <2>1, <2>2 DEF TypeOK
<1>2. CASE prompt = << >>
  BY <1>2 DEF TypeOK
<1> QED
  BY <1>1, <1>2 DEF TypeOK

(* Nothing is saved yet.                                                   *)
LEMMA RecentInit == Init => RecentInv
<1> SUFFICES ASSUME Init PROVE RecentInv
  OBVIOUS
<1>1. stage # "evict" /\ next - 1 = 0 /\ Len(lru) = 0 /\ 1 .. 0 = {}
  BY DEF Init
<1> QED
  BY <1>1 DEF RecentInv

(* Touching the next block moves it behind those already saved.            *)
LEMMA TouchRecent ==
  ASSUME Inv, RecentInv, Touch
  PROVE  RecentInv'
<1> DEFINE b == prompt[next]
           k == next - 1
           n == Len(lru)
<1>1. /\ TypeOK /\ Lists(lru, Cached) /\ InLru = Cached /\ b \in Cached
      /\ next' = next + 1 /\ lru' = MoveToEnd(b) /\ stage' # "evict" /\ prompt' = prompt
  BY LruLists DEF Inv, Touch
<1>2. SUFFICES ASSUME Len(prompt) <= Kept
               PROVE  /\ next <= Len(lru')
                      /\ \A j \in 1 .. next : lru'[Len(lru') - next + j] = prompt[j]
  <2>1. next' - 1 = next
    BY <1>1, PromptBlocks
  <2> QED
    BY <1>1, <2>1 DEF RecentInv
<1>3. /\ Len(prompt) \in Nat /\ next \in Nat \ {0} /\ n \in Nat /\ k \in Nat
      /\ next \in 1 .. Len(prompt)
  BY <1>1, PromptBlocks DEF Touch, Saving
<1> DEFINE i == CHOOSE j \in 1 .. n : lru[j] = b
<1>4. i \in 1 .. n /\ lru[i] = b
  BY <1>1 DEF InLru
<1>5. lru' = Append(Without(lru, i), b)
  BY <1>1 DEF MoveToEnd
<1> HIDE DEF i
<1>6. /\ Len(Without(lru, i)) = n - 1 /\ Without(lru, i) \in Seq(Block)
      /\ Len(lru') = n /\ b \in Block
  <2>1. Len(Without(lru, i)) = n - 1 /\ Lists(Without(lru, i), Cached \ {lru[i]})
    BY <1>1, <1>4, ListsWithout
  <2>2. b \in Block
    BY <1>1, CurrentBlock DEF Touch
  <2>3. Len(lru') = n
    BY <1>1, <2>2, MoveToEndLists
  <2> QED
    BY <2>1, <2>2, <2>3 DEF Lists
<1>7. k <= n /\ \A j \in 1 .. k : lru[n - k + j] = prompt[j]
  BY <1>2 DEF RecentInv
<1>8. i <= n - k
  <2>1. SUFFICES ASSUME i > n - k PROVE FALSE
    BY <1>3, <1>4
  <2>2. i - (n - k) \in 1 .. k /\ n - k + (i - (n - k)) = i
    BY <1>3, <1>4, <1>7, <2>1
  <2>3. prompt[i - (n - k)] = b
    BY <1>4, <1>7, <2>2
  <2>4. i - (n - k) \in 1 .. Len(prompt) /\ i - (n - k) # next
    BY <1>3, <2>2
  <2> QED
    BY <1>1, <1>3, <2>3, <2>4, PromptBlocks
<1>9. next <= n
  BY <1>3, <1>4, <1>8
<1>10. ASSUME NEW j \in 1 .. next PROVE lru'[n - next + j] = prompt[j]
  <2>1. CASE j = next
    <3>1. n - next + j = n /\ lru'[n] = b
      BY <1>3, <1>5, <1>6, <2>1
    <3> QED
      BY <2>1, <3>1
  <2>2. CASE j # next
    <3>0. i \in Int /\ i <= n - (next - 1) /\ j \in Int /\ 1 <= j /\ j < next
      BY <1>3, <1>4, <1>8, <2>2
    <3>1. /\ j \in 1 .. k /\ n - next + j \in 1 .. n - 1 /\ ~(n - next + j < i)
          /\ n - next + j + 1 = n - k + j
      BY <1>3, <1>9, <3>0
    <3>2. lru'[n - next + j] = Without(lru, i)[n - next + j]
      BY <1>5, <1>6, <3>1
    <3>3. Without(lru, i)[n - next + j] = lru[n - next + j + 1]
      BY <3>1 DEF Without
    <3> QED
      BY <1>7, <3>1, <3>2, <3>3
  <2> QED
    BY <2>1, <2>2
<1> QED
  BY <1>6, <1>9, <1>10

(* The oldest block is not one of the saved: more than those are cached.   *)
LEMMA EvictRecent ==
  ASSUME Inv, RecentInv, Evict
  PROVE  RecentInv'
<1> DEFINE k == next - 1
           n == Len(lru)
<1>1. /\ TypeOK /\ Lists(lru, Cached) /\ size = n /\ stage = "evict" /\ Saving
      /\ toEvict \in Int /\ toEvict >= 0 /\ toEvict < size
  BY LruLists DEF Inv, StageInv, TypeOK, Evict
<1>2. /\ Len(prompt) \in Nat /\ next \in Nat \ {0} /\ n \in Nat /\ Kept \in Int
      /\ next <= Len(prompt)
  BY <1>1, PromptBlocks DEF Kept, Saving
<1>3. lru # << >>
  BY <1>1, <1>2
<1>4. Head(lru) \in Cached /\ Len(Tail(lru)) = n - 1
  BY <1>1, <1>3, ListsTail
<1>5. /\ lru' = Tail(lru) /\ size' = size - 1 /\ toEvict' = toEvict - 1
      /\ UNCHANGED <<prompt, next>>
  BY <1>3, <1>4 DEF Evict
<1>6. size - toEvict > Kept
  BY <1>1 DEF RecentInv
<1>7. size' - toEvict' > Kept
  BY <1>1, <1>2, <1>5, <1>6
<1>8. ASSUME Len(prompt) <= Kept
      PROVE  /\ k <= n - 1
             /\ \A i \in 1 .. k : lru'[n - 1 - k + i] = prompt[i]
  <2>1. k \in Nat /\ k <= n - 1
    BY <1>1, <1>2, <1>6, <1>8
  <2>2. \A i \in 1 .. k : lru[n - k + i] = prompt[i]
    BY <1>8 DEF RecentInv
  <2>3. ASSUME NEW i \in 1 .. k PROVE lru'[n - 1 - k + i] = lru[n - k + i]
    <3>1. n - 1 - k + i \in 1 .. n - 1 /\ n - 1 - k + i + 1 = n - k + i
      BY <1>2, <2>1
    <3>2. lru \in Seq(Block)
      BY <1>1 DEF TypeOK
    <3> QED
      BY <1>3, <1>4, <1>5, <3>1, <3>2
  <2> QED
    BY <2>1, <2>2, <2>3
<1> QED
  BY <1>4, <1>5, <1>7, <1>8 DEF RecentInv

(* The block just allocated is the newest.                                 *)
LEMMA AllocateRecent ==
  ASSUME Inv, Inv', RecentInv, Allocate
  PROVE  RecentInv'
<1> DEFINE b == prompt[next]
           n == Len(lru)
<1>1. /\ TypeOK /\ Lists(lru, Cached) /\ InLru = Cached /\ size = n /\ Saving
      /\ free # {} /\ b \notin Cached /\ prompt' = prompt /\ stage' # "evict"
  BY LruLists DEF Inv, StageInv, Allocate
<1>2. /\ Len(prompt) \in Nat /\ next \in Nat \ {0} /\ n \in Nat
  BY <1>1, PromptBlocks
<1>3. size # NumBlocks
  <2>1. /\ IsFiniteSet(free) /\ Cardinality(free) \in Nat
        /\ size + Cardinality(free) = NumBlocks
    BY Room DEF Inv
  <2>2. Cardinality(free) # 0
    BY <1>1, <2>1, FS_EmptySet
  <2> QED
    BY <1>1, <1>2, <2>1, <2>2
<1>4. lru' = Append(lru, b) /\ next' = next + 1
  BY <1>1, <1>3 DEF Allocate
<1>5. /\ Len(lru') = n + 1 /\ lru'[n + 1] = b
      /\ \A i \in 1 .. n : lru'[i] = lru[i]
  <2>1. lru \in Seq(Block)
    BY <1>1 DEF TypeOK
  <2> QED
    BY <1>4, <2>1
<1>6. SUFFICES ASSUME Len(prompt) <= Kept
               PROVE  /\ next <= Len(lru')
                      /\ \A j \in 1 .. next : lru'[Len(lru') - next + j] = prompt[j]
  <2>1. next' - 1 = next
    BY <1>2, <1>4
  <2> QED
    BY <1>1, <2>1 DEF RecentInv
<1>7. /\ next - 1 <= n
      /\ \A j \in 1 .. next - 1 : lru[n - (next - 1) + j] = prompt[j]
  BY <1>6 DEF RecentInv
<1>8. ASSUME NEW j \in 1 .. next PROVE lru'[Len(lru') - next + j] = prompt[j]
  <2>1. CASE j = next
    <3>1. Len(lru') - next + j = n + 1
      BY <1>2, <1>5, <2>1
    <3> QED
      BY <1>5, <2>1, <3>1
  <2>2. CASE j # next
    <3>1. /\ j \in 1 .. next - 1 /\ Len(lru') - next + j \in 1 .. n
          /\ Len(lru') - next + j = n - (next - 1) + j
      BY <1>2, <1>5, <1>7, <2>2
    <3> QED
      BY <1>5, <1>7, <3>1
  <2> QED
    BY <2>1, <2>2
<1>9. next <= Len(lru')
  BY <1>2, <1>5, <1>7
<1> QED
  BY <1>8, <1>9

(* Every step keeps what was saved at the end of the LRU.                  *)
LEMMA RecentStep == Inv /\ Inv' /\ RecentInv /\ [Next]_cacheVars => RecentInv'
<1> SUFFICES ASSUME Inv, Inv', RecentInv, [Next]_cacheVars PROVE RecentInv'
  OBVIOUS
<1>1. CASE \E p \in Prompts : Save(p)
  <2>1. next' - 1 = 0 /\ stage' = "look" /\ UNCHANGED lru
    BY <1>1 DEF Save, Inv, StageInv, TypeOK
  <2>2. next' - 1 <= Len(lru') /\ \A i \in 1 .. next' - 1 : FALSE
    BY <2>1, PromptBlocks DEF Inv
  <2>3. stage' # "evict"
    BY <2>1
  <2> QED
    BY <2>2, <2>3, Zenon DEF RecentInv
<1>2. CASE Touch
  BY <1>2, TouchRecent
<1>3. CASE Reclaim
  <2>1. prompt[next] \notin InLru
    BY <1>3 DEF Reclaim, Inv, LruMatchesTable
  <2>2. UNCHANGED <<lru, prompt, next, size>>
    BY <1>3, <2>1 DEF Reclaim, MoveToEnd
  <2>3. CASE stage' = "evict"
    <3>1. Cardinality(free) < Watermark /\ toEvict' = EvictBlocks
      BY <1>3, <2>3 DEF Reclaim
    <3>2. Cardinality(free) \in Nat /\ size + Cardinality(free) = NumBlocks /\ size \in Nat
      BY Room DEF Inv, TypeOK, Length
    <3>3. size' - toEvict' > Kept
      BY <2>2, <3>1, <3>2 DEF Kept
    <3> QED
      BY <2>2, <3>3 DEF RecentInv
  <2>4. CASE stage' # "evict"
    BY <2>2, <2>4 DEF RecentInv
  <2> QED
    BY <2>3, <2>4
<1>4. CASE Evict
  BY <1>4, EvictRecent
<1>5. CASE Allocate
  BY <1>5, AllocateRecent
<1>6. CASE UNCHANGED cacheVars
  BY <1>6 DEF RecentInv, cacheVars
<1> QED
  BY <1>1, <1>2, <1>3, <1>4, <1>5, <1>6 DEF Next, Step

(* If all blocks of p are cached, p is hit to its last.                    *)
LEMMA HitIsAll ==
  ASSUME NEW p, Len(p) \in Nat,
         \A i \in 1 .. Len(p) : p[i] \in Cached \intersect InLru
  PROVE  Hit(p) = Len(p)
<1> DEFINE Longest(n) == /\ \A i \in 1 .. n : p[i] \in Cached \intersect InLru
                         /\ n < Len(p) => p[n + 1] \notin Cached \intersect InLru
<1>1. Len(p) \in 0 .. Len(p) /\ Longest(Len(p))
  OBVIOUS
<1>2. \A n \in 0 .. Len(p) : Longest(n) => n = Len(p)
  <2> SUFFICES ASSUME NEW n \in 0 .. Len(p), Longest(n), n # Len(p) PROVE FALSE
    OBVIOUS
  <2>1. n < Len(p) /\ n + 1 \in 1 .. Len(p)
    OBVIOUS
  <2> QED
    BY <2>1
<1>3. Hit(p) = CHOOSE n \in 0 .. Len(p) : Longest(n)
  BY DEF Hit
<1> HIDE DEF Longest
<1> QED
  BY <1>1, <1>2, <1>3

(* A save that evicts keeps what it saves: whatever the watermark and the  *)
(* number of blocks to evict, a prompt with room beside one eviction can   *)
(* be hit to its last block when the save returns (_save, _evict).         *)
THEOREM SavedIsHit == Spec => []SavedCanBeHit
<1>1. Inv /\ RecentInv => SavedCanBeHit
  <2> SUFFICES ASSUME Inv, RecentInv, ~Saving, Len(prompt) <= Kept
               PROVE  Hit(prompt) = Len(prompt)
    BY DEF SavedCanBeHit, Kept
  <2>1. /\ Len(prompt) \in Nat /\ next - 1 = Len(prompt) /\ Len(lru) \in Nat
        /\ InLru = Cached
    BY PromptBlocks DEF Inv, TypeOK, Saving, LruMatchesTable
  <2>2. ASSUME NEW i \in 1 .. Len(prompt) PROVE prompt[i] \in InLru
    <3>1. /\ lru[Len(lru) - Len(prompt) + i] = prompt[i]
          /\ Len(prompt) <= Len(lru)
      BY <2>1 DEF RecentInv
    <3>2. Len(lru) - Len(prompt) + i \in 1 .. Len(lru)
      BY <2>1, <3>1
    <3> QED
      BY <3>1, <3>2 DEF InLru
  <2> QED
    BY <2>1, <2>2, HitIsAll
<1> QED
  BY Invariance, RecentInit, RecentStep, <1>1, PTL DEF Spec
=============================================================================

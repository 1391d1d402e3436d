---------------------------- MODULE PrebleProofs ----------------------------
(***************************************************************************)
(* For any number of replicas, prompts and limits: the Preble scheduler's  *)
(* radix tree stays a radix tree, with the counts of its nodes and the     *)
(* sizes of the replicas exact; no eviction takes what an unfinished       *)
(* request uses, and none stops early.  The scheduler uses the tree as the *)
(* tree expects (it implements RadixSpec), and its allocations, window and *)
(* load follow the nodes.                                                  *)
(*                                                                         *)
(* Lengths are numbers of elements: the tokens of a set of nodes, and of   *)
(* the entries of the window, are sets whose cardinalities are the sums    *)
(* the code keeps, so that a sum changes by adding or removing elements.   *)
(***************************************************************************)
EXTENDS Preble, FiniteSetTheorems, SequenceTheorems, WellFoundedInduction, TLAPS

(* A set of numbers with a bound has a greatest.                           *)
LEMMA GreatestOf ==
  ASSUME NEW n \in Nat, NEW S, S \subseteq 0 .. n, S # {}
  PROVE  Max(S) \in S /\ \A k \in S : k <= Max(S)
<1> DEFINE T == {k \in 0 .. n : n - k \in S}
<1>1. T \subseteq Nat /\ T # {}
  <2>1. PICK k \in S : TRUE
    OBVIOUS
  <2>2. n - k \in T
    <3>1. n - k \in 0 .. n /\ n - (n - k) = k
      OBVIOUS
    <3> QED
      BY <3>1
  <2>3. T \subseteq Nat
    OBVIOUS
  <2> QED
    BY <2>2, <2>3
<1>2. PICK x \in T : \A y \in T : ~ (<<y, x>> \in OpToRel(<, Nat))
  BY <1>1, NatLessThanWellFounded, WFMin
<1>3. \A y \in T : x <= y
  <2> SUFFICES ASSUME NEW y \in T, y < x PROVE FALSE
    BY <1>1
  <2>1. x \in Nat /\ y \in Nat
    BY <1>1, <1>2
  <2>2. <<y, x>> \in OpToRel(<, Nat)
    BY <2>1 DEF OpToRel
  <2> QED
    BY <1>2, <2>2
<1>4. n - x \in S /\ \A k \in S : n - x >= k
  <2> SUFFICES ASSUME NEW k \in S PROVE n - x >= k
    OBVIOUS
  <2>1. n - k \in 0 .. n /\ n - (n - k) = k
    OBVIOUS
  <2>2. n - k \in T
    BY <2>1
  <2>3. x <= n - k /\ x \in 0 .. n /\ k \in 0 .. n
    BY <1>3, <2>2
  <2> QED
    BY <2>3
<1> QED
  BY <1>4 DEF Max

(* A prefix, token by token.                                               *)
LEMMA PrefixMeans ==
  ASSUME NEW S, NEW p \in Seq(S), NEW n \in Seq(S)
  PROVE  Extends(p, n) <=> Len(n) <= Len(p) /\ \A i \in 1 .. Len(n) : n[i] = p[i]
<1>1. Len(n) \in Nat /\ Len(p) \in Nat
  OBVIOUS
<1>2. SubSeq(n, 1, Len(n)) = n
  BY SubSeqFull
<1>3. ASSUME Len(n) <= Len(p)
      PROVE  /\ SubSeq(p, 1, Len(n)) \in Seq(S) /\ Len(SubSeq(p, 1, Len(n))) = Len(n)
             /\ \A i \in 1 .. Len(n) : SubSeq(p, 1, Len(n))[i] = p[i]
  <2>1. \A i \in 1 .. Len(n) : p[i] \in S
    BY <1>1, <1>3, ElementOfSeq
  <2> QED
    BY <1>1, <2>1, SubSeqProperties
<1>4. ASSUME Extends(p, n)
      PROVE  Len(n) <= Len(p) /\ \A i \in 1 .. Len(n) : n[i] = p[i]
  BY <1>2, <1>3, <1>4 DEF Extends, IsPrefix
<1>5. ASSUME Len(n) <= Len(p), \A i \in 1 .. Len(n) : n[i] = p[i]
      PROVE  Extends(p, n)
  BY <1>2, <1>3, <1>5, SeqEqual DEF Extends, IsPrefix
<1> QED
  BY <1>4, <1>5

(* Prefixes order sequences, and those of one sequence in a line.          *)
LEMMA PrefixOrder ==
  ASSUME NEW S
  PROVE  /\ Root \in Seq(S)
         /\ \A p \in Seq(S) : Extends(p, p) /\ Extends(p, Root)
         /\ \A p, n \in Seq(S) : Extends(p, n) /\ Extends(n, p) => p = n
         /\ \A p, n, m \in Seq(S) : Extends(p, n) /\ Extends(n, m) => Extends(p, m)
         /\ \A p, n, m \in Seq(S) : Extends(p, n) /\ Extends(p, m) => Extends(n, m) \/ Extends(m, n)
<1> USE PrefixMeans
<1>0. Root \in Seq(S) /\ Len(Root) = 0
  BY DEF Root
<1>1. \A p \in Seq(S) : Len(p) \in Nat
  OBVIOUS
<1>2. ASSUME NEW p \in Seq(S)
      PROVE  Extends(p, p) /\ Extends(p, Root)
  <2>1. Len(p) \in Nat /\ Len(p) <= Len(p) /\ \A i \in 1 .. Len(p) : p[i] = p[i]
    BY <1>1
  <2>2. Extends(p, p)
    BY <2>1
  <2>3. Len(Root) <= Len(p) /\ \A i \in 1 .. Len(Root) : Root[i] = p[i]
    BY <1>0, <2>1
  <2>4. Extends(p, Root)
    BY <1>0, <2>3
  <2> QED
    BY <2>2, <2>4
<1>3. \A p, n \in Seq(S) : Extends(p, n) /\ Extends(n, p) => p = n
  <2> SUFFICES ASSUME NEW p \in Seq(S), NEW n \in Seq(S), Extends(p, n), Extends(n, p)
               PROVE  p = n
    OBVIOUS
  <2>1. Len(p) = Len(n) /\ \A i \in 1 .. Len(n) : n[i] = p[i]
    BY <1>1
  <2> QED
    BY <2>1, SeqEqual
<1>4. \A p, n, m \in Seq(S) : Extends(p, n) /\ Extends(n, m) => Extends(p, m)
  <2> SUFFICES ASSUME NEW p \in Seq(S), NEW n \in Seq(S), NEW m \in Seq(S),
                      Extends(p, n), Extends(n, m)
               PROVE  Extends(p, m)
    OBVIOUS
  <2>1. /\ Len(n) <= Len(p) /\ \A i \in 1 .. Len(n) : n[i] = p[i]
        /\ Len(m) <= Len(n) /\ \A i \in 1 .. Len(m) : m[i] = n[i]
    OBVIOUS
  <2> QED
    BY <1>1, <2>1
<1>5. \A p, n, m \in Seq(S) : Extends(p, n) /\ Extends(p, m) => Extends(n, m) \/ Extends(m, n)
  <2> SUFFICES ASSUME NEW p \in Seq(S), NEW n \in Seq(S), NEW m \in Seq(S),
                      Extends(p, n), Extends(p, m)
               PROVE  Extends(n, m) \/ Extends(m, n)
    OBVIOUS
  <2>1. /\ Len(n) <= Len(p) /\ \A i \in 1 .. Len(n) : n[i] = p[i]
        /\ Len(m) <= Len(p) /\ \A i \in 1 .. Len(m) : m[i] = p[i]
    OBVIOUS
  <2>2. CASE Len(m) <= Len(n)
    BY <1>1, <2>1, <2>2
  <2>3. CASE Len(n) <= Len(m)
    BY <1>1, <2>1, <2>3
  <2> QED
    BY <1>1, <2>2, <2>3
<1> QED
  BY <1>0, <1>2, <1>3, <1>4, <1>5

(* A prefix is given by its length.                                        *)
LEMMA PrefixLength ==
  ASSUME NEW S, NEW p \in Seq(S), NEW n \in Seq(S), Extends(p, n)
  PROVE  /\ Len(n) \in Nat /\ Len(n) <= Len(p)
         /\ p # n => Len(n) < Len(p)
         /\ n = SubSeq(p, 1, Len(n))
<1>1. Len(n) \in Nat /\ Len(p) \in Nat
  OBVIOUS
<1>2. Len(n) <= Len(p) /\ \A i \in 1 .. Len(n) : n[i] = p[i]
  BY PrefixMeans
<1>3. Len(n) = Len(p) => n = p
  BY <1>2, SeqEqual
<1>4. n = SubSeq(p, 1, Len(n))
  BY SubSeqFull DEF Extends, IsPrefix
<1> QED
  BY <1>1, <1>2, <1>3, <1>4

(* The prefix of each length.                                              *)
LEMMA PrefixOfLength ==
  ASSUME NEW S, NEW p \in Seq(S), NEW k \in 0 .. Len(p)
  PROVE  /\ SubSeq(p, 1, k) \in Seq(S) /\ Len(SubSeq(p, 1, k)) = k
         /\ Extends(p, SubSeq(p, 1, k))
         /\ \A i \in 1 .. k : SubSeq(p, 1, k)[i] = p[i]
<1>1. Len(p) \in Nat /\ \A i \in 1 .. k : p[i] \in S
  BY ElementOfSeq
<1>2. /\ SubSeq(p, 1, k) \in Seq(S) /\ Len(SubSeq(p, 1, k)) = k
      /\ \A i \in 1 .. k : SubSeq(p, 1, k)[i] = p[i]
  BY <1>1, SubSeqProperties
<1>3. Extends(p, SubSeq(p, 1, k))
  <2> DEFINE n == SubSeq(p, 1, k)
  <2>1. n \in Seq(S) /\ Len(n) = k /\ k <= Len(p) /\ \A i \in 1 .. k : n[i] = p[i]
    BY <1>1, <1>2
  <2> HIDE DEF n
  <2>2. Extends(p, n)
    BY <2>1, PrefixMeans
  <2> QED
    BY <2>2 DEF n
<1> QED
  BY <1>2, <1>3

(* Common(c, p) is the longest common prefix.                              *)
LEMMA LongestCommon ==
  ASSUME NEW S, NEW c \in Seq(S), NEW p \in Seq(S)
  PROVE  /\ Common(c, p) \in Seq(S)
         /\ Extends(p, Common(c, p)) /\ Extends(c, Common(c, p))
         /\ \A n \in Seq(S) : Extends(p, n) /\ Extends(c, n) => Extends(Common(c, p), n)
<1> DEFINE Agree(k) == \A i \in 1 .. k : c[i] = p[i]
           K == {k \in 0 .. Len(p) : k <= Len(c) /\ Agree(k)}
           Longest(k) == /\ k <= Len(c) /\ Agree(k)
                         /\ \A j \in 0 .. Len(p) : j <= Len(c) /\ Agree(j) => j <= k
           k0 == CHOOSE k \in 0 .. Len(p) : Longest(k)
<1>1. Len(p) \in Nat /\ Len(c) \in Nat
  OBVIOUS
<1>2. K \subseteq 0 .. Len(p) /\ 0 \in K
  BY <1>1
<1> HIDE DEF K
<1>3. Max(K) \in K /\ \A k \in K : k <= Max(K)
  BY <1>1, <1>2, GreatestOf
<1>4. Max(K) \in 0 .. Len(p) /\ Longest(Max(K))
  BY <1>3 DEF K
<1>5. k0 \in 0 .. Len(p) /\ Longest(k0)
  BY <1>4
<1>6. Common(c, p) = SubSeq(p, 1, k0)
  BY DEF Common
<1> HIDE DEF k0
<1>7. /\ Common(c, p) \in Seq(S) /\ Len(Common(c, p)) = k0 /\ Extends(p, Common(c, p))
      /\ \A i \in 1 .. k0 : Common(c, p)[i] = p[i]
  BY <1>5, <1>6, PrefixOfLength
<1>8. Extends(c, Common(c, p))
  BY <1>1, <1>5, <1>7, PrefixMeans
<1>9. ASSUME NEW n \in Seq(S), Extends(p, n), Extends(c, n)
      PROVE  Extends(Common(c, p), n)
  <2>1. /\ Len(n) <= Len(p) /\ \A i \in 1 .. Len(n) : n[i] = p[i]
        /\ Len(n) <= Len(c) /\ \A i \in 1 .. Len(n) : n[i] = c[i]
        /\ Len(n) \in Nat
    BY <1>9, PrefixMeans
  <2>2. Len(n) <= k0
    <3>1. Len(n) \in 0 .. Len(p) /\ Agree(Len(n))
      BY <2>1
    <3> QED
      BY <1>5, <2>1, <3>1
  <2>3. \A i \in 1 .. Len(n) : n[i] = Common(c, p)[i]
    BY <1>5, <1>7, <2>1, <2>2
  <2> QED
    BY <1>7, <2>2, <2>3, PrefixMeans
<1> QED
  BY <1>7, <1>8, <1>9
-----------------------------------------------------------------------------
(* What a node may be named by.                                            *)
Text == Seq(Token)

(* The four facts above, of token sequences.                               *)
LEMMA Order ==
  /\ Root \in Text
  /\ \A p \in Text : Extends(p, p) /\ Extends(p, Root)
  /\ \A p, n \in Text : Extends(p, n) /\ Extends(n, p) => p = n
  /\ \A p, n, m \in Text : Extends(p, n) /\ Extends(n, m) => Extends(p, m)
  /\ \A p, n, m \in Text : Extends(p, n) /\ Extends(p, m) => Extends(n, m) \/ Extends(m, n)
  BY PrefixOrder DEF Text

(* Common prefixes, likewise.                                              *)
LEMMA Meet ==
  \A c, p \in Text :
    /\ Common(c, p) \in Text
    /\ Extends(p, Common(c, p)) /\ Extends(c, Common(c, p))
    /\ \A n \in Text : Extends(p, n) /\ Extends(c, n) => Extends(Common(c, p), n)
  BY LongestCommon DEF Text

(* And their lengths.                                                      *)
LEMMA Lengths ==
  \A p, n \in Text : Extends(p, n) => /\ Len(n) \in Nat /\ Len(n) <= Len(p)
                                      /\ p # n => Len(n) < Len(p)
  BY PrefixLength DEF Text

(* Of some token sequences one is shortest.                                *)
LEMMA ShortestOf ==
  ASSUME NEW A, A \subseteq Text, A # {}
  PROVE  \E a \in A : \A b \in A : Len(a) <= Len(b)
<1> DEFINE T == {Len(b) : b \in A}
<1>1. \A b \in A : Len(b) \in Nat
  BY DEF Text
<1>2. T \subseteq Nat
  BY <1>1
<1>3. T # {}
  OBVIOUS
<1>4. PICK x \in T : \A y \in T : ~ (<<y, x>> \in OpToRel(<, Nat))
  BY <1>2, <1>3, NatLessThanWellFounded, WFMin
<1>5. \A y \in T : x <= y
  <2> SUFFICES ASSUME NEW y \in T, y < x PROVE FALSE
    BY <1>2
  <2>1. x \in Nat /\ y \in Nat
    BY <1>2, <1>4
  <2>2. <<y, x>> \in OpToRel(<, Nat)
    BY <2>1 DEF OpToRel
  <2> QED
    BY <1>4, <2>2
<1>6. PICK a \in A : x = Len(a)
  OBVIOUS
<1> QED
  BY <1>5, <1>6

(* The parent of p is the deepest node above it.                           *)
LEMMA ParentIs ==
  ASSUME NEW N, N \subseteq Text, Root \in N, NEW p \in Text, p # Root
  PROVE  /\ ParentIn(N, p) \in N /\ Extends(p, ParentIn(N, p)) /\ ParentIn(N, p) # p
         /\ \A m \in N : Extends(p, m) /\ m # p => Extends(ParentIn(N, p), m)
<1> DEFINE Ends == {k \in 0 .. Len(p) : SubSeq(p, 1, k) \in N /\ (k < Len(p) \/ p = Root)}
           k0 == Max(Ends)
<1>1. Len(p) \in Nat /\ Len(p) # 0
  BY DEF Text, Root
<1>2. SubSeq(p, 1, 0) = Root
  BY SubSeqEmpty DEF Root
<1>3. Ends \subseteq 0 .. Len(p) /\ 0 \in Ends
  <2>1. 0 \in 0 .. Len(p) /\ 0 < Len(p)
    BY <1>1
  <2>2. SubSeq(p, 1, 0) \in N
    BY <1>2, Zenon
  <2>3. 0 \in Ends
    BY <2>1, <2>2, Zenon
  <2> QED
    BY <2>3
<1>4. k0 \in Ends /\ \A k \in Ends : k <= k0
  <2> HIDE DEF Ends
  <2> QED
    BY <1>1, <1>3, GreatestOf
<1>5. ParentIn(N, p) = SubSeq(p, 1, k0)
  BY DEF ParentIn
<1>6. k0 \in 0 .. Len(p) /\ SubSeq(p, 1, k0) \in N /\ k0 < Len(p)
  BY <1>4
<1> HIDE DEF k0
<1>7. Extends(p, ParentIn(N, p)) /\ Len(ParentIn(N, p)) = k0 /\ ParentIn(N, p) \in N
  BY <1>5, <1>6, PrefixOfLength DEF Text
<1>8. ASSUME NEW m \in N, Extends(p, m), m # p
      PROVE  Extends(ParentIn(N, p), m)
  <2>1. m \in Text /\ Len(m) \in Nat /\ Len(m) < Len(p) /\ m = SubSeq(p, 1, Len(m))
    BY <1>8, PrefixLength DEF Text
  <2>2. Len(m) \in Ends
    <3>1. Len(m) \in 0 .. Len(p)
      BY <1>1, <2>1
    <3>2. SubSeq(p, 1, Len(m)) \in N
      BY <2>1, Zenon
    <3> QED
      BY <2>1, <3>1, <3>2, Zenon
  <2>3. Len(m) <= k0
    BY <1>4, <2>2
  <2>4. CASE Extends(ParentIn(N, p), m)
    BY <2>4
  <2>5. CASE Extends(m, ParentIn(N, p))
    <3>1. m = ParentIn(N, p)
      BY <1>6, <1>7, <2>1, <2>3, <2>5, Lengths
    <3> QED
      BY <2>1, <3>1, Order
  <2> QED
    BY <1>7, <1>8, <2>1, <2>4, <2>5, Order
<1> QED
  BY <1>6, <1>7, <1>8

(* No other node is.                                                       *)
LEMMA ParentUnique ==
  ASSUME NEW N, N \subseteq Text, Root \in N, NEW p \in Text, p # Root,
         NEW x \in N, Extends(p, x), x # p,
         \A m \in N : Extends(p, m) /\ m # p => Extends(x, m)
  PROVE  ParentIn(N, p) = x
  BY ParentIs, Order

(* The root is its own parent.                                             *)
LEMMA ParentOfRoot ==
  ASSUME NEW N, Root \in N
  PROVE  ParentIn(N, Root) = Root
<1>1. Len(Root) = 0 /\ SubSeq(Root, 1, 0) = Root
  BY SubSeqEmpty DEF Root
<1> DEFINE Ends == {k \in 0 .. Len(Root) : SubSeq(Root, 1, k) \in N /\ (k < Len(Root) \/ Root = Root)}
<1>2. Ends = {0}
  <2>1. 0 .. Len(Root) = {0}
    BY <1>1
  <2> QED
    BY <1>1, <2>1, Zenon
<1>3. Max(Ends) = 0
  BY <1>2 DEF Max
<1> QED
  BY <1>1, <1>3 DEF ParentIn
-----------------------------------------------------------------------------
(* A radix tree: what two nodes have in common is a node.                  *)
Radix(N) == N \subseteq Text /\ Root \in N /\ \A a, b \in N : Common(a, b) \in N

(* Below q, on the way to n, there is a child of q.                        *)
LEMMA ChildToward ==
  ASSUME NEW N, N \subseteq Text, Root \in N,
         NEW n \in N, NEW q \in N, Extends(n, q), n # q
  PROVE  \E c \in N : /\ c # Root /\ c # q /\ Extends(n, c) /\ Extends(c, q)
                      /\ ParentIn(N, c) = q
<1> DEFINE A == {a \in N : Extends(n, a) /\ Extends(a, q) /\ a # q}
<1>1. A \subseteq Text /\ n \in A
  BY Order
<1>2. PICK c \in A : \A b \in A : Len(c) <= Len(b)
  BY <1>1, ShortestOf
<1>3. c \in N /\ c \in Text /\ q \in Text /\ Extends(n, c) /\ Extends(c, q) /\ c # q
  BY <1>1, <1>2
<1>4. c # Root
  BY <1>3, Order
<1>5. ASSUME NEW m \in N, Extends(c, m), m # c
      PROVE  Extends(q, m)
  <2>1. m \in Text /\ n \in Text
    OBVIOUS
  <2>2. CASE Extends(q, m)
    BY <2>2
  <2>3. CASE Extends(m, q) /\ m # q
    <3>1. m \in A
      BY <1>3, <1>5, <2>1, <2>3, Order
    <3>2. Len(c) <= Len(m)
      BY <1>2, <3>1
    <3>3. Len(m) < Len(c) /\ Len(m) \in Nat /\ Len(c) \in Nat
      BY <1>3, <1>5, <2>1, Lengths, Order
    <3> QED
      BY <3>2, <3>3
  <2> QED
    BY <1>3, <1>5, <2>1, <2>2, <2>3, Order
<1>6. ParentIn(N, c) = q
  BY <1>3, <1>4, <1>5, ParentUnique
<1> QED
  BY <1>3, <1>4, <1>6

(* Where p would be attached.                                              *)
LEMMA NewParent ==
  ASSUME Radix(nodes), NEW p \in Text, p \notin nodes
  PROVE  /\ Parent(p) \in nodes /\ Parent(p) \in Text /\ p # Root
         /\ Extends(p, Parent(p)) /\ Parent(p) # p
         /\ \A m \in nodes : Extends(p, m) => Extends(Parent(p), m)
  BY ParentIs DEF Radix, Parent

(* The child on whose edge p leaves the tree.                              *)
LEMMA ForkIs ==
  ASSUME Radix(nodes), NEW p \in Text, p \notin nodes, NEW c \in Fork(p)
  PROVE  /\ c \in nodes /\ c \in Text /\ c # Root /\ Parent(c) = Parent(p)
         /\ ~Extends(p, c)
         /\ Common(c, p) \in Text /\ Extends(p, Common(c, p)) /\ Extends(c, Common(c, p))
         /\ Extends(Common(c, p), Parent(p)) /\ Common(c, p) # Parent(p)
         /\ Common(c, p) \notin nodes
         /\ \A n \in nodes : Extends(n, Common(c, p)) <=> Extends(n, c)
<1> DEFINE m == Common(c, p)
           q == Parent(p)
<1>1. /\ c \in nodes /\ c \in Text /\ c # Root /\ Parent(c) = q
      /\ ~Extends(p, c) /\ Len(m) > Len(q)
  BY DEF Fork, Radix
<1>2. /\ q \in nodes /\ q \in Text /\ Extends(p, q) /\ q # p
      /\ \A n \in nodes : Extends(p, n) => Extends(q, n)
  BY NewParent
<1>3. /\ Extends(c, q) /\ q # c
      /\ \A n \in nodes : Extends(c, n) /\ n # c => Extends(q, n)
  BY <1>1, ParentIs DEF Radix, Parent
<1>4. m \in Text /\ Extends(p, m) /\ Extends(c, m) /\ Extends(m, q)
  BY <1>1, <1>2, <1>3, Meet
<1>5. m # q
  BY <1>1, <1>2, Lengths, Order
<1>6. m \notin nodes
  BY <1>1, <1>2, <1>4, <1>5, Order
<1>7. ASSUME NEW n \in nodes, Extends(n, m)
      PROVE  Extends(n, c)
  <2> DEFINE x == Common(n, c)
  <2>1. n \in Text /\ x \in nodes
    BY <1>1 DEF Radix
  <2>2. x \in Text /\ Extends(n, x) /\ Extends(c, x) /\ Extends(x, m)
    BY <1>1, <1>4, <1>7, <2>1, Meet
  <2>3. x = c
    <3>1. SUFFICES ASSUME x # c PROVE FALSE
      OBVIOUS
    <3>2. Extends(q, x)
      BY <1>3, <2>1, <2>2, <3>1
    <3> QED
      BY <1>2, <1>4, <1>5, <2>2, <3>2, Order
  <2> QED
    BY <2>2, <2>3
<1>8. ASSUME NEW n \in nodes, Extends(n, c)
      PROVE  Extends(n, m)
  BY <1>1, <1>4, <1>8, Order DEF Radix
<1> QED
  BY <1>1, <1>4, <1>5, <1>6, <1>7, <1>8

(* There is only one.                                                      *)
LEMMA ForkIsUnique ==
  ASSUME Radix(nodes), NEW p \in Text, p \notin nodes, NEW c \in Fork(p), NEW d \in Fork(p)
  PROVE  c = d
<1>1. ASSUME NEW a \in Fork(p), NEW b \in Fork(p), Extends(Common(a, p), Common(b, p))
      PROVE  a = b
  <2>1. /\ a \in nodes /\ a \in Text /\ a # Root /\ Parent(a) = Parent(p)
        /\ Common(a, p) \in Text /\ Extends(a, Common(a, p))
    BY ForkIs
  <2>2. /\ b \in nodes /\ b \in Text /\ b # Root /\ Parent(b) = Parent(p)
        /\ Common(b, p) \in Text
        /\ \A n \in nodes : Extends(n, Common(b, p)) => Extends(n, b)
    BY ForkIs
  <2>3. Extends(a, b)
    BY <1>1, <2>1, <2>2, Order
  <2>4. /\ b # a => Extends(Parent(p), b)
        /\ Extends(b, Parent(p)) /\ Parent(p) # b /\ Parent(p) \in nodes
    BY <2>1, <2>2, <2>3, ParentIs DEF Radix, Parent
  <2> QED
    BY <2>2, <2>4, Order DEF Radix
<1>2. Extends(Common(c, p), Common(d, p)) \/ Extends(Common(d, p), Common(c, p))
  <2>1. Common(c, p) \in Text /\ Extends(p, Common(c, p))
    BY ForkIs
  <2>2. Common(d, p) \in Text /\ Extends(p, Common(d, p))
    BY ForkIs
  <2> QED
    BY <2>1, <2>2, Order
<1> QED
  BY <1>1, <1>2

(* Whatever shares more with p than the nodes on the way to it lies beyond *)
(* the child where p leaves the tree.                                      *)
LEMMA ForkExists ==
  ASSUME Radix(nodes), NEW p \in Text, p \notin nodes,
         NEW n \in nodes, NEW x \in Text, Extends(n, x), Extends(p, x),
         ~Extends(Parent(p), x)
  PROVE  \E c \in Fork(p) : Extends(n, c)
<1> DEFINE q == Parent(p)
<1>1. /\ q \in nodes /\ q \in Text /\ Extends(p, q) /\ q # p
      /\ \A m \in nodes : Extends(p, m) => Extends(q, m)
  BY NewParent
<1>2. n \in Text /\ Extends(x, q) /\ x # q
  BY <1>1, Order DEF Radix
<1>3. Extends(n, q) /\ n # q
  BY <1>1, <1>2, Order
<1>4. PICK c \in nodes : /\ c # Root /\ c # q /\ Extends(n, c) /\ Extends(c, q)
                         /\ ParentIn(nodes, c) = q
  BY <1>1, <1>3, ChildToward DEF Radix
<1>5. ~Extends(p, c) /\ c \in Text
  BY <1>1, <1>4, Order DEF Radix
<1>6. Extends(c, x)
  BY <1>2, <1>4, <1>5, Order
<1>7. Common(c, p) \in Text /\ Extends(Common(c, p), x)
  BY <1>5, <1>6, Meet
<1>8. Len(Common(c, p)) > Len(q)
  <2>1. Extends(Common(c, p), q) /\ Common(c, p) # q
    BY <1>1, <1>2, <1>7, Order
  <2> QED
    BY <1>1, <1>7, <2>1, Lengths
<1> QED
  BY <1>4, <1>5, <1>8 DEF Fork, Parent

(* Which of two sequences the common tokens are taken of does not matter.  *)
LEMMA CommonSymmetric ==
  \A a, b \in Text : Common(a, b) = Common(b, a) /\ Common(a, a) = a
<1>1. \A a, b \in Text : Extends(Common(a, b), Common(b, a))
  BY Meet
<1> QED
  BY <1>1, Meet, Order

(* The nodes once p is inserted.                                           *)
WithPrompt(p) == nodes \union {Common(c, p) : c \in Fork(p)} \union {p}

(* With the node split off, the tree is a radix tree again.                *)
LEMMA InsertKeepsRadix ==
  ASSUME Radix(nodes), NEW p \in Text, p \notin nodes
  PROVE  Radix(WithPrompt(p))
<1> DEFINE q == Parent(p)
<1>1. /\ q \in nodes /\ q \in Text /\ Extends(p, q) /\ q # p
      /\ \A m \in nodes : Extends(p, m) => Extends(q, m)
  BY NewParent
<1>2. /\ WithPrompt(p) \subseteq Text /\ Root \in WithPrompt(p)
      /\ nodes \subseteq Text /\ \A a, b \in nodes : Common(a, b) \in nodes
  BY ForkIs DEF WithPrompt, Radix
<1>3. ASSUME NEW n \in nodes
      PROVE  Common(n, p) \in WithPrompt(p)
  <2> DEFINE x == Common(n, p)
  <2>1. n \in Text /\ x \in Text /\ Extends(n, x) /\ Extends(p, x)
    BY <1>2, Meet
  <2>2. CASE Extends(q, x)
    <3>1. Common(n, q) \in nodes /\ Common(n, q) \in Text
      BY <1>1, <1>2
    <3>2. Extends(Common(n, q), x) /\ Extends(x, Common(n, q))
      BY <1>1, <2>1, <2>2, <3>1, Meet, Order
    <3> QED
      BY <2>1, <3>1, <3>2, Order DEF WithPrompt
  <2>3. CASE ~Extends(q, x)
    <3>1. PICK c \in Fork(p) : Extends(n, c)
      BY <2>1, <2>3, ForkExists
    <3>2. /\ c \in Text /\ ~Extends(p, c) /\ Common(c, p) \in Text
          /\ Extends(p, Common(c, p)) /\ Extends(c, Common(c, p))
      BY ForkIs
    <3>3. Extends(n, Common(c, p))
      BY <2>1, <3>1, <3>2, Order
    <3>4. Extends(x, Common(c, p))
      BY <2>1, <3>2, <3>3, Meet
    <3>5. Extends(c, x)
      BY <2>1, <3>1, <3>2, Order
    <3>6. x = Common(c, p)
      BY <2>1, <3>2, <3>4, <3>5, Meet, Order
    <3> QED
      BY <3>6 DEF WithPrompt
  <2> QED
    BY <2>2, <2>3
<1>4. ASSUME NEW n \in nodes, NEW c \in Fork(p)
      PROVE  Common(n, Common(c, p)) \in WithPrompt(p)
  <2> DEFINE m == Common(c, p)
             y == Common(n, m)
             z == Common(n, c)
  <2>1. /\ c \in nodes /\ c \in Text /\ c # Root /\ Parent(c) = q
        /\ m \in Text /\ Extends(c, m) /\ Extends(m, q)
    BY ForkIs
  <2>2. n \in Text /\ y \in Text /\ z \in Text /\ z \in nodes
    BY <1>2, <2>1, Meet
  <2>3. CASE z = c
    <3>1. Extends(n, m)
      BY <2>1, <2>2, <2>3, Meet, Order
    <3>2. y = m
      BY <2>1, <2>2, <3>1, Meet, Order
    <3> QED
      BY <3>2 DEF WithPrompt
  <2>4. CASE z # c
    <3>1. Extends(q, z)
      BY <1>2, <2>1, <2>2, <2>4, ParentIs, Meet DEF Radix, Parent
    <3>2. Extends(m, z) /\ Extends(c, y)
      BY <1>1, <2>1, <2>2, <3>1, Meet, Order
    <3>3. y = z
      BY <2>1, <2>2, <3>2, Meet, Order
    <3> QED
      BY <2>2, <3>3 DEF WithPrompt
  <2> QED
    BY <2>3, <2>4
<1>5. ASSUME NEW c \in Fork(p)
      PROVE  Common(Common(c, p), p) = Common(c, p)
  BY ForkIs, Meet, Order
<1>6. \A c, d \in Fork(p) : Common(Common(c, p), Common(d, p)) = Common(c, p)
  BY ForkIsUnique, ForkIs, CommonSymmetric
<1>7. \A a \in nodes, b \in WithPrompt(p) : Common(a, b) \in WithPrompt(p)
  BY <1>2, <1>3, <1>4 DEF WithPrompt
<1>8. \A c \in Fork(p), b \in WithPrompt(p) : Common(Common(c, p), b) \in WithPrompt(p)
  <2> SUFFICES ASSUME NEW c \in Fork(p), NEW b \in WithPrompt(p)
               PROVE  Common(Common(c, p), b) \in WithPrompt(p)
    OBVIOUS
  <2>1. Common(c, p) \in WithPrompt(p) /\ Common(c, p) \in Text /\ b \in Text
    BY <1>2, ForkIs DEF WithPrompt
  <2>2. CASE b \in nodes
    BY <1>7, <2>1, <2>2, CommonSymmetric
  <2>3. CASE b \in {Common(d, p) : d \in Fork(p)}
    BY <1>6, <2>1, <2>3
  <2>4. CASE b = p
    BY <1>5, <2>1, <2>4
  <2> QED
    BY <2>2, <2>3, <2>4 DEF WithPrompt
<1>9. \A b \in WithPrompt(p) : Common(p, b) \in WithPrompt(p)
  <2> SUFFICES ASSUME NEW b \in WithPrompt(p) PROVE Common(p, b) \in WithPrompt(p)
    OBVIOUS
  <2>1. p \in WithPrompt(p) /\ b \in Text /\ Common(p, b) = Common(b, p)
    BY <1>2, CommonSymmetric DEF WithPrompt
  <2>2. CASE b \in nodes
    BY <1>3, <2>1, <2>2
  <2>3. CASE b \in {Common(d, p) : d \in Fork(p)}
    BY <1>5, <2>1, <2>3
  <2>4. CASE b = p
    BY <2>1, <2>4, CommonSymmetric
  <2> QED
    BY <2>2, <2>3, <2>4 DEF WithPrompt
<1>10. \A a, b \in WithPrompt(p) : Common(a, b) \in WithPrompt(p)
  BY <1>7, <1>8, <1>9 DEF WithPrompt
<1> QED
  BY <1>2, <1>10 DEF Radix

(* An insertion changes the parent of the child it splits, and no other.   *)
LEMMA InsertKeepsParents ==
  ASSUME Radix(nodes), NEW p \in Text, p \notin nodes
  PROVE  /\ \A n \in nodes \ Fork(p) : ParentIn(WithPrompt(p), n) = Parent(n)
         /\ \A c \in Fork(p) : /\ ParentIn(WithPrompt(p), c) = Common(c, p)
                               /\ ParentIn(WithPrompt(p), Common(c, p)) = Parent(p)
<1> DEFINE q == Parent(p)
           N == WithPrompt(p)
<1>1. /\ q \in nodes /\ q \in Text /\ Extends(p, q) /\ q # p
      /\ \A m \in nodes : Extends(p, m) => Extends(q, m)
  BY NewParent
<1>2. N \subseteq Text /\ Root \in N /\ nodes \subseteq N /\ nodes \subseteq Text /\ Root \in nodes
  BY InsertKeepsRadix DEF Radix, WithPrompt
<1>3. \A y \in N : y \in nodes \/ y = p \/ \E c \in Fork(p) : y = Common(c, p)
  BY DEF WithPrompt
<1>4. ASSUME NEW n \in nodes \ Fork(p)
      PROVE  ParentIn(N, n) = Parent(n)
  <2>1. CASE n = Root
    BY <1>2, <2>1, ParentOfRoot DEF Parent
  <2>2. CASE n # Root
    <3>1. /\ n \in Text /\ Parent(n) \in nodes /\ Parent(n) \in Text
          /\ Extends(n, Parent(n)) /\ Parent(n) # n
          /\ \A m \in nodes : Extends(n, m) /\ m # n => Extends(Parent(n), m)
      BY <1>2, <2>2, ParentIs DEF Parent
    <3>2. ASSUME NEW c \in Fork(p), Extends(n, c)
          PROVE  Extends(Parent(n), c)
      BY <3>1, <3>2, ForkIs
    <3>3. ASSUME NEW y \in N, Extends(n, y), y # n
          PROVE  Extends(Parent(n), y)
      <4>1. CASE y \in nodes
        BY <3>1, <3>3, <4>1
      <4>2. CASE y = p
        <5>1. ~Extends(q, p)
          BY <1>1, Order
        <5>2. PICK c \in Fork(p) : Extends(n, c)
          BY <3>3, <4>2, <5>1, ForkExists, Order
        <5>3. c \in Text /\ ~Extends(p, c)
          BY ForkIs
        <5>4. Extends(c, p)
          BY <3>1, <3>3, <4>2, <5>2, <5>3, Order
        <5> QED
          BY <3>1, <3>2, <4>2, <5>2, <5>3, <5>4, Order
      <4>3. ASSUME NEW c \in Fork(p), y = Common(c, p)
            PROVE  Extends(Parent(n), y)
        <5>1. c \in Text /\ y \in Text /\ Extends(c, y) /\ Extends(n, c)
          BY <3>3, <4>3, ForkIs
        <5> QED
          BY <3>1, <3>2, <5>1, Order
      <4> QED
        BY <1>3, <4>1, <4>2, <4>3
    <3> QED
      BY <1>2, <2>2, <3>1, <3>3, ParentUnique
  <2> QED
    BY <2>1, <2>2
<1>5. ASSUME NEW c \in Fork(p)
      PROVE  ParentIn(N, c) = Common(c, p)
  <2> DEFINE m == Common(c, p)
  <2>1. /\ c \in nodes /\ c \in Text /\ c # Root /\ Parent(c) = q /\ ~Extends(p, c)
        /\ m \in Text /\ Extends(p, m) /\ Extends(c, m) /\ Extends(m, q) /\ m \notin nodes
    BY ForkIs
  <2>2. m \in N /\ m # c
    BY <2>1 DEF WithPrompt
  <2>3. ASSUME NEW y \in N, Extends(c, y), y # c
        PROVE  Extends(m, y)
    <3>1. CASE y \in nodes
      <4>1. Extends(q, y)
        BY <1>2, <2>1, <2>3, <3>1, ParentIs DEF Parent
      <4> QED
        BY <1>1, <1>2, <2>1, <3>1, <4>1, Order
    <3>2. CASE y = p
      BY <2>1, <2>3, <3>2, Meet, Order
    <3>3. ASSUME NEW d \in Fork(p), y = Common(d, p)
          PROVE  Extends(m, y)
      BY <2>1, <3>3, ForkIsUnique, Order
    <3> QED
      BY <1>3, <3>1, <3>2, <3>3
  <2> QED
    BY <1>2, <2>1, <2>2, <2>3, ParentUnique
<1>6. ASSUME NEW c \in Fork(p)
      PROVE  ParentIn(N, Common(c, p)) = q
  <2> DEFINE m == Common(c, p)
  <2>1. /\ m \in Text /\ Extends(p, m) /\ Extends(m, q) /\ m # q
        /\ m \notin nodes /\ q \in N
    BY <1>1, <1>2, ForkIs
  <2>2. m # Root
    BY <1>2, <2>1
  <2>3. ASSUME NEW y \in N, Extends(m, y), y # m
        PROVE  Extends(q, y)
    <3>1. CASE y \in nodes
      BY <1>1, <1>2, <2>1, <2>3, <3>1, Order
    <3>2. CASE y = p
      BY <2>1, <2>3, <3>2, Order
    <3>3. ASSUME NEW d \in Fork(p), y = Common(d, p)
          PROVE  Extends(q, y)
      BY <2>3, <3>3, ForkIsUnique
    <3> QED
      BY <1>3, <3>1, <3>2, <3>3
  <2> QED
    BY <1>2, <2>1, <2>2, <2>3, ParentUnique
<1> QED
  BY <1>4, <1>5, <1>6
-----------------------------------------------------------------------------
(* In a radix tree the first token tells children apart.                   *)
LEMMA ChildrenOfRadixDiffer == Radix(nodes) => ChildrenDiffer
<1> SUFFICES ASSUME Radix(nodes), NEW n \in nodes \ {Root}, NEW m \in nodes \ {Root},
                    n # m, Parent(n) = Parent(m),
                    n[Len(Parent(n)) + 1] = m[Len(Parent(n)) + 1]
             PROVE  FALSE
  BY DEF ChildrenDiffer
<1> DEFINE q == Parent(n)
           k == Len(q) + 1
           x == SubSeq(n, 1, k)
<1>1. n \in Text /\ m \in Text /\ nodes \subseteq Text /\ Root \in nodes
  BY DEF Radix
<1>2. /\ q \in nodes /\ q \in Text /\ Extends(n, q) /\ n # q
      /\ \A a \in nodes : Extends(n, a) /\ a # n => Extends(q, a)
  BY <1>1, ParentIs DEF Parent
<1>3. /\ Extends(m, q) /\ m # q
      /\ \A a \in nodes : Extends(m, a) /\ a # m => Extends(q, a)
  BY <1>1, ParentIs DEF Parent
<1>4. Len(q) \in Nat /\ Len(q) < Len(n) /\ Len(q) < Len(m) /\ Len(n) \in Nat /\ Len(m) \in Nat
  BY <1>1, <1>2, <1>3, Lengths, Order
<1>5. k \in 0 .. Len(n) /\ k \in 0 .. Len(m)
  BY <1>4
<1>6. /\ x \in Text /\ Len(x) = k /\ Extends(n, x)
      /\ \A i \in 1 .. k : x[i] = n[i]
  BY <1>1, <1>5, PrefixOfLength DEF Text
<1>7. Extends(m, x)
  <2>1. /\ \A i \in 1 .. Len(q) : q[i] = n[i] /\ q[i] = m[i]
    BY <1>1, <1>2, <1>3, PrefixMeans DEF Text
  <2>2. \A i \in 1 .. k : i \in 1 .. Len(q) \/ i = Len(q) + 1
    BY <1>4
  <2>3. \A i \in 1 .. Len(x) : x[i] = m[i]
    BY <1>6, <2>1, <2>2
  <2>4. Len(x) <= Len(m)
    BY <1>5, <1>6
  <2> HIDE DEF x, k, q
  <2> QED
    BY <1>1, <1>6, <2>3, <2>4, PrefixMeans DEF Text
<1> HIDE DEF x
<1>8. /\ Common(n, m) \in nodes /\ Common(n, m) \in Text
      /\ Extends(n, Common(n, m)) /\ Extends(m, Common(n, m)) /\ Extends(Common(n, m), x)
  BY <1>1, <1>6, <1>7, Meet DEF Radix
<1>9. ~Extends(q, x)
  BY <1>2, <1>4, <1>6, Lengths
<1> QED
  BY <1>1, <1>2, <1>3, <1>6, <1>8, <1>9, Order

(* The fields of the nodes after an insertion.                             *)
LEMMA GrownIs ==
  ASSUME Radix(nodes), NEW p \in Text, p \notin nodes, NEW f, NEW zero
  PROVE  /\ DOMAIN Grown(f, p, zero) = WithPrompt(p)
         /\ \A n \in nodes : Grown(f, p, zero)[n] = f[n]
         /\ \A c \in Fork(p) : Grown(f, p, zero)[Common(c, p)] = f[c]
         /\ p \notin {Common(c, p) : c \in Fork(p)} => Grown(f, p, zero)[p] = zero
<1>1. DOMAIN Grown(f, p, zero) = WithPrompt(p)
  BY DEF Grown, WithPrompt
<1>2. \A n \in nodes : Grown(f, p, zero)[n] = f[n]
  BY DEF Grown
<1>3. ASSUME NEW c \in Fork(p)
      PROVE  Grown(f, p, zero)[Common(c, p)] = f[c]
  <2> DEFINE m == Common(c, p)
             d == CHOOSE d \in Fork(p) : m = Common(d, p)
  <2>1. d \in Fork(p) /\ m = Common(d, p)
    OBVIOUS
  <2>2. d = c
    BY <2>1, ForkIsUnique
  <2>3. m \notin nodes
    BY ForkIs
  <2>4. Grown(f, p, zero)[m] = f[d]
    BY <2>3 DEF Grown
  <2> QED
    BY <2>2, <2>4
<1>4. p \notin {Common(c, p) : c \in Fork(p)} => Grown(f, p, zero)[p] = zero
  BY DEF Grown
<1> QED
  BY <1>1, <1>2, <1>3, <1>4

(* Nothing in the tree goes through a prompt that becomes a new leaf.      *)
LEMMA NewLeaf ==
  ASSUME Radix(nodes), NEW p \in Text, p \notin nodes,
         p \notin {Common(c, p) : c \in Fork(p)}, NEW n \in nodes
  PROVE  ~Extends(n, p)
<1> SUFFICES ASSUME Extends(n, p) PROVE FALSE
  OBVIOUS
<1>1. /\ Parent(p) \in Text /\ Extends(p, Parent(p)) /\ Parent(p) # p /\ n \in Text
  BY NewParent DEF Radix
<1>2. PICK c \in Fork(p) : Extends(n, c)
  BY <1>1, ForkExists, Order
<1>3. c \in Text /\ ~Extends(p, c) /\ Common(c, p) \in Text /\ Extends(p, Common(c, p))
  BY ForkIs
<1>4. Extends(c, p)
  BY <1>1, <1>2, <1>3, Order
<1>5. Common(c, p) = p
  BY <1>3, <1>4, Meet, Order
<1> QED
  BY <1>5

(* An insertion adds finitely many nodes.                                  *)
LEMMA WithPromptIsFinite ==
  ASSUME Radix(nodes), IsFiniteSet(nodes), NEW p \in Text, p \notin nodes
  PROVE  IsFiniteSet(WithPrompt(p))
<1>1. CASE Fork(p) = {}
  <2>1. WithPrompt(p) = nodes \union {p}
    BY <1>1 DEF WithPrompt
  <2> QED
    BY <2>1, FS_AddElement
<1>2. ASSUME NEW c \in Fork(p)
      PROVE  IsFiniteSet(WithPrompt(p))
  <2> DEFINE M == nodes \union {Common(c, p)}
  <2>1. \A d \in Fork(p) : d = c
    BY ForkIsUnique
  <2>2. WithPrompt(p) = M \union {p}
    BY <2>1 DEF WithPrompt
  <2>3. IsFiniteSet(M)
    BY FS_AddElement
  <2> HIDE DEF M
  <2>4. IsFiniteSet(M \union {p})
    BY <2>3, FS_AddElement
  <2> QED
    BY <2>2, <2>4
<1> QED
  BY <1>1, <1>2
-----------------------------------------------------------------------------
(* The tokens of the nodes S in a tree N, as Tokens has them for the tree  *)
(* there is.                                                               *)
TokensIn(N, S) == UNION {{n} \X (Len(ParentIn(N, n)) + 1 .. Len(n)) : n \in S}

(* A node with its end at b and its parent's at a has b - a tokens.        *)
LEMMA TokensOfOne ==
  ASSUME NEW n, NEW a \in Nat, NEW b \in Nat, a <= b
  PROVE  IsFiniteSet({n} \X (a + 1 .. b)) /\ Cardinality({n} \X (a + 1 .. b)) = b - a
<1> DEFINE I == a + 1 .. b
<1>1. a + 1 \in Int /\ b \in Int
  OBVIOUS
<1>2. IsFiniteSet(I) /\ Cardinality(I) = IF a + 1 > b THEN 0 ELSE b - (a + 1) + 1
  BY <1>1, FS_Interval
<1>3. Cardinality(I) = b - a /\ b - a \in Nat
  BY <1>2
<1>4. IsFiniteSet({n}) /\ Cardinality({n}) = 1
  BY FS_Singleton
<1> HIDE DEF I
<1>5. IsFiniteSet({n} \X I) /\ Cardinality({n} \X I) = Cardinality({n}) * Cardinality(I)
  BY <1>2, <1>4, FS_Product
<1>6. Cardinality({n} \X I) = 1 * (b - a)
  BY <1>3, <1>4, <1>5, Zenon
<1>7. 1 * (b - a) = b - a
  BY <1>3
<1> QED
  BY <1>5, <1>6, <1>7, Zenon DEF I

(* A parent is shorter.                                                    *)
LEMMA ParentLength ==
  ASSUME NEW N, N \subseteq Text, Root \in N, NEW n \in N
  PROVE  /\ Len(n) \in Nat /\ Len(ParentIn(N, n)) \in Nat /\ Len(ParentIn(N, n)) <= Len(n)
         /\ n # Root => Len(ParentIn(N, n)) < Len(n)
<1>1. n \in Text /\ Len(n) \in Nat
  BY DEF Text
<1>2. CASE n = Root
  BY <1>1, <1>2, ParentOfRoot
<1>3. CASE n # Root
  BY <1>1, <1>3, ParentIs, Lengths
<1> QED
  BY <1>2, <1>3

(* Finitely many nodes have finitely many tokens.                          *)
LEMMA TokensAreFinite ==
  ASSUME NEW N, N \subseteq Text, Root \in N, NEW S, S \subseteq N, IsFiniteSet(S)
  PROVE  IsFiniteSet(TokensIn(N, S)) /\ Cardinality(TokensIn(N, S)) \in Nat
<1> DEFINE f == [n \in S |-> {n} \X (Len(ParentIn(N, n)) + 1 .. Len(n))]
           T == {f[n] : n \in S}
<1>1. f \in Surjection(S, T)
  BY DEF Surjection
<1>2. IsFiniteSet(T)
  BY <1>1, FS_Surjection
<1>3. ASSUME NEW n \in S
      PROVE  IsFiniteSet(f[n])
  <2>1. /\ Len(n) \in Nat /\ Len(ParentIn(N, n)) \in Nat
        /\ Len(ParentIn(N, n)) <= Len(n)
    BY ParentLength
  <2> QED
    BY <2>1, TokensOfOne
<1>4. IsFiniteSet(UNION T)
  BY <1>2, <1>3, FS_UNION
<1>5. UNION T = TokensIn(N, S)
  BY DEF TokensIn
<1> QED
  BY <1>4, <1>5, FS_CardinalityType

(* Disjoint sets are counted one by one.                                   *)
LEMMA DisjointSum ==
  ASSUME NEW A, NEW B, IsFiniteSet(A), IsFiniteSet(B), A \intersect B = {}
  PROVE  Cardinality(A \union B) = Cardinality(A) + Cardinality(B)
<1>1. Cardinality(A) \in Nat /\ Cardinality(B) \in Nat
  BY FS_CardinalityType
<1>2. Cardinality(A \union B) = Cardinality(A) + Cardinality(B) - Cardinality(A \intersect B)
  BY FS_Union
<1>3. Cardinality(A \intersect B) = 0
  BY FS_EmptySet
<1> QED
  BY <1>1, <1>2, <1>3

(* One more node adds its tokens.                                          *)
LEMMA TokensAdd ==
  ASSUME NEW N, N \subseteq Text, Root \in N, NEW S, S \subseteq N, IsFiniteSet(S),
         NEW n \in N, n \notin S
  PROVE  Cardinality(TokensIn(N, S \union {n}))
           = Cardinality(TokensIn(N, S)) + (Len(n) - Len(ParentIn(N, n)))
<1> DEFINE A == TokensIn(N, S)
           B == {n} \X (Len(ParentIn(N, n)) + 1 .. Len(n))
<1>1. Len(n) \in Nat /\ Len(ParentIn(N, n)) \in Nat /\ Len(ParentIn(N, n)) <= Len(n)
  BY ParentLength
<1>2. IsFiniteSet(B) /\ Cardinality(B) = Len(n) - Len(ParentIn(N, n))
  BY <1>1, TokensOfOne
<1>3. IsFiniteSet(A)
  BY TokensAreFinite
<1>4. A \intersect B = {}
  BY DEF TokensIn
<1>5. TokensIn(N, S \union {n}) = A \union B
  BY DEF TokensIn
<1> HIDE DEF A, B
<1>6. Cardinality(A \union B) = Cardinality(A) + Cardinality(B)
  BY <1>2, <1>3, <1>4, DisjointSum
<1> QED
  BY <1>2, <1>5, <1>6, Zenon DEF A

(* More nodes add the tokens of those that were not there.                 *)
LEMMA TokensUnion ==
  ASSUME NEW N, N \subseteq Text, Root \in N, IsFiniteSet(N), NEW S, S \subseteq N, NEW P, P \subseteq N
  PROVE  Cardinality(TokensIn(N, S \union P))
           = Cardinality(TokensIn(N, S)) + Cardinality(TokensIn(N, P \ S))
<1> DEFINE A == TokensIn(N, S)
           B == TokensIn(N, P \ S)
<1>1. IsFiniteSet(S) /\ IsFiniteSet(P \ S) /\ P \ S \subseteq N
  BY FS_Subset
<1>2. IsFiniteSet(A) /\ IsFiniteSet(B)
  BY <1>1, TokensAreFinite
<1>3. A \intersect B = {} /\ TokensIn(N, S \union P) = A \union B
  BY DEF TokensIn
<1> HIDE DEF A, B
<1>4. Cardinality(A \union B) = Cardinality(A) + Cardinality(B)
  BY <1>2, <1>3, DisjointSum
<1> QED
  BY <1>3, <1>4, Zenon DEF A, B

(* An edge in two parts is as long as the whole.                           *)
LEMMA SumOfLengths ==
  \A x, a, b, c \in Int : x + (a - b) + (b - c) = x + (a - c)
  OBVIOUS

(* A split divides the tokens of a node between two.                       *)
LEMMA TokensSplit ==
  ASSUME Radix(nodes), IsFiniteSet(nodes), NEW p \in Text, p \notin nodes,
         NEW S, S \subseteq nodes
  PROVE  Cardinality(TokensIn(WithPrompt(p), S \union {Common(c, p) : c \in Fork(p) \intersect S}))
           = Cardinality(TokensIn(nodes, S))
<1> DEFINE N == WithPrompt(p)
<1>1. /\ N \subseteq Text /\ Root \in N /\ nodes \subseteq N /\ nodes \subseteq Text /\ Root \in nodes
  BY InsertKeepsRadix DEF Radix, WithPrompt
<1>2. ASSUME NEW P, P \subseteq S \ Fork(p)
      PROVE  TokensIn(N, P) = TokensIn(nodes, P)
  <2>1. \A n \in P : ParentIn(N, n) = ParentIn(nodes, n)
    BY <1>2, InsertKeepsParents DEF Parent
  <2> QED
    BY <2>1 DEF TokensIn
<1>3. CASE Fork(p) \intersect S = {}
  <2>1. S \union {Common(c, p) : c \in Fork(p) \intersect S} = S
    BY <1>3
  <2> QED
    BY <1>2, <1>3, <2>1
<1>4. ASSUME NEW c \in Fork(p), c \in S
      PROVE  Cardinality(TokensIn(N, S \union {Common(d, p) : d \in Fork(p) \intersect S}))
               = Cardinality(TokensIn(nodes, S))
  <2> DEFINE m == Common(c, p)
             R == S \ {c}
             q == Parent(p)
  <2>1. /\ m \in Text /\ m \notin nodes /\ Extends(m, q) /\ Extends(c, m)
        /\ c \in nodes /\ c \in Text /\ Parent(c) = q /\ q \in Text
    BY ForkIs, NewParent
  <2>2. S \union {Common(d, p) : d \in Fork(p) \intersect S} = (R \union {c}) \union {m}
    BY <1>4, ForkIsUnique
  <2>3. R \subseteq S \ Fork(p) /\ R \union {c} = S
    BY <1>4, ForkIsUnique
  <2>4. IsFiniteSet(R) /\ IsFiniteSet(R \union {c})
    <3>1. R \in SUBSET nodes /\ R \union {c} \in SUBSET nodes
      BY <2>1
    <3> QED
      BY <3>1, FS_Subset
  <2>5. m \in N /\ c \in N /\ m # c /\ R \subseteq N /\ m \notin R \union {c} /\ c \notin R
    BY <1>1, <1>4, <2>1 DEF WithPrompt
  <2>6. ParentIn(N, c) = m /\ ParentIn(N, m) = q /\ ParentIn(nodes, c) = q
    BY <2>1, InsertKeepsParents DEF Parent
  <2> HIDE DEF R
  <2>7. Cardinality(TokensIn(N, R \union {c})) = Cardinality(TokensIn(N, R)) + (Len(c) - Len(m))
    BY <1>1, <2>4, <2>5, <2>6, TokensAdd
  <2>8. Cardinality(TokensIn(N, (R \union {c}) \union {m}))
          = Cardinality(TokensIn(N, R \union {c})) + (Len(m) - Len(q))
    <3> DEFINE Q == R \union {c}
    <3>1. Q \subseteq N /\ IsFiniteSet(Q) /\ m \notin Q
      BY <2>4, <2>5
    <3> HIDE DEF Q
    <3>2. Cardinality(TokensIn(N, Q \union {m}))
            = Cardinality(TokensIn(N, Q)) + (Len(m) - Len(ParentIn(N, m)))
      BY <1>1, <2>5, <3>1, TokensAdd
    <3> QED
      BY <2>6, <3>2, Zenon DEF Q
  <2>9. Cardinality(TokensIn(nodes, R \union {c})) = Cardinality(TokensIn(nodes, R)) + (Len(c) - Len(q))
    BY <1>1, <2>1, <2>3, <2>4, <2>5, <2>6, TokensAdd
  <2>10. TokensIn(N, R) = TokensIn(nodes, R)
    BY <1>2, <2>3
  <2>11. Cardinality(TokensIn(nodes, R)) \in Nat
    BY <1>1, <2>3, <2>4, TokensAreFinite, FS_CardinalityType
  <2>12. Len(c) \in Nat /\ Len(m) \in Nat /\ Len(q) \in Nat
    BY <2>1 DEF Text
  <2>13. Cardinality(TokensIn(N, (R \union {c}) \union {m}))
           = Cardinality(TokensIn(nodes, R)) + (Len(c) - Len(m)) + (Len(m) - Len(q))
    BY <2>7, <2>8, <2>10, Zenon
  <2>14. Cardinality(TokensIn(nodes, R)) + (Len(c) - Len(m)) + (Len(m) - Len(q))
           = Cardinality(TokensIn(nodes, R)) + (Len(c) - Len(q))
    <3> HIDE DEF m, q
    <3> QED
      BY <2>11, <2>12, SumOfLengths
  <2> QED
    BY <2>2, <2>3, <2>9, <2>13, <2>14, Zenon
<1> QED
  BY <1>3, <1>4
-----------------------------------------------------------------------------
(***************************************************************************)
(* The inductive invariant of the tree.                                    *)
(***************************************************************************)

(* The root's counts start ahead of every other node's and stay ahead.     *)
RootIsBusiest ==
  \A g \in Gpu : /\ uncompleted[Root][g] > 0
                 /\ \A n \in nodes \ {Root} : uncompleted[n][g] < uncompleted[Root][g]

(* An eviction knows what it still has to free, and every node it could    *)
(* free.                                                                   *)
EvictionIsComplete ==
  victim # NoGpu =>
    /\ allocated[victim] = MaxTokens + toEvict
    /\ \A n \in CachedNodes(victim) : uncompleted[n][victim] = 0 => n \in heap

(* The inductive invariant of the tree. The counts need the prompts of     *)
(* unfinished requests to be nodes, the sizes need the tree to be a radix  *)
(* tree, and the end of an eviction needs the root's counts ahead of the   *)
(* others'.                                                                *)
RadixInv ==
  /\ RadixTypeOK /\ Radix(nodes) /\ IsFiniteSet(nodes)
  /\ IsFiniteSet(users) /\ \A u \in users : u.req <= admitted
  /\ InUseStaysCached /\ CountsAreExact /\ AllocatedIsExact
  /\ RootIsBusiest /\ EvictionIsComplete

(* Prompts are token sequences other than the root's.                      *)
LEMMA PromptIsText == \A p \in Prompts : p \in Text /\ p # Root
  BY RadixAssumption DEF Text

(* The sizes, in terms of TokensIn.                                        *)
LEMMA SizeIs ==
  /\ \A S : NumTokensOf(S) = Cardinality(TokensIn(nodes, S))
  /\ AllocatedIsExact <=> \A g \in Gpu : allocated[g] = Cardinality(TokensIn(nodes, CachedNodes(g)))
  BY DEF NumTokensOf, Tokens, Parent, TokensIn, AllocatedIsExact

(* The empty tree.                                                         *)
LEMMA RadixInitInv == RadixInit => RadixInv
<1> SUFFICES ASSUME RadixInit PROVE RadixInv
  OBVIOUS
<1> USE DEF RadixInit
<1>1. Root \in Text /\ Common(Root, Root) = Root /\ Len(Root) = 0 /\ SubSeq(Root, 1, 0) = Root
  BY Order, CommonSymmetric, SubSeqEmpty DEF Root
<1>2. Radix(nodes)
  BY <1>1 DEF Radix
<1>3. RadixTypeOK
  <2>1. Root \in {SubSeq(Root, 1, k) : k \in 0 .. Len(Root)}
    BY <1>1
  <2>2. Root \in UNION {{SubSeq(p, 1, k) : k \in 0 .. Len(p)} : p \in Prompts \union {Root}}
    BY <2>1
  <2>3. uncompleted \in [nodes -> [Gpu -> Nat]] /\ cachedOn \in [nodes -> SUBSET Gpu]
    OBVIOUS
  <2>4. allocated \in [Gpu -> Nat] /\ admitted \in 0 .. NumRequests
    BY RadixAssumption
  <2> QED
    BY <2>2, <2>3, <2>4 DEF RadixTypeOK
<1>4. IsFiniteSet(nodes) /\ IsFiniteSet(users)
  BY FS_EmptySet, FS_Singleton
<1>5. \A g \in Gpu : TokensIn(nodes, CachedNodes(g)) = {}
  BY DEF TokensIn, CachedNodes
<1>6. AllocatedIsExact
  BY <1>5, SizeIs, FS_EmptySet
<1>7. /\ InUseStaysCached /\ CountsAreExact /\ RootIsBusiest /\ EvictionIsComplete
      /\ \A u \in users : u.req <= admitted
  BY DEF InUseStaysCached, CountsAreExact, RootIsBusiest, EvictionIsComplete
<1> QED
  BY <1>2, <1>3, <1>4, <1>6, <1>7 DEF RadixInv

(* No step of the tree.                                                    *)
LEMMA RadixStutter == RadixInv /\ UNCHANGED radixVars => RadixInv'
  BY DEF RadixInv, RadixTypeOK, Radix, InUseStaysCached, CountsAreExact, AllocatedIsExact,
         RootIsBusiest, EvictionIsComplete, NumTokensOf, Tokens, Parent, CachedNodes,
         radixVars, evictVars

(* A field keeps its type through an insertion.                            *)
LEMMA GrownType ==
  ASSUME NEW p \in Text, NEW R, NEW f \in [nodes -> R], NEW zero \in R
  PROVE  Grown(f, p, zero) \in [WithPrompt(p) -> R]
<1> SUFFICES ASSUME NEW n \in WithPrompt(p) PROVE Grown(f, p, zero)[n] \in R
  BY DEF Grown, WithPrompt
<1>1. CASE n \in nodes
  BY <1>1 DEF Grown, WithPrompt
<1>2. CASE n \notin nodes /\ \E c \in Fork(p) : n = Common(c, p)
  <2> DEFINE d == CHOOSE c \in Fork(p) : n = Common(c, p)
  <2>1. d \in Fork(p)
    BY <1>2
  <2>2. d \in nodes
    BY <2>1 DEF Fork
  <2>3. Grown(f, p, zero)[n] = f[d]
    BY <1>2 DEF Grown, WithPrompt
  <2> HIDE DEF d
  <2> QED
    BY <2>2, <2>3
<1>3. CASE n \notin nodes /\ ~ \E c \in Fork(p) : n = Common(c, p)
  BY <1>3 DEF Grown, WithPrompt
<1> QED
  BY <1>1, <1>2, <1>3

(* A prompt is inserted: the node split off takes the counts and replicas  *)
(* of its child, so both stay exact.                                       *)
LEMMA InsertStep ==
  ASSUME RadixInv, victim = NoGpu, NEW p \in Prompts, Insert(p)
  PROVE  RadixInv'
<1> DEFINE PromptPrefixes == UNION {{SubSeq(q, 1, k) : k \in 0 .. Len(q)} : q \in Prompts \union {Root}}
<1>1. CASE p \in nodes
  <2>1. DOMAIN uncompleted = nodes
    BY DEF RadixInv, RadixTypeOK
  <2>2. UNCHANGED radixVars
    BY <1>1, <2>1 DEF Insert, radixVars, evictVars
  <2> QED
    BY <2>2, RadixStutter
<1>2. CASE p \notin nodes
  <2> DEFINE zero == [g \in Gpu |-> 0]
             S == {Common(c, p) : c \in Fork(p)}
  <2>1. p \in Text /\ p # Root /\ Radix(nodes) /\ IsFiniteSet(nodes)
    BY PromptIsText DEF RadixInv
  <2>2. /\ uncompleted' = Grown(uncompleted, p, zero) /\ cachedOn' = Grown(cachedOn, p, {})
        /\ UNCHANGED <<allocated, admitted, users, victim, heap, toEvict>>
    BY <1>2 DEF Insert, evictVars
  <2>3. nodes' = WithPrompt(p)
    BY <1>2, <2>1, <2>2, GrownIs DEF Insert
  <2>4. /\ \A n \in nodes : uncompleted'[n] = uncompleted[n] /\ cachedOn'[n] = cachedOn[n]
        /\ \A c \in Fork(p) : /\ uncompleted'[Common(c, p)] = uncompleted[c]
                              /\ cachedOn'[Common(c, p)] = cachedOn[c]
        /\ p \notin S => uncompleted'[p] = zero /\ cachedOn'[p] = {}
    BY <1>2, <2>1, <2>2, GrownIs
  <2>5. \A n \in nodes' : n \in nodes \/ n \in S \/ (n = p /\ p \notin S)
    BY <2>3 DEF WithPrompt
  <2>6. nodes \subseteq nodes' /\ Root \in nodes /\ nodes \subseteq Text
    BY <2>1, <2>3 DEF WithPrompt, Radix
  <2>7. RadixTypeOK'
    <3>1. zero \in [Gpu -> Nat]
      OBVIOUS
    <3>2. uncompleted' \in [nodes' -> [Gpu -> Nat]]
      BY <2>1, <2>2, <2>3, <3>1, GrownType DEF RadixInv, RadixTypeOK
    <3>3. cachedOn' \in [nodes' -> SUBSET Gpu]
      BY <2>1, <2>2, <2>3, GrownType DEF RadixInv, RadixTypeOK
    <3>4. ASSUME NEW n \in Text, Extends(p, n)
          PROVE  n \in PromptPrefixes
      <4>1. Len(n) \in 0 .. Len(p) /\ n = SubSeq(p, 1, Len(n))
        BY <2>1, <3>4, PrefixLength DEF Text
      <4>2. n \in {SubSeq(p, 1, k) : k \in 0 .. Len(p)}
        BY <4>1
      <4> QED
        BY <4>2
    <3>5. p \in PromptPrefixes /\ S \subseteq PromptPrefixes
      BY <1>2, <2>1, <3>4, ForkIs, Order
    <3>6. nodes \subseteq PromptPrefixes
      BY DEF RadixInv, RadixTypeOK
    <3>7. nodes' \subseteq PromptPrefixes
      BY <2>5, <3>5, <3>6
    <3> HIDE DEF PromptPrefixes
    <3>8. /\ allocated' \in [Gpu -> Nat] /\ admitted' \in 0 .. NumRequests /\ users' \subseteq User
          /\ victim' \in Gpu \union {NoGpu} /\ heap' \subseteq nodes' /\ toEvict' \in Int
      BY <2>2, <2>6 DEF RadixInv, RadixTypeOK
    <3> QED
      BY <2>6, <3>2, <3>3, <3>7, <3>8 DEF RadixTypeOK, PromptPrefixes
  <2>8. Radix(nodes')
    BY <1>2, <2>1, <2>3, InsertKeepsRadix
  <2>9. IsFiniteSet(nodes')
    BY <1>2, <2>1, <2>3, WithPromptIsFinite
  <2>10. IsFiniteSet(users') /\ \A u \in users' : u.req <= admitted'
    BY <2>2 DEF RadixInv
  <2>11. /\ \A u \in users : u.prompt \in nodes /\ u.prompt \in Text
         /\ \A u \in users, n \in nodes : Extends(u.prompt, n) => u.gpu \in cachedOn[n]
         /\ users \subseteq User
    BY <2>6 DEF RadixInv, InUseStaysCached, RadixTypeOK
  <2>12. \A u \in users, c \in Fork(p) : Extends(u.prompt, Common(c, p)) <=> Extends(u.prompt, c)
    BY <1>2, <2>1, <2>11, ForkIs
  <2>13. p \notin S => \A u \in users : ~Extends(u.prompt, p)
    BY <1>2, <2>1, <2>11, NewLeaf
  <2>14. Fork(p) \subseteq nodes \ {Root} /\ S \intersect nodes = {}
    BY <1>2, <2>1, ForkIs
  <2>15. InUseStaysCached'
    <3> SUFFICES ASSUME NEW u \in users
                 PROVE  /\ u.prompt \in nodes'
                        /\ \A n \in nodes' : Extends(u.prompt, n) => u.gpu \in cachedOn'[n]
      BY <2>2 DEF InUseStaysCached
    <3>1. u.prompt \in nodes'
      BY <2>6, <2>11
    <3>2. ASSUME NEW n \in nodes', Extends(u.prompt, n)
          PROVE  u.gpu \in cachedOn'[n]
      <4>1. CASE n \in nodes
        BY <2>4, <2>11, <3>2, <4>1
      <4>2. CASE n \in S
        <5>1. PICK c \in Fork(p) : n = Common(c, p)
          BY <4>2
        <5>2. u.gpu \in cachedOn[c]
          BY <2>11, <2>12, <2>14, <3>2, <5>1
        <5> QED
          BY <2>4, <5>1, <5>2
      <4>3. CASE n = p /\ p \notin S
        BY <2>13, <3>2, <4>3
      <4> QED
        BY <2>5, <4>1, <4>2, <4>3
    <3> QED
      BY <3>1, <3>2
  <2>16. CountsAreExact'
    <3> DEFINE Through(n, g) == {u \in users : u.gpu = g /\ Extends(u.prompt, n)}
    <3> SUFFICES ASSUME NEW n \in nodes', n # Root, NEW g \in Gpu
                 PROVE  uncompleted'[n][g] = Cardinality(Through(n, g))
      BY <2>2 DEF CountsAreExact
    <3>0. \A m \in nodes \ {Root} : uncompleted[m][g] = Cardinality(Through(m, g))
      BY DEF RadixInv, CountsAreExact
    <3>1. CASE n \in nodes
      BY <2>4, <3>0, <3>1
    <3>2. CASE n \in S
      <4>1. PICK c \in Fork(p) : n = Common(c, p)
        BY <3>2
      <4>2. Through(n, g) = Through(c, g)
        BY <2>12, <4>1
      <4>3. uncompleted'[n] = uncompleted[c]
        BY <2>4, <4>1
      <4> HIDE DEF Through
      <4> QED
        BY <2>14, <3>0, <4>2, <4>3
    <3>3. CASE n = p /\ p \notin S
      <4>1. Through(n, g) = {}
        BY <2>13, <3>3
      <4>2. uncompleted'[n][g] = 0
        BY <2>4, <3>3
      <4> HIDE DEF Through
      <4> QED
        BY <4>1, <4>2, FS_EmptySet
    <3> QED
      BY <2>5, <3>1, <3>2, <3>3
  <2>17. AllocatedIsExact'
    <3> DEFINE Size(N, C, g) == Cardinality(TokensIn(N, {n \in N : g \in C[n]}))
    <3>1. AllocatedIsExact' <=> \A g \in Gpu : allocated'[g] = Size(nodes', cachedOn', g)
      BY DEF AllocatedIsExact, NumTokensOf, Tokens, Parent, TokensIn, CachedNodes
    <3>2. \A g \in Gpu : allocated[g] = Size(nodes, cachedOn, g)
      BY SizeIs DEF RadixInv, CachedNodes
    <3>3. ASSUME NEW g \in Gpu
          PROVE  Size(nodes', cachedOn', g) = Size(nodes, cachedOn, g)
      <4> DEFINE H == {n \in nodes : g \in cachedOn[n]}
      <4>1. {n \in nodes' : g \in cachedOn'[n]} = H \union {Common(c, p) : c \in Fork(p) \intersect H}
        BY <2>3, <2>4, <2>5, <2>6, <2>14 DEF WithPrompt
      <4>2. H \subseteq nodes
        OBVIOUS
      <4> HIDE DEF H
      <4>3. Cardinality(TokensIn(WithPrompt(p), H \union {Common(c, p) : c \in Fork(p) \intersect H}))
              = Cardinality(TokensIn(nodes, H))
        BY <1>2, <2>1, <4>2, TokensSplit
      <4> QED
        BY <2>3, <4>1, <4>3, Zenon DEF H
    <3> HIDE DEF Size
    <3> QED
      BY <2>2, <3>1, <3>2, <3>3
  <2>18. RootIsBusiest'
    <3> SUFFICES ASSUME NEW g \in Gpu
                 PROVE  /\ uncompleted'[Root][g] > 0
                        /\ \A n \in nodes' \ {Root} : uncompleted'[n][g] < uncompleted'[Root][g]
      BY DEF RootIsBusiest
    <3>1. /\ uncompleted[Root][g] > 0
          /\ \A n \in nodes \ {Root} : uncompleted[n][g] < uncompleted[Root][g]
      BY DEF RadixInv, RootIsBusiest
    <3>2. uncompleted'[Root] = uncompleted[Root]
      BY <2>4, <2>6
    <3>3. ASSUME NEW n \in nodes' \ {Root}
          PROVE  uncompleted'[n][g] < uncompleted[Root][g]
      <4>1. CASE n \in nodes
        BY <2>4, <3>1, <4>1
      <4>2. CASE n \in S
        <5>1. PICK c \in Fork(p) : n = Common(c, p)
          BY <4>2
        <5> QED
          BY <2>4, <2>14, <3>1, <5>1
      <4>3. CASE n = p /\ p \notin S
        BY <2>4, <3>1, <4>3
      <4> QED
        BY <2>5, <4>1, <4>2, <4>3
    <3> QED
      BY <3>1, <3>2, <3>3
  <2>19. EvictionIsComplete'
    BY <2>2 DEF EvictionIsComplete
  <2> QED
    BY <2>7, <2>8, <2>9, <2>10, <2>15, <2>16, <2>17, <2>18, <2>19 DEF RadixInv
<1> QED
  BY <1>1, <1>2

(* Finitely many requests run through a node.                              *)
LEMMA ThroughIsFinite ==
  ASSUME RadixInv
  PROVE  \A n, g : IsFiniteSet({u \in users : u.gpu = g /\ Extends(u.prompt, n)})
  BY FS_Subset DEF RadixInv

(* A request is counted along its path, which is then cached.              *)
LEMMA UpdateStep ==
  ASSUME RadixInv, victim = NoGpu, admitted < NumRequests,
         NEW p \in Prompts \intersect nodes, NEW g \in Gpu, UpdateCacheMetadata(p, g)
  PROVE  RadixInv'
<1> DEFINE new == [req |-> admitted + 1, prompt |-> p, gpu |-> g]
<1>1. /\ nodes' = nodes /\ users' = users \union {new} /\ admitted' = admitted + 1
      /\ victim' = victim /\ heap' = heap /\ toEvict' = toEvict
      /\ allocated' = [allocated EXCEPT ![g] = @ + NumTokensOf(Path(p) \ CachedNodes(g))]
      /\ uncompleted' = [n \in nodes |->
           IF Extends(p, n) THEN [uncompleted[n] EXCEPT ![g] = @ + 1] ELSE uncompleted[n]]
      /\ cachedOn' = [n \in nodes |->
           IF Extends(p, n) THEN cachedOn[n] \union {g} ELSE cachedOn[n]]
  BY DEF UpdateCacheMetadata, evictVars
<1>2. /\ RadixTypeOK /\ Radix(nodes) /\ IsFiniteSet(nodes) /\ IsFiniteSet(users)
      /\ \A u \in users : u.req <= admitted
  BY DEF RadixInv
<1>3. admitted \in Nat /\ NumRequests \in Nat /\ admitted + 1 \in 1 .. NumRequests
  BY <1>2, RadixAssumption DEF RadixTypeOK
<1>4. new \in User /\ new.prompt = p /\ new.gpu = g /\ new.req = admitted + 1
  BY <1>3 DEF User, Request
<1>5. new \notin users
  BY <1>2, <1>3, <1>4
<1>6. p \in Text /\ nodes \subseteq Text /\ Root \in nodes /\ Extends(p, Root)
  BY <1>2, Order DEF Radix
<1> HIDE DEF new
<1>7. /\ \A n \in nodes, h \in Gpu : uncompleted[n][h] \in Nat
      /\ \A n \in nodes, h \in Gpu :
           uncompleted'[n][h] = IF Extends(p, n) /\ h = g THEN uncompleted[n][h] + 1
                                                           ELSE uncompleted[n][h]
  BY <1>1, <1>2 DEF RadixTypeOK
<1>8. \A h \in Gpu : {n \in nodes' : h \in cachedOn'[n]}
                       = CachedNodes(h) \union (IF h = g THEN Path(p) ELSE {})
  BY <1>1 DEF CachedNodes, Path
<1>9. AllocatedIsExact' /\ allocated' \in [Gpu -> Nat]
  <2> DEFINE Size(S) == Cardinality(TokensIn(nodes, S))
  <2>1. AllocatedIsExact' <=> \A h \in Gpu : allocated'[h] = Size({n \in nodes' : h \in cachedOn'[n]})
    BY <1>1 DEF AllocatedIsExact, NumTokensOf, Tokens, Parent, TokensIn, CachedNodes
  <2>2. /\ \A h \in Gpu : allocated[h] = Size(CachedNodes(h))
        /\ NumTokensOf(Path(p) \ CachedNodes(g)) = Size(Path(p) \ CachedNodes(g))
    BY SizeIs DEF RadixInv
  <2>3. Size(CachedNodes(g) \union Path(p)) = Size(CachedNodes(g)) + Size(Path(p) \ CachedNodes(g))
    BY <1>2, <1>6, TokensUnion DEF CachedNodes, Path
  <2>4. Size(Path(p) \ CachedNodes(g)) \in Nat
    <3>1. Path(p) \ CachedNodes(g) \in SUBSET nodes
      BY DEF Path
    <3>2. IsFiniteSet(Path(p) \ CachedNodes(g))
      BY <1>2, <3>1, FS_Subset
    <3> QED
      BY <1>6, <3>1, <3>2, TokensAreFinite
  <2>5. allocated \in [Gpu -> Nat]
    BY <1>2 DEF RadixTypeOK
  <2> HIDE DEF Size
  <2>6. \A h \in Gpu : allocated'[h] = IF h = g THEN allocated[g] + Size(Path(p) \ CachedNodes(g))
                                                 ELSE allocated[h]
    BY <1>1, <2>2, <2>5
  <2>7. allocated' \in [Gpu -> Nat]
    BY <1>1, <2>2, <2>4, <2>5
  <2>8. ASSUME NEW h \in Gpu
        PROVE  allocated'[h] = Size({n \in nodes' : h \in cachedOn'[n]})
    <3>1. CASE h = g
      BY <1>8, <2>2, <2>3, <2>6, <3>1
    <3>2. CASE h # g
      <4>1. {n \in nodes' : h \in cachedOn'[n]} = CachedNodes(h)
        BY <1>8, <3>2
      <4> QED
        BY <2>2, <2>6, <3>2, <4>1
    <3> QED
      BY <3>1, <3>2
  <2> QED
    BY <2>1, <2>7, <2>8
<1>10. RadixTypeOK'
  <2>1. uncompleted' \in [nodes' -> [Gpu -> Nat]] /\ cachedOn' \in [nodes' -> SUBSET Gpu]
    BY <1>1, <1>2 DEF RadixTypeOK
  <2>2. admitted' \in 0 .. NumRequests
    BY <1>1, <1>3
  <2>3. users' \subseteq User
    BY <1>1, <1>2, <1>4 DEF RadixTypeOK
  <2>4. /\ Root \in nodes' /\ victim' \in Gpu \union {NoGpu} /\ heap' \subseteq nodes'
        /\ toEvict' \in Int
        /\ nodes' \subseteq UNION {{SubSeq(q, 1, k) : k \in 0 .. Len(q)} : q \in Prompts \union {Root}}
    BY <1>1, <1>2 DEF RadixTypeOK
  <2> QED
    BY <1>9, <2>1, <2>2, <2>3, <2>4 DEF RadixTypeOK
<1>11. IsFiniteSet(users') /\ \A u \in users' : u.req <= admitted'
  <2>1. IsFiniteSet(users')
    BY <1>1, <1>2, FS_AddElement
  <2>2. \A u \in users : u.req \in Int
    BY <1>2 DEF RadixTypeOK, User, Request
  <2> QED
    BY <1>1, <1>2, <1>3, <1>4, <2>1, <2>2
<1>12. InUseStaysCached'
  BY <1>1, <1>4 DEF RadixInv, InUseStaysCached
<1>13. CountsAreExact'
  <2> DEFINE Through(U, n, h) == {u \in U : u.gpu = h /\ Extends(u.prompt, n)}
  <2> SUFFICES ASSUME NEW n \in nodes, n # Root, NEW h \in Gpu
               PROVE  uncompleted'[n][h] = Cardinality(Through(users', n, h))
    BY <1>1 DEF CountsAreExact
  <2>1. uncompleted[n][h] = Cardinality(Through(users, n, h)) /\ IsFiniteSet(Through(users, n, h))
    BY ThroughIsFinite DEF RadixInv, CountsAreExact
  <2>2. CASE Extends(p, n) /\ h = g
    <3>1. Through(users', n, h) = Through(users, n, h) \union {new} /\ new \notin Through(users, n, h)
      BY <1>1, <1>4, <1>5, <2>2
    <3> HIDE DEF Through
    <3>2. Cardinality(Through(users, n, h) \union {new}) = Cardinality(Through(users, n, h)) + 1
      BY <2>1, <3>1, FS_AddElement
    <3> QED
      BY <1>7, <2>1, <2>2, <3>1, <3>2
  <2>3. CASE ~(Extends(p, n) /\ h = g)
    <3>1. Through(users', n, h) = Through(users, n, h)
      BY <1>1, <1>4, <2>3
    <3> HIDE DEF Through
    <3> QED
      BY <1>7, <2>1, <2>3, <3>1
  <2> QED
    BY <2>2, <2>3
<1>14. RootIsBusiest'
  <2> SUFFICES ASSUME NEW h \in Gpu
               PROVE  /\ uncompleted'[Root][h] > 0
                      /\ \A n \in nodes \ {Root} : uncompleted'[n][h] < uncompleted'[Root][h]
    BY <1>1 DEF RootIsBusiest
  <2>1. /\ uncompleted[Root][h] > 0
        /\ \A n \in nodes \ {Root} : uncompleted[n][h] < uncompleted[Root][h]
    BY DEF RadixInv, RootIsBusiest
  <2> QED
    BY <1>6, <1>7, <2>1
<1>15. EvictionIsComplete'
  BY <1>1 DEF EvictionIsComplete
<1>16. Radix(nodes') /\ IsFiniteSet(nodes')
  BY <1>1, <1>2
<1> QED
  BY <1>9, <1>10, <1>11, <1>12, <1>13, <1>14, <1>15, <1>16 DEF RadixInv

(* It is discounted along a path that splits may have lengthened.          *)
LEMMA RemoveStep ==
  ASSUME RadixInv, victim = NoGpu, NEW u \in users, RemoveCompleted(u)
  PROVE  RadixInv'
<1> DEFINE p == u.prompt
           g == u.gpu
<1>1. /\ nodes' = nodes /\ users' = users \ {u} /\ admitted' = admitted
      /\ victim' = victim /\ heap' = heap /\ toEvict' = toEvict
      /\ allocated' = allocated /\ cachedOn' = cachedOn
      /\ uncompleted' = [n \in nodes |->
           IF Extends(p, n) /\ n # Root THEN [uncompleted[n] EXCEPT ![g] = @ - 1]
                                        ELSE uncompleted[n]]
  BY DEF RemoveCompleted, evictVars
<1>2. /\ RadixTypeOK /\ Radix(nodes) /\ IsFiniteSet(nodes) /\ IsFiniteSet(users)
      /\ \A v \in users : v.req <= admitted
  BY DEF RadixInv
<1>3. p \in Prompts /\ g \in Gpu
  BY <1>2 DEF RadixTypeOK, User
<1> HIDE DEF p, g
<1>4. /\ \A n \in nodes, h \in Gpu : uncompleted[n][h] \in Nat
      /\ \A n \in nodes, h \in Gpu :
           uncompleted'[n][h] = IF Extends(p, n) /\ n # Root /\ h = g THEN uncompleted[n][h] - 1
                                                                        ELSE uncompleted[n][h]
  BY <1>1, <1>2 DEF RadixTypeOK
<1> DEFINE Through(U, n, h) == {v \in U : v.gpu = h /\ Extends(v.prompt, n)}
<1>5. ASSUME NEW n \in nodes, n # Root, NEW h \in Gpu
      PROVE  uncompleted'[n][h] \in Nat /\ uncompleted'[n][h] = Cardinality(Through(users', n, h))
  <2>1. uncompleted[n][h] = Cardinality(Through(users, n, h)) /\ IsFiniteSet(Through(users, n, h))
    BY <1>5, ThroughIsFinite DEF RadixInv, CountsAreExact
  <2>2. CASE Extends(p, n) /\ h = g
    <3>1. Through(users', n, h) = Through(users, n, h) \ {u} /\ u \in Through(users, n, h)
      BY <1>1, <2>2 DEF p, g
    <3> HIDE DEF Through
    <3>2. /\ Cardinality(Through(users, n, h) \ {u}) = Cardinality(Through(users, n, h)) - 1
          /\ IsFiniteSet(Through(users, n, h) \ {u})
      BY <2>1, <3>1, FS_RemoveElement
    <3>3. Cardinality(Through(users, n, h) \ {u}) \in Nat
      BY <3>2, FS_CardinalityType
    <3> QED
      BY <1>4, <1>5, <2>1, <2>2, <3>1, <3>2, <3>3
  <2>3. CASE ~(Extends(p, n) /\ h = g)
    <3>1. Through(users', n, h) = Through(users, n, h)
      BY <1>1, <2>3 DEF p, g
    <3> HIDE DEF Through
    <3> QED
      BY <1>4, <2>1, <2>3, <3>1
  <2> QED
    BY <2>2, <2>3
<1>6. CountsAreExact'
  BY <1>1, <1>5 DEF CountsAreExact
<1> HIDE DEF Through
<1>7. RadixTypeOK'
  <2>1. \A n \in nodes, h \in Gpu : uncompleted'[n][h] \in Nat
    BY <1>4, <1>5
  <2>2. ASSUME NEW n \in nodes
        PROVE  uncompleted'[n] \in [Gpu -> Nat]
    <3>1. uncompleted[n] \in [Gpu -> Nat]
      BY <1>2 DEF RadixTypeOK
    <3>2. uncompleted'[n] = [uncompleted[n] EXCEPT ![g] = @ - 1] \/ uncompleted'[n] = uncompleted[n]
      BY <1>1
    <3>3. uncompleted'[n] = [h \in Gpu |-> uncompleted'[n][h]]
      BY <3>1, <3>2
    <3> QED
      BY <2>1, <3>3
  <2>3. uncompleted' \in [nodes' -> [Gpu -> Nat]]
    BY <1>1, <2>2
  <2> QED
    BY <1>1, <1>2, <2>3 DEF RadixTypeOK
<1>8. IsFiniteSet(users') /\ \A v \in users' : v.req <= admitted'
  BY <1>1, <1>2, FS_RemoveElement
<1>9. InUseStaysCached'
  BY <1>1 DEF RadixInv, InUseStaysCached
<1>10. AllocatedIsExact'
  BY <1>1 DEF RadixInv, AllocatedIsExact, NumTokensOf, Tokens, Parent, CachedNodes
<1>11. RootIsBusiest'
  <2> SUFFICES ASSUME NEW h \in Gpu
               PROVE  /\ uncompleted'[Root][h] > 0
                      /\ \A n \in nodes \ {Root} : uncompleted'[n][h] < uncompleted'[Root][h]
    BY <1>1 DEF RootIsBusiest
  <2>1. /\ uncompleted[Root][h] > 0
        /\ \A n \in nodes \ {Root} : uncompleted[n][h] < uncompleted[Root][h]
        /\ Root \in nodes
    BY DEF RadixInv, RootIsBusiest, RadixTypeOK
  <2> QED
    BY <1>4, <2>1
<1>12. EvictionIsComplete'
  BY <1>1 DEF EvictionIsComplete
<1>13. Radix(nodes') /\ IsFiniteSet(nodes')
  BY <1>1, <1>2
<1> QED
  BY <1>6, <1>7, <1>8, <1>9, <1>10, <1>11, <1>12, <1>13 DEF RadixInv

(* An eviction begins with all that is unused.                             *)
LEMMA BeginEvictStep ==
  ASSUME RadixInv, NEW g \in Gpu, BeginEvict(g)
  PROVE  RadixInv'
<1>1. /\ UNCHANGED <<nodes, uncompleted, cachedOn, admitted, users>>
      /\ victim' = g /\ toEvict' = allocated[g] - MaxTokens
      /\ allocated' = [allocated EXCEPT ![g] = NumTokensOf(CachedNodes(g))]
      /\ heap' = {n \in CachedNodes(g) : uncompleted[n][g] = 0}
  BY DEF BeginEvict
<1>2. /\ RadixTypeOK /\ Radix(nodes) /\ IsFiniteSet(nodes) /\ IsFiniteSet(users)
      /\ \A u \in users : u.req <= admitted
  BY DEF RadixInv
<1>3. NumTokensOf(CachedNodes(g)) = allocated[g] /\ allocated \in [Gpu -> Nat] /\ allocated[g] \in Nat
  BY DEF RadixInv, AllocatedIsExact, RadixTypeOK
<1>4. allocated' = allocated
  BY <1>1, <1>3
<1>5. MaxTokens \in Nat
  BY RadixAssumption
<1>6. RadixTypeOK'
  <2>1. heap' \subseteq nodes' /\ victim' \in Gpu \union {NoGpu} /\ toEvict' \in Int
    BY <1>1, <1>3, <1>5 DEF CachedNodes
  <2> QED
    BY <1>1, <1>2, <1>4, <2>1 DEF RadixTypeOK
<1>7. EvictionIsComplete'
  BY <1>1, <1>3, <1>4, <1>5 DEF EvictionIsComplete, CachedNodes
<1>8. InUseStaysCached' /\ CountsAreExact' /\ AllocatedIsExact' /\ RootIsBusiest'
  BY <1>1, <1>4 DEF RadixInv, InUseStaysCached, CountsAreExact, AllocatedIsExact, RootIsBusiest,
                    NumTokensOf, Tokens, Parent, CachedNodes
<1> QED
  BY <1>1, <1>2, <1>6, <1>7, <1>8 DEF RadixInv

(* Parents are nodes.                                                      *)
LEMMA ParentIsNode ==
  ASSUME Radix(nodes), NEW n \in nodes
  PROVE  Parent(n) \in nodes
  BY ParentIs, ParentOfRoot DEF Radix, Parent

(* The loop passes over a node or evicts it; nobody uses what it evicts.   *)
LEMMA EvictStep ==
  ASSUME RadixInv, Evict
  PROVE  RadixInv'
<1> DEFINE g == victim
<1>1. /\ UNCHANGED <<nodes, uncompleted, admitted, users, victim>>
      /\ victim # NoGpu
  BY DEF Evict
<1>2. PICK n \in heap \ {Root} :
        IF MustSkip(n)
          THEN heap' = heap \ {n} /\ UNCHANGED <<cachedOn, allocated, toEvict>>
          ELSE /\ cachedOn' = [cachedOn EXCEPT ![n] = @ \ {g}]
               /\ allocated' = [allocated EXCEPT ![g] = @ - NumTokens(n)]
               /\ toEvict' = toEvict - NumTokens(n)
               /\ heap' = (heap \ {n}) \union Uncovered(n)
  BY DEF Evict
<1>3. /\ RadixTypeOK /\ Radix(nodes) /\ IsFiniteSet(nodes) /\ IsFiniteSet(users)
      /\ \A u \in users : u.req <= admitted
  BY DEF RadixInv
<1>4. /\ heap \subseteq nodes /\ n \in nodes /\ n # Root /\ g \in Gpu
      /\ allocated[g] = MaxTokens + toEvict
      /\ \A m \in CachedNodes(g) : uncompleted[m][g] = 0 => m \in heap
      /\ toEvict \in Int /\ MaxTokens \in Nat /\ allocated \in [Gpu -> Nat]
  BY <1>1, <1>3, RadixAssumption DEF RadixInv, RadixTypeOK, EvictionIsComplete
<1>5. CountsAreExact' /\ RootIsBusiest'
  BY <1>1 DEF RadixInv, CountsAreExact, RootIsBusiest
<1>6. Radix(nodes') /\ IsFiniteSet(nodes') /\ IsFiniteSet(users') /\ \A u \in users' : u.req <= admitted'
  BY <1>1, <1>3
<1>7. CASE MustSkip(n)
  <2>1. heap' = heap \ {n} /\ UNCHANGED <<cachedOn, allocated, toEvict>>
    BY <1>2, <1>7
  <2>2. RadixTypeOK'
    BY <1>1, <1>3, <1>4, <2>1 DEF RadixTypeOK
  <2>3. InUseStaysCached' /\ AllocatedIsExact'
    BY <1>1, <2>1 DEF RadixInv, InUseStaysCached, AllocatedIsExact,
                      NumTokensOf, Tokens, Parent, CachedNodes
  <2>4. ~(n \in CachedNodes(g) /\ uncompleted[n][g] = 0)
    BY <1>7 DEF MustSkip, CachedNodes
  <2>5. EvictionIsComplete'
    <3>1. CachedNodes(victim)' = CachedNodes(victim)
      BY <1>1, <2>1 DEF CachedNodes
    <3> QED
      BY <1>1, <1>4, <2>1, <2>4, <3>1 DEF EvictionIsComplete
  <2> QED
    BY <1>5, <1>6, <2>2, <2>3, <2>5 DEF RadixInv
<1>8. CASE ~MustSkip(n)
  <2>1. /\ cachedOn' = [cachedOn EXCEPT ![n] = @ \ {g}]
        /\ allocated' = [allocated EXCEPT ![g] = @ - NumTokens(n)]
        /\ toEvict' = toEvict - NumTokens(n)
        /\ heap' = (heap \ {n}) \union Uncovered(n)
    BY <1>2, <1>8
  <2>2. n \in CachedNodes(g) /\ uncompleted[n][g] = 0
    <3>1. uncompleted[n][g] \in Nat
      BY <1>3, <1>4 DEF RadixTypeOK
    <3> QED
      BY <1>4, <1>8, <3>1 DEF MustSkip, CachedNodes
  <2>3. /\ cachedOn \in [nodes -> SUBSET Gpu] /\ cachedOn' \in [nodes -> SUBSET Gpu]
        /\ \A m \in nodes : cachedOn'[m] = IF m = n THEN cachedOn[n] \ {g} ELSE cachedOn[m]
    BY <1>3, <1>4, <2>1 DEF RadixTypeOK
  <2>4. /\ CachedNodes(g) = {m \in nodes : g \in cachedOn'[m]} \union {n}
        /\ n \notin {m \in nodes : g \in cachedOn'[m]}
        /\ \A h \in Gpu \ {g} : CachedNodes(h) = {m \in nodes : h \in cachedOn'[m]}
    BY <1>4, <2>2, <2>3 DEF CachedNodes
  <2> DEFINE S == {m \in nodes : g \in cachedOn'[m]}
  <2>5. S \subseteq nodes /\ IsFiniteSet(S)
    <3>1. S \in SUBSET nodes
      OBVIOUS
    <3> QED
      BY <1>3, <3>1, FS_Subset
  <2>6. Cardinality(TokensIn(nodes, CachedNodes(g))) = Cardinality(TokensIn(nodes, S)) + NumTokens(n)
    <3> HIDE DEF S
    <3>1. Cardinality(TokensIn(nodes, S \union {n}))
            = Cardinality(TokensIn(nodes, S)) + (Len(n) - Len(ParentIn(nodes, n)))
      BY <1>3, <1>4, <2>4, <2>5, TokensAdd DEF Radix, S
    <3> QED
      BY <2>4, <3>1 DEF S, NumTokens, Parent
  <2>7. Cardinality(TokensIn(nodes, S)) \in Nat
    BY <1>3, <2>5, TokensAreFinite DEF Radix
  <2>8. NumTokens(n) \in Int
    BY <1>3, <1>4, ParentLength DEF NumTokens, Parent, Radix
  <2>9. allocated[g] = Cardinality(TokensIn(nodes, CachedNodes(g)))
    BY <1>4, SizeIs DEF RadixInv
  <2> HIDE DEF S
  <2>10. /\ allocated' \in [Gpu -> Nat]
         /\ allocated'[g] = Cardinality(TokensIn(nodes, S))
         /\ \A h \in Gpu \ {g} : allocated'[h] = allocated[h]
    BY <1>4, <2>1, <2>6, <2>7, <2>8, <2>9
  <2>11. AllocatedIsExact'
    <3>1. AllocatedIsExact' <=> \A h \in Gpu :
            allocated'[h] = Cardinality(TokensIn(nodes, {m \in nodes : h \in cachedOn'[m]}))
      BY <1>1 DEF AllocatedIsExact, NumTokensOf, Tokens, Parent, TokensIn, CachedNodes
    <3>2. ASSUME NEW h \in Gpu
          PROVE  allocated'[h] = Cardinality(TokensIn(nodes, {m \in nodes : h \in cachedOn'[m]}))
      <4>1. CASE h = g
        BY <2>10, <4>1 DEF S
      <4>2. CASE h # g
        <5>1. allocated[h] = Cardinality(TokensIn(nodes, CachedNodes(h)))
          BY SizeIs DEF RadixInv
        <5>2. CachedNodes(h) = {m \in nodes : h \in cachedOn'[m]}
          BY <2>4, <4>2
        <5>3. allocated'[h] = allocated[h]
          BY <2>10, <4>2
        <5> QED
          BY <5>1, <5>2, <5>3, Zenon
      <4> QED
        BY <4>1, <4>2
    <3> QED
      BY <3>1, <3>2, Zenon
  <2>12. RadixTypeOK'
    <3>1. Uncovered(n) \subseteq nodes
      BY <1>3, <1>4, ParentIsNode DEF Uncovered
    <3>2. heap' \subseteq nodes' /\ toEvict' \in Int /\ cachedOn' \in [nodes' -> SUBSET Gpu]
      BY <1>1, <1>4, <2>1, <2>3, <2>8, <3>1
    <3> QED
      BY <1>1, <1>3, <2>10, <3>2 DEF RadixTypeOK
  <2>13. InUseStaysCached'
    <3> SUFFICES ASSUME NEW u \in users
                 PROVE  /\ u.prompt \in nodes
                        /\ \A m \in nodes : Extends(u.prompt, m) => u.gpu \in cachedOn'[m]
      BY <1>1 DEF InUseStaysCached
    <3>1. /\ u.prompt \in nodes
          /\ \A m \in nodes : Extends(u.prompt, m) => u.gpu \in cachedOn[m]
      BY DEF RadixInv, InUseStaysCached
    <3>2. ~(u.gpu = g /\ Extends(u.prompt, n))
      <4> SUFFICES ASSUME u.gpu = g, Extends(u.prompt, n) PROVE FALSE
        OBVIOUS
      <4> DEFINE U == {v \in users : v.gpu = g /\ Extends(v.prompt, n)}
      <4>1. Cardinality(U) = 0
        BY <1>4, <2>2 DEF RadixInv, CountsAreExact
      <4>2. IsFiniteSet(U) /\ u \in U
        BY ThroughIsFinite
      <4> HIDE DEF U
      <4> QED
        BY <4>1, <4>2, FS_EmptySet
    <3> QED
      BY <2>3, <3>1, <3>2
  <2>14. EvictionIsComplete'
    <3>1. CachedNodes(victim)' = S
      BY <1>1 DEF CachedNodes, S
    <3>2. \A m \in S : uncompleted[m][g] = 0 => m \in heap'
      BY <1>4, <2>1, <2>4 DEF S
    <3>3. allocated'[g] = MaxTokens + toEvict'
      BY <1>4, <2>1, <2>6, <2>7, <2>8, <2>9, <2>10
    <3> QED
      BY <1>1, <3>1, <3>2, <3>3 DEF EvictionIsComplete
  <2> QED
    BY <1>5, <1>6, <2>11, <2>12, <2>13, <2>14 DEF RadixInv
<1> QED
  BY <1>7, <1>8

(* It ends.                                                                *)
LEMMA EndEvictStep ==
  ASSUME RadixInv, EndEvict
  PROVE  RadixInv'
<1>1. /\ UNCHANGED <<nodes, uncompleted, cachedOn, allocated, admitted, users>>
      /\ victim' = NoGpu /\ heap' = {} /\ toEvict' = 0
  BY DEF EndEvict
<1>2. RadixTypeOK'
  <2>1. RadixTypeOK
    BY DEF RadixInv
  <2>2. victim' \in Gpu \union {NoGpu} /\ heap' \subseteq nodes' /\ toEvict' \in Int
    BY <1>1
  <2> QED
    BY <1>1, <2>1, <2>2 DEF RadixTypeOK
<1>3. EvictionIsComplete'
  BY <1>1 DEF EvictionIsComplete
<1> QED
  BY <1>1, <1>2, <1>3 DEF RadixInv, Radix, InUseStaysCached, CountsAreExact, AllocatedIsExact,
       RootIsBusiest, NumTokensOf, Tokens, Parent, CachedNodes

(* Every step keeps the inductive invariant.                               *)
LEMMA RadixStep == RadixInv /\ [RadixNext]_radixVars => RadixInv'
<1> SUFFICES ASSUME RadixInv, [RadixNext]_radixVars PROVE RadixInv'
  OBVIOUS
<1>1. ASSUME victim = NoGpu, NEW p \in Prompts, Insert(p)
      PROVE  RadixInv'
  BY <1>1, InsertStep
<1>2. ASSUME victim = NoGpu, admitted < NumRequests,
             NEW p \in Prompts \intersect nodes, NEW g \in Gpu, UpdateCacheMetadata(p, g)
      PROVE  RadixInv'
  BY <1>2, UpdateStep
<1>3. ASSUME victim = NoGpu, NEW u \in users, RemoveCompleted(u)
      PROVE  RadixInv'
  BY <1>3, RemoveStep
<1>4. ASSUME NEW g \in Gpu, BeginEvict(g)
      PROVE  RadixInv'
  BY <1>4, BeginEvictStep
<1>5. CASE Evict
  BY <1>5, EvictStep
<1>6. CASE EndEvict
  BY <1>6, EndEvictStep
<1>7. CASE UNCHANGED radixVars
  BY <1>7, RadixStutter
<1> QED
  BY <1>1, <1>2, <1>3, <1>4, <1>5, <1>6, <1>7 DEF RadixNext

(* So it always holds.                                                     *)
LEMMA RadixInvariant == RadixSpec => []RadixInv
  BY RadixInitInv, RadixStep, PTL DEF RadixSpec

(* It contains what the runs check.                                        *)
LEMMA RadixInvIs == RadixInv => TreeIsExact /\ InUseStaysCached
  BY ChildrenOfRadixDiffer DEF RadixInv, TreeIsExact

(* The counts, the tree and the sizes kept per replica stay exact through  *)
(* splits, completions and evictions in any order the scheduler may use.   *)
THEOREM TreeStaysExact == RadixSpec => []TreeIsExact
  BY RadixInvariant, RadixInvIs, PTL

(* No eviction takes a node from under an unfinished request: its whole    *)
(* path stays cached where it runs.                                        *)
THEOREM InUseIsNeverEvicted == RadixSpec => []InUseStaysCached
  BY RadixInvariant, RadixInvIs, PTL

(* The root is popped last: the first replica already tells it from any    *)
(* other node, and every node that could go is in the heap until it is     *)
(* popped.                                                                 *)
LEMMA EndEvictIsEnough ==
  RadixInv /\ EndEvict => \/ allocated[victim] <= MaxTokens
                          \/ \A n \in CachedNodes(victim) : uncompleted[n][victim] > 0
<1> SUFFICES ASSUME RadixInv, EndEvict, ~(allocated[victim] <= MaxTokens),
                    NEW n \in CachedNodes(victim), ~(uncompleted[n][victim] > 0)
             PROVE  FALSE
  OBVIOUS
<1>1. /\ victim # NoGpu /\ victim \in Gpu /\ n \in nodes
      /\ uncompleted[n][victim] \in Nat /\ allocated[victim] \in Nat
      /\ toEvict \in Int /\ MaxTokens \in Nat /\ Root \in nodes
  BY RadixAssumption DEF EndEvict, RadixInv, RadixTypeOK, CachedNodes
<1>2. n \in heap /\ toEvict > 0
  BY <1>1 DEF RadixInv, EvictionIsComplete
<1>3. Root \in heap /\ \A m \in heap : ~CountsBefore(m, Root)
  BY <1>1, <1>2 DEF EndEvict
<1>4. \A g \in Gpu : /\ uncompleted[Root][g] > 0
                     /\ \A m \in nodes \ {Root} : uncompleted[m][g] < uncompleted[Root][g]
  BY DEF RadixInv, RootIsBusiest
<1>5. n # Root
  BY <1>1, <1>4
<1>6. 0 \in Gpu /\ \A h \in Gpu : ~(h < 0)
  BY RadixAssumption DEF Gpu
<1>7. CountsBefore(n, Root)
  BY <1>1, <1>4, <1>5, <1>6 DEF CountsBefore
<1> QED
  BY <1>2, <1>3, <1>7

(* An eviction that ends above the limit has left nothing it could evict.  *)
THEOREM EvictionFreesEnough == RadixSpec => EvictsAllItNeeds
<1>1. RadixInv /\ [RadixNext]_radixVars
        => [EndEvict => \/ allocated[victim] <= MaxTokens
                        \/ \A n \in CachedNodes(victim) : uncompleted[n][victim] > 0]_radixVars
  BY EndEvictIsEnough
<1> QED
  BY <1>1, RadixInvariant, PTL DEF RadixSpec, EvictsAllItNeeds
-----------------------------------------------------------------------------
(***************************************************************************)
(* The scheduler above the tree.                                           *)
(***************************************************************************)

(* Where schedule() is, and what it may rely on there.                     *)
ScheduleInv ==
  /\ step \in Step /\ prompt \in Prompts \union {Root}
  /\ light \in Gpu \union {NoGpu} /\ heavies \subseteq Gpu /\ failed \subseteq users
  /\ step # "evict" => victim = NoGpu
  /\ step = "route" => prompt \in Prompts \intersect nodes /\ admitted < NumRequests
  /\ step = "expire" => \E u \in users : u.req = admitted
  /\ step = "steal" => light \in Gpu

(* The request counted last tells the replica to evict from.               *)
LEMMA ChosenIsGpu == RadixInv /\ ScheduleInv /\ step = "expire" => Chosen \in Gpu
<1> SUFFICES ASSUME RadixInv, ScheduleInv, step = "expire" PROVE Chosen \in Gpu
  OBVIOUS
<1> DEFINE u == CHOOSE u \in users : u.req = admitted
<1>1. u \in users
  BY DEF ScheduleInv
<1>2. u.gpu \in Gpu
  BY <1>1 DEF RadixInv, RadixTypeOK, User
<1> QED
  BY <1>2 DEF Chosen

(* A step of the scheduler is a step of the tree or leaves it alone.       *)
LEMMA SchedulerUsesTree ==
  RadixInv /\ ScheduleInv /\ [Next]_vars => [RadixNext]_radixVars
<1> SUFFICES ASSUME RadixInv, ScheduleInv, [Next]_vars PROVE [RadixNext]_radixVars
  OBVIOUS
<1>1. ASSUME NEW p \in Prompts, Arrive(p)
      PROVE  RadixNext
  BY <1>1 DEF Arrive, ScheduleInv, RadixNext, Step
<1>2. ASSUME NEW g \in Gpu, Route(g)
      PROVE  RadixNext
  BY <1>2 DEF Route, ScheduleInv, RadixNext
<1>3. ASSUME NEW g \in Gpu, Steal(g)
      PROVE  UNCHANGED radixVars
  BY <1>3 DEF Steal
<1>4. CASE Expire
  BY <1>4 DEF Expire
<1>5. CASE BeginEviction
  BY <1>5, ChosenIsGpu DEF BeginEviction, RadixNext
<1>6. CASE Evicting
  BY <1>6 DEF Evicting, RadixNext
<1>7. CASE BeginSteal \/ Return
  BY <1>7 DEF BeginSteal, Return
<1>8. ASSUME NEW u \in users, FinishRequest(u)
      PROVE  RadixNext
  BY <1>8 DEF FinishRequest, ScheduleInv, RadixNext
<1>9. ASSUME NEW u \in users, IgnoreFailed(u)
      PROVE  UNCHANGED radixVars
  BY <1>9 DEF IgnoreFailed
<1>10. CASE UNCHANGED vars
  BY <1>10 DEF vars
<1> QED
  BY <1>1, <1>2, <1>3, <1>4, <1>5, <1>6, <1>7, <1>8, <1>9, <1>10 DEF Next, Schedule

(* The control of schedule() stays where it may be.                        *)
LEMMA ScheduleStep ==
  RadixInv /\ ScheduleInv /\ [Next]_vars => ScheduleInv'
<1> SUFFICES ASSUME RadixInv, ScheduleInv, [Next]_vars PROVE ScheduleInv'
  OBVIOUS
<1> USE DEF ScheduleInv, stealVars, evictVars, radixVars
<1>1. ASSUME NEW p \in Prompts, Arrive(p)
      PROVE  ScheduleInv'
  <2>1. /\ step = "idle" /\ admitted < NumRequests /\ prompt' = p /\ step' = "route"
        /\ UNCHANGED <<failed, light, heavies, admitted, users, victim, heap, toEvict>>
    BY <1>1 DEF Arrive, Insert
  <2>2. p \in nodes'
    <3>1. CASE p \in nodes
      <4>1. nodes' = DOMAIN uncompleted
        BY <1>1, <3>1 DEF Arrive, Insert
      <4>2. DOMAIN uncompleted = nodes
        BY DEF RadixInv, RadixTypeOK
      <4> QED
        BY <3>1, <4>1, <4>2
    <3>2. CASE p \notin nodes
      BY <1>1, <3>2 DEF Arrive, Insert, Grown
    <3> QED
      BY <3>1, <3>2
  <2> QED
    BY <2>1, <2>2 DEF Step
<1>2. ASSUME NEW g \in Gpu, Route(g)
      PROVE  ScheduleInv'
  <2>1. /\ step = "route" /\ step' = "expire" /\ admitted' = admitted + 1
        /\ users' = users \union {[req |-> admitted', prompt |-> prompt, gpu |-> g]}
        /\ UNCHANGED <<failed, prompt, light, heavies, victim, heap, toEvict>>
    BY <1>2 DEF Route, UpdateCacheMetadata
  <2>2. \E u \in users' : u.req = admitted'
    <3> DEFINE new == [req |-> admitted', prompt |-> prompt, gpu |-> g]
    <3>1. new \in users' /\ new.req = admitted'
      BY <2>1
    <3> HIDE DEF new
    <3> QED
      BY <3>1
  <2> QED
    BY <2>1, <2>2 DEF Step
<1>3. ASSUME NEW g \in Gpu, Steal(g)
      PROVE  ScheduleInv'
  BY <1>3 DEF Steal
<1>4. CASE Expire
  BY <1>4 DEF Expire
<1>5. CASE BeginEviction
  <2>1. /\ step' = "evict" /\ UNCHANGED <<failed, prompt, light, heavies, users>>
    BY <1>5 DEF BeginEviction, BeginEvict
  <2> QED
    BY <2>1 DEF Step
<1>6. CASE Evicting
  BY <1>6 DEF Evicting, Evict, EndEvict, schedVars
<1>7. CASE BeginSteal
  BY <1>7 DEF BeginSteal, Step
<1>8. CASE Return
  BY <1>8 DEF Return, Step
<1>9. ASSUME NEW u \in users, FinishRequest(u)
      PROVE  ScheduleInv'
  BY <1>9 DEF FinishRequest, RemoveCompleted, schedVars
<1>10. ASSUME NEW u \in users, IgnoreFailed(u)
      PROVE  ScheduleInv'
  BY <1>10 DEF IgnoreFailed
<1>11. CASE UNCHANGED vars
  BY <1>11 DEF vars, schedVars
<1> QED
  BY <1>1, <1>2, <1>3, <1>4, <1>5, <1>6, <1>7, <1>8, <1>9, <1>10, <1>11 DEF Next, Schedule

(* Both invariants hold of the scheduler.                                  *)
LEMMA ScheduleInvariant == Spec => [](RadixInv /\ ScheduleInv)
<1>1. Init => RadixInv /\ ScheduleInv
  BY RadixInitInv DEF Init, ScheduleInv, Step, RadixInit
<1>2. RadixInv /\ ScheduleInv /\ [Next]_vars => (RadixInv /\ ScheduleInv)'
  BY SchedulerUsesTree, RadixStep, ScheduleStep
<1> QED
  BY <1>1, <1>2, PTL DEF Spec

(* The scheduler uses the tree as its methods expect: every step of it is  *)
(* a step of the tree, or leaves the tree alone.                           *)
THEOREM SchedulerRefinesTree == Spec => Tree
<1>1. Init => RadixInit
  BY DEF Init
<1> QED
  BY <1>1, ScheduleInvariant, SchedulerUsesTree, PTL DEF Spec, Tree, RadixSpec

(* What is proved of the tree holds of the tree the scheduler keeps.       *)
THEOREM SchedulerKeepsTree ==
  Spec => [](TreeIsExact /\ InUseStaysCached) /\ EvictsAllItNeeds
  BY SchedulerRefinesTree, TreeStaysExact, InUseIsNeverEvicted, EvictionFreesEnough, PTL DEF Tree
-----------------------------------------------------------------------------
(***************************************************************************)
(* The window.  Entries are the positions of a node's requests in it, and  *)
(* Weight has as many elements as those requests have tokens.              *)
(***************************************************************************)
Entry(N) == [node : N, leaf : N]
Entries(w, n) == {i \in 1 .. Len(w) : w[i].node = n}
Weight(w, n) == UNION {{i} \X (1 .. Len(w[i].leaf)) : i \in Entries(w, n)}

(* The sums l and the numbers k of requests are those of the window w.     *)
Matches(w, l, k) ==
  /\ DOMAIN l = {w[i].node : i \in 1 .. Len(w)}
  /\ \A n \in DOMAIN l : /\ k[n] = Cardinality(Entries(w, n))
                         /\ l[n] = Cardinality(Weight(w, n))

(* Windows of any nodes but the root.                                      *)
Window == Seq(Entry(Text \ {Root}))

(* Only the root has no tokens.                                            *)
LEMMA TextLength == \A n \in Text \ {Root} : Len(n) \in Nat \ {0}
<1>1. \A n \in Text : Len(n) \in Nat
  BY DEF Text
<1>2. ASSUME NEW n \in Text, Len(n) = 0
      PROVE  n = Root
  BY <1>2 DEF Text, Root
<1> QED
  BY <1>1, <1>2

(* The entries of a window.                                                *)
LEMMA WindowEntries ==
  ASSUME NEW w \in Window
  PROVE  /\ Len(w) \in Nat
         /\ \A i \in 1 .. Len(w) : /\ w[i] \in Entry(Text \ {Root})
                                   /\ w[i].node \in Text \ {Root} /\ Len(w[i].leaf) \in Nat \ {0}
<1>1. Len(w) \in Nat
  BY DEF Window
<1>2. ASSUME NEW i \in 1 .. Len(w)
      PROVE  w[i] \in Entry(Text \ {Root})
  BY ElementOfSeq DEF Window
<1> QED
  BY <1>1, <1>2, TextLength DEF Entry

(* An entry weighs as much as its leaf has tokens.                         *)
LEMMA TokensOfLeaf ==
  ASSUME NEW i, NEW b \in Nat
  PROVE  IsFiniteSet({i} \X (1 .. b)) /\ Cardinality({i} \X (1 .. b)) = b
<1> DEFINE I == 1 .. b
<1>1. 1 \in Int /\ b \in Int
  OBVIOUS
<1>2. IsFiniteSet(I) /\ Cardinality(I) = IF 1 > b THEN 0 ELSE b - 1 + 1
  BY <1>1, FS_Interval
<1>3. Cardinality(I) = b
  BY <1>2
<1>4. IsFiniteSet({i}) /\ Cardinality({i}) = 1
  BY FS_Singleton
<1> HIDE DEF I
<1>5. IsFiniteSet({i} \X I) /\ Cardinality({i} \X I) = Cardinality({i}) * Cardinality(I)
  BY <1>2, <1>4, FS_Product
<1>6. Cardinality({i} \X I) = 1 * b
  BY <1>3, <1>4, <1>5, Zenon
<1>7. 1 * b = b
  OBVIOUS
<1> QED
  BY <1>5, <1>6, <1>7, Zenon DEF I

(* A node has finitely many entries.                                       *)
LEMMA EntriesAreFinite ==
  ASSUME NEW w \in Window, NEW n
  PROVE  IsFiniteSet(Entries(w, n)) /\ Cardinality(Entries(w, n)) \in Nat
<1>1. IsFiniteSet(1 .. Len(w))
  BY WindowEntries, FS_Interval
<1>2. Entries(w, n) \in SUBSET (1 .. Len(w))
  BY DEF Entries
<1>3. IsFiniteSet(Entries(w, n))
  BY <1>1, <1>2, FS_Subset
<1> QED
  BY <1>3, FS_CardinalityType

(* They have finitely many tokens, and none only if there is no entry.     *)
LEMMA WeightIsFinite ==
  ASSUME NEW w \in Window, NEW n
  PROVE  /\ IsFiniteSet(Weight(w, n)) /\ Cardinality(Weight(w, n)) \in Nat
         /\ Cardinality(Weight(w, n)) = 0 <=> Entries(w, n) = {}
<1> DEFINE E == Entries(w, n)
           f == [i \in E |-> {i} \X (1 .. Len(w[i].leaf))]
           T == {f[i] : i \in E}
<1>1. IsFiniteSet(E) /\ E \subseteq 1 .. Len(w)
  BY EntriesAreFinite DEF Entries
<1>2. \A i \in E : Len(w[i].leaf) \in Nat \ {0}
  BY <1>1, WindowEntries
<1> HIDE DEF E
<1>3. f \in Surjection(E, T)
  BY DEF Surjection
<1>4. IsFiniteSet(T)
  BY <1>1, <1>3, FS_Surjection
<1>5. \A i \in E : IsFiniteSet(f[i])
  BY <1>2, TokensOfLeaf
<1>6. IsFiniteSet(UNION T)
  BY <1>4, <1>5, FS_UNION
<1>7. UNION T = Weight(w, n)
  BY DEF Weight, E
<1>8. ASSUME NEW i \in E
      PROVE  <<i, 1>> \in Weight(w, n)
  <2>1. 1 \in 1 .. Len(w[i].leaf)
    BY <1>2
  <2> QED
    BY <2>1 DEF Weight, E
<1>9. E = {} => Weight(w, n) = {}
  BY DEF Weight, E
<1>10. Cardinality(Weight(w, n)) = 0 <=> Weight(w, n) = {}
  BY <1>6, <1>7, FS_EmptySet
<1> QED
  BY <1>6, <1>7, <1>8, <1>9, <1>10, FS_CardinalityType DEF E

(* A request enters the window under node e.node.                          *)
LEMMA MatchesAppend ==
  ASSUME NEW w \in Window, NEW e \in Entry(Text \ {Root}), NEW l, NEW k,
         DOMAIN l = DOMAIN k, Matches(w, l, k),
         NEW x, x = [m \in DOMAIN l \union {e.node} |->
           (IF m \in DOMAIN l THEN l[m] ELSE 0) + (IF m = e.node THEN Len(e.leaf) ELSE 0)],
         NEW y, y = [m \in DOMAIN k \union {e.node} |->
           (IF m \in DOMAIN k THEN k[m] ELSE 0) + (IF m = e.node THEN 1 ELSE 0)]
  PROVE  Matches(Append(w, e), x, y)
<1> DEFINE v == Append(w, e)
           j == Len(w) + 1
           D == DOMAIN l \union {e.node}
<1>1. /\ v \in Window /\ Len(v) = j /\ Len(w) \in Nat /\ v[j] = e
      /\ \A i \in 1 .. Len(w) : v[i] = w[i]
  BY AppendProperties, WindowEntries DEF Window
<1>2. Len(e.leaf) \in Nat
  BY TextLength DEF Entry
<1>3. 1 .. j = (1 .. Len(w)) \union {j} /\ j \notin 1 .. Len(w)
  BY <1>1
<1> HIDE DEF v, j
<1>4. DOMAIN l = {w[i].node : i \in 1 .. Len(w)}
  BY DEF Matches
<1>5. {v[i].node : i \in 1 .. Len(v)} = D
  BY <1>1, <1>3, <1>4
<1>6. ASSUME NEW m \in D
      PROVE  /\ Cardinality(Entries(v, m))
                  = (IF m \in DOMAIN k THEN k[m] ELSE 0) + (IF m = e.node THEN 1 ELSE 0)
             /\ Cardinality(Weight(v, m))
                  = (IF m \in DOMAIN l THEN l[m] ELSE 0) + (IF m = e.node THEN Len(e.leaf) ELSE 0)
  <2>1. /\ IsFiniteSet(Entries(w, m)) /\ Cardinality(Entries(w, m)) \in Nat
        /\ IsFiniteSet(Weight(w, m)) /\ Cardinality(Weight(w, m)) \in Nat
    BY EntriesAreFinite, WeightIsFinite
  <2>0. j \notin Entries(w, m)
    BY <1>3 DEF Entries
  <2>2. /\ Cardinality(Entries(w, m)) = (IF m \in DOMAIN k THEN k[m] ELSE 0)
        /\ Cardinality(Weight(w, m)) = (IF m \in DOMAIN l THEN l[m] ELSE 0)
    <3>1. CASE m \in DOMAIN l
      BY <3>1 DEF Matches
    <3>2. CASE m \notin DOMAIN l
      <4>1. Entries(w, m) = {}
        BY <1>4, <3>2 DEF Entries
      <4>2. Weight(w, m) = {}
        BY <4>1 DEF Weight
      <4> QED
        BY <3>2, <4>1, <4>2, FS_EmptySet
    <3> QED
      BY <3>1, <3>2
  <2>3. CASE m = e.node
    <3> DEFINE I == {j} \X (1 .. Len(e.leaf))
    <3>1. Entries(v, m) = Entries(w, m) \union {j}
      BY <1>1, <1>3, <2>3 DEF Entries
    <3>2. \A i \in Entries(w, m) : v[i] = w[i]
      BY <1>1 DEF Entries
    <3>3. Weight(v, m) = Weight(w, m) \union I
      BY <1>1, <3>1, <3>2 DEF Weight
    <3>4. Weight(w, m) \intersect I = {}
      BY <2>0 DEF Weight
    <3>5. IsFiniteSet(I) /\ Cardinality(I) = Len(e.leaf)
      BY <1>2, TokensOfLeaf
    <3> HIDE DEF I
    <3>6. Cardinality(Weight(w, m) \union I) = Cardinality(Weight(w, m)) + Cardinality(I)
      BY <2>1, <3>4, <3>5, DisjointSum
    <3>7. Cardinality(Entries(w, m) \union {j}) = Cardinality(Entries(w, m)) + 1
      BY <2>0, <2>1, FS_AddElement
    <3> QED
      BY <2>2, <2>3, <3>1, <3>3, <3>5, <3>6, <3>7
  <2>4. CASE m # e.node
    <3>1. Entries(v, m) = Entries(w, m)
      BY <1>1, <1>3, <2>4 DEF Entries
    <3>2. \A i \in Entries(w, m) : v[i] = w[i]
      BY <1>1 DEF Entries
    <3>3. Weight(v, m) = Weight(w, m)
      BY <3>1, <3>2 DEF Weight
    <3> QED
      BY <2>1, <2>2, <2>4, <3>1, <3>3
  <2> QED
    BY <2>3, <2>4
<1> QED
  BY <1>5, <1>6 DEF Matches, v

(* The oldest request leaves the window; a node without others is          *)
(* forgotten.                                                              *)
LEMMA MatchesTail ==
  ASSUME NEW w \in Window, w # << >>, NEW l, NEW k, DOMAIN l = DOMAIN k, Matches(w, l, k),
         NEW n, n = Head(w).node, NEW x, x = l[n] - Len(Head(w).leaf),
         NEW D, D = IF x <= 0 THEN DOMAIN l \ {n} ELSE DOMAIN l
  PROVE  /\ n \in DOMAIN l
         /\ Matches(Tail(w), [m \in D |-> IF m = n THEN x ELSE l[m]],
                             [m \in D |-> IF m = n THEN k[m] - 1 ELSE k[m]])
<1> DEFINE t == Tail(w)
           len == Len(w)
<1>1. /\ t \in Window /\ Len(t) = len - 1 /\ Head(w) = w[1]
      /\ len \in Nat \ {0} /\ \A i \in 1 .. Len(t) : t[i] = w[i + 1]
  BY HeadTailProperties, EmptySeq DEF Window
<1>2. Len(w[1].leaf) \in Nat /\ n = w[1].node /\ x = l[n] - Len(w[1].leaf)
  <2>1. 1 \in 1 .. len
    BY <1>1
  <2> QED
    BY <1>1, <2>1, WindowEntries
<1> HIDE DEF t
<1>3. DOMAIN l = {w[i].node : i \in 1 .. len}
  BY DEF Matches
<1>4. n \in DOMAIN l
  BY <1>1, <1>2, <1>3
<1>5. ASSUME NEW i \in 1 .. Len(t)
      PROVE  i + 1 \in 1 .. len /\ i + 1 # 1
  BY <1>1
<1>6. ASSUME NEW i \in 1 .. len, i # 1
      PROVE  i - 1 \in 1 .. Len(t) /\ (i - 1) + 1 = i
  BY <1>1, <1>6
<1>7. ASSUME NEW m
      PROVE  /\ Cardinality(Entries(w, m))
                  = Cardinality(Entries(t, m)) + (IF m = n THEN 1 ELSE 0)
             /\ Cardinality(Weight(w, m))
                  = Cardinality(Weight(t, m)) + (IF m = n THEN Len(w[1].leaf) ELSE 0)
  <2> DEFINE E == {i \in Entries(w, m) : i # 1}
             W == UNION {{i} \X (1 .. Len(w[i].leaf)) : i \in E}
             e == [i \in Entries(t, m) |-> i + 1]
             f == [y \in Weight(t, m) |-> <<y[1] + 1, y[2]>>]
  <2>1. /\ IsFiniteSet(Entries(t, m)) /\ Cardinality(Entries(t, m)) \in Nat
        /\ IsFiniteSet(Weight(t, m)) /\ Cardinality(Weight(t, m)) \in Nat
    BY <1>1, EntriesAreFinite, WeightIsFinite
  <2>2. \A i \in Entries(t, m) : i \in Int /\ i + 1 \in E /\ t[i] = w[i + 1]
    BY <1>1, <1>5 DEF Entries
  <2>3. \A i \in E : i \in Int /\ i - 1 \in Entries(t, m) /\ (i - 1) + 1 = i
    BY <1>1, <1>6 DEF Entries
  <2>4. e \in Bijection(Entries(t, m), E)
    <3>1. e \in [Entries(t, m) -> E]
      BY <2>2
    <3>2. \A a, b \in Entries(t, m) : e[a] = e[b] => a = b
      BY <2>2
    <3>3. \A i \in E : \E a \in Entries(t, m) : e[a] = i
      BY <2>3
    <3> HIDE DEF e, E
    <3> QED
      BY <3>1, <3>2, <3>3 DEF Bijection, Injection, Surjection, IsInjective
  <2>5. IsFiniteSet(E) /\ Cardinality(E) = Cardinality(Entries(t, m))
    BY <2>1, <2>4, FS_Bijection DEF ExistsBijection
  <2>6. \A y : y \in Weight(t, m) <=>
          \E i \in Entries(t, m) : \E b \in 1 .. Len(t[i].leaf) : y = <<i, b>>
    BY DEF Weight
  <2>7. \A y : y \in W <=> \E i \in E : \E b \in 1 .. Len(w[i].leaf) : y = <<i, b>>
    OBVIOUS
  <2> HIDE DEF W
  <2>8. f \in Bijection(Weight(t, m), W)
    <3>1. ASSUME NEW y \in Weight(t, m)
          PROVE  f[y] \in W /\ y[1] \in Int /\ y = <<y[1], y[2]>>
      <4>0. PICK i \in Entries(t, m) : \E b \in 1 .. Len(t[i].leaf) : y = <<i, b>>
        BY <2>6
      <4>1. PICK b \in 1 .. Len(t[i].leaf) : y = <<i, b>>
        BY <4>0
      <4>2. i + 1 \in E /\ b \in 1 .. Len(w[i + 1].leaf) /\ f[y] = <<i + 1, b>>
        BY <2>2, <4>1
      <4> QED
        BY <2>2, <2>7, <4>1, <4>2
    <3>2. ASSUME NEW y \in Weight(t, m), NEW z \in Weight(t, m), f[y] = f[z]
          PROVE  y = z
      <4>1. y[1] + 1 = z[1] + 1 /\ y[2] = z[2]
        BY <3>2
      <4>2. y[1] \in Int /\ z[1] \in Int /\ y = <<y[1], y[2]>> /\ z = <<z[1], z[2]>>
        BY <3>1, Zenon
      <4>3. \A a, b \in Int : a + 1 = b + 1 => a = b
        OBVIOUS
      <4>4. y[1] = z[1]
        BY <4>1, <4>2, <4>3, Zenon
      <4> QED
        BY <4>1, <4>2, <4>4, Zenon
    <3>3. ASSUME NEW z \in W
          PROVE  \E y \in Weight(t, m) : f[y] = z
      <4>0. PICK i \in E : \E b \in 1 .. Len(w[i].leaf) : z = <<i, b>>
        BY <2>7
      <4>1. PICK b \in 1 .. Len(w[i].leaf) : z = <<i, b>>
        BY <4>0
      <4>2. i - 1 \in Entries(t, m) /\ (i - 1) + 1 = i /\ t[i - 1] = w[i]
        BY <2>2, <2>3
      <4>3. <<i - 1, b>> \in Weight(t, m)
        BY <2>6, <4>2
      <4>4. f[<<i - 1, b>>] = z
        BY <4>1, <4>2, <4>3
      <4> QED
        BY <4>3, <4>4
    <3>4. f \in [Weight(t, m) -> W]
      BY <3>1
    <3> HIDE DEF f
    <3> QED
      BY <3>2, <3>3, <3>4 DEF Bijection, Injection, Surjection, IsInjective
  <2>9. IsFiniteSet(W) /\ Cardinality(W) = Cardinality(Weight(t, m))
    BY <2>1, <2>8, FS_Bijection DEF ExistsBijection
  <2>10. CASE m = n
    <3> DEFINE I == {1} \X (1 .. Len(w[1].leaf))
    <3>1. Entries(w, m) = E \union {1}
      BY <1>1, <1>2, <2>10 DEF Entries
    <3>2. Cardinality(E \union {1}) = Cardinality(E) + 1
      BY <2>5, FS_AddElement
    <3>3. Weight(w, m) = W \union I
      BY <3>1 DEF Weight, W
    <3>4. W \intersect I = {}
      BY <2>7
    <3>5. IsFiniteSet(I) /\ Cardinality(I) = Len(w[1].leaf)
      BY <1>2, TokensOfLeaf
    <3> HIDE DEF I, E
    <3>6. Cardinality(W \union I) = Cardinality(W) + Cardinality(I)
      BY <2>9, <3>4, <3>5, DisjointSum
    <3> QED
      BY <2>5, <2>9, <2>10, <3>1, <3>2, <3>3, <3>5, <3>6
  <2>11. CASE m # n
    <3>1. Entries(w, m) = E
      BY <1>2, <2>11 DEF Entries
    <3>2. Weight(w, m) = W
      BY <3>1 DEF Weight, W
    <3> HIDE DEF E
    <3> QED
      BY <2>1, <2>5, <2>9, <2>11, <3>1, <3>2
  <2> QED
    BY <2>10, <2>11
<1>8. /\ \A m : Cardinality(Entries(t, m)) \in Nat /\ Cardinality(Weight(t, m)) \in Nat
      /\ \A m : Cardinality(Weight(t, m)) = 0 <=> Entries(t, m) = {}
  BY <1>1, EntriesAreFinite, WeightIsFinite
<1>9. /\ x = Cardinality(Weight(t, n)) /\ k[n] - 1 = Cardinality(Entries(t, n))
      /\ x <= 0 <=> Entries(t, n) = {}
  <2>1. k[n] = Cardinality(Entries(w, n)) /\ l[n] = Cardinality(Weight(w, n))
    BY <1>4 DEF Matches
  <2> QED
    BY <1>2, <1>7, <1>8, <2>1
<1>10. \A m : m \in {t[i].node : i \in 1 .. Len(t)} <=> Entries(t, m) # {}
  BY DEF Entries
<1>11. \A m : m # n => (m \in {t[i].node : i \in 1 .. Len(t)} <=> m \in DOMAIN l)
  <2> SUFFICES ASSUME NEW m, m # n
               PROVE  m \in {t[i].node : i \in 1 .. Len(t)} <=> m \in DOMAIN l
    OBVIOUS
  <2>1. ASSUME NEW i \in 1 .. Len(t), m = t[i].node
        PROVE  m \in DOMAIN l
    BY <1>1, <1>3, <1>5, <2>1
  <2>2. ASSUME NEW i \in 1 .. len, m = w[i].node
        PROVE  m \in {t[j].node : j \in 1 .. Len(t)}
    <3>1. i # 1
      BY <1>2, <2>2
    <3>2. i - 1 \in 1 .. Len(t) /\ t[i - 1] = w[i]
      BY <1>1, <1>6, <3>1
    <3> QED
      BY <2>2, <3>2
  <2> QED
    BY <1>3, <2>1, <2>2
<1>12. D = {t[i].node : i \in 1 .. Len(t)}
  <2>1. \A m : m \in D <=> m \in DOMAIN l /\ (m # n \/ ~(x <= 0))
    BY <1>4
  <2> QED
    BY <1>4, <1>9, <1>10, <1>11, <2>1
<1>13. ASSUME NEW m \in D
       PROVE  /\ (IF m = n THEN k[m] - 1 ELSE k[m]) = Cardinality(Entries(t, m))
              /\ (IF m = n THEN x ELSE l[m]) = Cardinality(Weight(t, m))
  <2>1. m \in DOMAIN l
    OBVIOUS
  <2>2. k[m] = Cardinality(Entries(w, m)) /\ l[m] = Cardinality(Weight(w, m))
    BY <2>1 DEF Matches
  <2> QED
    BY <1>7, <1>8, <1>9, <2>2
<1> QED
  BY <1>4, <1>12, <1>13 DEF Matches, t

(* A split gives the entries of c to the new node m.                       *)
LEMMA MatchesRenamed ==
  ASSUME NEW w \in Window, NEW l, NEW k, DOMAIN l = DOMAIN k, Matches(w, l, k),
         NEW c \in DOMAIN l, NEW m, m \notin DOMAIN l,
         NEW v, v = [i \in 1 .. Len(w) |-> IF w[i].node = c THEN [w[i] EXCEPT !.node = m] ELSE w[i]],
         Len(v) = Len(w)
  PROVE  Matches(v, Renamed(l, c, m), Renamed(k, c, m))
<1>1. /\ \A i \in 1 .. Len(w) : w[i] \in Entry(Text \ {Root})
      /\ DOMAIN l = {w[i].node : i \in 1 .. Len(w)}
  BY WindowEntries DEF Matches
<1>2. \A i \in 1 .. Len(w) : /\ v[i].leaf = w[i].leaf
                             /\ v[i].node = IF w[i].node = c THEN m ELSE w[i].node
  BY <1>1 DEF Entry
<1>3. Entries(v, m) = Entries(w, c)
  BY <1>1, <1>2 DEF Entries
<1>4. \A n \in DOMAIN l \ {c} : Entries(v, n) = Entries(w, n)
  BY <1>1, <1>2 DEF Entries
<1>5. ASSUME NEW n, NEW o, Entries(v, n) = Entries(w, o)
      PROVE  Weight(v, n) = Weight(w, o)
  <2> DEFINE E == Entries(w, o)
  <2>1. \A i \in E : v[i].leaf = w[i].leaf
    BY <1>2 DEF Entries
  <2>2. Weight(v, n) = UNION {{i} \X (1 .. Len(v[i].leaf)) : i \in E}
    BY <1>5 DEF Weight
  <2>3. Weight(w, o) = UNION {{i} \X (1 .. Len(w[i].leaf)) : i \in E}
    BY DEF Weight
  <2> HIDE DEF E
  <2> QED
    BY <2>1, <2>2, <2>3
<1>6. {v[i].node : i \in 1 .. Len(v)} = (DOMAIN l \ {c}) \union {m}
  <2>1. \A i \in 1 .. Len(w) : v[i].node \in (DOMAIN l \ {c}) \union {m}
    BY <1>1, <1>2
  <2>2. \A n \in DOMAIN l \ {c} : \E i \in 1 .. Len(w) : n = v[i].node
    BY <1>1, <1>2
  <2>3. \E i \in 1 .. Len(w) : m = v[i].node
    BY <1>1, <1>2
  <2> QED
    BY <2>1, <2>2, <2>3
<1>7. DOMAIN Renamed(l, c, m) = (DOMAIN l \ {c}) \union {m}
  BY DEF Renamed
<1>8. ASSUME NEW n \in (DOMAIN l \ {c}) \union {m}
      PROVE  /\ Renamed(k, c, m)[n] = Cardinality(Entries(v, n))
             /\ Renamed(l, c, m)[n] = Cardinality(Weight(v, n))
  <2>1. CASE n = m
    <3>1. Renamed(k, c, m)[n] = k[c] /\ Renamed(l, c, m)[n] = l[c]
      BY <2>1 DEF Renamed
    <3>2. Weight(v, m) = Weight(w, c)
      BY <1>3, <1>5
    <3> QED
      BY <1>3, <2>1, <3>1, <3>2 DEF Matches
  <2>2. CASE n # m
    <3>1. Renamed(k, c, m)[n] = k[n] /\ Renamed(l, c, m)[n] = l[n] /\ n \in DOMAIN l \ {c}
      BY <2>2 DEF Renamed
    <3>2. Entries(v, n) = Entries(w, n)
      BY <1>4, <3>1
    <3>3. Weight(v, n) = Weight(w, n)
      BY <1>5, <3>2
    <3> QED
      BY <3>1, <3>2, <3>3 DEF Matches
  <2> QED
    BY <2>1, <2>2
<1> QED
  BY <1>6, <1>7, <1>8 DEF Matches
-----------------------------------------------------------------------------
(* The inductive invariant of the structures beside the tree.              *)
HistogramInv ==
  /\ DOMAIN alloc \subseteq nodes /\ \A n \in DOMAIN alloc : alloc[n] \subseteq Gpu
  /\ nodes = DOMAIN alloc \union (IF step = "route" THEN {Root, prompt} ELSE {Root})
  /\ window \in Seq(Entry(nodes \ {Root}))
  /\ DOMAIN load = DOMAIN num /\ Matches(window, load, num)
  /\ LoadIsSomewhere

(* A function on 1 .. n is a sequence.                                     *)
LEMMA FunctionIsSeq ==
  ASSUME NEW S, NEW n \in Nat, NEW f \in [1 .. n -> S]
  PROVE  f \in Seq(S) /\ Len(f) = n
  OBVIOUS

(* The window of the model, in the terms above.                            *)
LEMMA WindowIs ==
  /\ LoadMatchesWindow <=> Matches(window, load, num)
  /\ nodes \subseteq Text /\ window \in Seq(Entry(nodes \ {Root})) => window \in Window
<1>1. LoadMatchesWindow <=> Matches(window, load, num)
  BY DEF LoadMatchesWindow, Matches, Entries, Weight
<1>2. ASSUME nodes \subseteq Text, window \in Seq(Entry(nodes \ {Root}))
      PROVE  window \in Window
  <2>1. Entry(nodes \ {Root}) \subseteq Entry(Text \ {Root})
    BY <1>2 DEF Entry
  <2> QED
    BY <1>2, <2>1, SeqMonotonic DEF Window
<1> QED
  BY <1>1, <1>2

(* Only nodes have a load, and not the root.                               *)
LEMMA WindowNodes ==
  ASSUME HistogramInv
  PROVE  DOMAIN load \subseteq nodes \ {Root}
<1>1. \A i \in 1 .. Len(window) : window[i] \in Entry(nodes \ {Root})
  BY ElementOfSeq DEF HistogramInv
<1> QED
  BY <1>1 DEF HistogramInv, Matches, Entry

(* The invariants contain what the runs check.                             *)
LEMMA HistogramIs ==
  RadixInv /\ ScheduleInv /\ HistogramInv => HistogramIsExact
<1> SUFFICES ASSUME RadixInv, ScheduleInv, HistogramInv PROVE HistogramIsExact
  OBVIOUS
<1>1. window \in Window /\ LoadMatchesWindow
  BY WindowIs DEF HistogramInv, RadixInv, Radix
<1>2. window \in Seq([node : nodes, leaf : nodes])
  <2>1. Entry(nodes \ {Root}) \subseteq [node : nodes, leaf : nodes]
    BY DEF Entry
  <2> QED
    BY <2>1, SeqMonotonic DEF HistogramInv
<1>3. \A n \in DOMAIN load : load[n] \in Nat /\ num[n] \in Nat
  BY <1>1, EntriesAreFinite, WeightIsFinite DEF HistogramInv, Matches
<1>4. TypeOK
  BY <1>2, <1>3, WindowNodes DEF TypeOK, HistogramInv, ScheduleInv
<1>5. NodesHaveAllocations
  BY DEF NodesHaveAllocations, HistogramInv
<1> QED
  BY <1>1, <1>4, <1>5 DEF HistogramIsExact, HistogramInv

(* The tree grows, the structures beside it stay.                          *)
LEMMA HistogramStays ==
  ASSUME HistogramInv, UNCHANGED <<nodes, alloc, window, load, num>>,
         nodes = DOMAIN alloc \union (IF step' = "route" THEN {Root, prompt'} ELSE {Root})
  PROVE  HistogramInv'
  BY DEF HistogramInv, LoadIsSomewhere

(* A request has an important node: the child of the root on its path is   *)
(* one.                                                                    *)
LEMMA NearestIs ==
  ASSUME Radix(nodes), NEW p \in nodes, p # Root
  PROVE  Nearest(p) \in Path(p) /\ Nearest(p) # Root
<1> DEFINE A == {n \in Path(p) : ImportantIn(nodes, n)}
           T == {Len(n) : n \in A}
<1>1. p \in Text /\ nodes \subseteq Text /\ Root \in nodes /\ Extends(p, Root) /\ Len(p) \in Nat
  BY Order DEF Radix, Text
<1>2. Len(Root) = 0
  BY DEF Root
<1>3. PICK c \in nodes : c # Root /\ Extends(p, c) /\ ParentIn(nodes, c) = Root
  BY <1>1, ChildToward
<1>4. Len(c) \in Nat \ {0}
  BY <1>1, <1>3, TextLength
<1>5. c \in A
  BY <1>2, <1>3, <1>4 DEF ImportantIn, Path
<1>6. \A n \in A : n \in nodes /\ n \in Text /\ Extends(p, n) /\ Len(n) \in 0 .. Len(p)
  BY <1>1, Lengths DEF Path
<1>7. T \subseteq 0 .. Len(p) /\ T # {}
  BY <1>5, <1>6
<1>8. Max(T) \in T /\ \A x \in T : x <= Max(T)
  BY <1>1, <1>7, GreatestOf
<1>9. PICK n \in A : Len(n) = Max(T)
  BY <1>8
<1>10. n \in Path(p) /\ ImportantIn(nodes, n) /\ \A m \in Path(p) : ImportantIn(nodes, m) => Len(m) <= Len(n)
  BY <1>8, <1>9
<1>11. Nearest(p) \in Path(p) /\ ImportantIn(nodes, Nearest(p))
  BY <1>10 DEF Nearest
<1>12. ~ImportantIn(nodes, Root)
  BY <1>1, <1>2, ParentOfRoot DEF ImportantIn
<1> QED
  BY <1>11, <1>12

(* A prompt arrives; a split hands its window and allocation on.           *)
LEMMA ArriveStep ==
  ASSUME RadixInv, RadixInv', ScheduleInv, HistogramInv, NEW p \in Prompts, Arrive(p)
  PROVE  HistogramInv'
<1>1. /\ step = "idle" /\ prompt' = p /\ step' = "route" /\ Insert(p) /\ SplitUpdates(p)
      /\ nodes = DOMAIN alloc \union {Root} /\ Radix(nodes)
  BY DEF Arrive, HistogramInv, RadixInv
<1>2. p \in Text /\ p # Root
  BY PromptIsText
<1>3. CASE p \in nodes
  <2>1. DOMAIN uncompleted = nodes
    BY DEF RadixInv, RadixTypeOK
  <2>2. UNCHANGED <<nodes, alloc, window, load, num>>
    BY <1>1, <1>3, <2>1 DEF Insert, SplitUpdates, histVars
  <2> QED
    BY <1>1, <1>3, <2>2, HistogramStays
<1>4. CASE p \notin nodes
  <2>1. nodes' = WithPrompt(p)
    BY <1>1, <1>2, <1>4, GrownIs DEF Insert
  <2>2. nodes \subseteq nodes' /\ Entry(nodes \ {Root}) \subseteq Entry(nodes' \ {Root})
    BY <2>1 DEF WithPrompt, Entry
  <2>3. window \in Seq(Entry(nodes' \ {Root}))
    BY <2>2, SeqMonotonic DEF HistogramInv
  <2>4. CASE Fork(p) = {}
    <3>1. UNCHANGED <<alloc, window, load, num>> /\ nodes' = nodes \union {p}
      BY <1>1, <2>1, <2>4 DEF SplitUpdates, histVars, WithPrompt
    <3>2. nodes' = DOMAIN alloc \union {Root, p}
      BY <1>1, <3>1
    <3> QED
      BY <1>1, <2>2, <2>3, <3>1, <3>2 DEF HistogramInv, LoadIsSomewhere
  <2>5. CASE Fork(p) # {}
    <3> DEFINE c == CHOOSE n \in Fork(p) : TRUE
               m == Common(c, p)
               v == [i \in 1 .. Len(window) |->
                      IF window[i].node = c THEN [window[i] EXCEPT !.node = m] ELSE window[i]]
    <3>1. c \in Fork(p)
      BY <2>5
    <3>2. /\ alloc' = [n \in DOMAIN alloc \union {m} |-> IF n = m THEN alloc[c] ELSE alloc[n]]
          /\ \/ UNCHANGED <<window, load, num>>
             \/ /\ c \in DOMAIN load /\ window' = v
                /\ load' = Renamed(load, c, m) /\ num' = Renamed(num, c, m)
      BY <1>1, <1>4, <2>5 DEF SplitUpdates, histVars
    <3> HIDE DEF c
    <3>3. c \in nodes /\ c # Root /\ m \notin nodes /\ c \in DOMAIN alloc
      BY <1>1, <1>2, <1>4, <3>1, ForkIs
    <3>4. nodes' = nodes \union {m} \union {p}
      BY <1>1, <1>2, <1>4, <2>1, <3>1, ForkIsUnique DEF WithPrompt
    <3> HIDE DEF m
    <3>5. /\ DOMAIN alloc' = DOMAIN alloc \union {m} /\ alloc'[m] = alloc[c]
          /\ \A n \in DOMAIN alloc : alloc'[n] = alloc[n]
      BY <1>1, <3>2, <3>3
    <3>6. nodes' = DOMAIN alloc' \union {Root, p}
      BY <1>1, <3>4, <3>5
    <3>7. \A n \in DOMAIN alloc' : alloc'[n] \subseteq Gpu
      BY <3>3, <3>5 DEF HistogramInv
    <3>8. CASE UNCHANGED <<window, load, num>>
      <4>1. LoadIsSomewhere'
        BY <3>5, <3>8 DEF HistogramInv, LoadIsSomewhere
      <4> QED
        BY <1>1, <2>3, <3>5, <3>6, <3>7, <3>8, <4>1 DEF HistogramInv
    <3>9. CASE /\ c \in DOMAIN load /\ window' = v
               /\ load' = Renamed(load, c, m) /\ num' = Renamed(num, c, m)
      <4>1. /\ DOMAIN load' = (DOMAIN load \ {c}) \union {m}
            /\ DOMAIN num' = DOMAIN load'
        BY <3>9 DEF Renamed, HistogramInv
      <4>2. \A n \in DOMAIN load' : n \in DOMAIN alloc' /\ alloc'[n] # {}
        BY <3>5, <3>9, <4>1 DEF HistogramInv, LoadIsSomewhere
      <4>3. m \notin DOMAIN load /\ m # Root
        BY <1>1, <3>3, WindowNodes
      <4>4. /\ window \in Window /\ Len(window) \in Nat
            /\ \A i \in 1 .. Len(window) : window[i] \in Entry(nodes \ {Root})
        BY WindowIs, ElementOfSeq DEF HistogramInv, RadixInv, Radix
      <4>5. ASSUME NEW i \in 1 .. Len(window)
            PROVE  v[i] \in Entry(nodes' \ {Root})
        BY <2>2, <3>4, <4>3, <4>4 DEF Entry
      <4>6. v \in Seq(Entry(nodes' \ {Root})) /\ Len(v) = Len(window)
        <5>1. v \in [1 .. Len(window) -> Entry(nodes' \ {Root})]
          BY <4>5
        <5> HIDE DEF v
        <5> QED
          BY <4>4, <5>1, FunctionIsSeq
      <4>7. Matches(window', load', num')
        BY <3>9, <4>3, <4>4, <4>6, MatchesRenamed DEF HistogramInv
      <4> QED
        BY <1>1, <3>5, <3>6, <3>7, <3>9, <4>1, <4>2, <4>6, <4>7 DEF HistogramInv, LoadIsSomewhere
    <3> QED
      BY <3>2, <3>8, <3>9
  <2> QED
    BY <2>4, <2>5
<1> QED
  BY <1>3, <1>4

(* It is routed: its path has an allocation and the window one more entry. *)
LEMMA RouteStep ==
  ASSUME RadixInv, ScheduleInv, HistogramInv, NEW g \in Gpu, Route(g)
  PROVE  HistogramInv'
<1> DEFINE n == Nearest(prompt)
           e == [node |-> n, leaf |-> prompt]
<1>1. /\ step = "route" /\ step' = "expire" /\ nodes' = nodes
      /\ alloc' = [m \in DOMAIN alloc \union Path(prompt) |->
           (IF m \in DOMAIN alloc THEN alloc[m] ELSE {})
             \union (IF Extends(prompt, m) THEN {g} ELSE {})]
      /\ window' = Append(window, e)
      /\ load' = [m \in DOMAIN load \union {n} |->
           (IF m \in DOMAIN load THEN load[m] ELSE 0) + (IF m = n THEN Len(prompt) ELSE 0)]
      /\ num' = [m \in DOMAIN num \union {n} |->
           (IF m \in DOMAIN num THEN num[m] ELSE 0) + (IF m = n THEN 1 ELSE 0)]
  BY DEF Route, UpdateCacheMetadata
<1>2. prompt \in nodes /\ prompt # Root /\ prompt \in Text /\ Extends(prompt, prompt) /\ Radix(nodes)
  BY <1>1, PromptIsText, Order DEF ScheduleInv, RadixInv
<1>3. n \in Path(prompt) /\ n # Root /\ n \in nodes
  BY <1>2, NearestIs DEF Path
<1> HIDE DEF n
<1>4. e \in Entry(nodes \ {Root}) /\ e \in Entry(Text \ {Root}) /\ e.node = n /\ e.leaf = prompt
  BY <1>2, <1>3 DEF Entry, Radix
<1> HIDE DEF e
<1>5. /\ window \in Window /\ DOMAIN load = DOMAIN num /\ Matches(window, load, num)
      /\ nodes = DOMAIN alloc \union {Root, prompt}
  BY <1>1, <1>2, WindowIs DEF HistogramInv, Radix
<1>6. Matches(window', load', num')
  <2>1. /\ load' = [m \in DOMAIN load \union {e.node} |->
             (IF m \in DOMAIN load THEN load[m] ELSE 0) + (IF m = e.node THEN Len(e.leaf) ELSE 0)]
        /\ num' = [m \in DOMAIN num \union {e.node} |->
             (IF m \in DOMAIN num THEN num[m] ELSE 0) + (IF m = e.node THEN 1 ELSE 0)]
    BY <1>1, <1>4, Zenon
  <2>2. Matches(Append(window, e), load', num')
    BY <1>4, <1>5, <2>1, MatchesAppend
  <2> QED
    BY <1>1, <2>2, Zenon
<1>7. window' \in Seq(Entry(nodes' \ {Root}))
  BY <1>1, <1>4, AppendProperties DEF HistogramInv
<1>8. /\ DOMAIN alloc' = DOMAIN alloc \union Path(prompt)
      /\ prompt \in Path(prompt) /\ Path(prompt) \subseteq nodes
      /\ \A m \in DOMAIN alloc : alloc[m] \subseteq alloc'[m]
      /\ g \in alloc'[n] /\ n \in DOMAIN alloc'
  BY <1>1, <1>2, <1>3 DEF Path
<1>9. \A m \in DOMAIN alloc' : alloc'[m] \subseteq Gpu
  BY <1>1 DEF HistogramInv
<1>10. nodes' = DOMAIN alloc' \union {Root}
  <2>1. Root \in nodes
    BY <1>2 DEF Radix
  <2> QED
    BY <1>1, <1>5, <1>8, <2>1
<1>11. DOMAIN load' = DOMAIN load \union {n} /\ DOMAIN num' = DOMAIN load'
  BY <1>1, <1>5
<1>12. LoadIsSomewhere'
  BY <1>8, <1>11 DEF HistogramInv, LoadIsSomewhere
<1> QED
  BY <1>1, <1>6, <1>7, <1>9, <1>10, <1>11, <1>12 DEF HistogramInv

(* The oldest entry leaves.                                                *)
LEMMA ExpireStep ==
  ASSUME RadixInv, HistogramInv, Expire
  PROVE  HistogramInv'
<1> DEFINE n == Head(window).node
           x == load[n] - Len(Head(window).leaf)
           D == IF x <= 0 THEN DOMAIN load \ {n} ELSE DOMAIN load
<1>1. /\ step = "expire" /\ step' = step /\ nodes' = nodes /\ Len(window) > 1
      /\ window' = Tail(window)
      /\ load' = [m \in D |-> IF m = n THEN x ELSE load[m]]
      /\ num' = [m \in D |-> IF m = n THEN num[m] - 1 ELSE num[m]]
      /\ IF x <= 0 THEN alloc' = [alloc EXCEPT ![n] = {}] ELSE UNCHANGED alloc
  BY DEF Expire, Forget, radixVars
<1>2. window \in Window /\ window # << >> /\ DOMAIN load = DOMAIN num /\ Matches(window, load, num)
  BY <1>1, WindowIs DEF HistogramInv, RadixInv, Radix
<1>0. /\ n = Head(window).node /\ x = load[n] - Len(Head(window).leaf)
      /\ D = IF x <= 0 THEN DOMAIN load \ {n} ELSE DOMAIN load
  OBVIOUS
<1> HIDE DEF D, x, n
<1>3. n \in DOMAIN load /\ Matches(window', load', num')
  <2>1. /\ n \in DOMAIN load
        /\ Matches(Tail(window), [m \in D |-> IF m = n THEN x ELSE load[m]],
                                 [m \in D |-> IF m = n THEN num[m] - 1 ELSE num[m]])
    BY <1>0, <1>2, MatchesTail
  <2> QED
    BY <1>1, <2>1, Zenon
<1>4. window' \in Seq(Entry(nodes' \ {Root}))
  BY <1>1, <1>2, HeadTailProperties DEF HistogramInv
<1>5. DOMAIN load' = DOMAIN num'
  BY <1>1
<1>6. /\ DOMAIN alloc' = DOMAIN alloc
      /\ \A m \in DOMAIN alloc : m # n => alloc'[m] = alloc[m]
      /\ ~(x <= 0) => alloc' = alloc
      /\ \A m \in DOMAIN alloc' : alloc'[m] \subseteq Gpu
  BY <1>1 DEF HistogramInv
<1>7. \A m \in DOMAIN load' : m \in DOMAIN load /\ (x <= 0 => m # n)
  BY <1>1 DEF D
<1>8. LoadIsSomewhere'
  BY <1>6, <1>7 DEF HistogramInv, LoadIsSomewhere
<1>9. nodes' = DOMAIN alloc' \union {Root}
  BY <1>1, <1>6 DEF HistogramInv
<1> QED
  BY <1>1, <1>3, <1>4, <1>5, <1>6, <1>8, <1>9 DEF HistogramInv

(* Nodes are moved to the light replica; each keeps one.                   *)
LEMMA StealStep ==
  ASSUME ScheduleInv, HistogramInv, NEW heavy \in Gpu, Steal(heavy)
  PROVE  HistogramInv'
<1>1. /\ step = "steal" /\ step' = step
      /\ UNCHANGED <<nodes, window, load, num>> /\ light \in Gpu
  BY DEF Steal, radixVars, histVars, ScheduleInv
<1>2. /\ DOMAIN alloc' = DOMAIN alloc
      /\ \A n \in DOMAIN alloc : \/ alloc'[n] = alloc[n]
                                 \/ alloc'[n] = alloc[n] \union {light}
                                 \/ alloc'[n] = {light}
  <2>1. CASE Cardinality(Stealable(heavy)) = 1
    <3>1. PICK n \in Stealable(heavy), share \in BOOLEAN :
            alloc' = IF share THEN [alloc EXCEPT ![n] = @ \union {light}] ELSE alloc
      BY <2>1 DEF Steal
    <3> QED
      BY <3>1
  <2>2. CASE Cardinality(Stealable(heavy)) # 1
    <3>1. PICK S \in SUBSET Stealable(heavy) :
            alloc' = [n \in DOMAIN alloc |-> IF \E s \in S : Extends(n, s) THEN {light} ELSE alloc[n]]
      BY <2>2 DEF Steal
    <3> QED
      BY <3>1
  <2> QED
    BY <2>1, <2>2
<1>3. \A n \in DOMAIN alloc' : alloc'[n] \subseteq Gpu
  BY <1>1, <1>2 DEF HistogramInv
<1>4. LoadIsSomewhere'
  BY <1>1, <1>2 DEF HistogramInv, LoadIsSomewhere
<1> QED
  BY <1>1, <1>2, <1>3, <1>4 DEF HistogramInv

(* Every step keeps the inductive invariant.                               *)
LEMMA HistogramStep ==
  RadixInv /\ RadixInv' /\ ScheduleInv /\ HistogramInv /\ [Next]_vars => HistogramInv'
<1> SUFFICES ASSUME RadixInv, RadixInv', ScheduleInv, HistogramInv, [Next]_vars
             PROVE  HistogramInv'
  OBVIOUS
<1>1. ASSUME NEW p \in Prompts, Arrive(p)
      PROVE  HistogramInv'
  BY <1>1, ArriveStep
<1>2. ASSUME NEW g \in Gpu, Route(g)
      PROVE  HistogramInv'
  BY <1>2, RouteStep
<1>3. ASSUME NEW g \in Gpu, Steal(g)
      PROVE  HistogramInv'
  BY <1>3, StealStep
<1>4. CASE Expire
  BY <1>4, ExpireStep
<1>5. ASSUME UNCHANGED <<nodes, alloc, window, load, num, prompt>>, step # "route", step' # "route"
      PROVE  HistogramInv'
  BY <1>5, HistogramStays DEF HistogramInv
<1>6. CASE BeginEviction
  BY <1>5, <1>6 DEF BeginEviction, BeginEvict, radixVars, histVars
<1>7. CASE Evicting
  BY <1>5, <1>7 DEF Evicting, Evict, EndEvict, schedVars, histVars
<1>8. CASE BeginSteal
  BY <1>5, <1>8 DEF BeginSteal, radixVars, histVars
<1>9. CASE Return
  <2>1. /\ UNCHANGED <<nodes, alloc, window, load, num>> /\ step # "route" /\ step' = "idle"
    BY <1>9 DEF Return, radixVars, histVars
  <2> QED
    BY <2>1, HistogramStays DEF HistogramInv
<1>10. ASSUME NEW u \in users, FinishRequest(u)
       PROVE  HistogramInv'
  BY <1>5, <1>10 DEF FinishRequest, RemoveCompleted, schedVars, histVars
<1>11. ASSUME NEW u \in users, IgnoreFailed(u)
       PROVE  HistogramInv'
  BY <1>5, <1>11 DEF IgnoreFailed, radixVars, histVars
<1>12. CASE UNCHANGED vars
  <2>1. UNCHANGED <<nodes, alloc, window, load, num, step, prompt>>
    BY <1>12 DEF vars, radixVars, schedVars, histVars
  <2> QED
    BY <2>1, HistogramStays DEF HistogramInv
<1> QED
  BY <1>1, <1>2, <1>3, <1>4, <1>6, <1>7, <1>8, <1>9, <1>10, <1>11, <1>12 DEF Next, Schedule

(* Nothing has arrived.                                                    *)
LEMMA HistogramInit == Init => HistogramInv
<1> SUFFICES ASSUME Init PROVE HistogramInv
  OBVIOUS
<1>1. /\ window = << >> /\ DOMAIN alloc = {} /\ DOMAIN load = {} /\ DOMAIN num = {}
      /\ nodes = {Root} /\ step = "idle"
  BY DEF Init, RadixInit, NoNodes
<1>2. window \in Seq(Entry(nodes \ {Root})) /\ Len(window) = 0
  BY <1>1, EmptySeq
<1>3. Matches(window, load, num)
  BY <1>1, <1>2 DEF Matches
<1> QED
  BY <1>1, <1>2, <1>3 DEF HistogramInv, LoadIsSomewhere

(* Tree, allocation, window and sums follow every split, expiry and move:  *)
(* the load of a node is that of its requests in the window, and it is     *)
(* somewhere.                                                              *)
THEOREM HistogramStaysExact == Spec => []HistogramIsExact
<1>1. RadixInv /\ ScheduleInv /\ HistogramInv /\ [Next]_vars
        => (RadixInv /\ ScheduleInv /\ HistogramInv)'
  BY SchedulerUsesTree, RadixStep, ScheduleStep, HistogramStep
<1>2. Init => RadixInv /\ ScheduleInv /\ HistogramInv
  BY RadixInitInv, HistogramInit DEF Init, ScheduleInv, Step, RadixInit
<1> QED
  BY <1>1, <1>2, HistogramIs, PTL DEF Spec
=============================================================================

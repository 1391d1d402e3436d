--------------------------- MODULE ReplicasProofs ---------------------------
(***************************************************************************)
(* For any number of replicas and requests, whatever the prompts, the      *)
(* budget and the evictions: the books of the replicas balance.            *)
(***************************************************************************)
EXTENDS Replicas, FiniteSetTheorems, TLAPS

(***************************************************************************)
(* How Totals behaves when one element enters or leaves the container.     *)
(***************************************************************************)
(* The sum over an empty container is 0, and nothing else is: a counter    *)
(* of an empty container cannot have drifted.                              *)
LEMMA TotalsEmpty ==
  ASSUME NEW f, NEW t
  PROVE  /\ Totals({}, f, 0)
         /\ Totals({}, f, t) => t = 0
<1>1. Cardinality({}) = 0
  BY FS_EmptySet
<1>2. Totals({}, f, 0)
  <2> DEFINE e == [i \in 1 .. 0 |-> i]
             p == [i \in 0 .. 0 |-> 0]
  <2>1. 1 .. 0 = {} /\ 0 .. 0 = {0}
    OBVIOUS
  <2>2. e \in [1 .. 0 -> {}] /\ p \in [0 .. 0 -> 0 .. 0] /\ p[0] = 0
    BY <2>1
  <2> HIDE DEF e, p
  <2>3. Sums(0, {}, f, 0)
    BY <2>1, <2>2 DEF Sums
  <2> QED
    BY <1>1, <2>3 DEF Totals
<1>3. Totals({}, f, t) => t = 0
  BY <1>1 DEF Totals, Sums
<1> QED
  BY <1>2, <1>3

(* A total of a finite container is a natural number.                      *)
LEMMA TotalsNat ==
  ASSUME NEW S, IsFiniteSet(S), NEW f, NEW t \in Int, Totals(S, f, t)
  PROVE  t \in Nat
<1>1. Cardinality(S) \in Nat
  BY FS_CardinalityType
<1>2. PICK p \in [0 .. Cardinality(S) -> 0 .. t] : p[Cardinality(S)] = t
  BY DEF Totals, Sums
<1> QED
  BY <1>1, <1>2

(* Appending an element to an order of S.                                  *)
LEMMA SumsAdd ==
  ASSUME NEW n \in Nat, NEW S, NEW x, x \notin S, NEW f, f[x] \in Nat,
         NEW t \in Nat, Sums(n, S, f, t)
  PROVE  Sums(n + 1, S \union {x}, f, t + f[x])
<1> DEFINE T == S \union {x}
           u == t + f[x]
<1>1. n \in Nat
  OBVIOUS
<1>2. PICK e \in [1 .. n -> S], p \in [0 .. n -> 0 .. t] :
        /\ \A i, j \in 1 .. n : e[i] = e[j] => i = j
        /\ \A y \in S : \E i \in 1 .. n : e[i] = y
        /\ p[0] = 0
        /\ p[n] = t
        /\ \A i \in 1 .. n : p[i] = p[i - 1] + f[e[i]]
        /\ \A i, j \in 0 .. n : i <= j => p[i] <= p[j]
  BY DEF Sums
<1> DEFINE d == [i \in 1 .. n + 1 |-> IF i = n + 1 THEN x ELSE e[i]]
           s == [i \in 0 .. n + 1 |-> IF i = n + 1 THEN u ELSE p[i]]
<1>3. d \in [1 .. n + 1 -> T] /\ s \in [0 .. n + 1 -> 0 .. u]
  BY <1>1, <1>2
<1>4. /\ \A i, j \in 1 .. n + 1 : d[i] = d[j] => i = j
      /\ \A y \in T : \E i \in 1 .. n + 1 : d[i] = y
  <2>1. ASSUME NEW i \in 1 .. n + 1, NEW j \in 1 .. n + 1, d[i] = d[j]
        PROVE  i = j
    <3>1. CASE i \in 1 .. n /\ j \in 1 .. n
      BY <1>2, <2>1, <3>1
    <3>2. CASE i = n + 1 /\ j \in 1 .. n
      BY <1>2, <2>1, <3>2
    <3>3. CASE j = n + 1 /\ i \in 1 .. n
      BY <1>2, <2>1, <3>3
    <3> QED
      BY <3>1, <3>2, <3>3
  <2>2. ASSUME NEW y \in T
        PROVE  \E i \in 1 .. n + 1 : d[i] = y
    <3>1. CASE y = x
      BY <1>1, <3>1
    <3>2. CASE y \in S
      <4>1. PICK i \in 1 .. n : e[i] = y
        BY <1>2, <3>2
      <4> QED
        BY <1>1, <4>1
    <3> QED
      BY <3>1, <3>2
  <2> QED
    BY <2>1, <2>2
<1>5. s[0] = 0 /\ s[n + 1] = u
  BY <1>1, <1>2
<1>6. \A i \in 1 .. n + 1 : s[i] = s[i - 1] + f[d[i]]
  BY <1>1, <1>2
<1>7. \A i, j \in 0 .. n + 1 : i <= j => s[i] <= s[j]
  BY <1>1, <1>2
<1> HIDE DEF d, s
<1> QED
  BY <1>3, <1>4, <1>5, <1>6, <1>7 DEF Sums

(* A counter grows by what the new element contributes.                    *)
LEMMA TotalsAdd ==
  ASSUME NEW S, IsFiniteSet(S), NEW x, x \notin S, NEW f, f[x] \in Nat,
         NEW t \in Nat, Totals(S, f, t)
  PROVE  Totals(S \union {x}, f, t + f[x])
<1>1. /\ Cardinality(S) \in Nat
      /\ Cardinality(S \union {x}) = Cardinality(S) + 1
  BY FS_CardinalityType, FS_AddElement
<1> QED
  BY <1>1, SumsAdd DEF Totals

(* Taking an element out of an order of S, wherever it stands.             *)
LEMMA SumsRemove ==
  ASSUME NEW n \in Nat \ {0}, NEW S, NEW x \in S, NEW f,
         \A y \in S : f[y] \in Nat, NEW t \in Nat,
         Sums(n, S, f, t)
  PROVE  /\ t - f[x] \in Nat
         /\ Sums(n - 1, S \ {x}, f, t - f[x])
<1> DEFINE T == S \ {x}
<1>1. n \in Nat \ {0}
  OBVIOUS
<1>2. PICK e \in [1 .. n -> S], p \in [0 .. n -> 0 .. t] :
        /\ \A i, j \in 1 .. n : e[i] = e[j] => i = j
        /\ \A y \in S : \E i \in 1 .. n : e[i] = y
        /\ p[0] = 0
        /\ p[n] = t
        /\ \A i \in 1 .. n : p[i] = p[i - 1] + f[e[i]]
        /\ \A i, j \in 0 .. n : i <= j => p[i] <= p[j]
  BY DEF Sums
<1>injective. \A i, j \in 1 .. n : e[i] = e[j] => i = j
  BY <1>2
<1>ends. p[0] = 0 /\ p[n] = t
  BY <1>2
<1>step. \A i \in 1 .. n : p[i] = p[i - 1] + f[e[i]]
  BY <1>2
<1>monotone. \A i, j \in 0 .. n : i <= j => p[i] <= p[j]
  BY <1>2
<1>3. PICK k \in 1 .. n : e[k] = x
  BY <1>2
<1>a. PICK a \in Nat : a = f[x]
  OBVIOUS
<1>u. PICK u : u = t - a
  OBVIOUS
<1>4. /\ p[k] = p[k - 1] + a
      /\ a \in Nat
      /\ \A i \in 0 .. n : p[i] \in Nat
  BY <1>3, <1>a, <1>step
<1>5. k \in 1 .. n /\ k - 1 \in 0 .. n /\ k \in 0 .. n /\ n \in 0 .. n
  OBVIOUS
<1>6. ASSUME NEW i \in 0 .. n
      PROVE  /\ i <= k - 1 => p[i] <= p[k - 1]
             /\ k <= i => p[k] <= p[i]
             /\ p[i] <= t
  <2>1. i <= n
    OBVIOUS
  <2> QED
    BY <1>5, <1>ends, <1>monotone, <2>1
<1>7. p[k] <= t /\ u \in Nat
  <2>1. p[k] <= t /\ p[k - 1] \in Nat /\ p[k] \in Nat
    BY <1>4, <1>5, <1>6
  <2> QED
    BY <1>4, <1>u, <2>1
<1>8. PICK s, d :
        /\ s = [i \in 0 .. n - 1 |-> IF i < k THEN p[i] ELSE p[i + 1] - a]
        /\ d = [i \in 1 .. n - 1 |-> IF i < k THEN e[i] ELSE e[i + 1]]
  OBVIOUS
<1>shift. /\ \A i \in 0 .. n - 1 : i < k => s[i] = p[i]
          /\ \A i \in 0 .. n - 1 : ~(i < k) => s[i] = p[i + 1] - a
          /\ \A i \in 1 .. n - 1 : i < k => d[i] = e[i]
          /\ \A i \in 1 .. n - 1 : ~(i < k) => d[i] = e[i + 1]
  BY <1>8
<1>9. d \in [1 .. n - 1 -> T]
  <2>1. ASSUME NEW i \in 1 .. n - 1
        PROVE  d[i] \in T
    <3>1. CASE i < k
      <4>1. i \in 1 .. n /\ i # k
        BY <3>1
      <4>2. e[i] # e[k]
        BY <1>injective, <4>1
      <4>3. d[i] = e[i]
        BY <1>shift, <3>1
      <4>4. e[i] \in S
        BY <4>1
      <4> QED
        BY ONLY <1>3, <4>2, <4>3, <4>4, T = S \ {x}
    <3>2. CASE ~(i < k)
      <4>1. i + 1 \in 1 .. n /\ i + 1 # k
        BY <3>2
      <4>2. e[i + 1] # e[k]
        BY <1>injective, <4>1
      <4>3. d[i] = e[i + 1]
        BY <1>shift, <3>2
      <4>4. e[i + 1] \in S
        BY <4>1
      <4> QED
        BY ONLY <1>3, <4>2, <4>3, <4>4, T = S \ {x}
    <3> QED
      BY <3>1, <3>2
  <2> QED
    BY <1>8, <2>1
<1>10. s \in [0 .. n - 1 -> 0 .. u]
  <2>1. ASSUME NEW i \in 0 .. n - 1
        PROVE  s[i] \in 0 .. u
    <3> DEFINE m == i + 1
    <3>1. i \in 0 .. n /\ m \in 0 .. n /\ m = i + 1
      OBVIOUS
    <3> HIDE DEF m
    <3>2. /\ p[i] \in Nat /\ p[m] \in Nat /\ a \in Nat /\ u = t - a
          /\ p[k] = p[k - 1] + a /\ p[k] \in Nat /\ p[k - 1] \in Nat
      BY <1>4, <1>5, <1>u, <3>1
    <3>3. CASE i < k
      <4>1. s[i] = p[i] /\ p[i] <= p[k - 1]
        BY <1>6, <1>shift, <3>1, <3>3
      <4> QED
        BY ONLY <1>7, <3>2, <4>1, t \in Nat
    <3>4. CASE ~(i < k)
      <4>1. s[i] = p[m] - a /\ p[k] <= p[m] /\ p[m] <= t
        BY <1>6, <1>shift, <3>1, <3>4
      <4> QED
        <5>1. a <= p[k]
          BY ONLY <3>2
        <5>2. a <= p[m]
          BY ONLY <3>2, <4>1, <5>1
        <5>3. \A b, v, w \in Nat : b <= v /\ v <= w => v - b \in 0 .. w - b
          BY ONLY TRUE
        <5> QED
          BY ONLY <3>2, <4>1, <5>2, <5>3, t \in Nat, SMTT(30)
    <3> QED
      BY <3>3, <3>4
  <2> QED
    BY <1>8, <2>1
<1>11. \A i, j \in 1 .. n - 1 : d[i] = d[j] => i = j
  <2>1. ASSUME NEW i \in 1 .. n - 1, NEW j \in 1 .. n - 1, d[i] = d[j]
        PROVE  i = j
    <3>1. /\ i \in 1 .. n /\ i + 1 \in 1 .. n
          /\ j \in 1 .. n /\ j + 1 \in 1 .. n
      OBVIOUS
    <3>2. CASE i < k /\ j < k
      BY <1>injective, <1>shift, <2>1, <3>1, <3>2
    <3>3. CASE i < k /\ ~(j < k)
      BY <1>injective, <1>shift, <2>1, <3>1, <3>3
    <3>4. CASE ~(i < k) /\ j < k
      BY <1>injective, <1>shift, <2>1, <3>1, <3>4
    <3>5. CASE ~(i < k) /\ ~(j < k)
      BY <1>injective, <1>shift, <2>1, <3>1, <3>5
    <3> QED
      BY <3>2, <3>3, <3>4, <3>5
  <2> QED
    BY <2>1
<1>12. \A y \in T : \E i \in 1 .. n - 1 : d[i] = y
  <2>1. ASSUME NEW y \in T
        PROVE  \E i \in 1 .. n - 1 : d[i] = y
    <3>1. PICK i \in 1 .. n : e[i] = y
      BY <1>2
    <3>2. i # k
      BY <1>3, <3>1
    <3>3. CASE i < k
      <4>1. i \in 1 .. n - 1
        BY <3>3
      <4> QED
        BY <1>shift, <3>1, <3>3, <4>1
    <3>4. CASE i > k
      <4> DEFINE h == i - 1
      <4>1. h \in 1 .. n - 1 /\ ~(h < k) /\ h + 1 = i
        BY <3>4
      <4> HIDE DEF h
      <4> QED
        BY <1>shift, <3>1, <4>1
    <3> QED
      BY <3>2, <3>3, <3>4
  <2> QED
    BY <2>1
<1>13. s[0] = 0 /\ s[n - 1] = u
  <2>1. s[0] = 0
    <3>1. 0 \in 0 .. n - 1 /\ 0 < k
      OBVIOUS
    <3> QED
      BY <1>ends, <1>shift, <3>1
  <2>2. CASE n - 1 < k
    <3>1. k = n /\ n - 1 \in 0 .. n - 1
      BY ONLY <2>2, k \in 1 .. n, n \in Nat \ {0}
    <3>2. s[n - 1] = p[k - 1]
      BY <1>shift, <2>2, <3>1
    <3>3. p[k - 1] + a = t /\ p[k - 1] \in Nat
      BY <1>ends, <1>4, <1>5, <3>1
    <3>4. p[k - 1] = t - a
      BY ONLY <3>3, a \in Nat, t \in Nat
    <3> QED
      BY <1>ends, <1>u, <2>1, <3>2, <3>4
  <2>3. CASE ~(n - 1 < k)
    <3>1. n - 1 \in 0 .. n - 1 /\ (n - 1) + 1 = n
      OBVIOUS
    <3> QED
      BY <1>ends, <1>shift, <1>u, <2>3, <3>1
  <2> QED
    BY <2>1, <2>2, <2>3
<1>14. \A i \in 1 .. n - 1 : s[i] = s[i - 1] + f[d[i]]
  <2>1. ASSUME NEW i \in 1 .. n - 1
        PROVE  s[i] = s[i - 1] + f[d[i]]
    <3> DEFINE h == i - 1
               m == i + 1
    <3>1. /\ h \in 0 .. n - 1 /\ h \in 0 .. n /\ h = i - 1 /\ h + 1 = i
          /\ i \in 0 .. n - 1 /\ i \in 0 .. n /\ i \in 1 .. n
          /\ m \in 0 .. n /\ m \in 1 .. n /\ m - 1 = i /\ m = i + 1
      OBVIOUS
    <3> HIDE DEF h, m
    <3>2. p[m] = p[i] + f[e[m]] /\ p[i] = p[h] + f[e[i]]
      BY <1>step, <3>1
    <3>3. p[m] \in Nat /\ p[i] \in Nat /\ p[h] \in Nat
      BY <1>4, <3>1
    <3>4. CASE i < k
      <4>1. s[i] = p[i] /\ s[h] = p[h] /\ d[i] = e[i]
        BY <1>shift, <3>1, <3>4
      <4> QED
        BY <3>1, <3>2, <4>1
    <3>5. CASE i = k
      <4>1. s[i] = p[m] - a /\ s[h] = p[h] /\ d[i] = e[m]
        BY <1>shift, <3>1, <3>5
      <4>2. p[i] = p[h] + a
        BY <1>4, <3>1, <3>5
      <4>3. f[d[i]] = f[e[m]] /\ s[i - 1] = s[h]
        BY <3>1, <4>1
      <4>4. f[e[m]] \in Nat
        BY <3>1
      <4>5. p[i] - a = p[h]
        BY ONLY <3>3, <4>2, a \in Nat
      <4>6. \A b, c, v, w \in Nat : v = w + c => v - b = (w - b) + c
        BY ONLY TRUE
      <4>7. p[m] - a = (p[i] - a) + f[e[m]]
        BY ONLY <3>2, <3>3, <4>4, <4>6, a \in Nat
      <4> QED
        BY <4>1, <4>3, <4>5, <4>7
    <3>6. CASE i > k
      <4>1. s[i] = p[m] - a /\ s[h] = p[i] - a /\ d[i] = e[m]
        BY <1>shift, <3>1, <3>6
      <4>3. f[d[i]] = f[e[m]] /\ s[i - 1] = s[h]
        BY <3>1, <4>1
      <4>4. f[e[m]] \in Nat
        BY <3>1
      <4>5. \A b, c, v, w \in Nat : v = w + c => v - b = (w - b) + c
        BY ONLY TRUE
      <4>6. p[m] - a = (p[i] - a) + f[e[m]]
        BY ONLY <3>2, <3>3, <4>4, <4>5, a \in Nat
      <4> QED
        BY <4>1, <4>3, <4>6
    <3> QED
      BY <3>4, <3>5, <3>6
  <2> QED
    BY <2>1
<1>15. \A i, j \in 0 .. n - 1 : i <= j => s[i] <= s[j]
  <2>1. ASSUME NEW i \in 0 .. n - 1, NEW j \in 0 .. n - 1, i <= j
        PROVE  s[i] <= s[j]
    <3> DEFINE g == i + 1
               m == j + 1
    <3>1. /\ i \in 0 .. n /\ g \in 0 .. n /\ g = i + 1
          /\ j \in 0 .. n /\ m \in 0 .. n /\ m = j + 1 /\ g <= m
      BY <2>1
    <3> HIDE DEF g, m
    <3>2. /\ p[i] \in Nat /\ p[g] \in Nat /\ p[j] \in Nat /\ p[m] \in Nat
          /\ p[i] <= p[j] /\ p[g] <= p[m]
      BY <1>4, <1>monotone, <2>1, <3>1
    <3>3. /\ i < k => s[i] = p[i]
          /\ ~(i < k) => s[i] = p[g] - a
          /\ j < k => s[j] = p[j]
          /\ ~(j < k) => s[j] = p[m] - a
      BY <1>shift, <3>1
    <3>4. CASE j < k
      BY ONLY <2>1, <3>2, <3>3, <3>4, i \in Nat, j \in Nat, k \in Nat
    <3>5. CASE i < k /\ ~(j < k)
      <4>1. p[i] <= p[k - 1] /\ p[k] <= p[m]
        BY <1>6, <3>1, <3>5
      <4>2. p[k] \in Nat /\ p[k - 1] \in Nat
        BY <1>4, <1>5
      <4>3. p[k] = p[k - 1] + a
        BY <1>4
      <4> QED
        <5>1. p[k - 1] = p[k] - a
          BY ONLY <4>2, <4>3, a \in Nat
        <5>2. s[i] = p[i] /\ s[j] = p[m] - a
          BY ONLY <3>3, <3>5
        <5>3. \A b, w, y \in Nat : w <= y => w - b <= y - b
          BY ONLY TRUE
        <5>4. p[k] - a <= p[m] - a
          BY ONLY <3>2, <4>1, <4>2, <5>3, a \in Nat, SMTT(30)
        <5>5. s[i] <= p[k] - a
          BY ONLY <4>1, <5>1, <5>2
        <5> QED
          BY ONLY <3>2, <4>2, <5>2, <5>4, <5>5, a \in Nat, SMTT(30)
    <3>6. CASE ~(i < k)
      <4>1. ~(j < k)
        BY ONLY <2>1, <3>6, i \in Nat, j \in Nat, k \in Nat
      <4>2. s[i] = p[g] - a /\ s[j] = p[m] - a
        BY ONLY <3>3, <3>6, <4>1
      <4> QED
        BY ONLY <3>2, <4>2, a \in Nat, SMTT(30)
    <3> QED
      BY <3>4, <3>5, <3>6
  <2> QED
    BY <2>1
<1> QED
  <2>1. u = t - f[x] /\ u \in Nat
    BY <1>7, <1>a, <1>u
  <2>2. Sums(n - 1, T, f, u)
    BY <1>9, <1>10, <1>11, <1>12, <1>13, <1>14, <1>15 DEF Sums
  <2> QED
    BY <2>1, <2>2

(* A counter shrinks by what the element that leaves contributed, and      *)
(* never below 0.                                                          *)
LEMMA TotalsRemove ==
  ASSUME NEW S, IsFiniteSet(S), NEW x \in S, NEW f,
         \A y \in S : f[y] \in Nat, NEW t \in Nat, Totals(S, f, t)
  PROVE  /\ t - f[x] \in Nat
         /\ Totals(S \ {x}, f, t - f[x])
<1>1. /\ Cardinality(S) \in Nat \ {0}
      /\ Cardinality(S \ {x}) = Cardinality(S) - 1
  BY FS_CardinalityType, FS_RemoveElement, FS_EmptySet
<1> QED
  BY <1>1, SumsRemove DEF Totals

(* Totals sees f only on S: changing it elsewhere changes no counter.      *)
LEMMA TotalsSame ==
  ASSUME NEW S, IsFiniteSet(S), NEW f, NEW g, \A x \in S : f[x] = g[x],
         NEW t, Totals(S, f, t)
  PROVE  Totals(S, g, t)
<1> DEFINE n == Cardinality(S)
<1> SUFFICES ASSUME Sums(n, S, f, t)
             PROVE  Sums(n, S, g, t)
  BY DEF Totals
<1>1. n \in Nat
  BY FS_CardinalityType
<1>2. PICK e \in [1 .. n -> S], p \in [0 .. n -> 0 .. t] :
        /\ \A i, j \in 1 .. n : e[i] = e[j] => i = j
        /\ \A y \in S : \E i \in 1 .. n : e[i] = y
        /\ p[0] = 0
        /\ p[n] = t
        /\ \A i \in 1 .. n : p[i] = p[i - 1] + f[e[i]]
        /\ \A i, j \in 0 .. n : i <= j => p[i] <= p[j]
  BY DEF Sums
<1>3. \A i \in 1 .. n : p[i] = p[i - 1] + g[e[i]]
  BY <1>1, <1>2
<1> QED
  BY <1>2, <1>3 DEF Sums
-----------------------------------------------------------------------------
USE ReplicasAssumption, RequestsAssumption, ReplicaAssumption

(* Request lists are finite, which Totals needs.                           *)
LEMMA FiniteRequests ==
  ASSUME NEW S \in SUBSET Request
  PROVE  IsFiniteSet(S)
<1>1. IsFiniteSet(Request)
  BY FS_Interval DEF Request
<1> QED
  BY <1>1, FS_Subset

(* A prefill recomputes between one token and the whole prompt, and what   *)
(* it does not recompute is a cached prefix.                               *)
LEMMA RecomputeRange ==
  ASSUME NEW r \in Replica, NEW q \in Request
  PROVE  /\ Recompute(r, q) \in 1 .. Prefill[q]
         /\ Recompute(r, q) # Prefill[q] => SessionOf[q] \in cached[r]
BY DEF Recompute, CachedTokens

(* Every method keeps the types.                                           *)
LEMMA RepTypeStep == RepTypeOK /\ [RepNext]_repVars => RepTypeOK'
<1> SUFFICES ASSUME RepTypeOK, [RepNext]_repVars
             PROVE  RepTypeOK'
  OBVIOUS
<1> USE DEF RepTypeOK
<1>1. ASSUME NEW r \in Replica, NEW q \in Request, AddRequest(r, q)
      PROVE  RepTypeOK'
  <2>1. Recompute(r, q) \in Nat
    BY RecomputeRange
  <2> QED
    BY <1>1, <2>1 DEF AddRequest
<1>2. ASSUME NEW r \in Replica, NEW q \in Request, Save(r, q)
      PROVE  cached' \in [Replica -> SUBSET Sessions]
  <2>1. PICK kept \in SUBSET cached[r] :
          cached' = [cached EXCEPT ![r] = kept \union {SessionOf[q]}]
    BY <1>2 DEF Save
  <2>2. kept \union {SessionOf[q]} \in SUBSET Sessions
    BY <2>1
  <2> QED
    BY <2>1, <2>2
<1>3. ASSUME NEW r \in Replica, NEW q \in Request, CompletePrefill(r, q)
      PROVE  RepTypeOK'
  <2>1. cached' \in [Replica -> SUBSET Sessions]
    BY <1>2, <1>3 DEF CompletePrefill
  <2>2. CASE q \in pending[r]
    <3>1. /\ budget' = [budget EXCEPT ![r] = @ + actual[q]]
          /\ pending' = [pending EXCEPT ![r] = @ \ {q}]
          /\ running' = [running EXCEPT ![r] = @ \union {q}]
          /\ actual' = actual
      BY <1>3, <2>2 DEF CompletePrefill
    <3>2. actual[q] \in Nat /\ budget[r] \in Int
      OBVIOUS
    <3> QED
      BY <2>1, <3>1, <3>2
  <2>3. CASE q \notin pending[r]
    BY <1>3, <2>1, <2>3 DEF CompletePrefill
  <2> QED
    BY <2>2, <2>3
<1>4. ASSUME NEW r \in Replica, NEW q \in Request, CompleteDecode(r, q)
      PROVE  RepTypeOK'
  <2>1. cached' \in [Replica -> SUBSET Sessions]
    BY <1>2, <1>4 DEF CompleteDecode
  <2> QED
    BY <1>4, <2>1 DEF CompleteDecode
<1>5. ASSUME NEW r \in Replica, NEW q \in Request, AbortRequest(r, q)
      PROVE  RepTypeOK'
  BY <1>5 DEF AbortRequest
<1>6. CASE UNCHANGED repVars
  BY <1>6 DEF repVars
<1> QED
  BY <1>1, <1>3, <1>4, <1>5, <1>6 DEF RepNext

(* Type correctness: in particular what a request is charged is a number   *)
(* of tokens, and the budget an integer that may be overdrawn.             *)
THEOREM RepTypeCorrect == RepSpec => []RepTypeOK
<1>1. RepInit => RepTypeOK
  BY DEF RepInit, RepTypeOK
<1> QED
  BY <1>1, RepTypeStep, PTL DEF RepSpec
-----------------------------------------------------------------------------
(* A request is never on two lists: add_request takes only a request that  *)
(* is on none, and the only move between lists is from pending to running  *)
(* of the same replica.                                                    *)
THEOREM RequestsHaveOneOwner == RepSpec => []OneOwner
<1>1. RepInit => OneOwner
  BY DEF RepInit, OneOwner
<1>2. RepTypeOK /\ OneOwner /\ [RepNext]_repVars => OneOwner'
  <2> SUFFICES ASSUME RepTypeOK, OneOwner, [RepNext]_repVars
               PROVE  OneOwner'
    OBVIOUS
  <2> USE DEF RepTypeOK, OneOwner
  <2>1. ASSUME NEW r \in Replica, NEW q \in Request,
               Unowned(q), AddRequest(r, q)
        PROVE  OneOwner'
    BY <2>1 DEF Unowned, AddRequest
  <2>2. ASSUME NEW r \in Replica, NEW q \in Request, CompletePrefill(r, q)
        PROVE  OneOwner'
    <3>1. \/ /\ q \in pending[r]
             /\ pending' = [pending EXCEPT ![r] = @ \ {q}]
             /\ running' = [running EXCEPT ![r] = @ \union {q}]
          \/ pending' = pending /\ running' = running
      BY <2>2 DEF CompletePrefill
    <3>2. CASE pending' = pending /\ running' = running
      BY <3>2
    <3>3. CASE /\ q \in pending[r]
               /\ pending' = [pending EXCEPT ![r] = @ \ {q}]
               /\ running' = [running EXCEPT ![r] = @ \union {q}]
      <4>1. \A p \in Request, s \in Replica :
              /\ p \in pending'[s] => p \in pending[s] /\ (s = r => p # q)
              /\ p \in running'[s] => p \in running[s] \/ (s = r /\ p = q)
        BY <3>3
      <4> QED
        BY <3>3, <4>1
    <3> QED
      BY <3>1, <3>2, <3>3
  <2>3. ASSUME NEW r \in Replica, NEW q \in Request, CompleteDecode(r, q)
        PROVE  OneOwner'
    BY <2>3 DEF CompleteDecode
  <2>4. ASSUME NEW r \in Replica, NEW q \in Request, AbortRequest(r, q)
        PROVE  OneOwner'
    BY <2>4 DEF AbortRequest
  <2>5. CASE UNCHANGED repVars
    BY <2>5 DEF repVars
  <2> QED
    BY <2>1, <2>2, <2>3, <2>4, <2>5 DEF RepNext
<1> QED
  BY <1>1, <1>2, RepTypeCorrect, PTL DEF RepSpec
-----------------------------------------------------------------------------
(* Taking q off the pending list and giving back what it was charged keeps *)
(* the books of every replica: what complete_request_prefill and           *)
(* abort_request have in common.                                           *)
LEMMA ReleaseBalances ==
  ASSUME RepTypeOK, BudgetAccounting,
         NEW r \in Replica, NEW q \in pending[r],
         budget' = [budget EXCEPT ![r] = @ + actual[q]],
         pending' = [pending EXCEPT ![r] = @ \ {q}],
         actual' = actual
  PROVE  BudgetAccounting'
<1> USE DEF RepTypeOK
<1> SUFFICES ASSUME NEW s \in Replica
             PROVE  Totals(pending'[s], actual', SloBudget - budget'[s])
  BY DEF BudgetAccounting
<1>1. Totals(pending[s], actual, SloBudget - budget[s])
  BY DEF BudgetAccounting
<1>2. CASE s # r
  BY <1>1, <1>2
<1>3. CASE s = r
  <2> DEFINE t == SloBudget - budget[r]
  <2>1. IsFiniteSet(pending[r]) /\ t \in Int
    BY FiniteRequests
  <2>2. t \in Nat
    BY <1>1, <1>3, <2>1, TotalsNat
  <2>3. \A y \in pending[r] : actual[y] \in Nat
    OBVIOUS
  <2>4. Totals(pending[r] \ {q}, actual, t - actual[q])
    BY <1>1, <1>3, <2>1, <2>2, <2>3, TotalsRemove
  <2>5. SloBudget - budget'[r] = t - actual[q]
    BY <2>3
  <2>6. pending'[r] = pending[r] \ {q}
    OBVIOUS
  <2> QED
    BY <1>3, <2>4, <2>5, <2>6
<1> QED
  BY <1>2, <1>3

(* The budget of every replica is always what its pending requests leave   *)
(* of it, although each request's charge depends on what was cached at the *)
(* moment it was accepted and is never looked up again.                    *)
THEOREM BudgetIsAccounted == RepSpec => []BudgetAccounting
<1>1. RepInit => BudgetAccounting
  BY TotalsEmpty DEF RepInit, BudgetAccounting
<1>2. RepTypeOK /\ BudgetAccounting /\ [RepNext]_repVars => BudgetAccounting'
  <2> SUFFICES ASSUME RepTypeOK, BudgetAccounting, [RepNext]_repVars
               PROVE  BudgetAccounting'
    OBVIOUS
  <2>1. ASSUME NEW r \in Replica, NEW q \in Request,
               Unowned(q), AddRequest(r, q)
        PROVE  BudgetAccounting'
    <3> USE DEF RepTypeOK
    <3> DEFINE c == Recompute(r, q)
    <3>1. c \in Nat
      BY RecomputeRange
    <3>2. /\ actual' = [actual EXCEPT ![q] = c]
          /\ budget' = [budget EXCEPT ![r] = @ - c]
          /\ pending' = [pending EXCEPT ![r] = @ \union {q}]
      BY <2>1 DEF AddRequest
    <3> HIDE DEF c
    <3> SUFFICES ASSUME NEW s \in Replica
                 PROVE  Totals(pending'[s], actual', SloBudget - budget'[s])
      BY DEF BudgetAccounting
    <3> DEFINE t == SloBudget - budget[s]
    <3>3. IsFiniteSet(pending[s]) /\ q \notin pending[s]
      BY <2>1, FiniteRequests DEF Unowned
    <3>4. Totals(pending[s], actual, t) /\ t \in Nat
      BY <3>3, TotalsNat DEF BudgetAccounting
    <3>5. Totals(pending[s], actual', t)
      <4>1. \A x \in pending[s] : actual[x] = actual'[x]
        BY <3>2, <3>3
      <4> HIDE DEF t
      <4> QED
        BY <3>3, <3>4, <4>1, TotalsSame
    <3>6. CASE s # r
      BY <3>2, <3>5, <3>6
    <3>7. CASE s = r
      <4>1. actual'[q] = c
        BY <3>2
      <4>2. Totals(pending[s] \union {q}, actual', t + actual'[q])
        BY <3>1, <3>3, <3>4, <3>5, <4>1, TotalsAdd
      <4>3. SloBudget - budget'[s] = t + c
        BY <3>1, <3>2, <3>7
      <4> QED
        BY <3>2, <3>7, <4>1, <4>2, <4>3
    <3> QED
      BY <3>6, <3>7
  <2>2. ASSUME NEW r \in Replica, NEW q \in Request, CompletePrefill(r, q)
        PROVE  BudgetAccounting'
    <3>1. CASE q \in pending[r]
      BY <2>2, <3>1, ReleaseBalances DEF CompletePrefill
    <3>2. CASE q \notin pending[r]
      BY <2>2, <3>2 DEF CompletePrefill, BudgetAccounting
    <3> QED
      BY <3>1, <3>2
  <2>3. ASSUME NEW r \in Replica, NEW q \in Request, CompleteDecode(r, q)
        PROVE  BudgetAccounting'
    BY <2>3 DEF CompleteDecode, BudgetAccounting
  <2>4. ASSUME NEW r \in Replica, NEW q \in Request, AbortRequest(r, q)
        PROVE  BudgetAccounting'
    <3>1. CASE q \in pending[r]
      BY <2>4, <3>1, ReleaseBalances DEF AbortRequest
    <3>2. CASE q \notin pending[r]
      <4>1. pending' = pending
        BY <2>4, <3>2 DEF AbortRequest, RepTypeOK
      <4> QED
        BY <2>4, <3>2, <4>1 DEF AbortRequest, BudgetAccounting
    <3> QED
      BY <3>1, <3>2
  <2>5. CASE UNCHANGED repVars
    BY <2>5 DEF repVars, BudgetAccounting
  <2> QED
    BY <2>1, <2>2, <2>3, <2>4, <2>5 DEF RepNext
<1> QED
  BY <1>1, <1>2, RepTypeCorrect, PTL DEF RepSpec

(* A replica that is prefilling nothing has its whole budget: this is what *)
(* lets the scheduler pop for it.                                          *)
THEOREM IdleBudgetIsFull == RepSpec => []IdleHasFullBudget
<1>1. RepTypeOK /\ BudgetAccounting => IdleHasFullBudget
  <2> SUFFICES ASSUME RepTypeOK, BudgetAccounting,
                      NEW r \in Replica, pending[r] = {}
               PROVE  budget[r] = SloBudget
    BY DEF IdleHasFullBudget
  <2>1. Totals({}, actual, SloBudget - budget[r])
    BY DEF BudgetAccounting
  <2>2. SloBudget - budget[r] = 0
    BY <2>1, TotalsEmpty
  <2> QED
    BY <2>2 DEF RepTypeOK
<1> QED
  BY <1>1, RepTypeCorrect, BudgetIsAccounted, PTL
=============================================================================

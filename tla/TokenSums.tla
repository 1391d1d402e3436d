----------------------------- MODULE TokenSums -----------------------------
(***************************************************************************)
(* The token counters of the dispatcher are running totals: incremented    *)
(* when a request enters a container, decremented when it leaves.  What    *)
(* they should equal is a sum over the container.  Totals(S, f, t) says    *)
(* that t is that sum by exhibiting an order in which to add S up: e lists *)
(* S without repetition and p holds the partial sums, which never drop.  Stated this way it  *)
(* can be maintained element by element in a proof, where a recursive sum  *)
(* would need an induction on the set.                                     *)
(***************************************************************************)
EXTENDS Integers, FiniteSets

Sums(n, S, f, t) ==
  \E e \in [1 .. n -> S], p \in [0 .. n -> 0 .. t] :
    /\ \A i, j \in 1 .. n : e[i] = e[j] => i = j
    /\ \A x \in S : \E i \in 1 .. n : e[i] = x
    /\ p[0] = 0
    /\ p[n] = t
    /\ \A i \in 1 .. n : p[i] = p[i - 1] + f[e[i]]
    /\ \A i, j \in 0 .. n : i <= j => p[i] <= p[j]

Totals(S, f, t) == Sums(Cardinality(S), S, f, t)
=============================================================================

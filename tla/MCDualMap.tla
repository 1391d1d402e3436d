----------------------------- MODULE MCDualMap -----------------------------
(***************************************************************************)
(* Instances of DualMap.  Requests of a session share a prefix, and with   *)
(* it their two replicas.  In MCMostlyA a session has three requests, so   *)
(* that one may be cached while another waits uncached and a third comes.  *)
(* Thresholds of 4 tokens are in the proportions of start_exp, which has   *)
(* one value for all three.                                                *)
(***************************************************************************)
EXTENDS DualMap

MCByParity == [q \in Request |-> IF q % 2 = 1 THEN "a" ELSE "b"]
MCMostlyA == [q \in Request |-> IF q = 2 THEN "b" ELSE "a"]
MCShared == [q \in Request |-> 1]
MCBlocks == [q \in Request |-> 1]
MCHashA == [q \in Request |-> IF SessionOf[q] = "a" THEN 0 ELSE 1]
MCHashB == [q \in Request |-> IF SessionOf[q] = "a" THEN 1 ELSE 0]

MCFew == <<3, 5, 2>>
MCDrain == <<2, 9, 2, 2>>
MCNeighbour == <<5, 9, 2, 3>>

MCAll == Request
MCSecond == {2}
=============================================================================

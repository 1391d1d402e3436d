----------------------------- MODULE MCDispatch -----------------------------
(***************************************************************************)
(* Requests of the same parity share a prefix; the first makes the router  *)
(* save the metrics, and the second post may fail.                         *)
(***************************************************************************)
EXTENDS Dispatch

MCSessionOf == [q \in Request |-> IF q % 2 = 1 THEN "a" ELSE "b"]
MCShared == [q \in Request |-> 1]
MCBlocks == [q \in Request |-> 1]
MCHash == [q \in Request |-> q % NumReplicas]
MCPrefill == [q \in Request |-> IF q = 2 THEN 3 ELSE 2]

MCSyncs == {q \in Request : q = 1}
MCFallible == {q \in Request : q = 2}
=============================================================================

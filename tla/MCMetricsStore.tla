--------------------------- MODULE MCMetricsStore ---------------------------
(***************************************************************************)
(* Three requests, of which two save: saves of a request, of another and   *)
(* of the router or the launcher overlap, and the second request changes   *)
(* its row during any of them without saving.                              *)
(***************************************************************************)
EXTENDS MetricsStore
=============================================================================

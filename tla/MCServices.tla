------------------------------ MODULE MCServices ------------------------------
(***************************************************************************)
(* Services for TLC: two experiments on two ports with two attempts each,  *)
(* so that a second attempt and a second experiment meet what the first    *)
(* one left.                                                               *)
(***************************************************************************)
EXTENDS Services
===============================================================================

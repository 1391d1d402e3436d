------------------------------ MODULE MCPreble ------------------------------
(***************************************************************************)
(* A prompt, one that ends inside its edge and one that leaves it early:   *)
(* splits make inner nodes that are prompts and inner nodes that are not,  *)
(* and with four requests two important nodes, one below the other, can    *)
(* have two requests each.  MCSharing is for three replicas, of which two  *)
(* hold a prefix.                                                          *)
(***************************************************************************)
EXTENDS Preble

MCPrompts == { <<1, 1, 1, 1>>, <<1, 1, 1>>, <<1, 2>> }
MCSharing == { <<1, 1, 2, 2>>, <<1, 1, 3, 3>>, <<1, 1, 4>> }
=============================================================================

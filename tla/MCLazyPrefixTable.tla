------------------------- MODULE MCLazyPrefixTable -------------------------
(***************************************************************************)
(* Two prompts that share three blocks, one that both begin with, and one  *)
(* that shares nothing with them.                                          *)
(***************************************************************************)
EXTENDS LazyPrefixTable

MCPrompts == { <<1, 2>>, <<1, 2, 3, 4>>, <<1, 2, 3, 5>>, <<5, 2>> }
=============================================================================

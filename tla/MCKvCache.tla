----------------------------- MODULE MCKvCache -----------------------------
(***************************************************************************)
(* Prompts of three families: two share two blocks, one fills the room     *)
(* beside an eviction, one is too long for it.                             *)
(***************************************************************************)
EXTENDS KvCache

MCPrompts ==
  { <<"a1", "a2", "a3">>, <<"a1", "a2", "b3", "b4">>, <<"c1", "c2">>, <<"d1", "d2">>,
    <<"e1", "e2", "e3", "e4", "e5">> }
=============================================================================

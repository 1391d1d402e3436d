---------------------------- MODULE MCGenerator ----------------------------
(***************************************************************************)
(* All files of up to four lines of nine kinds.                            *)
(***************************************************************************)
EXTENDS Generator

Good(t) == [parses |-> TRUE, time |-> t, complete |-> TRUE, named |-> TRUE, numeric |-> TRUE,
            input |-> 2, output |-> 1, blocks |-> 1]

MCRecords ==
  { Good(1), Good(2), Good(-1),
    [Good(1) EXCEPT !.input = 3], [Good(2) EXCEPT !.output = 0],
    [Good(2) EXCEPT !.named = FALSE, !.numeric = FALSE, !.blocks = 0],
    [Good(1) EXCEPT !.numeric = FALSE], [Good(2) EXCEPT !.complete = FALSE],
    [Good(1) EXCEPT !.parses = FALSE] }

MCFiles == UNION {[1 .. n -> MCRecords] : n \in 0 .. 4}
=============================================================================

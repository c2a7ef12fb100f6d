--------------------------- MODULE MCTbExecution ---------------------------
(* Two blocks: instructions 0 and 1, and 2; interrupts go to 2. *)
EXTENDS TbExecution

TwoBlocks == [i \in 0 .. 2 |-> IF i < 2 THEN 1 ELSE 2]
=============================================================================

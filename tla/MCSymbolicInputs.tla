-------------------------- MODULE MCSymbolicInputs --------------------------
(* Two words of one object of memory, a register and a flag, all of two bytes *)
(* of one bit.                                                                *)
EXTENDS SymbolicInputs

CONSTANT M
OneObject == [l \in Memory |-> M]
SomeRanges == {{0, 1}}
SomeConditions == {{0}}
=============================================================================

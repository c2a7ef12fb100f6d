---------------------------- MODULE MCStateMerge ----------------------------
(* Three inputs, told apart by two conditions; the states forked from the     *)
(* first one are interchangeable.                                             *)
EXTENDS StateMerge, TLC

CONSTANTS A, B, C

TwoConditions == {{0}, {0, 1}}
OneAndFirst == {[i \in Input |-> 1], [i \in Input |-> IF i = 0 THEN 1 ELSE 0]}
Forked == Permutations({B, C})
=============================================================================

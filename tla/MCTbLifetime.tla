---------------------------- MODULE MCTbLifetime ---------------------------
(* Three blocks, which are alike, and three states.                           *)
EXTENDS TbLifetime, TLC

Alike == Permutations(Tb)
=============================================================================

------------------------------- MODULE MCSlab -------------------------------
(* Slab with places for regions of two pages, two of them adjacent (as mmap     *)
(* usually puts them) and one across both, and room in a page for four small or *)
(* two large blocks.                                                            *)
EXTENDS Slab, TLC

Places == {0, 1, 2}
PagesOfPlaces == {b + i : b \in Places, i \in 0 .. 1}
SmallAndLarge == (0 :> 2) @@ (1 :> 4)
=============================================================================

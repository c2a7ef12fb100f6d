-------------------------------- MODULE Slab --------------------------------
(***************************************************************************)
(* The allocators of Slab.cpp at work together, as operator new and delete *)
(* use them: the BlockAllocators get their pages from                      *)
(* PageAllocator::allocPage(), and shrink() returns them with freePage().  *)
(* What SlabAllocator assumes of the supply of pages is here up to         *)
(* PageAllocator.  What becomes of the allocators once a page was misfiled *)
(* is not modelled.                                                        *)
(***************************************************************************)
EXTENDS SlabAllocator, PageAllocator

SlabInit == BlockInit /\ PageInit

\* A call that needs no page, or one that gets a page.
SlabAlloc(size) ==
  \E k \in Log(size) :
    \/ AllocBlock(k, size) /\ UNCHANGED pageVars
    \/ \E p \in Page : AllocPage(p) /\ AllocExpanding(k, size, p)

SlabFree == \E b \in held : Free(b) /\ UNCHANGED pageVars

\* shrink(), which nothing in the repository calls, is the one way to freePage().
SlabShrink == \E k \in Class, p \in Page : Shrink(k, p) /\ FreePage(p)

SlabNext ==
  /\ ~aborted /\ pageAssert = "holds"
  /\ \/ \E size \in Size : SlabAlloc(size)
     \/ SlabFree
     \/ SlabShrink

SlabSpec == SlabInit /\ [][SlabNext]_<<blockVars, pageVars>>

-----------------------------------------------------------------------------
(* Properties *)

\* The variables of both allocators keep their types.
SlabTypeOK == BlockTypeOK /\ PageTypeOK

\* PageAllocator supplies pages as SlabAllocator assumes, never one in use, as long
\* as it has misfiled none.
SupplyAsAssumed == BlockSpec
=============================================================================

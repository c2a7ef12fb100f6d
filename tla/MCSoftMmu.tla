----------------------------- MODULE MCSoftMmu -----------------------------
(* Pages of two objects: RAM (where blocks are translated), ROM, a device,    *)
(* memory behind a subpage, nothing, and memory whose I/O is symbolic.        *)
(* Both pages of the guest share one TLB entry.                               *)
EXTENDS SoftMmu

Pages == <<"ram", "rom", "device", "subpage", "unassigned", "subpage">>
Map == [p \in 0 .. 5 |-> Pages[p + 1]]

Entry(p, present, writable) == [phys |-> p, present |-> present, writable |-> writable]
Tables ==
  {[v \in {0, 1} |-> IF v = 0 THEN low ELSE high] :
     low \in {Entry(0, TRUE, TRUE), Entry(3, TRUE, TRUE), Entry(5, TRUE, TRUE)},
     high \in {Entry(0, TRUE, TRUE), Entry(0, TRUE, FALSE), Entry(1, TRUE, TRUE),
               Entry(2, TRUE, TRUE), Entry(4, TRUE, TRUE), Entry(0, FALSE, FALSE)}}
=============================================================================

-------------------------------- MODULE Heap --------------------------------
(***************************************************************************)
(* What an allocator promises: a chunk of memory it hands out is one it is *)
(* allowed to hand out and shares no cell with a chunk in use.             *)
(***************************************************************************)
CONSTANTS
  Chunk,    \* the chunks the memory of the allocator has
  Cells(_)  \* the cells a chunk consists of

VARIABLE held     \* the chunks in use

Init == held = {}

Alloc(chunk) ==
  /\ held' = held \cup {chunk}
  /\ \A other \in held : Cells(chunk) \cap Cells(other) = {}

Free(chunk) ==
  /\ chunk \in held
  /\ held' = held \ {chunk}

Next ==
  \/ \E chunk \in held : Free(chunk)
  \/ \E chunk \in Chunk : Alloc(chunk)

Spec == Init /\ [][Next]_held
=============================================================================

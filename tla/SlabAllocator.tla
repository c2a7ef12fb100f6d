---------------------------- MODULE SlabAllocator ----------------------------
(***************************************************************************)
(* class SlabAllocator and the BlockAllocators it owns (Slab.h, Slab.cpp): *)
(* one allocator of fixed-size blocks per size class, all fed with pages   *)
(* by one PageAllocator.  A page starts with a header that names the class *)
(* it serves, links it into one of the class's three lists and keeps the   *)
(* mask and the number of its free blocks.                                 *)
(*                                                                         *)
(* A page is a model value and an address is a page with an offset after   *)
(* the header.  A page is linked into one list at a time, so its record    *)
(* says which; the order inside a list is left out (any member may be at   *)
(* its head).                                                              *)
(***************************************************************************)
EXTENDS Integers, FiniteSetsExt

CONSTANTS
  Page,       \* the pages the PageAllocator can supply
  Class,      \* the size classes, m_minPo2 .. m_maxPo2
  NoClass,    \* the page belongs to no BlockAllocator
  BlockSize,  \* BlockSize[k] is 1 << k
  Room,       \* bytes of a page after its header
  MaskBits,   \* bits of BlockAllocatorHdr::mask: 512
  Size,       \* the sizes that operator new is called with
  MinSize     \* the smallest size that log() gives a class: 4

ASSUME SlabAllocatorAssumption ==
  /\ Class \subseteq Nat /\ NoClass \notin Class
  /\ BlockSize \in [Class -> Nat \ {0}]
  /\ Room \in Nat /\ MaskBits \in Nat /\ MinSize \in Nat /\ Size \subseteq Nat /\ 0 \notin Size
  /\ \A k \in Class : 2 * BlockSize[k] <= Room
  /\ \A k \in Class : Room \div BlockSize[k] < MaskBits

VARIABLES
  page,             \* the header of each page
  freePagesCount, busyPagesCount, freeBlocksCount, allocatedBlocksCount,
  held,             \* the blocks callers hold, with the size they asked for
  aborted           \* an assert failed

counters == <<freePagesCount, busyPagesCount, freeBlocksCount, allocatedBlocksCount>>
blockVars == <<page, counters, held, aborted>>

Mask == 0 .. MaskBits - 1

\* For comparison: rounded up.
BlocksPerPageUp(k) == (Room + BlockSize[k] - 1) \div BlockSize[k]

\* m_blocksPerPage
BlocksPerPage(k) == Room \div BlockSize[k]

\* SlabAllocator::log: the smallest class whose blocks hold size bytes.
Log(size) ==
  {k \in Class : /\ MinSize <= size /\ size <= BlockSize[k]
                 /\ \A j \in Class : size <= BlockSize[j] => k <= j}

\* A page the PageAllocator has: freePage() fills it, and its signature, with 0xBB.
Blank == [owner |-> NoClass, list |-> "none", mask |-> {}, freeCount |-> 0]

\* For comparison: one bit beyond the mask.
NewPageBeyond(k) == [owner |-> k, list |-> "totallyFree", mask |-> 0 .. MaskBits,
                     freeCount |-> BlocksPerPage(k)]

\* BlockAllocatorHdr::init and BlockAllocator::expand: every bit of the mask is
\* set, also those of blocks the page has no room for.
NewPage(k) == [owner |-> k, list |-> "totallyFree", mask |-> Mask,
               freeCount |-> BlocksPerPage(k)]

BlockInit ==
  /\ page = [p \in Page |-> Blank]
  /\ freePagesCount = [k \in Class |-> 0]
  /\ busyPagesCount = [k \in Class |-> 0]
  /\ freeBlocksCount = [k \in Class |-> 0]
  /\ allocatedBlocksCount = [k \in Class |-> 0]
  /\ held = {}
  /\ aborted = FALSE

InList(k, pages, l) == {p \in Page : pages[p].owner = k /\ pages[p].list = l}

\* The pages that may be at the head of the list alloc() takes a block from.
Candidates(k, pages) ==
  IF InList(k, pages, "free") # {} THEN InList(k, pages, "free")
                                   ELSE InList(k, pages, "totallyFree")

Aborts == aborted' = TRUE /\ UNCHANGED <<page, counters, held>>

-----------------------------------------------------------------------------
(* BlockAllocator::alloc *)

\* For comparison: a page that is full stays in its list.
ListAfterAllocKept(k, list, left) ==
  IF left = BlocksPerPage(k) - 1 THEN "free" ELSE list

\* The list of a page after a block of it is taken: its freeCount is now left.
ListAfterAlloc(k, list, left) ==
  CASE left = 0 -> "busy"
    [] left # 0 /\ left = BlocksPerPage(k) - 1 -> "free"
    [] OTHER -> list

\* The part after expand(): pages, freePages and freeBlocks are what expand() has
\* left.  findFree() and alloc() of the header assert freeCount > 0.
TakeBlock(k, size, pages, freePages, freeBlocks) ==
  IF Candidates(k, pages) = {} THEN Aborts
  ELSE \E p \in Candidates(k, pages) :
    IF pages[p].freeCount <= 0 \/ pages[p].mask = {} THEN Aborts
    ELSE LET fb   == Min(pages[p].mask)
             left == pages[p].freeCount - 1
         IN  /\ page' = [pages EXCEPT ![p].mask = @ \ {fb}, ![p].freeCount = left,
                           ![p].list = ListAfterAlloc(k, @, left)]
             /\ freeBlocksCount' = [freeBlocksCount EXCEPT ![k] = freeBlocks - 1]
             /\ freePagesCount' = [freePagesCount EXCEPT ![k] =
                                     IF left = 0 THEN freePages - 1 ELSE freePages]
             /\ busyPagesCount' = [busyPagesCount EXCEPT ![k] =
                                     IF left = 0 THEN @ + 1 ELSE @]
             /\ allocatedBlocksCount' = [allocatedBlocksCount EXCEPT ![k] = @ + 1]
             /\ held' = held \cup {[page |-> p, at |-> fb * BlockSize[k], size |-> size]}
             /\ UNCHANGED aborted

AllocBlock(k, size) ==
  /\ freeBlocksCount[k] # 0
  /\ TakeBlock(k, size, page, freePagesCount[k], freeBlocksCount[k])

\* expand() gets p from the PageAllocator and makes it a page of the class.
AllocExpanding(k, size, p) ==
  /\ freeBlocksCount[k] = 0
  /\ TakeBlock(k, size, [page EXCEPT ![p] = NewPage(k)],
               freePagesCount[k] + 1, freeBlocksCount[k] + BlocksPerPage(k))

\* SlabAllocator::alloc.  It returns 0, and changes nothing, when log() gives no
\* class or expand() no page: operator new then calls malloc.  Here the
\* PageAllocator supplies any page that it has not handed out.
Alloc(size) ==
  \E k \in Log(size) :
    \/ AllocBlock(k, size)
    \/ \E p \in Page : page[p].owner = NoClass /\ AllocExpanding(k, size, p)

-----------------------------------------------------------------------------
\* The list of a page after a block is put back: its freeCount is now more.
ListAfterFree(k, list, more) ==
  CASE more = BlocksPerPage(k) -> "totallyFree"
    [] more # BlocksPerPage(k) /\ more = 1 -> "free"
    [] OTHER -> list

(* SlabAllocator::free: the header of the page of addr names the allocator;
   without a class there, operator delete would give addr to the C library,
   after assert(!belongsToUs(addr)). *)
Free(b) ==
  /\ b \in held
  /\ LET p == b.page
         k == page[p].owner
     IN IF k = NoClass THEN Aborts
        ELSE LET i    == b.at \div BlockSize[k]
                 more == page[p].freeCount + 1
             IN IF i \in page[p].mask THEN Aborts    \* assert(!isFree(b))
                ELSE
                  /\ page' = [page EXCEPT ![p].mask = @ \cup {i}, ![p].freeCount = more,
                                ![p].list = ListAfterFree(k, @, more)]
                  /\ freeBlocksCount' = [freeBlocksCount EXCEPT ![k] = @ + 1]
                  /\ allocatedBlocksCount' = [allocatedBlocksCount EXCEPT ![k] = @ - 1]
                  /\ freePagesCount' = [freePagesCount EXCEPT ![k] =
                                          IF more = 1 THEN @ + 1 ELSE @]
                  /\ busyPagesCount' = [busyPagesCount EXCEPT ![k] =
                                          IF more = 1 THEN @ - 1 ELSE @]
                  /\ held' = held \ {b}
                  /\ UNCHANGED aborted

\* For comparison: the blocks of the page are still counted.
ShrinkUncounted(k, p) ==
  /\ p \in InList(k, page, "totallyFree")
  /\ page' = [page EXCEPT ![p] = Blank]
  /\ freePagesCount' = [freePagesCount EXCEPT ![k] = @ - 1]
  /\ UNCHANGED <<freeBlocksCount, busyPagesCount, allocatedBlocksCount, held, aborted>>

\* BlockAllocator::shrink gives a totally free page back to the PageAllocator.
Shrink(k, p) ==
  /\ p \in InList(k, page, "totallyFree")
  /\ page' = [page EXCEPT ![p] = Blank]
  /\ freePagesCount' = [freePagesCount EXCEPT ![k] = @ - 1]
  /\ freeBlocksCount' = [freeBlocksCount EXCEPT ![k] = @ - BlocksPerPage(k)]
  /\ UNCHANGED <<busyPagesCount, allocatedBlocksCount, held, aborted>>

-----------------------------------------------------------------------------
BlockNext ==
  /\ ~aborted
  /\ \/ \E size \in Size : Alloc(size)
     \/ \E b \in held : Free(b)
     \/ \E k \in Class, p \in Page : Shrink(k, p)

BlockSpec == BlockInit /\ [][BlockNext]_blockVars

-----------------------------------------------------------------------------
(* Properties *)

Cells(b) == {<<b.page, o>> : o \in b.at .. b.at + b.size - 1}
Block    == [page : Page, at : 0 .. Room - 1, size : Size]
Chunk    == {b \in Block : b.at + b.size <= Room}

BlockTypeOK ==
  /\ page \in [Page -> [owner : Class \cup {NoClass},
                        list : {"none", "totallyFree", "free", "busy"},
                        mask : SUBSET Mask, freeCount : Int]]
  /\ freePagesCount \in [Class -> Int] /\ busyPagesCount \in [Class -> Int]
  /\ freeBlocksCount \in [Class -> Int] /\ allocatedBlocksCount \in [Class -> Int]
  /\ held \in SUBSET [page : Page, at : Nat, size : Nat]
  /\ aborted \in BOOLEAN

\* No assert of the allocators fails, for callers that free what they were given:
\* the lists have a page whenever m_freeBlocksCount says there is a free block
\* (Slab.cpp:276), such a page has a free block (Slab.h:175,202) and the block a
\* caller frees is in use (Slab.h:213).
BlockAssertsHold == ~aborted

\* The blocks missing from the mask of a page are exactly those callers hold, and
\* freeCount counts the others.
MaskMatchesBlocks(p) ==
  LET k    == page[p].owner
      used == {b \in held : b.page = p}
  IN  /\ Mask \ page[p].mask = {b.at \div BlockSize[k] : b \in used}
      /\ page[p].freeCount + Cardinality(used) = BlocksPerPage(k)

\* A page is in the list its freeCount calls for.
ListMatchesCount(p) ==
  page[p].list = CASE page[p].freeCount = 0 -> "busy"
                   [] page[p].freeCount = BlocksPerPage(page[p].owner) -> "totallyFree"
                   [] OTHER -> "free"

\* The four counters of a class are those of its pages.
CountersMatchPages(k) ==
  LET pages == {p \in Page : page[p].owner = k}
      full  == {p \in pages : page[p].list = "busy"}
  IN  /\ busyPagesCount[k] = Cardinality(full)
      /\ freePagesCount[k] = Cardinality(pages \ full)
      /\ freeBlocksCount[k] + allocatedBlocksCount[k]
           = Cardinality(pages) * BlocksPerPage(k)
      /\ allocatedBlocksCount[k] = Cardinality({b \in held : page[b.page].owner = k})

\* The mask, the list and the counters of the headers agree with each other and
\* with the blocks callers hold, so that alloc() never looks for a block in a full
\* page and shrink() never gives away a page in use.
HeadersConsistent ==
  /\ \A p \in Page : page[p].owner # NoClass => MaskMatchesBlocks(p) /\ ListMatchesCount(p)
  /\ \A k \in Class : CountersMatchPages(k)

\* The allocators implement a heap: a block is as large as the caller asked, lies
\* in a page after the header, and overlaps no block in use, whatever its class.
H == INSTANCE Heap
ImplementsHeap == H!Spec
=============================================================================

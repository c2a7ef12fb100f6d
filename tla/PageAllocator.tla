---------------------------- MODULE PageAllocator ----------------------------
(***************************************************************************)
(* class PageAllocator (Slab.h, Slab.cpp): 4K pages out of 256K regions    *)
(* that come from mmap.  m_regions maps each region that has a free page   *)
(* to the bitmap of its free pages; m_busyRegions holds the full ones.     *)
(*                                                                         *)
(* Addresses are counted in pages.  A bitmap is the set of its 1 bits.     *)
(* Both containers are ordered by RegCmp, under which two addresses less   *)
(* than a region apart are "equivalent": that is how a page finds its      *)
(* region, and find() is modelled by what it does under that order.  A     *)
(* failing mmap is left out: osAlloc() returns MAP_FAILED for it, which    *)
(* allocPage() takes for the address of a region.  mmap may put a region   *)
(* anywhere that is free, right before or behind another one included.     *)
(***************************************************************************)
EXTENDS Integers, FiniteSetsExt, Functions

CONSTANTS
  PagesPerRegion,  \* getRegionSize() / getPageSize(): 64
  Bases            \* where mmap may place a region

ASSUME PageAllocatorAssumption ==
  /\ PagesPerRegion \in Nat \ {0, 1}
  /\ Bases \subseteq Nat

VARIABLES
  regions,   \* m_regions
  busy,      \* m_busyRegions
  out,       \* the pages callers hold
  pageAssert \* "failed" once an assert has failed, "misfiled" once a page was
             \* freed to the region behind its own

pageVars == <<regions, busy, out, pageAssert>>

Index  == 0 .. PagesPerRegion - 1
Mapped == DOMAIN regions \cup busy
PageAddress == {b + i : b \in Bases, i \in Index}

PageInit ==
  /\ regions = [r \in {} |-> {}]
  /\ busy = {}
  /\ out = {}
  /\ pageAssert = "holds"

\* osAlloc: mmap gives addresses that no mapped region has.
OsAlloc ==
  {b \in Bases : \A m \in Mapped : b + PagesPerRegion <= m \/ m + PagesPerRegion <= b}

\* std::map::find(page): lower_bound gives the least key not before page, and
\* it is returned if page is not before it either.  At most one key.
Find(keys, page) ==
  LET notBefore == {r \in keys : page < r + PagesPerRegion}
  IN  {r \in notBefore : r < page + PagesPerRegion /\ \A q \in notBefore : r <= q}

Update(f, x, y) == [z \in DOMAIN f \cup {x} |-> IF z = x THEN y ELSE f[z]]

PageAssertFails == pageAssert' = "failed" /\ UNCHANGED <<regions, busy, out>>

-----------------------------------------------------------------------------
(* allocPage *)

\* No region has a free page: map one and hand out its first page.
AllocNewRegion(page) ==
  /\ DOMAIN regions = {}
  /\ page \in OsAlloc
  /\ regions' = [r \in {page} |-> Index \ {0}]
  /\ out' = out \cup {page}
  /\ UNCHANGED <<busy, pageAssert>>

\* For comparison: a full region is forgotten; stays in m_regions; keeps its bit.
TakeBitForgetsFull(r, left) ==
  /\ regions' = IF left = {} THEN Restrict(regions, DOMAIN regions \ {r})
                             ELSE [regions EXCEPT ![r] = left]
  /\ UNCHANGED busy

TakeBitKeepsFull(r, left) == regions' = [regions EXCEPT ![r] = left] /\ UNCHANGED busy

TakeBitLeaves(r, left) == UNCHANGED <<regions, busy>>

\* The bitmap of r becomes left; a region without a bit is a busy one.
TakeBit(r, left) ==
  IF left = {}
    THEN /\ busy' = busy \cup {r}
         /\ regions' = Restrict(regions, DOMAIN regions \ {r})
    ELSE /\ regions' = [regions EXCEPT ![r] = left]
         /\ UNCHANGED busy

\* Take the lowest free page of the first region; assert(it has one).
AllocFromRegion(page) ==
  /\ DOMAIN regions # {}
  /\ LET r == Min(DOMAIN regions)
     IN  IF regions[r] = {} THEN PageAssertFails
         ELSE LET i == Min(regions[r])
              IN  /\ page = r + i
                  /\ TakeBit(r, regions[r] \ {i})
                  /\ out' = out \cup {page}
                  /\ UNCHANGED pageAssert

AllocPage(page) == AllocNewRegion(page) \/ AllocFromRegion(page)

-----------------------------------------------------------------------------
(* freePage *)

\* The region r that find() returned gets the bit of the page; assert(the bit is
\* clear).  A region whose pages are all free is unmapped.
GiveBack(page, r, i) ==
  IF i \in regions[r] THEN UNCHANGED <<regions, out>>
  ELSE /\ regions' = IF regions[r] \cup {i} = Index
                       THEN Restrict(regions, DOMAIN regions \ {r})
                       ELSE [regions EXCEPT ![r] = @ \cup {i}]
       /\ out' = out \ {page}

\* The page's own region is full, and the one right behind it is found.
Misfiles(page, r) == page < r

\* A region is found in m_regions.  The shift by a too large index is taken modulo
\* 64 by the processor.
FreeToRegion(page) ==
  \E r \in Find(DOMAIN regions, page) :
    LET i == (page - r) % PagesPerRegion
    IN  /\ GiveBack(page, r, i)
        /\ pageAssert' = CASE Misfiles(page, r) -> "misfiled"
                           [] i \in regions[r] /\ ~Misfiles(page, r) -> "failed"
                           [] OTHER -> pageAssert
        /\ UNCHANGED busy

\* The full region r has the free page i again.
Reopen(r, i) == busy' = busy \ {r} /\ regions' = Update(regions, r, {i})

\* No region found: it is a full one.  (*itr is read after the erase; with the
\* C library's free() the key of the erased node is still there.)
FreeToBusyRegion(page) ==
  /\ Find(DOMAIN regions, page) = {}
  /\ IF Find(busy, page) = {} THEN PageAssertFails
     ELSE \E r \in Find(busy, page) :
            /\ Reopen(r, page - r)
            /\ out' = out \ {page}
            /\ UNCHANGED pageAssert

FreePage(page) ==
  /\ page \in out
  /\ FreeToRegion(page) \/ FreeToBusyRegion(page)

-----------------------------------------------------------------------------
(* Properties *)

PageTypeOK ==
  /\ \A r \in DOMAIN regions : regions[r] \subseteq Index
  /\ DOMAIN regions \subseteq Bases
  /\ busy \subseteq Bases
  /\ out \subseteq PageAddress
  /\ pageAssert \in {"holds", "failed", "misfiled"}

\* The pages callers hold are exactly the pages of mapped regions that no bitmap has
\* free: no page is handed out twice and none is lost as regions fill up, are reopened
\* by a page that comes back, are unmapped and mapped again, wherever mmap puts them.  No
\* two regions overlap, and none is both in m_regions and in m_busyRegions.  It goes
\* wrong in one way: a page is misfiled (Slab.cpp:143).
PagesAccounted ==
  pageAssert = "holds" =>
    /\ out = {r + i : r \in Mapped, i \in Index}
               \ UNION {{r + i : i \in regions[r]} : r \in DOMAIN regions}
    /\ DOMAIN regions \cap busy = {}
    /\ \A r, s \in Mapped : r # s => r + PagesPerRegion <= s \/ s + PagesPerRegion <= r

\* The asserts of allocPage (Slab.cpp:119) and freePage (Slab.cpp:151, 161) hold for
\* pages that allocPage returned, unless the page is misfiled.
PageAssertsHold == pageAssert # "failed"
=============================================================================

------------------------------ MODULE BuddyPmm ------------------------------
(***************************************************************************)
(* The physical memory manager of src/kernel/mm.cpp: pmm_init carves the   *)
(* usable memory of the boot loader's map into buddy blocks,               *)
(* pmm_alloc_pages splits blocks and pmm_free_pages merges them.           *)
(*                                                                         *)
(* Memory is counted in pages.  A free list is the set of the blocks that  *)
(* are linked in it; which of them is its head is left open.  Callers free *)
(* a block they hold, once.                                                *)
(***************************************************************************)
EXTENDS Integers, Sequences, FiniteSetsExt

CONSTANTS
  MAX_ORDER,
  MaxPages,      \* no memory map reaches above this page
  FrameBytes,    \* sizeof(PageFrame)
  PAGE_SIZE,
  MemMaps,       \* memory maps: sequences of entries, see MemMapEntry
  AllocCounts    \* page counts that callers ask for

MemMapEntry == [base : 0..MaxPages, length : 0..MaxPages, usable : BOOLEAN]

(* The boot loader's entries are sorted and do not overlap; page 0 is      *)
(* never usable.                                                           *)
ASSUME PmmAssumption ==
  /\ MAX_ORDER \in 0..10
  /\ MaxPages \in Nat
  /\ FrameBytes \in Nat \ {0} /\ PAGE_SIZE \in Nat \ {0}
  /\ AllocCounts \subseteq Nat
  /\ \A m \in MemMaps :
       /\ m \in Seq(MemMapEntry)
       /\ \A i \in DOMAIN m : /\ m[i].base + m[i].length <= MaxPages
                              /\ m[i].usable => m[i].base > 0
       /\ \A i, j \in DOMAIN m : i < j => m[i].base + m[i].length <= m[j].base

Orders == 0..MAX_ORDER
Flags == {"FREE", "USED", "RESERVED"}

VARIABLES
  memmap,        \* the boot loader's memory map
  metaStart,     \* first page of kFrames
  region, pfn,   \* where the carving loop of pmm_init stands
  order, flags,  \* fields of kFrames
  kFreeLists,    \* order -> first pages of the blocks in that list
  kFreePages,
  held,          \* what callers hold: first page -> order
  panicked

frames == <<order, flags, kFreeLists, kFreePages>>
boot == <<memmap, metaStart, region, pfn>>
vars == <<boot, frames, held, panicked>>

(* 1 << o, written out for the orders that exist *)
Size(o) == <<1, 2, 4, 8, 16, 32, 64, 128, 256, 512, 1024>>[o + 1]

buddy_of(p, o) == IF (p \div Size(o)) % 2 = 0 THEN p + Size(o) ELSE p - Size(o)

-----------------------------------------------------------------------------
(* pmm_init *)

EntryEnd(e) == e.base + e.length
TotalPages(m) == Max({0} \cup {EntryEnd(m[i]) : i \in DOMAIN m})
kTotalPages == TotalPages(memmap)
MetaBytes(m) == TotalPages(m) * FrameBytes
MetaEnd_Floor == metaStart + MetaBytes(memmap) \div PAGE_SIZE
MetaEnd == metaStart + (MetaBytes(memmap) + PAGE_SIZE - 1) \div PAGE_SIZE

(* Usable entries that have room for kFrames; the first one gets it. *)
Roomy(m) == {i \in DOMAIN m : m[i].usable /\ m[i].length * PAGE_SIZE >= MetaBytes(m)}

(* Steps 1 to 3: size the frame array, place it, mark every frame.  Where  *)
(* the loop starts is the base of the first entry.                         *)
Init ==
  /\ memmap \in MemMaps
  /\ order = [p \in 0..(kTotalPages - 1) |-> 0]
  /\ flags = [p \in 0..(kTotalPages - 1) |-> {"RESERVED"}]
  /\ kFreeLists = [o \in Orders |-> {}]
  /\ kFreePages = 0
  /\ held = <<>>
  /\ region = 1
  /\ IF Roomy(memmap) = {}
     THEN panicked = TRUE /\ metaStart = 0 /\ pfn = 0
     ELSE /\ panicked = FALSE
          /\ metaStart = memmap[Min(Roomy(memmap))].base
          /\ pfn = memmap[1].base

Booted == ~panicked /\ region > Len(memmap)
Carving == ~panicked /\ region <= Len(memmap)
InMeta == metaStart <= pfn /\ pfn < MetaEnd
RegionEnd == EntryEnd(memmap[region])

(* The loop leaves an entry that is not usable or that is used up. *)
NextRegion ==
  /\ Carving
  /\ ~memmap[region].usable \/ pfn >= RegionEnd
  /\ region' = region + 1
  /\ pfn' = IF region < Len(memmap) THEN memmap[region + 1].base ELSE 0
  /\ UNCHANGED <<memmap, metaStart, frames, held, panicked>>

(* Avoid the metadata itself. *)
SkipMetadata ==
  /\ Carving /\ memmap[region].usable /\ pfn < RegionEnd
  /\ InMeta
  /\ pfn' = MetaEnd
  /\ UNCHANGED <<memmap, metaStart, region, frames, held, panicked>>

(* The while loop of pmm_init lets the block at pfn grow to order o. *)
Fits(o) ==
  /\ pfn % Size(o) = 0
  /\ pfn + Size(o) <= RegionEnd
  /\ ~(pfn < metaStart /\ pfn + Size(o) > metaStart)

FreeBlock ==
  /\ Carving /\ memmap[region].usable /\ pfn < RegionEnd
  /\ ~InMeta
  /\ LET o == Max({k \in Orders : \A j \in 1..k : Fits(j)}) IN
       /\ flags' = [flags EXCEPT ![pfn] = {"FREE"}]
       /\ order' = [order EXCEPT ![pfn] = o]
       /\ kFreeLists' = [kFreeLists EXCEPT ![o] = @ \cup {pfn}]
       /\ kFreePages' = kFreePages + Size(o)
       /\ pfn' = pfn + Size(o)
  /\ UNCHANGED <<memmap, metaStart, region, held, panicked>>

-----------------------------------------------------------------------------
(* pmm_alloc_pages(count): a block of the smallest order that has one is   *)
(* split down to the order asked for; each upper half goes to its list.    *)
(* When there is none, or count is 0 or too large, nothing changes.        *)
TargetOrder(count) == Min({o \in Orders : Size(o) >= count})

SplitOrders_OneShort(target, o) == (target + 1)..(o - 1)

(* The orders of the upper halves that splitting from o to target leaves. *)
SplitOrders(target, o) == target..(o - 1)

(* Block p of order o is taken from its list and cut down to target. *)
TakeBlock(p, target, o) ==
  LET split == SplitOrders(target, o)
      halves == {buddy_of(p, k) : k \in split}
  IN
  /\ kFreeLists' = [k \in Orders |->
                      IF k \in split THEN kFreeLists[k] \cup {buddy_of(p, k)}
                      ELSE IF k = o THEN kFreeLists[k] \ {p} ELSE kFreeLists[k]]
  /\ flags' = [x \in DOMAIN flags |->
                 IF x = p THEN (flags[x] \ {"FREE"}) \cup {"USED"}
                 ELSE IF x \in halves THEN flags[x] \cup {"FREE"} ELSE flags[x]]
  /\ order' = [x \in DOMAIN order |->
                 IF x = p THEN target
                 ELSE IF x \in halves THEN CHOOSE k \in split : x = buddy_of(p, k)
                 ELSE order[x]]
  /\ kFreePages' = kFreePages - Size(target)
  /\ held' = [x \in DOMAIN held \cup {p} |-> IF x = p THEN target ELSE held[x]]

pmm_alloc_pages(count) ==
  /\ Booted /\ 0 < count /\ count <= Size(MAX_ORDER)
  /\ LET target == TargetOrder(count) IN
     \E o \in target..MAX_ORDER :
       /\ \A k \in target..(o - 1) : kFreeLists[k] = {}
       /\ \E p \in kFreeLists[o] : TakeBlock(p, target, o)
  /\ UNCHANGED <<boot, panicked>>

-----------------------------------------------------------------------------
(* pmm_free_pages *)

Enclosing_Keep(p, k) == p

(* The block of order k that p is in: merging moves to the lower half. *)
Enclosing(p, k) == p - (p % Size(k))

MergeLimit == MAX_ORDER

(* The other half of the block of order k + 1 that p is in. *)
MergedHalf(p, k) == buddy_of(Enclosing(p, k), k)

Mergeable_AnyOrder(p, k) ==
  LET b == MergedHalf(p, k)
  IN  b < kTotalPages /\ "FREE" \in flags[b] /\ "RESERVED" \notin flags[b]

(* The merge loop, at order k, finds the other half free. *)
Mergeable(p, k) ==
  LET b == MergedHalf(p, k)
  IN  b < kTotalPages /\ "FREE" \in flags[b] /\ order[b] = k /\ "RESERVED" \notin flags[b]

(* Block p becomes free as part of the block of order top around it. *)
GiveBlock(p, top) ==
  LET merged == order[p]..(top - 1)
      start == Enclosing(p, top)
  IN
  /\ kFreeLists' = [k \in Orders |->
                      IF k \in merged THEN kFreeLists[k] \ {MergedHalf(p, k)}
                      ELSE IF k = top THEN kFreeLists[k] \cup {start} ELSE kFreeLists[k]]
  /\ flags' = [x \in DOMAIN flags |->
                 (flags[x] \ ((IF x = p THEN {"USED"} ELSE {})
                              \cup (IF \E k \in merged : x = MergedHalf(p, k) THEN {"FREE"} ELSE {})))
                 \cup (IF x = start THEN {"FREE"} ELSE {})]
  /\ order' = [order EXCEPT ![start] = top]
  /\ kFreePages' = kFreePages + Size(order[p])
  /\ held' = [x \in DOMAIN held \ {p} |-> held[x]]

(* The order is the one in the frame; the caller's count is ignored.  The  *)
(* loop merges up to order `top'.                                          *)
pmm_free_pages(p) ==
  /\ Booted
  /\ p \in DOMAIN held
  /\ \E top \in order[p]..MergeLimit :
       /\ \A k \in order[p]..(top - 1) : Mergeable(p, k)
       /\ top = MergeLimit \/ ~Mergeable(p, top)
       /\ GiveBlock(p, top)
  /\ UNCHANGED <<boot, panicked>>

Next ==
  \/ NextRegion
  \/ SkipMetadata
  \/ FreeBlock
  \/ \E count \in AllocCounts : pmm_alloc_pages(count)
  \/ \E p \in DOMAIN held : pmm_free_pages(p)

Spec == Init /\ [][Next]_vars

-----------------------------------------------------------------------------
(* Properties. *)

FreeBlocks == UNION {kFreeLists[o] \X {o} : o \in Orders}
HeldBlocks == {<<p, held[p]>> : p \in DOMAIN held}
PagesOf(b) == b[1]..(b[1] + Size(b[2]) - 1)
PagesOfAll(B) == UNION {PagesOf(b) : b \in B}

(* Every variable has its type. *)
TypeOK ==
  /\ memmap \in MemMaps
  /\ metaStart \in 0..MaxPages /\ region \in Nat /\ pfn \in Nat
  /\ order \in [0..(kTotalPages - 1) -> Orders]
  /\ flags \in [0..(kTotalPages - 1) -> SUBSET Flags]
  /\ kFreeLists \in [Orders -> SUBSET (0..(kTotalPages - 1))]
  /\ kFreePages \in Nat
  /\ DOMAIN held \subseteq 0..(kTotalPages - 1) /\ \A p \in DOMAIN held : held[p] \in Orders
  /\ panicked \in BOOLEAN

(* No page is in two blocks, whether free or in the hands of callers, so   *)
(* pmm_alloc_pages never hands out a page twice; blocks start at a         *)
(* multiple of their size, which buddy_of relies on; and                   *)
(* pmm_free_page_count() is the number of pages in the free lists.         *)
NoPageTwice ==
  /\ TypeOK
  /\ kFreePages = Cardinality(PagesOfAll(FreeBlocks))
  /\ FreeBlocks \cap HeldBlocks = {}
  /\ \A b, c \in FreeBlocks \cup HeldBlocks : b # c => PagesOf(b) \cap PagesOf(c) = {}
  /\ \A b \in FreeBlocks \cup HeldBlocks : b[1] % Size(b[2]) = 0

UsablePages == UNION {memmap[i].base..(EntryEnd(memmap[i]) - 1) : i \in {j \in DOMAIN memmap : memmap[j].usable}}

(* The pages that hold a byte of the frame array. *)
MetaPages == {p \in 0..MaxPages : metaStart <= p /\ (p - metaStart) * PAGE_SIZE < MetaBytes(memmap)}

(* After boot the blocks make up the usable memory without the frame       *)
(* array, for ever: nothing is lost, and page 0, firmware memory and the   *)
(* array itself are never handed out.                                      *)
MemoryConserved ==
  Booted => PagesOfAll(FreeBlocks \cup HeldBlocks) = UsablePages \ MetaPages

(* What a frame says of itself is what the lists and the callers say:      *)
(* pmm_free_pages decides by these fields alone.                           *)
FramesTruthful ==
  \A p \in DOMAIN flags :
    /\ "FREE" \in flags[p] <=> <<p, order[p]>> \in FreeBlocks
    /\ "USED" \in flags[p] <=> <<p, order[p]>> \in HeldBlocks
    /\ \A o \in Orders : p \in kFreeLists[o] => o = order[p]
    /\ p \in DOMAIN held => held[p] = order[p]

Promise == INSTANCE PageAllocator WITH
  free <- PagesOfAll(FreeBlocks),
  held <- {<<p, Size(held[p])>> : p \in DOMAIN held}

(* The buddy system implements the page allocator: every step of pmm_init, *)
(* pmm_alloc_pages and pmm_free_pages is one of its steps or none.         *)
ImplementsPageAllocator == Promise!ASpec

(* mm.cpp, pmm_free_pages: "Merge with buddies".  When every block has     *)
(* been freed, no block that could be merged with its buddy is left.       *)
FreedMemoryIsMerged ==
  (Booted /\ DOMAIN held = {}) =>
    \A o \in 0..(MAX_ORDER - 1) : \A p \in kFreeLists[o] : buddy_of(p, o) \notin kFreeLists[o]
=============================================================================

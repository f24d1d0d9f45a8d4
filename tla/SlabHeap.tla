------------------------------ MODULE SlabHeap ------------------------------
(***************************************************************************)
(* The kernel heap of src/kernel/heap.cpp: kmalloc and kfree over slabs of *)
(* one page, at the level of its pointers.  Each slab links its free       *)
(* objects through the objects themselves; each cache links its slabs in a *)
(* partial, a full and an empty list through next and prev.                *)
(*                                                                         *)
(* The physical memory manager is a set of free pages.  A request above    *)
(* the largest object size takes one page.  Callers free what they hold,   *)
(* once.                                                                   *)
(***************************************************************************)
EXTENDS Integers, FiniteSets

CONSTANTS
  NumPages,      \* pages of the machine are 1..NumPages, 0 is nullptr
  NUM_CACHES,    \* caches are 1..NUM_CACHES
  Capacity,      \* cache -> (PAGE_SIZE - sizeof(Slab)) / object_size
  Garbage,       \* what an uninitialised pointer may hold, as a page
  BootPrivate    \* values private_data may have before it is written

Page == 1..NumPages
Cache == 1..NUM_CACHES
Kind == {"partial", "full", "empty"}

ASSUME HeapAssumption ==
  /\ NumPages \in Nat /\ NUM_CACHES \in Nat \ {0}
  /\ Capacity \in [Cache -> Nat \ {0}]
  /\ Garbage \in Int \ (Page \cup {0})
  /\ BootPrivate \subseteq {0, Garbage}

(* An object is a page and a place in it; Nil is the null pointer. *)
MaxCapacity == CHOOSE n \in {Capacity[c] : c \in Cache} : \A c \in Cache : Capacity[c] <= n
Object == Page \X (1..MaxCapacity)
Nil == <<0, 0>>

VARIABLES
  head,            \* cache -> kind -> first slab of that list, 0 if none
  next, prev,      \* links of the slabs; the entry 0 stands for no slab
  cache,           \* page -> cache of the slab in it, 0 if it is no slab
  free_list,       \* page -> first free object
  free_count,
  link,            \* what a free object holds: the next free object
  private_data,    \* field of the page's frame: its slab
  freePages,       \* the physical memory manager's free pages
  held,            \* objects in the hands of callers
  largeHeld,       \* pages in the hands of callers
  corrupted        \* kfree followed a pointer that is no slab

slabs == <<head, next, prev, cache, free_list, free_count, link>>
vars == <<slabs, private_data, freePages, held, largeHeld, corrupted>>

Init ==
  /\ head = [c \in Cache |-> [k \in Kind |-> 0]]
  /\ next = [p \in {0} \cup Page |-> 0]
  /\ prev = [p \in {0} \cup Page |-> 0]
  /\ cache = [p \in Page |-> 0]
  /\ free_list = [p \in Page |-> Nil]
  /\ free_count = [p \in Page |-> 0]
  /\ link = [o \in {Nil} \cup Object |-> Nil]
  /\ private_data \in [Page -> BootPrivate]
  /\ freePages = Page
  /\ held = {} /\ largeHeld = {}
  /\ corrupted = FALSE

-----------------------------------------------------------------------------
(* The lists of one cache: L.head, L.next and L.prev. *)

Unlink_KeepPrev(L, k, s) ==
  [head |-> IF L.prev[s] # 0 THEN L.head ELSE [L.head EXCEPT ![k] = L.next[s]],
   next |-> IF L.prev[s] # 0 THEN [L.next EXCEPT ![L.prev[s]] = L.next[s]] ELSE L.next,
   prev |-> L.prev]

(* "Remove from partial", and the same from full. *)
Unlink(L, k, s) ==
  [head |-> IF L.prev[s] # 0 THEN L.head ELSE [L.head EXCEPT ![k] = L.next[s]],
   next |-> IF L.prev[s] # 0 THEN [L.next EXCEPT ![L.prev[s]] = L.next[s]] ELSE L.next,
   prev |-> IF L.next[s] # 0 THEN [L.prev EXCEPT ![L.next[s]] = L.prev[s]] ELSE L.prev]

(* "Move from empty": kmalloc drops the first slab of the list. *)
PopEmpty(L) ==
  LET n == L.next[L.head["empty"]]
  IN  [head |-> [L.head EXCEPT !["empty"] = n],
       next |-> L.next,
       prev |-> IF n # 0 THEN [L.prev EXCEPT ![n] = 0] ELSE L.prev]

Push(L, k, s) ==
  LET h == L.head[k]
  IN  [head |-> [L.head EXCEPT ![k] = s],
       next |-> [L.next EXCEPT ![s] = h],
       prev |-> [q \in DOMAIN L.prev |-> IF q = s THEN 0 ELSE IF q = h /\ h # 0 THEN s ELSE L.prev[q]]]

ListsOf(c) == [head |-> head[c], next |-> next, prev |-> prev]
SetLists(c, L) == head' = [head EXCEPT ![c] = L.head] /\ next' = L.next /\ prev' = L.prev

-----------------------------------------------------------------------------
(* kmalloc for a size that has a cache. *)

MovesToFull(count) == count = 0

(* Take the first free object of slab s.  L: the lists with s in partial;  *)
(* first, links: its free list and the links in its objects; n: its count. *)
TakeObject(c, s, L, first, links, n) ==
  /\ held' = held \cup {first}
  /\ free_list' = [free_list EXCEPT ![s] = links[first]]
  /\ free_count' = [free_count EXCEPT ![s] = n - 1]
  /\ link' = links
  /\ SetLists(c, IF MovesToFull(n - 1) THEN Push(Unlink(L, "partial", s), "full", s) ELSE L)
  /\ UNCHANGED <<largeHeld, corrupted>>

kmalloc_FromPartial(c) ==
  /\ head[c]["partial"] # 0
  /\ LET s == head[c]["partial"]
     IN  TakeObject(c, s, ListsOf(c), free_list[s], link, free_count[s])
  /\ UNCHANGED <<cache, private_data, freePages>>

kmalloc_FromEmpty(c) ==
  /\ head[c]["partial"] = 0 /\ head[c]["empty"] # 0
  /\ LET s == head[c]["empty"]
     IN  TakeObject(c, s, Push(PopEmpty(ListsOf(c)), "partial", s), free_list[s], link, free_count[s])
  /\ UNCHANGED <<cache, private_data, freePages>>

FreshLinks_OneShort(c, s) ==
  [o \in DOMAIN link |->
     IF o[1] # s \/ o[2] > Capacity[c] THEN link[o]
     ELSE IF o[2] + 1 < Capacity[c] THEN <<s, o[2] + 1>> ELSE Nil]

(* slab_create: link the objects of a new page.  Without a page kmalloc    *)
(* returns nullptr and nothing changes.                                    *)
FreshLinks(c, s) ==
  [o \in DOMAIN link |->
     IF o[1] # s \/ o[2] > Capacity[c] THEN link[o]
     ELSE IF o[2] < Capacity[c] THEN <<s, o[2] + 1>> ELSE Nil]

(* The frame of the page points at the slab. *)
SlabFrame_Unset(s) == private_data
SlabFrame(s) == [private_data EXCEPT ![s] = s]

NeedsSlab_Always(c) == head[c]["partial"] = 0
NeedsSlab(c) == head[c]["partial"] = 0 /\ head[c]["empty"] = 0

kmalloc_NewSlab(c) ==
  /\ NeedsSlab(c)
  /\ \E s \in freePages :
       /\ freePages' = freePages \ {s}
       /\ cache' = [cache EXCEPT ![s] = c]
       /\ private_data' = SlabFrame(s)
       /\ LET L == ListsOf(c)
              clean == [L EXCEPT !.next[s] = 0, !.prev[s] = 0]
          IN  TakeObject(c, s, Push(clean, "partial", s), <<s, 1>>, FreshLinks(c, s), Capacity[c])

(* A size above the largest object: whole pages. *)
kmalloc_Large ==
  /\ \E p \in freePages :
       /\ freePages' = freePages \ {p}
       /\ largeHeld' = largeHeld \cup {p}
  /\ UNCHANGED <<slabs, private_data, held, corrupted>>

-----------------------------------------------------------------------------
(* kfree *)

(* kfree of an object: "was full" and "now completely free" are two tests, *)
(* and a slab of one object passes both.                                   *)
Emptied(c, n) == n >= Capacity[c]

kfree(o) ==
  /\ ~corrupted
  /\ o \in held
  /\ held' = held \ {o}
  /\ LET s == private_data[o[1]]
         c == cache[s]
         n == free_count[s] + 1
         L == ListsOf(c)
         M == IF n = 1 THEN Push(Unlink(L, "full", s), "partial", s) ELSE L
     IN  /\ link' = [link EXCEPT ![o] = free_list[s]]
         /\ free_list' = [free_list EXCEPT ![s] = o]
         /\ free_count' = [free_count EXCEPT ![s] = n]
         /\ SetLists(c, IF Emptied(c, n) THEN Push(Unlink(M, "partial", s), "empty", s) ELSE M)
  /\ UNCHANGED <<cache, private_data, freePages, largeHeld, corrupted>>

(* kfree of whole pages: the frame's private_data decides. *)
kfree_Large(p) ==
  /\ ~corrupted
  /\ p \in largeHeld
  /\ largeHeld' = largeHeld \ {p}
  /\ IF private_data[p] = 0
     THEN freePages' = freePages \cup {p} /\ UNCHANGED corrupted
     ELSE corrupted' = TRUE /\ UNCHANGED freePages
  /\ UNCHANGED <<slabs, private_data, held>>

Next ==
  \/ \E c \in Cache : kmalloc_FromPartial(c)
  \/ \E c \in Cache : kmalloc_FromEmpty(c)
  \/ \E c \in Cache : kmalloc_NewSlab(c)
  \/ kmalloc_Large
  \/ \E o \in held : kfree(o)
  \/ \E p \in largeHeld : kfree_Large(p)

Spec == Init /\ [][Next]_vars

-----------------------------------------------------------------------------
(* Properties. *)

(* Every variable has its type. *)
TypeOK ==
  /\ head \in [Cache -> [Kind -> {0} \cup Page]]
  /\ next \in [{0} \cup Page -> {0} \cup Page] /\ prev \in [{0} \cup Page -> {0} \cup Page]
  /\ cache \in [Page -> {0} \cup Cache]
  /\ free_list \in [Page -> {Nil} \cup Object]
  /\ free_count \in [Page -> 0..MaxCapacity]
  /\ link \in [{Nil} \cup Object -> {Nil} \cup Object]
  /\ private_data \in [Page -> {0, Garbage} \cup Page]
  /\ freePages \subseteq Page /\ held \subseteq Object /\ largeHeld \subseteq Page
  /\ corrupted \in BOOLEAN

(* The first n + 1 nodes of a chain that starts at h. *)
Walk(succ, h, n) == LET w[i \in 0..n] == IF i = 0 THEN h ELSE succ[w[i - 1]] IN w

(* From h, following succ, one meets exactly the nodes of S, each once,    *)
(* and then nil.                                                           *)
Chains(succ, h, S, nil) ==
  LET n == Cardinality(S)
      w == Walk(succ, h, n)
  IN  {w[i] : i \in 0..(n - 1)} = S /\ w[n] = nil

SlabsOf(c) == {s \in Page : cache[s] = c}
KindOf(s) ==
  IF free_count[s] = 0 THEN "full"
  ELSE IF free_count[s] = Capacity[cache[s]] THEN "empty" ELSE "partial"

(* The three lists of a cache hold its slabs by how many objects are free, *)
(* each slab once, and prev undoes next.                                   *)
SlabListsExact ==
  \A c \in Cache : \A k \in Kind :
    LET S == {s \in SlabsOf(c) : KindOf(s) = k}
    IN  /\ Chains(next, head[c][k], S, 0)
        /\ \A s \in S : prev[s] = 0 <=> head[c][k] = s
        /\ \A s \in S : next[s] # 0 => prev[next[s]] = s

(* A slab's free list holds exactly its objects that nobody holds, each    *)
(* once, and free_count counts them: an object is never handed out twice   *)
(* and none is lost.                                                       *)
FreeListsExact ==
  TypeOK /\ \A s \in Page : cache[s] # 0 =>
    LET S == ({s} \X (1..Capacity[cache[s]])) \ held
    IN  Chains(link, free_list[s], S, Nil) /\ free_count[s] = Cardinality(S)

(* A page is free, a slab or a large block, and the frame of a slab points *)
(* at it.  kfree tells the two kinds of pointers apart by that field.      *)
PagesHaveOneUse ==
  /\ \A s \in Page : cache[s] # 0 => s \notin freePages \cup largeHeld /\ private_data[s] = s
  /\ freePages \cap largeHeld = {}
  /\ \A o \in held : cache[o[1]] # 0

Promise == INSTANCE ObjectHeap WITH
  Size <- Cache, Objects <- Capacity, Whole <- NUM_CACHES + 1, Unused <- 0,
  use <- [p \in Page |-> IF cache[p] # 0 THEN cache[p]
                         ELSE IF p \in freePages THEN 0 ELSE NUM_CACHES + 1]

(* The slabs implement the object heap: every kmalloc and kfree is one of  *)
(* its steps, so no object is in two hands, and a page is taken for a      *)
(* cache only when it has no free object left.                             *)
ImplementsObjectHeap == Promise!HSpec

(* heap.cpp, kfree: "Direct page allocation".  A large block that is freed *)
(* goes back to the physical memory manager.                               *)
LargeBlocksGoBack == ~corrupted
=============================================================================

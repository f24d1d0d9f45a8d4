--------------------------- MODULE PageAllocator ---------------------------
(***************************************************************************)
(* What the physical memory manager promises its callers, without buddies: *)
(* memory is handed out in runs of consecutive pages that were free, no    *)
(* page is in two hands, and a run that is given back is free again.       *)
(***************************************************************************)
EXTENDS Naturals

CONSTANT MaxPages   \* number of pages of the machine

VARIABLES
  free,   \* the pages that can be allocated
  held    \* the runs in the hands of callers: first page and length

Run(p, n) == p..(p + n - 1)

AInit == free = {} /\ held = {}

(* Boot gives a run of usable memory to the allocator. *)
Donate ==
  \E p \in 0..MaxPages, n \in 1..MaxPages :
    /\ Run(p, n) \cap (free \cup UNION {Run(h[1], h[2]) : h \in held}) = {}
    /\ free' = free \cup Run(p, n)
    /\ UNCHANGED held

Allocate ==
  \E p \in free, n \in 1..MaxPages :
    /\ Run(p, n) \subseteq free
    /\ free' = free \ Run(p, n)
    /\ held' = held \cup {<<p, n>>}

Release ==
  \E h \in held :
    /\ free' = free \cup Run(h[1], h[2])
    /\ held' = held \ {h}

ANext == Donate \/ Allocate \/ Release

ASpec == AInit /\ [][ANext]_<<free, held>>
=============================================================================

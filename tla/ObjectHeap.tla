----------------------------- MODULE ObjectHeap -----------------------------
(***************************************************************************)
(* What the kernel heap promises its callers, without lists: a page is     *)
(* unused, serves objects of one size, or is handed out whole; an object   *)
(* that is handed out was in nobody's hands; and a page is given to a size *)
(* only when every object of that size is in use.                          *)
(***************************************************************************)
EXTENDS Naturals

CONSTANTS Page, Size, Objects, Whole, Unused   \* Objects: size -> objects in a page

VARIABLES
  use,    \* page -> Unused, Whole or the size it serves
  held    \* the objects in the hands of callers: page and place

ObjectsOf(z) == {p \in Page : use[p] = z} \X (1..Objects[z])

HInit == use = [p \in Page |-> Unused] /\ held = {}

Reuse(z) ==
  /\ \E o \in ObjectsOf(z) \ held : held' = held \cup {o}
  /\ UNCHANGED use

Grow(z) ==
  /\ ObjectsOf(z) \subseteq held
  /\ \E p \in Page, i \in 1..Objects[z] :
       /\ use[p] = Unused
       /\ use' = [use EXCEPT ![p] = z]
       /\ held' = held \cup {<<p, i>>}

Free == \E o \in held : held' = held \ {o} /\ UNCHANGED use

TakeWhole == \E p \in Page : use[p] = Unused /\ use' = [use EXCEPT ![p] = Whole] /\ UNCHANGED held
FreeWhole == \E p \in Page : use[p] = Whole /\ use' = [use EXCEPT ![p] = Unused] /\ UNCHANGED held

HNext == (\E z \in Size : Reuse(z) \/ Grow(z)) \/ Free \/ TakeWhole \/ FreeWhole

HSpec == HInit /\ [][HNext]_<<use, held>>
=============================================================================

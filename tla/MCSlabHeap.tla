----------------------------- MODULE MCSlabHeap -----------------------------
(* Instances of SlabHeap for TLC: a cache of one object per slab (the      *)
(* code's 2048 bytes) and one of two (1024 bytes has three).               *)
EXTENDS SlabHeap

OneAndTwo == <<1, 2>>
Zero == {0}
Anything == {0, Garbage}
=============================================================================

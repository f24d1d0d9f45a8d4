----------------------------- MODULE MCBuddyPmm -----------------------------
(* Instances of BuddyPmm for TLC.  A page holds four frames, so that the   *)
(* frame array takes several pages.                                        *)
EXTENDS BuddyPmm

Usable(b, n) == [base |-> b, length |-> n, usable |-> TRUE]
Reserved(b, n) == [base |-> b, length |-> n, usable |-> FALSE]

(* Maps of three adjacent entries with every alignment of the usable one,  *)
(* of two usable ones that touch, and of a reserved last one.              *)
BootMaps ==
  {<<Reserved(0, a), Usable(a, b), [base |-> a + b, length |-> c, usable |-> u]>> :
       a \in 1..4, b \in 1..5, c \in 1..2, u \in BOOLEAN}

(* The frame array in the first, in the second of two usable entries, and  *)
(* before a block of the largest order.                                    *)
RunMaps ==
  {<<Reserved(0, 1), Usable(1, 5), Reserved(6, 1), Usable(7, 3)>>,
   <<Reserved(0, 2), Usable(2, 1), Reserved(3, 1), Usable(4, 8)>>,
   <<Reserved(0, 4), Usable(4, 12)>>}

AllMaps == BootMaps \cup RunMaps
AllCounts == 0..5
=============================================================================

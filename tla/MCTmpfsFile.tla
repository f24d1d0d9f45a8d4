---------------------------- MODULE MCTmpfsFile ----------------------------
(* TmpfsFile for TLC: a page of four bytes, size_t of 16 values.  Some     *)
(* writes start behind the page, some wrap around.                         *)
EXTENDS TmpfsFile

AllOffsets == 0..(PAGE_SIZE + 2)
AllSizes == 0..(PAGE_SIZE + 1) \cup {SizeModulus - 2, SizeModulus - 1}
=============================================================================

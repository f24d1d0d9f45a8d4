-------------------------- MODULE MCAddressSpaces --------------------------
(* AddressSpaces for TLC: three levels of four entries, two of them in the *)
(* lower half.  The stack that execve maps is at 0x7FFFFFEFC000 and above: *)
(* its first index is the last of the lower half, the next are the last of *)
(* their tables.                                                           *)
EXTENDS AddressSpaces

OnePage == {<<0, 0, 0>>}
Stack == <<<<1, 3, 0>>>>
Cleared == ZeroTable
Leftover == [ZeroTable EXCEPT ![1] = Entry(1, TRUE)]
=============================================================================

------------------------------ MODULE ByteFile ------------------------------
(* What a file of bounded length promises: a write puts its bytes where it *)
(* says, keeps all others, and fills what it skips with zeros.             *)
EXTENDS Integers

CONSTANTS Limit, Byte, Offsets, Sizes

VARIABLE content      \* function from 0..(length - 1) to bytes

Length == CHOOSE n \in 0..Limit : DOMAIN content = 0..(n - 1)

AInit == content = [i \in 0..(-1) |-> 0]

Written(off, n, b) ==
  LET upto == IF off + n > Limit THEN Limit ELSE off + n
      last == IF upto > Length THEN upto ELSE Length
  IN  [i \in 0..(last - 1) |->
         IF i \in off..(upto - 1) THEN b ELSE IF i < Length THEN content[i] ELSE 0]

AWrite == \E off \in Offsets, n \in Sizes, b \in Byte : content' = Written(off, n, b)

ASpec == AInit /\ [][AWrite]_content
=============================================================================

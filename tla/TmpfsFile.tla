----------------------------- MODULE TmpfsFile -----------------------------
(***************************************************************************)
(* One tmpfs file: tmpfs_file_read and tmpfs_file_write of vfs.cpp on the  *)
(* single page that holds its data.  A write stores one byte value         *)
(* throughout; what the page held before is Stale.                         *)
(***************************************************************************)
EXTENDS Integers, FiniteSets

CONSTANTS
  PAGE_SIZE, SizeModulus,     \* size_t counts modulo SizeModulus
  Byte, Stale,
  Offsets, Sizes              \* what callers pass

ASSUME TmpfsAssumption ==
  /\ PAGE_SIZE \in Nat /\ SizeModulus \in Nat /\ 0 < PAGE_SIZE /\ 2 * PAGE_SIZE < SizeModulus
  /\ Offsets \subseteq 0..(SizeModulus - 1) /\ Sizes \subseteq 0..(SizeModulus - 1)
  /\ Stale \notin Byte \cup {0}

VARIABLES
  private_data,   \* the file has its page
  page, size,
  overrun         \* bytes behind the page that some write touched

fileVars == <<private_data, page, size, overrun>>

InPage == 0..(PAGE_SIZE - 1)

TmpfsInit == private_data = FALSE /\ page = [i \in InPage |-> Stale] /\ size = 0 /\ overrun = {}

(* Where a write ends and how many bytes it stores. *)
Clamped(off, n) ==
  LET end == (off + n) % SizeModulus
  IN  IF end > PAGE_SIZE THEN [end |-> PAGE_SIZE, size |-> IF off < PAGE_SIZE THEN PAGE_SIZE - off ELSE 0]
      ELSE [end |-> end, size |-> n]

(* The indices the zero-fill loop writes. *)
Filled_Not(off) == {}
Filled_FromOne(off) == (size + 1)..(off - 1)
Filled(off) == size..(off - 1)

(* No page: nothing is written.  The caller's buffer is n bytes long. *)
tmpfs_file_write(off, n, b) ==
  LET c == Clamped(off, n)
      stored == off..(off + c.size - 1)
  IN  /\ private_data' = TRUE
      /\ page' = [i \in InPage |-> IF i \in stored THEN b ELSE IF i \in Filled(off) THEN 0 ELSE page[i]]
      /\ overrun' = overrun \cup ((Filled(off) \cup stored) \ InPage)
      /\ size' = IF c.end > size THEN c.end ELSE size

(* The bytes a read returns, in order. *)
tmpfs_file_read(off, n) ==
  LET to_read == IF off >= size THEN 0 ELSE IF n < size - off THEN n ELSE size - off
  IN  [i \in 1..to_read |-> page[off + i - 1]]

TmpfsNext == \E off \in Offsets, n \in Sizes, b \in Byte : tmpfs_file_write(off, n, b)

TmpfsSpec == TmpfsInit /\ [][TmpfsNext]_fileVars

-----------------------------------------------------------------------------
(* Properties. *)

(* Every variable has its type; the size never exceeds the page, so a read *)
(* never leaves it.                                                        *)
TmpfsTypeOK ==
  /\ private_data \in BOOLEAN
  /\ page \in [InPage -> Byte \cup {0, Stale}]
  /\ size \in 0..PAGE_SIZE
  /\ overrun \subseteq Nat

(* No read leaves the page or returns what the page held before the file   *)
(* got it: writes that skip ahead fill the gap.                            *)
ReadsOnlyWritten ==
  TmpfsTypeOK /\ \A off \in Offsets, n \in Sizes :
    LET r == tmpfs_file_read(off, n) IN \A i \in DOMAIN r : r[i] # Stale

(* A write that starts within the page and whose end does not wrap touches *)
(* nothing behind the page (tmpfs_file_write).                             *)
NearWritesStayInPage ==
  [][(overrun' # overrun) =>
       \E off \in Offsets, n \in Sizes, b \in Byte :
         /\ off > PAGE_SIZE \/ off + n >= SizeModulus
         /\ tmpfs_file_write(off, n, b)]_fileVars

content == [i \in 0..(size - 1) |-> page[i]]

ByteFiles == INSTANCE ByteFile WITH Limit <- PAGE_SIZE

WrappingWrite ==
  \E off \in Offsets, n \in Sizes, b \in Byte : off + n >= SizeModulus /\ tmpfs_file_write(off, n, b)

(* The file's bytes, as the tests read them back, are those of a byte file *)
(* of one page, also where a write starts behind the page; only a write    *)
(* whose end wraps around is something else.  What lies behind the page is *)
(* the file's only where NearWritesStayInPage allows it.                   *)
ImplementsByteFile ==
  ByteFiles!AInit /\ [][ByteFiles!AWrite \/ WrappingWrite]_content /\ NearWritesStayInPage
=============================================================================

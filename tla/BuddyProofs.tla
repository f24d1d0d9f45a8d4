---------------------------- MODULE BuddyProofs -----------------------------
(***************************************************************************)
(* The arithmetic of buddy blocks: the block of order t around a page is   *)
(* cut into a smaller one and the halves on the way, and blocks may be     *)
(* exchanged for others on the same pages.  Then the invariant of the      *)
(* physical memory manager: pmm_init establishes it and keeps it, whatever *)
(* the memory map, and pmm_alloc_pages and pmm_free_pages keep it.  So,    *)
(* for every memory map, every largest order and every sequence of calls,  *)
(* blocks stay aligned and disjoint, the free count and the frames are     *)
(* right, and the buddy system implements PageAllocator.                   *)
(***************************************************************************)
EXTENDS BuddyPmm, FiniteSetTheorems, WellFoundedInduction, TLAPS

(* A set of blocks without overlap. *)
Disjoint(B) == \A b, c \in B : b # c => PagesOf(b) \cap PagesOf(c) = {}
Aligned(B) == \A b \in B : b[1] % Size(b[2]) = 0

HalvesOf(p, o, t) == {<<MergedHalf(p, k), k>> : k \in o..(t - 1)}

(* The block of order t around p, cut down to the one of order o at p. *)
Pieces(p, o, t) == {<<p, o>>} \cup HalvesOf(p, o, t)

-----------------------------------------------------------------------------
(* Division. *)

(* Quotient and remainder. *)
LEMMA DivMod ==
  ASSUME NEW p \in Nat, NEW m \in Nat \ {0}
  PROVE  p = (m * (p \div m)) + (p % m) /\ p % m \in 0..(m - 1) /\ p \div m \in Nat
OBVIOUS

(* They are unique. *)
LEMMA Quotient ==
  ASSUME NEW n \in Nat \ {0}, NEW q \in Nat, NEW r \in 0..(n - 1), NEW p, p = (n * q) + r
  PROVE  p \in Nat /\ p % n = r /\ p \div n = q
<1> DEFINE a == p \div n
           b == p % n
<1>1. p \in Nat
  OBVIOUS
<1>2. p = (n * a) + b /\ b \in 0..(n - 1) /\ a \in Nat
  BY <1>1, DivMod, Zenon
<1> HIDE DEF a, b
<1>3. (n * q) + r = (n * a) + b
  BY <1>2
<1>4. ~(q < a)
  <2> SUFFICES ASSUME q < a PROVE FALSE
    OBVIOUS
  <2>1. n * (q + 1) <= n * a
    BY <1>2
  <2> QED BY <2>1, <1>2, <1>3
<1>5. ~(a < q)
  <2> SUFFICES ASSUME a < q PROVE FALSE
    OBVIOUS
  <2>1. n * (a + 1) <= n * q
    BY <1>2
  <2> QED BY <2>1, <1>2, <1>3
<1>6. a = q /\ b = r
  BY <1>2, <1>3, <1>4, <1>5
<1> QED BY <1>1, <1>6 DEF a, b

(* A multiple has remainder 0. *)
LEMMA Multiple ==
  ASSUME NEW n \in Nat \ {0}, NEW q \in Nat, NEW p, p = n * q
  PROVE  p \in Nat /\ p % n = 0 /\ p \div n = q
<1>1. 0 \in 0..(n - 1) /\ p = (n * q) + 0
  OBVIOUS
<1> QED BY <1>1, Quotient

(* From the remainder by m to the one by 2 m. *)
LEMMA Halving ==
  ASSUME NEW p \in Nat, NEW m \in Nat \ {0}
  PROVE  p % (2 * m) = IF (p \div m) % 2 = 0 THEN p % m ELSE (p % m) + m
<1> DEFINE q == p \div m
           r == p % m
<1>1. p = (m * q) + r /\ r \in 0..(m - 1) /\ q \in Nat
  BY DivMod, Zenon
<1> HIDE DEF q, r
<1>2. PICK h \in Nat : q = IF q % 2 = 0 THEN 2 * h ELSE (2 * h) + 1
  BY <1>1
<1>3. 2 * m \in Nat \ {0} /\ r \in 0..((2 * m) - 1) /\ r + m \in 0..((2 * m) - 1)
  BY <1>1
<1>4. CASE q % 2 = 0
  <2>1. p = ((2 * m) * h) + r
    BY <1>1, <1>2, <1>4
  <2>2. p % (2 * m) = r
    BY <2>1, <1>3, Quotient
  <2> QED BY <2>2, <1>4 DEF q, r
<1>5. CASE q % 2 # 0
  <2> DEFINE n == 2 * m
             s == r + m
  <2>1. p = (n * h) + s
    BY <1>1, <1>2, <1>5
  <2>2. n \in Nat \ {0} /\ s \in 0..(n - 1)
    BY <1>3
  <2> HIDE DEF n, s
  <2>3. p % n = s
    BY <2>1, <2>2, Quotient
  <2> QED BY <2>3, <1>5 DEF q, r, n, s
<1> QED BY <1>4, <1>5

-----------------------------------------------------------------------------
(* Blocks. *)

(* The sizes, one by one. *)
LEMMA SizeTable ==
  /\ Size(0) = 1 /\ Size(1) = 2 /\ Size(2) = 4 /\ Size(3) = 8 /\ Size(4) = 16 /\ Size(5) = 32
  /\ Size(6) = 64 /\ Size(7) = 128 /\ Size(8) = 256 /\ Size(9) = 512 /\ Size(10) = 1024
BY DEF Size

(* A block of the next order is twice as large. *)
LEMMA Sizes ==
  /\ \A o \in 0..10 : Size(o) \in Nat \ {0}
  /\ \A o \in 0..9 : Size(o + 1) = 2 * Size(o)
<1>1. \A o \in 0..10 : o \in {0, 1, 2, 3, 4, 5, 6, 7, 8, 9, 10}
  OBVIOUS
<1>2. \A o \in 0..9 : o \in {0, 1, 2, 3, 4, 5, 6, 7, 8, 9}
  OBVIOUS
<1>3. \A o \in {0, 1, 2, 3, 4, 5, 6, 7, 8, 9, 10} : Size(o) \in Nat \ {0}
  BY SizeTable
<1>4. \A o \in {0, 1, 2, 3, 4, 5, 6, 7, 8, 9} : Size(o + 1) = 2 * Size(o)
  BY SizeTable
<1> QED BY <1>1, <1>2, <1>3, <1>4

(* A block of order k around p starts at or before p, at a multiple of its *)
(* size; its buddy is the block next to it, and together they are the      *)
(* block of order k + 1 around p.                                          *)
LEMMA Around ==
  ASSUME NEW p \in Nat, NEW k \in 0..10
  PROVE  /\ Enclosing(p, k) \in Nat
         /\ p \in PagesOf(<<Enclosing(p, k), k>>)
         /\ Enclosing(p, k) % Size(k) = 0
         /\ p % Size(k) = 0 => Enclosing(p, k) = p
<1> DEFINE m == Size(k)
           r == p % m
           q == p \div m
<1>1. m \in Nat \ {0}
  BY Sizes
<1> HIDE DEF m
<1>2. p = (m * q) + r /\ r \in 0..(m - 1) /\ q \in Nat
  BY <1>1, DivMod, Zenon
<1> HIDE DEF q
<1>3. p - r \in Nat /\ p - r = m * q
  BY <1>1, <1>2
<1>4. (p - r) % m = 0
  BY <1>1, <1>2, <1>3, Multiple, Zenon
<1>5. p \in (p - r)..((p - r) + m - 1)
  BY <1>1, <1>2, <1>3
<1> QED BY <1>3, <1>4, <1>5 DEF Enclosing, PagesOf, m

(* The block of the next order is the block and its other half. *)
LEMMA Buddies ==
  ASSUME NEW p \in Nat, NEW k \in 0..9
  PROVE  /\ MergedHalf(p, k) \in Nat
         /\ MergedHalf(p, k) % Size(k) = 0
         /\ PagesOf(<<MergedHalf(p, k), k>>) \cap PagesOf(<<Enclosing(p, k), k>>) = {}
         /\ PagesOf(<<Enclosing(p, k + 1), k + 1>>)
              = PagesOf(<<Enclosing(p, k), k>>) \cup PagesOf(<<MergedHalf(p, k), k>>)
         /\ Enclosing(p, k + 1) \in {Enclosing(p, k), MergedHalf(p, k)}
         /\ p % Size(k + 1) = 0 => p % Size(k) = 0 /\ MergedHalf(p, k) = p + Size(k)
<1> DEFINE m == Size(k)
           e == p - (p % m)
           h == IF (e \div m) % 2 = 0 THEN e + m ELSE e - m
<1>1. m \in Nat \ {0} /\ Size(k + 1) = 2 * m
  BY Sizes
<1> HIDE DEF m
<1>2. p = (m * (p \div m)) + (p % m) /\ p % m \in 0..(m - 1) /\ p \div m \in Nat
  BY <1>1, DivMod, Zenon
<1>3. e = m * (p \div m)
  BY <1>1, <1>2
<1>4. e \in Nat /\ e \div m = p \div m /\ e % m = 0
  BY <1>1, <1>2, <1>3, Multiple, Zenon
<1>5. p % (2 * m) = IF (p \div m) % 2 = 0 THEN p % m ELSE (p % m) + m
  BY <1>1, Halving, Zenon
<1> DEFINE f == p - (p % (2 * m))
<1>6. Enclosing(p, k) = e /\ MergedHalf(p, k) = h /\ Enclosing(p, k + 1) = f
  BY <1>1 DEF Enclosing, MergedHalf, buddy_of, m
<1>7. CASE (p \div m) % 2 = 0
  <2>1. h = e + m /\ f = e
    BY <1>4, <1>5, <1>7
  <2>2. h = m * ((p \div m) + 1) /\ (p \div m) + 1 \in Nat
    BY <2>1, <1>1, <1>2, <1>3
  <2>3. h % m = 0
    BY <2>2, <1>1, Multiple, Zenon
  <2>4. (h..(h + m - 1)) \cap (e..(e + m - 1)) = {}
    BY <2>1, <1>1, <1>4
  <2>5. f..(f + (2 * m) - 1) = (e..(e + m - 1)) \cup (h..(h + m - 1))
    BY <2>1, <1>1, <1>4
  <2>6. p % (2 * m) = 0 => p % m = 0 /\ h = p + m
    BY <2>1, <1>5, <1>7, <1>2, <1>1
  <2> QED BY <2>1, <2>3, <2>4, <2>5, <2>6, <1>1, <1>4, <1>6, SMTT(30) DEF PagesOf, m
<1>8. CASE (p \div m) % 2 # 0
  <2>1. p \div m >= 1
    BY <1>2, <1>8
  <2>2. h = m * ((p \div m) - 1) /\ (p \div m) - 1 \in Nat
    BY <2>1, <1>1, <1>2, <1>3, <1>4, <1>8
  <2>3. h % m = 0 /\ h \in Nat
    BY <2>2, <1>1, Multiple, Zenon
  <2>4. h = e - m /\ f = h
    BY <1>1, <1>2, <1>4, <1>5, <1>8
  <2>5. (h..(h + m - 1)) \cap (e..(e + m - 1)) = {}
    BY <2>3, <2>4, <1>1, <1>4
  <2>6. f..(f + (2 * m) - 1) = (e..(e + m - 1)) \cup (h..(h + m - 1))
    BY <2>3, <2>4, <1>1, <1>4
  <2>7. p % (2 * m) # 0
    BY <1>1, <1>2, <1>5, <1>8
  <2> QED BY <2>3, <2>4, <2>5, <2>6, <2>7, <1>1, <1>4, <1>6 DEF PagesOf, m
<1> QED BY <1>7, <1>8

(* The least-number principle. *)
LEMMA FirstExists ==
  ASSUME NEW S \in SUBSET Nat, S # {}
  PROVE  \E n \in S : \A m \in S : n <= m
<1> DEFINE R == OpToRel(<, Nat)
<1>1. IsWellFoundedOn(R, Nat)
  BY NatLessThanWellFounded, Zenon
<1> HIDE DEF R
<1>2. PICK n \in S : \A m \in S : ~ (<<m, n>> \in R)
  BY <1>1, WFMin, Zenon
<1>3. \A m \in S : ~ (m < n)
  BY <1>2, Zenon DEF R, OpToRel
<1> QED BY <1>3

(* Blocks around p grow with their order, *)
LEMMA Growing ==
  ASSUME NEW p \in Nat, NEW i \in 0..10, NEW j \in 0..10, i <= j
  PROVE  PagesOf(<<Enclosing(p, i), i>>) \subseteq PagesOf(<<Enclosing(p, j), j>>)
<1> DEFINE E(k) == PagesOf(<<Enclosing(p, k), k>>)
           Bad == {k \in i..10 : ~(E(i) \subseteq E(k))}
<1>1. \A k \in 0..9 : E(k) \subseteq E(k + 1)
  BY Buddies, Zenon
<1> HIDE DEF E
<1>2. Bad = {}
  <2> SUFFICES ASSUME Bad # {} PROVE FALSE
    OBVIOUS
  <2>1. Bad \in SUBSET Nat
    OBVIOUS
  <2>2. PICK k \in Bad : \A l \in Bad : k <= l
    BY <2>1, FirstExists
  <2>3. k # i /\ k - 1 \in i..10 /\ k - 1 \in 0..9
    BY <2>2
  <2>4. E(i) \subseteq E(k - 1)
    BY <2>2, <2>3
  <2>5. E(k - 1) \subseteq E((k - 1) + 1)
    BY <2>3, <1>1
  <2>6. (k - 1) + 1 = k
    BY <2>2
  <2> QED BY <2>2, <2>4, <2>5, <2>6
<1>3. j \in i..10
  OBVIOUS
<1> QED BY <1>2, <1>3 DEF E

(* and what is in the large one but not in the small one is in a half on   *)
(* the way.                                                                *)
LEMMA OnTheWay ==
  ASSUME NEW p \in Nat, NEW o \in 0..10, NEW t \in 0..10, o <= t,
         NEW x \in PagesOf(<<Enclosing(p, t), t>>)
  PROVE  \/ x \in PagesOf(<<Enclosing(p, o), o>>)
         \/ \E k \in o..(t - 1) : x \in PagesOf(<<MergedHalf(p, k), k>>)
<1> DEFINE E(k) == PagesOf(<<Enclosing(p, k), k>>)
           H(k) == PagesOf(<<MergedHalf(p, k), k>>)
           In == {k \in o..t : x \in E(k)}
<1>1. \A k \in 0..9 : E(k + 1) = E(k) \cup H(k)
  BY Buddies, Zenon
<1>2. x \in E(t)
  OBVIOUS
<1> HIDE DEF E, H
<1>3. In # {} /\ In \in SUBSET Nat
  BY <1>2
<1>4. PICK k \in In : \A l \in In : k <= l
  BY <1>3, FirstExists
<1>5. CASE k = o
  BY <1>4, <1>5 DEF E
<1>6. CASE k # o
  <2>1. k - 1 \in o..(t - 1) /\ k - 1 \in 0..9 /\ (k - 1) + 1 = k /\ k - 1 \in o..t
    BY <1>4, <1>6
  <2>2. x \in E(k) /\ x \notin E(k - 1)
    BY <1>4, <2>1
  <2>3. E((k - 1) + 1) = E(k - 1) \cup H(k - 1)
    BY <1>1, <2>1
  <2>4. x \in H(k - 1)
    BY <2>1, <2>2, <2>3
  <2> QED BY <2>1, <2>4 DEF H
<1> QED BY <1>5, <1>6

(* The start of the large block is p or the start of a half. *)
LEMMA StartOf ==
  ASSUME NEW p \in Nat, NEW o \in 0..10, NEW t \in 0..10, o <= t, p % Size(o) = 0
  PROVE  Enclosing(p, t) = p \/ \E k \in o..(t - 1) : Enclosing(p, t) = MergedHalf(p, k)
<1> DEFINE Good(k) == Enclosing(p, k) = p \/ \E l \in o..(k - 1) : Enclosing(p, k) = MergedHalf(p, l)
           Bad == {k \in o..10 : ~Good(k)}
<1>1. Good(o)
  BY Around, Zenon
<1>2. ASSUME NEW k \in o..9, Good(k)
      PROVE  Good(k + 1)
  <2>1. k \in 0..9 /\ k \in o..((k + 1) - 1)
    OBVIOUS
  <2>2. Enclosing(p, k + 1) \in {Enclosing(p, k), MergedHalf(p, k)}
    BY <2>1, Buddies, Zenon
  <2>3. \A l \in o..(k - 1) : l \in o..((k + 1) - 1)
    OBVIOUS
  <2> QED BY <1>2, <2>1, <2>2, <2>3
<1> HIDE DEF Good
<1>3. Bad = {}
  <2> SUFFICES ASSUME Bad # {} PROVE FALSE
    OBVIOUS
  <2>1. PICK k \in Bad : \A l \in Bad : k <= l
    BY FirstExists
  <2>2. k # o /\ k - 1 \in o..9 /\ (k - 1) + 1 = k
    BY <2>1, <1>1
  <2>3. Good(k - 1)
    BY <2>1, <2>2
  <2>4. Good((k - 1) + 1)
    BY <1>2, <2>2, <2>3
  <2> QED BY <2>1, <2>2, <2>4
<1>4. Good(t)
  BY <1>3
<1> QED BY <1>4 DEF Good

(* The pieces make up the large block. *)
LEMMA Cut ==
  ASSUME NEW p \in Nat, NEW o \in 0..10, NEW t \in 0..10, o <= t, p % Size(o) = 0
  PROVE  /\ \A b \in Pieces(p, o, t) : b[1] \in Nat /\ b[2] \in o..t /\ b = <<b[1], b[2]>>
         /\ Aligned(Pieces(p, o, t))
         /\ Disjoint(Pieces(p, o, t))
         /\ PagesOfAll(Pieces(p, o, t)) = PagesOf(<<Enclosing(p, t), t>>)
         /\ <<p, o>> \notin HalvesOf(p, o, t)
<1> DEFINE E(k) == PagesOf(<<Enclosing(p, k), k>>)
           H(k) == PagesOf(<<MergedHalf(p, k), k>>)
<1>1. \A k \in o..(t - 1) : k \in 0..9 /\ k + 1 \in 0..10 /\ k + 1 <= t /\ k \in o..t
  OBVIOUS
<1>2. \A k \in o..(t - 1) : MergedHalf(p, k) \in Nat /\ MergedHalf(p, k) % Size(k) = 0
  BY <1>1, Buddies, Zenon
<1>3. \A k \in o..(t - 1) : H(k) \cap E(k) = {} /\ H(k) \subseteq E(k + 1)
  <2> TAKE k \in o..(t - 1)
  <2>1. k \in 0..9
    BY <1>1
  <2>2. H(k) \cap E(k) = {}
    BY <2>1, Buddies, ZenonT(30)
  <2>3. E(k + 1) = E(k) \cup H(k)
    BY <2>1, Buddies, ZenonT(30)
  <2> HIDE DEF E, H
  <2> QED BY <2>2, <2>3
<1>4. \A i, j \in o..t : i <= j => E(i) \subseteq E(j)
  <2>1. \A i \in o..t : i \in 0..10
    OBVIOUS
  <2> QED BY <2>1, Growing, Zenon
<1>5. PagesOf(<<p, o>>) = E(o)
  BY Around, ZenonT(30)
<1>6. \A x \in E(t) : x \in E(o) \/ \E k \in o..(t - 1) : x \in H(k)
  BY OnTheWay, Zenon
<1> HIDE DEF E
<1>7. \A k \in o..(t - 1) : H(k) \cap PagesOf(<<p, o>>) = {}
  BY <1>1, <1>3, <1>4, <1>5
<1>8. \A i, j \in o..(t - 1) : i < j => H(i) \cap H(j) = {}
  BY <1>1, <1>3, <1>4
<1>9. \A i, j \in o..(t - 1) : i # j => H(i) \cap H(j) = {}
  BY <1>8
<1>10. \A b \in Pieces(p, o, t) : b = <<p, o>> \/ \E k \in o..(t - 1) : b = <<MergedHalf(p, k), k>>
  BY DEF Pieces, HalvesOf
<1>11. \A b \in Pieces(p, o, t) : b[1] \in Nat /\ b[2] \in o..t /\ b = <<b[1], b[2]>>
  BY <1>1, <1>2, <1>10
<1>12. Aligned(Pieces(p, o, t))
  BY <1>2, <1>10 DEF Aligned
<1>13. Disjoint(Pieces(p, o, t))
  BY <1>7, <1>9, <1>10 DEF Disjoint
<1>14. PagesOfAll(Pieces(p, o, t)) = E(t)
  <2>1. \A k \in o..(t - 1) : H(k) \subseteq E(t)
    BY <1>1, <1>3, <1>4
  <2>2. \A b \in Pieces(p, o, t) : PagesOf(b) \subseteq E(t)
    BY <2>1, <1>4, <1>5, <1>10
  <2>3. \A k \in o..(t - 1) : <<MergedHalf(p, k), k>> \in Pieces(p, o, t)
    BY DEF Pieces, HalvesOf
  <2>4. <<p, o>> \in Pieces(p, o, t)
    BY DEF Pieces
  <2>5. \A x \in E(t) : \E b \in Pieces(p, o, t) : x \in PagesOf(b)
    BY <2>3, <2>4, <1>5, <1>6, Zenon
  <2> QED BY <2>2, <2>5 DEF PagesOfAll
<1>15. <<p, o>> \notin HalvesOf(p, o, t)
  <2>1. p \in PagesOf(<<p, o>>)
    BY Around, Zenon
  <2> QED BY <2>1, <1>7 DEF HalvesOf
<1> QED BY <1>11, <1>12, <1>13, <1>14, <1>15 DEF E

(* The part of Cut about pages. *)
LEMMA CutPages ==
  ASSUME NEW p \in Nat, NEW o \in 0..10, NEW t \in 0..10, o <= t, p % Size(o) = 0
  PROVE  PagesOfAll(Pieces(p, o, t)) = PagesOf(<<Enclosing(p, t), t>>)
<1>1. /\ \A b \in Pieces(p, o, t) : b[1] \in Nat /\ b[2] \in o..t /\ b = <<b[1], b[2]>>
      /\ Aligned(Pieces(p, o, t))
      /\ Disjoint(Pieces(p, o, t))
      /\ PagesOfAll(Pieces(p, o, t)) = PagesOf(<<Enclosing(p, t), t>>)
      /\ <<p, o>> \notin HalvesOf(p, o, t)
  BY Cut, Zenon
<1> QED BY <1>1, Zenon

(* A block aligned for a large order is aligned for the smaller ones. *)
LEMMA AlignedBelow ==
  ASSUME NEW p \in Nat, NEW k \in 0..10, NEW t \in 0..10, k <= t, p % Size(t) = 0
  PROVE  Enclosing(p, k) = p
<1>1. Enclosing(p, t) = p /\ Enclosing(p, k) \in Nat
  BY Around, ZenonT(30)
<1>2. PagesOf(<<Enclosing(p, k), k>>) \subseteq PagesOf(<<p, t>>)
  BY <1>1, Growing, ZenonT(30)
<1>3. p \in PagesOf(<<Enclosing(p, k), k>>) /\ Size(k) \in Nat \ {0} /\ Size(t) \in Nat \ {0}
  BY Around, Sizes, Zenon
<1>4. Enclosing(p, k) \in PagesOf(<<Enclosing(p, k), k>>)
  BY <1>1, <1>3 DEF PagesOf
<1>5. Enclosing(p, k) >= p
  BY <1>1, <1>2, <1>3, <1>4 DEF PagesOf
<1>6. Enclosing(p, k) <= p
  BY <1>1, <1>3 DEF PagesOf
<1> QED BY <1>1, <1>5, <1>6

(* Blocks may be exchanged for others on the same pages. *)
LEMMA Exchange ==
  ASSUME NEW B, NEW R \in SUBSET B, NEW N, Disjoint(B), Disjoint(N),
         PagesOfAll(N) \subseteq PagesOfAll(R)
  PROVE  /\ Disjoint((B \ R) \cup N)
         /\ PagesOfAll((B \ R) \cup N) = (PagesOfAll(B) \ PagesOfAll(R)) \cup PagesOfAll(N)
<1> DEFINE P(b) == PagesOf(b)
<1>1. \A b, c \in B : b # c => P(b) \cap P(c) = {}
  BY DEF Disjoint
<1>2. \A b, c \in N : b # c => P(b) \cap P(c) = {}
  BY DEF Disjoint
<1>3. \A b \in N : \A x \in P(b) : \E c \in R : x \in P(c)
  BY DEF PagesOfAll
<1> HIDE DEF P
<1>4. \A b \in B \ R, c \in N : P(b) \cap P(c) = {}
  <2> SUFFICES ASSUME NEW b \in B \ R, NEW c \in N, NEW x \in P(b), x \in P(c)
               PROVE  FALSE
    OBVIOUS
  <2>1. PICK d \in R : x \in P(d)
    BY <1>3
  <2> QED BY <2>1, <1>1
<1>5. Disjoint((B \ R) \cup N)
  <2> SUFFICES ASSUME NEW b \in (B \ R) \cup N, NEW c \in (B \ R) \cup N, b # c
               PROVE  P(b) \cap P(c) = {}
    BY DEF Disjoint, P
  <2>1. CASE b \in B \ R /\ c \in B \ R
    BY <2>1, <1>1
  <2>2. CASE b \in N /\ c \in N
    BY <2>2, <1>2
  <2>3. CASE b \in B \ R /\ c \in N
    BY <2>3, <1>4
  <2>4. CASE b \in N /\ c \in B \ R
    BY <2>4, <1>4
  <2> QED BY <2>1, <2>2, <2>3, <2>4
<1>6. \A x : x \in PagesOfAll(B \ R) <=> x \in PagesOfAll(B) /\ x \notin PagesOfAll(R)
  <2>1. \A S : PagesOfAll(S) = UNION {P(b) : b \in S}
    BY DEF PagesOfAll, P
  <2> QED BY <2>1, <1>1
<1>7. PagesOfAll((B \ R) \cup N) = PagesOfAll(B \ R) \cup PagesOfAll(N)
  BY DEF PagesOfAll
<1> QED BY <1>5, <1>6, <1>7

(* The blocks of free lists L and of a table h of held blocks. *)
BlocksOf(L) == UNION {L[o] \X {o} : o \in Orders}
HeldOf(h) == {<<x, h[x]>> : x \in DOMAIN h}

(* Membership in these sets. *)
LEMMA BlockSets ==
  /\ \A L, x, o : <<x, o>> \in BlocksOf(L) <=> o \in Orders /\ x \in L[o]
  /\ \A L : \A b \in BlocksOf(L) : b = <<b[1], b[2]>>
  /\ \A h, x, o : <<x, o>> \in HeldOf(h) <=> x \in DOMAIN h /\ o = h[x]
  /\ \A h : \A b \in HeldOf(h) : b = <<b[1], b[2]>>
<1>1. \A L, x, o : <<x, o>> \in BlocksOf(L) <=> o \in Orders /\ x \in L[o]
  BY DEF BlocksOf
<1>2. \A L : \A b \in BlocksOf(L) : b = <<b[1], b[2]>>
  BY DEF BlocksOf
<1>3. \A h, x, o : <<x, o>> \in HeldOf(h) <=> x \in DOMAIN h /\ o = h[x]
  BY DEF HeldOf
<1>4. \A h : \A b \in HeldOf(h) : b = <<b[1], b[2]>>
  BY DEF HeldOf
<1> QED BY <1>1, <1>2, <1>3, <1>4

(* Min of a set of numbers is its least element. *)
LEMMA MinExists ==
  ASSUME NEW S \in SUBSET Nat, S # {}
  PROVE  Min(S) \in S /\ \A x \in S : Min(S) <= x
<1>1. \E n \in S : \A m \in S : n <= m
  BY FirstExists
<1> QED BY <1>1, Zenon DEF Min

(* Max of a bounded one is its greatest. *)
LEMMA MaxExists ==
  ASSUME NEW n \in Nat, NEW S \in SUBSET (0..n), S # {}
  PROVE  Max(S) \in S /\ \A x \in S : x <= Max(S)
<1> DEFINE T == {n - x : x \in S}
<1>1. T \in SUBSET Nat /\ T # {}
  <2>1. \A x \in S : x \in 0..n /\ n - x \in Nat
    OBVIOUS
  <2> QED BY <2>1, Zenon
<1>2. PICK t \in T : \A u \in T : t <= u
  BY <1>1, FirstExists, Zenon
<1>3. PICK y \in S : t = n - y
  BY <1>2
<1>4. \A x \in S : y >= x
  <2> TAKE x \in S
  <2>1. n - y <= n - x
    BY <1>2, <1>3, Zenon
  <2>2. x \in 0..n /\ y \in 0..n
    BY <1>3
  <2> QED BY <2>1, <2>2
<1>5. \E z \in S : \A x \in S : z >= x
  BY <1>3, <1>4
<1>6. Max(S) \in S /\ \A x \in S : Max(S) >= x
  BY <1>5, Zenon DEF Max
<1> QED BY <1>6

(* A block that overlaps no other may be added. *)
LEMMA Adding ==
  ASSUME NEW B, NEW b, Disjoint(B), PagesOf(b) \cap PagesOfAll(B) = {}
  PROVE  /\ Disjoint(B \cup {b})
         /\ PagesOfAll(B \cup {b}) = PagesOfAll(B) \cup PagesOf(b)
<1>1. \A c \in B : PagesOf(b) \cap PagesOf(c) = {}
  BY DEF PagesOfAll
<1>2. Disjoint(B \cup {b})
  BY <1>1 DEF Disjoint
<1> QED BY <1>2 DEF PagesOfAll

(* Pages are counted block by block. *)
LEMMA Counting ==
  ASSUME NEW S, IsFiniteSet(S), NEW x \in Nat, NEW o \in 0..10
  PROVE  /\ PagesOf(<<x, o>>) \cap S = {} =>
              Cardinality(S \cup PagesOf(<<x, o>>)) = Cardinality(S) + Size(o)
         /\ PagesOf(<<x, o>>) \subseteq S =>
              Cardinality(S \ PagesOf(<<x, o>>)) = Cardinality(S) - Size(o)
         /\ Cardinality(S) \in Nat
<1> DEFINE T == PagesOf(<<x, o>>)
<1>1. Size(o) \in Nat \ {0}
  BY Sizes
<1>2. T = x..(x + Size(o) - 1)
  BY DEF PagesOf
<1>3. IsFiniteSet(T) /\ Cardinality(T) = Size(o)
  <2>1. x \in Int /\ x + Size(o) - 1 \in Int /\ ~(x > x + Size(o) - 1)
        /\ (x + Size(o) - 1) - x + 1 = Size(o)
    BY <1>1
  <2>2. IsFiniteSet(x..(x + Size(o) - 1))
    BY <2>1, FS_Interval
  <2>3. Cardinality(x..(x + Size(o) - 1)) = (x + Size(o) - 1) - x + 1
    BY <2>1, FS_Interval
  <2> QED BY <2>1, <2>2, <2>3, <1>2
<1> HIDE DEF T
<1>4. Cardinality(S) \in Nat
  BY FS_CardinalityType
<1>5. Cardinality({}) = 0
  BY FS_EmptySet
<1>6. ASSUME T \cap S = {}
      PROVE  Cardinality(S \cup T) = Cardinality(S) + Size(o)
  <2>1. S \cap T = {}
    BY <1>6
  <2>2. Cardinality(S \cup T) = Cardinality(S) + Cardinality(T) - Cardinality(S \cap T)
    BY <1>3, FS_Union
  <2>3. Cardinality(S \cap T) = 0
    BY <2>1, <1>5
  <2> QED BY <2>2, <2>3, <1>1, <1>3, <1>4
<1>7. ASSUME T \subseteq S
      PROVE  Cardinality(S \ T) = Cardinality(S) - Size(o)
  <2>1. S \cap T = T
    BY <1>7
  <2>2. Cardinality(S \ T) = Cardinality(S) - Cardinality(S \cap T)
    BY FS_Difference
  <2> QED BY <2>1, <2>2, <1>3
<1> QED BY <1>4, <1>6, <1>7 DEF T

(* The halves on the way from order o to order t, apart from <<p, o>>. *)
LEMMA Parts ==
  ASSUME NEW p \in Nat, NEW o \in 0..10, NEW t \in 0..10, o <= t, p % Size(o) = 0
  PROVE  /\ \A b \in HalvesOf(p, o, t) : b[1] \in Nat /\ b[2] \in o..(t - 1) /\ b = <<b[1], b[2]>>
         /\ Disjoint(HalvesOf(p, o, t)) /\ Aligned(HalvesOf(p, o, t))
         /\ PagesOf(<<p, o>>) \cap PagesOfAll(HalvesOf(p, o, t)) = {}
         /\ PagesOf(<<Enclosing(p, t), t>>) = PagesOf(<<p, o>>) \cup PagesOfAll(HalvesOf(p, o, t))
<1> DEFINE H == HalvesOf(p, o, t)
           W == Pieces(p, o, t)
<1>1. W = {<<p, o>>} \cup H
  BY DEF Pieces
<1>2. /\ \A b \in W : b[1] \in Nat /\ b = <<b[1], b[2]>>
      /\ Aligned(W) /\ Disjoint(W) /\ <<p, o>> \notin H
      /\ PagesOfAll(W) = PagesOf(<<Enclosing(p, t), t>>)
  <2>1. /\ \A b \in W : b[1] \in Nat /\ b[2] \in o..t /\ b = <<b[1], b[2]>>
        /\ Aligned(W)
        /\ Disjoint(W)
        /\ PagesOfAll(W) = PagesOf(<<Enclosing(p, t), t>>)
        /\ <<p, o>> \notin H
    BY Cut, Zenon
  <2> HIDE DEF W, H
  <2> QED BY <2>1, Zenon
<1>3. \A b \in H : b[2] \in o..(t - 1)
  BY DEF HalvesOf
<1> HIDE DEF H, W
<1>4. PagesOf(<<p, o>>) \cap PagesOfAll(H) = {}
  <2>1. \A b \in H : PagesOf(<<p, o>>) \cap PagesOf(b) = {}
    BY <1>1, <1>2 DEF Disjoint
  <2> HIDE DEF PagesOf
  <2> QED BY <2>1 DEF PagesOfAll
<1>5. PagesOfAll(W) = PagesOf(<<p, o>>) \cup PagesOfAll(H)
  BY <1>1 DEF PagesOfAll
<1>6. Disjoint(H) /\ Aligned(H)
  BY <1>1, <1>2 DEF Disjoint, Aligned
<1>7. \A b \in H : b[1] \in Nat /\ b[2] \in o..(t - 1) /\ b = <<b[1], b[2]>>
  BY <1>1, <1>2, <1>3
<1> QED BY <1>2, <1>4, <1>5, <1>6, <1>7 DEF H

(* A page starts at most one of disjoint blocks. *)
LEMMA ListedOnce ==
  ASSUME NEW B, Disjoint(B), NEW x \in Nat, NEW j \in 0..10, NEW k \in 0..10,
         <<x, j>> \in B, <<x, k>> \in B
  PROVE  j = k
<1>1. x \in PagesOf(<<x, j>>) /\ x \in PagesOf(<<x, k>>)
  BY Sizes DEF PagesOf
<1>2. <<x, j>> = <<x, k>>
  BY <1>1 DEF Disjoint
<1> QED BY <1>2

-----------------------------------------------------------------------------
(* The invariant. *)

FreePages == PagesOfAll(FreeBlocks)
HeldPages == PagesOfAll(HeldBlocks)

(* The frame array lies in a usable entry; the loop of pmm_init is within  *)
(* the entry it looks at, and nobody allocates before it is over.          *)
BootInv ==
  /\ region \in Nat \ {0}
  /\ ~panicked => \E r \in Roomy(memmap) : metaStart = memmap[r].base
  /\ Carving => /\ memmap[region].base <= pfn /\ pfn <= RegionEnd
                /\ memmap[region].usable \/ pfn = memmap[region].base
  /\ Carving \/ panicked => DOMAIN held = {}

(* The pages that pmm_init has given to the free lists so far. *)
Carved ==
  IF panicked THEN {}
  ELSE IF Carving THEN {x \in UsablePages \ MetaPages : x < pfn} ELSE UsablePages \ MetaPages

BlocksInv ==
  /\ Disjoint(FreeBlocks) /\ Aligned(FreeBlocks)
  /\ Disjoint(HeldBlocks) /\ Aligned(HeldBlocks)
  /\ FreePages \cap HeldPages = {}
  /\ FreePages \cup HeldPages = Carved

BuddyInv ==
  /\ TypeOK /\ BootInv /\ BlocksInv /\ FramesTruthful
  /\ kFreePages = Cardinality(FreePages)

(* The boot loader's entries. *)
LEMMA Entries ==
  ASSUME NEW m \in MemMaps
  PROVE  /\ Len(m) \in Nat /\ DOMAIN m = 1..Len(m)
         /\ \A i \in DOMAIN m :
              /\ m[i].base \in Nat /\ m[i].length \in Nat /\ m[i].usable \in BOOLEAN
              /\ EntryEnd(m[i]) = m[i].base + m[i].length
              /\ EntryEnd(m[i]) <= TotalPages(m)
         /\ TotalPages(m) \in 0..MaxPages
         /\ \A i, j \in DOMAIN m : i < j => EntryEnd(m[i]) <= m[j].base
         /\ MaxPages \in Nat
<1>1. m \in Seq(MemMapEntry) /\ MaxPages \in Nat
  BY PmmAssumption
<1>2. \A i \in DOMAIN m : m[i] \in MemMapEntry
  BY <1>1
<1>3. \A i \in DOMAIN m : /\ m[i].base \in Nat /\ m[i].length \in Nat /\ m[i].usable \in BOOLEAN
                          /\ EntryEnd(m[i]) = m[i].base + m[i].length
  BY <1>1, <1>2 DEF MemMapEntry, EntryEnd
<1>4. \A i \in DOMAIN m : EntryEnd(m[i]) \in 0..MaxPages
  BY <1>1, <1>3, PmmAssumption, SMTT(30)
<1> DEFINE S == {0} \cup {EntryEnd(m[i]) : i \in DOMAIN m}
<1>5. S \in SUBSET (0..MaxPages) /\ S # {}
  BY <1>1, <1>4
<1> HIDE DEF S
<1>6. Max(S) \in S /\ \A x \in S : x <= Max(S)
  BY <1>1, <1>5, MaxExists
<1>7. TotalPages(m) = Max(S)
  BY DEF TotalPages, S
<1>8. \A i \in DOMAIN m : EntryEnd(m[i]) \in S
  BY DEF S
<1>9. TotalPages(m) \in 0..MaxPages /\ \A i \in DOMAIN m : EntryEnd(m[i]) <= TotalPages(m)
  BY <1>5, <1>6, <1>7, <1>8, Zenon
<1>10. \A i, j \in DOMAIN m : i < j => EntryEnd(m[i]) <= m[j].base
  BY <1>3, PmmAssumption
<1>11. Len(m) \in Nat /\ DOMAIN m = 1..Len(m)
  BY <1>1
<1> QED BY <1>1, <1>3, <1>9, <1>10, <1>11

(* n pages of size s hold fewer than b bytes. *)
LEMMA Ceiling ==
  ASSUME NEW n \in Nat, NEW b \in Nat, NEW s \in Nat \ {0}
  PROVE  n * s < b <=> n < (b + s - 1) \div s
<1> DEFINE q == (b + s - 1) \div s
           r == (b + s - 1) % s
<1>1. b + s - 1 = (s * q) + r /\ r \in 0..(s - 1) /\ q \in Nat
  <2>1. b + s - 1 \in Nat
    OBVIOUS
  <2> QED BY <2>1, DivMod, Zenon
<1> HIDE DEF q, r
<1>2. ASSUME n < q PROVE n * s < b
  <2>1. s * (n + 1) <= s * q
    BY <1>1, <1>2
  <2>2. s * (n + 1) = (n * s) + s /\ n * s \in Nat
    OBVIOUS
  <2> QED BY <2>1, <2>2, <1>1
<1>3. ASSUME ~(n < q) PROVE ~(n * s < b)
  <2>1. s * q <= s * n
    BY <1>1, <1>3
  <2>2. s * n = n * s /\ n * s \in Nat
    OBVIOUS
  <2> QED BY <2>1, <2>2, <1>1
<1> QED BY <1>2, <1>3 DEF q

(* The pages of the frame array, up to MetaEnd, in an entry with room. *)
LEMMA FrameArray ==
  ASSUME memmap \in MemMaps, NEW r \in Roomy(memmap), metaStart = memmap[r].base
  PROVE  /\ MetaEnd \in Nat
         /\ MetaEnd <= EntryEnd(memmap[r])
         /\ \A x \in 0..MaxPages : x \in MetaPages <=> metaStart <= x /\ x < MetaEnd
<1> DEFINE b == MetaBytes(memmap)
           q == (b + PAGE_SIZE - 1) \div PAGE_SIZE
<1>1. r \in DOMAIN memmap /\ memmap[r].length * PAGE_SIZE >= b
  BY DEF Roomy
<1>2. PAGE_SIZE \in Nat \ {0} /\ FrameBytes \in Nat
  BY PmmAssumption
<1>3. b \in Nat
  BY <1>2, Entries DEF MetaBytes
<1>4. memmap[r].base \in Nat /\ memmap[r].length \in Nat /\ EntryEnd(memmap[r]) = memmap[r].base + memmap[r].length
  BY <1>1, Entries
<1>5. MetaEnd = metaStart + q
  BY DEF MetaEnd
<1>6. b + PAGE_SIZE - 1 \in Nat
  BY <1>2, <1>3
<1>7. q \in Nat
  BY <1>2, <1>6, DivMod
<1>8. \A n \in Nat : n * PAGE_SIZE < b <=> n < q
  BY <1>2, <1>3, Ceiling
<1> HIDE DEF q, b
<1>9. ~(memmap[r].length < q)
  <2>1. memmap[r].length * PAGE_SIZE \in Nat
    BY <1>2, <1>4
  <2> QED BY <2>1, <1>1, <1>3, <1>4, <1>8
<1>10. \A x \in 0..MaxPages : x \in MetaPages <=> metaStart <= x /\ (x - metaStart) * PAGE_SIZE < b
  BY DEF MetaPages, b
<1>11. \A x \in 0..MaxPages : metaStart <= x => x - metaStart \in Nat
  BY <1>4
<1>12. \A x \in 0..MaxPages : x \in MetaPages <=> metaStart <= x /\ x - metaStart < q
  BY <1>8, <1>10, <1>11
<1>13. \A x \in 0..MaxPages : x - metaStart < q <=> x < MetaEnd
  BY <1>4, <1>5, <1>7
<1> QED BY <1>4, <1>5, <1>7, <1>9, <1>12, <1>13

(* Usable pages have frames. *)
LEMMA UsableBound ==
  ASSUME memmap \in MemMaps
  PROVE  UsablePages \subseteq 0..(kTotalPages - 1) /\ kTotalPages \in 0..MaxPages /\ MaxPages \in Nat
<1>1. kTotalPages = TotalPages(memmap)
  BY DEF kTotalPages
<1>2. \A x \in UsablePages : \E i \in DOMAIN memmap : x \in memmap[i].base..(EntryEnd(memmap[i]) - 1)
  BY DEF UsablePages
<1>3. \A i \in DOMAIN memmap : /\ memmap[i].base \in Nat /\ EntryEnd(memmap[i]) \in Nat
                               /\ EntryEnd(memmap[i]) <= kTotalPages
  BY <1>1, Entries
<1>4. kTotalPages \in 0..MaxPages /\ MaxPages \in Nat
  BY <1>1, Entries
<1> QED BY <1>2, <1>3, <1>4

(* What the invariant says of single blocks. *)
LEMMA BlockFacts ==
  ASSUME BuddyInv
  PROVE  /\ Orders \subseteq 0..10 /\ Orders \subseteq Nat
         /\ kTotalPages \in Nat
         /\ FreeBlocks = BlocksOf(kFreeLists) /\ HeldBlocks = HeldOf(held)
         /\ \A b \in FreeBlocks \cup HeldBlocks :
              /\ b[1] \in Nat /\ b[2] \in Orders /\ b = <<b[1], b[2]>>
              /\ b[1] % Size(b[2]) = 0
              /\ b[1] \in PagesOf(b)
              /\ PagesOf(b) \subseteq 0..(kTotalPages - 1)
         /\ FreePages \subseteq 0..(kTotalPages - 1) /\ HeldPages \subseteq 0..(kTotalPages - 1)
         /\ IsFiniteSet(FreePages)
<1>1. Orders \subseteq 0..10 /\ Orders \subseteq Nat
  BY PmmAssumption DEF Orders
<1>2. FreeBlocks = BlocksOf(kFreeLists) /\ HeldBlocks = HeldOf(held)
  BY DEF FreeBlocks, BlocksOf, HeldBlocks, HeldOf
<1>3. UsablePages \subseteq 0..(kTotalPages - 1) /\ kTotalPages \in Nat
  BY UsableBound DEF BuddyInv, TypeOK
<1>4. Carved \subseteq UsablePages
  BY DEF Carved
<1>5. FreePages \subseteq 0..(kTotalPages - 1) /\ HeldPages \subseteq 0..(kTotalPages - 1)
  BY <1>3, <1>4, Zenon DEF BuddyInv, BlocksInv
<1>6. \A b \in FreeBlocks \cup HeldBlocks : PagesOf(b) \subseteq 0..(kTotalPages - 1)
  BY <1>5 DEF FreePages, HeldPages, PagesOfAll
<1>7. \A b \in FreeBlocks : b[1] \in Nat /\ b[2] \in Orders /\ b = <<b[1], b[2]>>
  BY <1>2, <1>3, BlockSets DEF BuddyInv, TypeOK
<1>8. \A b \in HeldBlocks : b[1] \in Nat /\ b[2] \in Orders /\ b = <<b[1], b[2]>>
  BY <1>2, <1>3, BlockSets DEF BuddyInv, TypeOK
<1>9. \A b \in FreeBlocks \cup HeldBlocks : b[1] % Size(b[2]) = 0
  BY DEF BuddyInv, BlocksInv, Aligned
<1>10. \A x \in Nat, o \in Orders : x \in PagesOf(<<x, o>>)
  BY <1>1, Sizes DEF PagesOf
<1>11. \A b \in FreeBlocks \cup HeldBlocks : b[1] \in PagesOf(b)
  BY <1>7, <1>8, <1>10
<1>12. IsFiniteSet(FreePages)
  <2>1. IsFiniteSet(0..(kTotalPages - 1))
    BY <1>3, FS_Interval
  <2> QED BY <2>1, <1>5, FS_Subset, Zenon
<1> QED BY <1>1, <1>2, <1>3, <1>5, <1>6, <1>7, <1>8, <1>9, <1>11, <1>12

-----------------------------------------------------------------------------
(* pmm_init *)

(* When the loop moves on, the pages it has passed stay the same. *)
LEMMA NextRegionStep == ASSUME BuddyInv, NextRegion PROVE BuddyInv'
<1>1. memmap \in MemMaps /\ region \in Nat \ {0} /\ pfn \in Nat /\ region \in DOMAIN memmap
      /\ Len(memmap) \in Nat /\ DOMAIN memmap = 1..Len(memmap)
  BY Entries DEF BuddyInv, TypeOK, BootInv, NextRegion, Carving
<1>2. UNCHANGED <<memmap, metaStart, order, flags, kFreeLists, kFreePages, held, panicked>>
  BY DEF NextRegion, frames
<1>3. ~panicked /\ Carving /\ region' = region + 1
  BY DEF NextRegion, Carving
<1>4. /\ UNCHANGED <<FreeBlocks, HeldBlocks, FreePages, HeldPages, UsablePages, MetaPages, kTotalPages>>
      /\ FramesTruthful' = FramesTruthful
      /\ Roomy(memmap)' = Roomy(memmap)
  BY <1>2 DEF FreeBlocks, HeldBlocks, FreePages, HeldPages, UsablePages, MetaPages, MetaBytes, kTotalPages, FramesTruthful
<1>5. /\ memmap[region].base <= pfn /\ pfn <= RegionEnd
      /\ memmap[region].usable => pfn >= RegionEnd
  BY <1>3 DEF BuddyInv, BootInv, NextRegion
<1>6. \A i \in DOMAIN memmap : memmap[i].base \in Nat /\ EntryEnd(memmap[i]) \in Nat /\ memmap[i].base <= EntryEnd(memmap[i])
  BY <1>1, Entries, SMTT(30)
<1>7. \A i, j \in DOMAIN memmap : i < j => EntryEnd(memmap[i]) <= memmap[j].base
  BY <1>1, Entries
<1>8. \A x \in UsablePages : \E i \in DOMAIN memmap : memmap[i].usable /\ x \in memmap[i].base..(EntryEnd(memmap[i]) - 1)
  BY DEF UsablePages
<1>9. CASE region < Len(memmap)
  <2>1. region + 1 \in DOMAIN memmap /\ pfn' = memmap[region + 1].base /\ Carving'
    BY <1>1, <1>2, <1>3, <1>9 DEF NextRegion, Carving
  <2>2. RegionEnd <= pfn' /\ pfn' \in Nat /\ pfn <= pfn'
    BY <1>1, <1>5, <1>6, <1>7, <2>1 DEF RegionEnd
  <2>3. \A x \in UsablePages : x < pfn' => x < pfn
    <3> SUFFICES ASSUME NEW x \in UsablePages, x < pfn' PROVE x < pfn
      OBVIOUS
    <3>1. PICK i \in DOMAIN memmap : memmap[i].usable /\ x \in memmap[i].base..(EntryEnd(memmap[i]) - 1)
      BY <1>8
    <3>2. ~(i > region)
      <4> SUFFICES ASSUME i > region PROVE FALSE
        OBVIOUS
      <4>1. i = region + 1 \/ region + 1 < i
        BY <1>1
      <4>2. memmap[region + 1].base <= memmap[i].base
        BY <4>1, <2>1, <1>6, <1>7
      <4> QED BY <4>2, <3>1, <2>1, <1>6
    <3>3. CASE i = region
      BY <3>1, <3>3, <1>1, <1>5, <1>6 DEF RegionEnd
    <3>4. CASE i < region
      BY <3>1, <3>4, <1>1, <1>5, <1>6, <1>7
    <3> QED BY <3>2, <3>3, <3>4, <1>1
  <2>4. \A x \in UsablePages : x \in Nat
    BY UsableBound, <1>1
  <2>5. Carved' = Carved
    BY <2>1, <2>2, <2>3, <2>4, <1>1, <1>2, <1>3, <1>4 DEF Carved
  <2>6. BootInv'
    BY <2>1, <2>2, <1>1, <1>2, <1>3, <1>4, <1>6 DEF BuddyInv, BootInv, RegionEnd
  <2>7. BlocksInv'
    BY <2>5, <1>4 DEF BuddyInv, BlocksInv, Disjoint, Aligned
  <2>8. TypeOK'
    BY <2>2, <1>1, <1>2, <1>3, <1>4 DEF BuddyInv, TypeOK
  <2> QED BY <2>6, <2>7, <2>8, <1>2, <1>4 DEF BuddyInv
<1>10. CASE region = Len(memmap)
  <2>1. pfn' = 0 /\ ~Carving' /\ ~panicked'
    BY <1>1, <1>2, <1>3, <1>10 DEF NextRegion, Carving
  <2>2. \A x \in UsablePages : x < pfn
    <3> TAKE x \in UsablePages
    <3>1. PICK i \in DOMAIN memmap : memmap[i].usable /\ x \in memmap[i].base..(EntryEnd(memmap[i]) - 1)
      BY <1>8
    <3>2. CASE i = region
      BY <3>1, <3>2, <1>1, <1>5, <1>6 DEF RegionEnd
    <3>3. CASE i < region
      BY <3>1, <3>3, <1>1, <1>5, <1>6, <1>7
    <3> QED BY <3>1, <3>2, <3>3, <1>1, <1>10
  <2>3. Carved' = Carved
    BY <2>1, <2>2, <1>3, <1>4 DEF Carved
  <2>4. BootInv'
    BY <2>1, <1>1, <1>2, <1>3, <1>4 DEF BuddyInv, BootInv
  <2>5. BlocksInv'
    BY <2>3, <1>4 DEF BuddyInv, BlocksInv, Disjoint, Aligned
  <2>6. TypeOK'
    BY <2>1, <1>1, <1>2, <1>3, <1>4 DEF BuddyInv, TypeOK
  <2> QED BY <2>4, <2>5, <2>6, <1>2, <1>4 DEF BuddyInv
<1>11. region < Len(memmap) \/ region = Len(memmap)
  <2> DEFINE n == Len(memmap)
  <2>1. n \in Nat /\ region \in 1..n
    BY <1>1, Zenon
  <2> HIDE DEF n
  <2>2. region < n \/ region = n
    BY <2>1
  <2> QED BY <2>2 DEF n
<1> QED BY <1>9, <1>10, <1>11

(* The frame array is skipped within its entry. *)
LEMMA SkipMetadataStep == ASSUME BuddyInv, SkipMetadata PROVE BuddyInv'
<1>1. memmap \in MemMaps /\ region \in Nat \ {0} /\ pfn \in Nat /\ region \in DOMAIN memmap
  BY Entries DEF BuddyInv, TypeOK, BootInv, SkipMetadata, Carving
<1>2. UNCHANGED <<memmap, metaStart, region, order, flags, kFreeLists, kFreePages, held, panicked>>
  BY DEF SkipMetadata, frames
<1>3. ~panicked /\ Carving /\ Carving' /\ pfn' = MetaEnd /\ memmap[region].usable /\ pfn < RegionEnd
      /\ metaStart <= pfn /\ pfn < MetaEnd
  BY <1>2 DEF SkipMetadata, Carving, InMeta
<1>4. /\ UNCHANGED <<FreeBlocks, HeldBlocks, FreePages, HeldPages, UsablePages, MetaPages, kTotalPages, RegionEnd>>
      /\ FramesTruthful' = FramesTruthful
      /\ Roomy(memmap)' = Roomy(memmap)
  BY <1>2 DEF FreeBlocks, HeldBlocks, FreePages, HeldPages, UsablePages, MetaPages, MetaBytes, kTotalPages, FramesTruthful, RegionEnd
<1>5. PICK r \in Roomy(memmap) : metaStart = memmap[r].base
  BY <1>3 DEF BuddyInv, BootInv
<1>6. /\ MetaEnd \in Nat /\ MetaEnd <= EntryEnd(memmap[r])
      /\ \A x \in 0..MaxPages : x \in MetaPages <=> metaStart <= x /\ x < MetaEnd
  BY <1>1, <1>5, FrameArray
<1>7. \A i \in DOMAIN memmap : memmap[i].base \in Nat /\ EntryEnd(memmap[i]) \in Nat /\ memmap[i].base <= EntryEnd(memmap[i])
  BY <1>1, Entries
<1>8. \A i, j \in DOMAIN memmap : i < j => EntryEnd(memmap[i]) <= memmap[j].base
  BY <1>1, Entries
<1>9. memmap[region].base <= pfn
  BY <1>3 DEF BuddyInv, BootInv
<1>10. r \in DOMAIN memmap /\ r \in Nat
  BY <1>1, Entries DEF Roomy
<1>11. r = region
  BY <1>1, <1>3, <1>5, <1>6, <1>7, <1>8, <1>9, <1>10 DEF RegionEnd
<1>12. \A x \in UsablePages : x \in 0..MaxPages
  BY <1>1, UsableBound
<1>13. Carved' = Carved
  <2>1. \A x \in UsablePages \ MetaPages : x < MetaEnd <=> x < pfn
    BY <1>1, <1>3, <1>5, <1>6, <1>7, <1>10, <1>12
  <2> QED BY <2>1, <1>2, <1>3, <1>4 DEF Carved
<1>14. BootInv'
  <2>1. memmap[region].base <= MetaEnd /\ MetaEnd <= RegionEnd
    BY <1>1, <1>3, <1>6, <1>7, <1>9, <1>11 DEF RegionEnd
  <2> QED BY <2>1, <1>2, <1>3, <1>4, <1>5 DEF BuddyInv, BootInv
<1>15. BlocksInv'
  BY <1>13, <1>4 DEF BuddyInv, BlocksInv, Disjoint, Aligned
<1>16. TypeOK'
  BY <1>1, <1>2, <1>3, <1>4, <1>6 DEF BuddyInv, TypeOK
<1> QED BY <1>14, <1>15, <1>16, <1>2, <1>4 DEF BuddyInv

(* The new block lies behind all others and ends in its entry, before the  *)
(* frame array or behind it.                                               *)
LEMMA NewBlock ==
  ASSUME BuddyInv, FreeBlock
  PROVE  \E o \in Orders :
           /\ flags' = [flags EXCEPT ![pfn] = {"FREE"}]
           /\ order' = [order EXCEPT ![pfn] = o]
           /\ kFreeLists' = [kFreeLists EXCEPT ![o] = @ \cup {pfn}]
           /\ kFreePages' = kFreePages + Size(o)
           /\ pfn' = pfn + Size(o)
           /\ pfn % Size(o) = 0
           /\ pfn + Size(o) <= RegionEnd
           /\ PagesOf(<<pfn, o>>) \subseteq UsablePages \ MetaPages
<1> DEFINE K == {k \in Orders : \A j \in 1..k : Fits(j)}
           o == Max(K)
<1>1. memmap \in MemMaps /\ region \in Nat \ {0} /\ pfn \in Nat /\ region \in DOMAIN memmap
      /\ ~panicked /\ memmap[region].usable /\ memmap[region].base <= pfn /\ pfn < RegionEnd /\ ~InMeta
      /\ RegionEnd = EntryEnd(memmap[region])
  BY Entries DEF BuddyInv, TypeOK, BootInv, FreeBlock, Carving, RegionEnd
<1>2. MAX_ORDER \in Nat /\ Orders \subseteq 0..10 /\ Orders = 0..MAX_ORDER
  BY PmmAssumption DEF Orders
<1>3. K \in SUBSET (0..MAX_ORDER) /\ 0 \in K
  BY <1>2
<1>4. o \in K
  BY <1>2, <1>3, MaxExists, Zenon
<1>5. o \in Orders /\ o \in 0..10 /\ (o # 0 => Fits(o))
  BY <1>2, <1>4, SMTT(30)
<1>6. /\ flags' = [flags EXCEPT ![pfn] = {"FREE"}]
      /\ order' = [order EXCEPT ![pfn] = o]
      /\ kFreeLists' = [kFreeLists EXCEPT ![o] = @ \cup {pfn}]
      /\ kFreePages' = kFreePages + Size(o)
      /\ pfn' = pfn + Size(o)
  BY DEF FreeBlock
<1> HIDE DEF o, K
<1>7. Size(o) \in Nat \ {0} /\ RegionEnd \in Nat /\ memmap[region].base \in Nat /\ RegionEnd <= kTotalPages
      /\ kTotalPages \in 0..MaxPages /\ MaxPages \in Nat
  <2>1. Size(o) \in Nat \ {0}
    BY <1>5, Sizes
  <2>2. /\ EntryEnd(memmap[region]) \in Nat /\ memmap[region].base \in Nat
        /\ EntryEnd(memmap[region]) <= TotalPages(memmap)
        /\ TotalPages(memmap) \in 0..MaxPages /\ MaxPages \in Nat
    BY <1>1, Entries
  <2> QED BY <2>1, <2>2, <1>1 DEF kTotalPages
<1>8. pfn % Size(o) = 0 /\ pfn + Size(o) <= RegionEnd
  <2>1. CASE o = 0
    <3>1. Size(o) = 1
      BY <2>1, SizeTable
    <3>2. pfn % 1 = 0
      BY <1>1
    <3> QED BY <3>1, <3>2, <1>1, <1>7
  <2>2. CASE o # 0
    BY <2>2, <1>5 DEF Fits
  <2> QED BY <2>1, <2>2
<1>9. PICK r \in Roomy(memmap) : metaStart = memmap[r].base
  BY <1>1 DEF BuddyInv, BootInv
<1>10. metaStart \in Nat /\ MetaEnd \in Nat
       /\ \A x \in 0..MaxPages : x \in MetaPages <=> metaStart <= x /\ x < MetaEnd
  BY <1>1, <1>9, FrameArray, Entries DEF Roomy
<1>11. pfn < metaStart => pfn + Size(o) <= metaStart
  <2>1. CASE o = 0
    <3>1. Size(o) = 1
      BY <2>1, SizeTable
    <3> QED BY <3>1, <1>1, <1>10
  <2>2. CASE o # 0
    BY <2>2, <1>1, <1>5, <1>7, <1>10 DEF Fits
  <2> QED BY <2>1, <2>2
<1>12. \A x \in PagesOf(<<pfn, o>>) : x \in memmap[region].base..(EntryEnd(memmap[region]) - 1) /\ x \notin MetaPages
  <2> TAKE x \in PagesOf(<<pfn, o>>)
  <2>1. x \in pfn..(pfn + Size(o) - 1)
    BY DEF PagesOf
  <2>2. x \in memmap[region].base..(EntryEnd(memmap[region]) - 1) /\ x \in 0..MaxPages
    BY <2>1, <1>1, <1>7, <1>8
  <2>3. ~(metaStart <= x /\ x < MetaEnd)
    BY <2>1, <1>1, <1>7, <1>10, <1>11 DEF InMeta
  <2> QED BY <2>2, <2>3, <1>10
<1>13. PagesOf(<<pfn, o>>) \subseteq UsablePages \ MetaPages
  BY <1>1, <1>12 DEF UsablePages
<1> QED BY <1>5, <1>6, <1>8, <1>13, Zenon

(* What a step of pmm_init, a call that allocates and one that frees mean  *)
(* to PageAllocator.                                                       *)
Given(x, o) ==
  /\ PagesOf(<<x, o>>) \subseteq 0..(kTotalPages - 1)
  /\ PagesOf(<<x, o>>) \cap (FreePages \cup HeldPages) = {}
  /\ FreePages' = FreePages \cup PagesOf(<<x, o>>)
  /\ held' = held

(* The carving loop adds a block to the lists. *)
LEMMA FreeBlockStep ==
  ASSUME BuddyInv, FreeBlock
  PROVE  BuddyInv' /\ \E x \in 0..(kTotalPages - 1), o \in Orders : Given(x, o)
<1>1. PICK o \in Orders :
           /\ flags' = [flags EXCEPT ![pfn] = {"FREE"}]
           /\ order' = [order EXCEPT ![pfn] = o]
           /\ kFreeLists' = [kFreeLists EXCEPT ![o] = @ \cup {pfn}]
           /\ kFreePages' = kFreePages + Size(o)
           /\ pfn' = pfn + Size(o)
           /\ pfn % Size(o) = 0
           /\ pfn + Size(o) <= RegionEnd
           /\ PagesOf(<<pfn, o>>) \subseteq UsablePages \ MetaPages
  BY NewBlock, Zenon
<1> DEFINE b == <<pfn, o>>
<1>2. UNCHANGED <<memmap, metaStart, region, held, panicked>> /\ Carving /\ ~panicked
      /\ memmap[region].usable
  BY DEF FreeBlock, Carving
<1>3. Carving' /\ kTotalPages' = kTotalPages /\ UsablePages' = UsablePages /\ MetaPages' = MetaPages
      /\ RegionEnd' = RegionEnd /\ Roomy(memmap)' = Roomy(memmap) /\ HeldBlocks' = HeldBlocks
  BY <1>2 DEF Carving, kTotalPages, UsablePages, MetaPages, RegionEnd, HeldBlocks
<1>4. TypeOK /\ BootInv /\ BlocksInv /\ FramesTruthful /\ kFreePages = Cardinality(FreePages)
  BY DEF BuddyInv
<1>5. o \in 0..10 /\ Size(o) \in Nat \ {0} /\ pfn \in Nat /\ memmap \in MemMaps
  <2>1. o \in 0..10
    BY PmmAssumption DEF Orders
  <2> QED BY <2>1, <1>4, Sizes, Zenon DEF TypeOK
<1>6. UsablePages \subseteq 0..(kTotalPages - 1) /\ kTotalPages \in Nat
  BY <1>5, UsableBound
<1>7. pfn \in PagesOf(b) /\ \A x \in Int : x \in PagesOf(b) <=> pfn <= x /\ x < pfn + Size(o)
  BY <1>5 DEF PagesOf
<1>8. pfn \in 0..(kTotalPages - 1)
  BY <1>1, <1>6, <1>7, Zenon
<1>9. FreePages \cup HeldPages = {x \in UsablePages \ MetaPages : x < pfn}
  BY <1>2, <1>4 DEF BlocksInv, Carved
<1>10. HeldBlocks = {} /\ HeldPages = {} /\ DOMAIN held = {}
  BY <1>2, <1>4 DEF BootInv, HeldBlocks, HeldPages, PagesOfAll
<1> HIDE DEF b
<1>11. PagesOf(b) \cap (FreePages \cup HeldPages) = {}
  <2> DEFINE S == FreePages \cup HeldPages
  <2>1. \A x \in S : x \in Int /\ x < pfn
    <3>1. \A x \in S : x \in UsablePages /\ x < pfn
      BY <1>9
    <3>2. \A x \in UsablePages : x \in Int
      BY <1>6
    <3> QED BY <3>1, <3>2, Zenon
  <2> QED BY <2>1, <1>5, <1>7
<1>12. kFreeLists \in [Orders -> SUBSET (0..(kTotalPages - 1))]
  BY <1>4 DEF TypeOK
<1>13. FreeBlocks' = FreeBlocks \cup {b}
  <2>1. FreeBlocks' = BlocksOf(kFreeLists') /\ FreeBlocks = BlocksOf(kFreeLists)
    BY DEF FreeBlocks, BlocksOf
  <2>2. \A x, k : <<x, k>> \in FreeBlocks' <=> k \in Orders /\ x \in kFreeLists'[k]
    BY <2>1, BlockSets, Zenon
  <2>3. \A x, k : <<x, k>> \in FreeBlocks <=> k \in Orders /\ x \in kFreeLists[k]
    BY <2>1, BlockSets, Zenon
  <2>4. \A k \in Orders : kFreeLists'[k] = IF k = o THEN kFreeLists[k] \cup {pfn} ELSE kFreeLists[k]
    BY <1>1, <1>12, Zenon
  <2>5. \A x, k : <<x, k>> \in FreeBlocks' <=> <<x, k>> \in FreeBlocks \/ (x = pfn /\ k = o)
    BY <2>2, <2>3, <2>4, Zenon
  <2>6. \A c \in FreeBlocks' \cup FreeBlocks \cup {b} : c = <<c[1], c[2]>>
    BY <2>1, BlockSets DEF b
  <2> QED BY <2>5, <2>6 DEF b
<1>14. Disjoint(FreeBlocks') /\ FreePages' = FreePages \cup PagesOf(b)
  <2>1. PagesOf(b) \cap PagesOfAll(FreeBlocks) = {} /\ Disjoint(FreeBlocks)
    BY <1>11, <1>4 DEF FreePages, BlocksInv
  <2> QED BY <2>1, <1>13, Adding DEF FreePages
<1>15. Aligned(FreeBlocks')
  BY <1>1, <1>4, <1>13 DEF Aligned, BlocksInv, b
<1>16. HeldPages' = HeldPages
  BY <1>3 DEF HeldPages
<1>17. Carved' = {x \in UsablePages \ MetaPages : x < pfn + Size(o)}
  BY <1>1, <1>2, <1>3 DEF Carved
<1>18. FreePages' \cup HeldPages' = Carved'
  <2>1. \A x \in UsablePages \ MetaPages : x < pfn + Size(o) <=> x < pfn \/ x \in PagesOf(b)
    BY <1>5, <1>6, <1>7
  <2> QED BY <2>1, <1>1, <1>9, <1>14, <1>16, <1>17 DEF b
<1>19. BlocksInv'
  BY <1>3, <1>4, <1>10, <1>14, <1>15, <1>16, <1>18 DEF BlocksInv
<1>20. kFreePages' = Cardinality(FreePages')
  <2>1. IsFiniteSet(FreePages)
    BY BlockFacts
  <2>2. PagesOf(<<pfn, o>>) \cap FreePages = {}
    BY <1>11 DEF b
  <2>3. Cardinality(FreePages \cup PagesOf(<<pfn, o>>)) = Cardinality(FreePages) + Size(o)
    BY <2>1, <2>2, <1>5, Counting, ZenonT(30)
  <2> QED BY <2>3, <1>1, <1>4, <1>14 DEF b
<1>21. BootInv'
  <2>1. region' = region /\ memmap' = memmap /\ metaStart' = metaStart /\ panicked' = panicked /\ held' = held
    BY <1>2
  <2>2. memmap[region].base <= pfn' /\ pfn' <= RegionEnd
    <3>1. region \in DOMAIN memmap
      BY <1>2, <1>4, <1>5, Entries DEF Carving, BootInv
    <3>2. memmap[region].base \in Nat /\ memmap[region].base <= pfn
      BY <3>1, <1>2, <1>4, <1>5, Entries DEF BootInv
    <3> QED BY <3>2, <1>1, <1>5
  <2> QED BY <2>1, <2>2, <1>2, <1>3, <1>4 DEF BootInv
<1>22. TypeOK'
  <2>1. memmap' = memmap /\ metaStart' = metaStart /\ region' = region /\ panicked' = panicked /\ held' = held
        /\ pfn' \in Nat /\ kFreePages' \in Nat
    BY <1>1, <1>2, <1>4, <1>5 DEF TypeOK
  <2>2. order' \in [0..(kTotalPages - 1) -> Orders] /\ flags' \in [0..(kTotalPages - 1) -> SUBSET Flags]
    BY <1>1, <1>4, Zenon DEF TypeOK, Flags
  <2>3. kFreeLists' \in [Orders -> SUBSET (0..(kTotalPages - 1))]
    BY <1>1, <1>8, <1>12
  <2> QED BY <2>1, <2>2, <2>3, <1>3, <1>4 DEF TypeOK
<1>23. FramesTruthful'
  <2>1. flags \in [0..(kTotalPages - 1) -> SUBSET Flags] /\ order \in [0..(kTotalPages - 1) -> Orders]
    BY <1>4 DEF TypeOK
  <2>2. \A k \in Orders : pfn \notin kFreeLists[k]
    <3> SUFFICES ASSUME NEW k \in Orders, pfn \in kFreeLists[k] PROVE FALSE
      OBVIOUS
    <3>1. <<pfn, k>> \in FreeBlocks
      BY BlockSets, BlockFacts
    <3>2. pfn \in PagesOf(<<pfn, k>>)
      <4>1. k \in 0..10
        BY PmmAssumption DEF Orders
      <4>2. Size(k) \in Nat \ {0}
        BY <4>1, Sizes
      <4> QED BY <4>2, <1>5 DEF PagesOf
    <3>3. pfn \in FreePages
      BY <3>1, <3>2 DEF FreePages, PagesOfAll
    <3> QED BY <3>3, <1>7, <1>11
  <2> SUFFICES ASSUME NEW x \in 0..(kTotalPages - 1)
               PROVE  /\ "FREE" \in flags'[x] <=> <<x, order'[x]>> \in FreeBlocks'
                      /\ "USED" \in flags'[x] <=> <<x, order'[x]>> \in HeldBlocks'
                      /\ \A k \in Orders : x \in kFreeLists'[k] => k = order'[x]
                      /\ x \in DOMAIN held' => held'[x] = order'[x]
    BY <2>1, <1>1 DEF FramesTruthful
  <2>3. CASE x = pfn
    <3>1. flags'[x] = {"FREE"} /\ order'[x] = o
      BY <2>1, <2>3, <1>1
    <3>2. \A k \in Orders : x \in kFreeLists'[k] => k = o
      BY <2>2, <2>3, <1>1, <1>12
    <3> QED BY <3>1, <3>2, <2>3, <1>2, <1>3, <1>10, <1>13 DEF b
  <2>4. CASE x # pfn
    <3>1. flags'[x] = flags[x] /\ order'[x] = order[x]
      BY <2>1, <2>4, <1>1
    <3>2. \A k \in Orders : x \in kFreeLists'[k] => x \in kFreeLists[k]
      BY <2>4, <1>1, <1>12
    <3>3. \A k : <<x, k>> \in FreeBlocks' <=> <<x, k>> \in FreeBlocks
      BY <2>4, <1>13 DEF b
    <3> QED BY <3>1, <3>2, <3>3, <2>1, <1>2, <1>3, <1>4 DEF FramesTruthful
  <2> QED BY <2>3, <2>4
<1>24. Given(pfn, o)
  BY <1>1, <1>2, <1>6, <1>11, <1>14, Zenon DEF Given, b
<1> QED BY <1>8, <1>19, <1>20, <1>21, <1>22, <1>23, <1>24 DEF BuddyInv

(* After steps 1 to 3 of pmm_init the lists are empty. *)
LEMMA BuddyInit == ASSUME Init PROVE BuddyInv /\ FreePages = {} /\ DOMAIN held = {}
<1>1. memmap \in MemMaps /\ region = 1 /\ kFreePages = 0 /\ held = <<>>
      /\ flags = [x \in 0..(kTotalPages - 1) |-> {"RESERVED"}] /\ kFreeLists = [k \in Orders |-> {}]
      /\ order = [x \in 0..(kTotalPages - 1) |-> 0]
  BY DEF Init
<1>2. DOMAIN held = {}
  BY <1>1
<1>3. HeldBlocks = {} /\ FreeBlocks = {}
  BY <1>1, <1>2 DEF HeldBlocks, FreeBlocks
<1>4. FreePages = {} /\ HeldPages = {}
  BY <1>3 DEF FreePages, HeldPages, PagesOfAll
<1>5. 0 \in Orders
  BY PmmAssumption DEF Orders
<1>6. /\ Len(memmap) \in Nat /\ DOMAIN memmap = 1..Len(memmap)
      /\ \A i \in DOMAIN memmap :
           /\ memmap[i].base \in Nat /\ memmap[i].length \in Nat
           /\ EntryEnd(memmap[i]) = memmap[i].base + memmap[i].length
           /\ EntryEnd(memmap[i]) <= MaxPages
      /\ \A i, j \in DOMAIN memmap : i < j => EntryEnd(memmap[i]) <= memmap[j].base
      /\ MaxPages \in Nat
  BY <1>1, Entries
<1>7. CASE Roomy(memmap) = {}
  <2>1. panicked = TRUE /\ metaStart = 0 /\ pfn = 0
    BY <1>7 DEF Init
  <2>2. TypeOK
    BY <2>1, <1>1, <1>2, <1>5, <1>6 DEF TypeOK, Flags
  <2>3. BootInv
    BY <2>1, <1>1, <1>2 DEF BootInv, Carving
  <2>4. Carved = {}
    BY <2>1 DEF Carved
  <2>5. BlocksInv
    BY <2>4, <1>3, <1>4 DEF BlocksInv, Disjoint, Aligned
  <2>6. FramesTruthful
    BY <1>1, <1>2, <1>3 DEF FramesTruthful
  <2> QED BY <2>2, <2>3, <2>5, <2>6, <1>1, <1>2, <1>4, FS_EmptySet DEF BuddyInv
<1>8. CASE Roomy(memmap) # {}
  <2>1. panicked = FALSE /\ metaStart = memmap[Min(Roomy(memmap))].base /\ pfn = memmap[1].base
    BY <1>8 DEF Init
  <2>2. Min(Roomy(memmap)) \in Roomy(memmap)
    <3>1. Roomy(memmap) \in SUBSET Nat
      BY <1>6 DEF Roomy
    <3> QED BY <3>1, <1>8, MinExists
  <2>3. Min(Roomy(memmap)) \in DOMAIN memmap /\ 1 \in DOMAIN memmap
    <3>1. Min(Roomy(memmap)) \in DOMAIN memmap
      BY <2>2 DEF Roomy
    <3> QED BY <3>1, <1>6
  <2>4. metaStart \in 0..MaxPages /\ pfn \in Nat
    BY <2>1, <2>3, <1>6
  <2>5. TypeOK
    BY <2>1, <2>4, <1>1, <1>2, <1>5, Zenon DEF TypeOK, Flags
  <2>6. Carving
    BY <2>1, <2>3, <1>1, <1>6 DEF Carving
  <2>7. BootInv
    BY <2>1, <2>2, <2>3, <1>1, <1>2, <1>6 DEF BootInv, RegionEnd
  <2>8. Carved = {}
    <3>1. \A x \in UsablePages : x >= pfn /\ x \in Int
      <4> TAKE x \in UsablePages
      <4>1. PICK i \in DOMAIN memmap : x \in memmap[i].base..(EntryEnd(memmap[i]) - 1)
        BY DEF UsablePages
      <4>2. CASE i = 1
        BY <4>1, <4>2, <2>1, <1>6
      <4>3. CASE i > 1
        BY <4>1, <4>3, <2>1, <2>3, <1>6
      <4> QED BY <4>1, <4>2, <4>3, <1>6
    <3>2. \A x \in UsablePages : ~(x < pfn)
      BY <3>1, <2>4
    <3> QED BY <3>2, <2>1, <2>6 DEF Carved
  <2>9. BlocksInv
    BY <2>8, <1>3, <1>4 DEF BlocksInv, Disjoint, Aligned
  <2>10. FramesTruthful
    BY <1>1, <1>2, <1>3 DEF FramesTruthful
  <2> QED BY <2>5, <2>7, <2>9, <2>10, <1>1, <1>2, <1>4, FS_EmptySet DEF BuddyInv
<1> QED BY <1>7, <1>8

(***************************************************************************)
(* pmm_alloc_pages and pmm_free_pages.                                     *)
(***************************************************************************)
HalfStarts(p, o, t) == {MergedHalf(p, k) : k \in o..(t - 1)}
HalfOrder(p, o, t, x) == CHOOSE k \in o..(t - 1) : x = MergedHalf(p, k)

(* A call that allocates takes block p of order o and leaves the halves    *)
(* between o and t.                                                        *)
Split(p, t, o) ==
  /\ t \in Orders /\ o \in t..MAX_ORDER /\ p \in kFreeLists[o]
  /\ kFreeLists' = [k \in Orders |->
                      IF k \in t..(o - 1) THEN kFreeLists[k] \cup {MergedHalf(p, k)}
                      ELSE IF k = o THEN kFreeLists[k] \ {p} ELSE kFreeLists[k]]
  /\ flags' = [x \in DOMAIN flags |->
                 IF x = p THEN (flags[x] \ {"FREE"}) \cup {"USED"}
                 ELSE IF x \in HalfStarts(p, t, o) THEN flags[x] \cup {"FREE"} ELSE flags[x]]
  /\ order' = [x \in DOMAIN order |->
                 IF x = p THEN t
                 ELSE IF x \in HalfStarts(p, t, o) THEN HalfOrder(p, t, o, x) ELSE order[x]]
  /\ kFreePages' = kFreePages - Size(t)
  /\ held' = [x \in DOMAIN held \cup {p} |-> IF x = p THEN t ELSE held[x]]
  /\ p % Size(o) = 0 /\ p % Size(t) = 0 /\ Enclosing(p, o) = p

(* That is what pmm_alloc_pages does. *)
LEMMA AllocSplits ==
  ASSUME BuddyInv, NEW count \in AllocCounts, pmm_alloc_pages(count)
  PROVE  \E p \in 0..(kTotalPages - 1), t \in Orders, o \in Orders : Split(p, t, o)
<1> DEFINE t == TargetOrder(count)
           T == {o \in Orders : Size(o) >= count}
<1>1. MAX_ORDER \in 0..10 /\ Orders = 0..MAX_ORDER /\ count \in Nat /\ count <= Size(MAX_ORDER)
  BY PmmAssumption DEF Orders, pmm_alloc_pages
<1>2. T \in SUBSET Nat /\ T # {}
  <2>1. MAX_ORDER \in T
    <3>1. Size(MAX_ORDER) \in Nat
      BY <1>1, Sizes, Zenon
    <3> QED BY <3>1, <1>1
  <2> QED BY <2>1, <1>1
<1>3. Min(T) \in T
  BY <1>2, MinExists
<1>4. t \in Orders
  BY <1>3 DEF TargetOrder
<1>20. PICK o \in t..MAX_ORDER : \E p \in kFreeLists[o] : TakeBlock(p, t, o)
  BY DEF pmm_alloc_pages
<1>5. PICK p \in kFreeLists[o] : TakeBlock(p, t, o)
  BY <1>20
<1> HIDE DEF t, T
<1>6. o \in Orders /\ o \in 0..10 /\ t \in 0..10 /\ t <= o /\ SplitOrders(t, o) = t..(o - 1)
  BY <1>1, <1>4, <1>20 DEF SplitOrders
<1>7. p \in 0..(kTotalPages - 1) /\ p \in Nat
  BY <1>5, <1>6 DEF BuddyInv, TypeOK
<1>8. p % Size(o) = 0
  <2>1. <<p, o>> \in FreeBlocks
    BY <1>5, <1>6, BlockSets, BlockFacts
  <2> QED BY <2>1, BlockFacts
<1>9. \A k \in t..o : Enclosing(p, k) = p
  <2>1. \A k \in t..o : k \in 0..10 /\ k <= o
    BY <1>6
  <2> QED BY <2>1, <1>6, <1>7, <1>8, AlignedBelow, Zenon
<1>10. \A k \in t..(o - 1) : buddy_of(p, k) = MergedHalf(p, k)
  <2>1. \A k \in t..(o - 1) : k \in t..o
    BY <1>6
  <2> QED BY <2>1, <1>9 DEF MergedHalf
<1>11. t \in t..o /\ o \in t..o
  BY <1>6
<1>12. p % Size(t) = 0
  <2>1. p - (p % Size(t)) = p
    BY <1>9, <1>11 DEF Enclosing
  <2>2. Size(t) \in Nat \ {0}
    BY <1>6, Sizes, Zenon
  <2>3. p % Size(t) \in Int
    BY <2>2, <1>7, DivMod
  <2> QED BY <2>1, <2>3, <1>7
<1>13. {buddy_of(p, k) : k \in SplitOrders(t, o)} = HalfStarts(p, t, o)
  BY <1>6, <1>10 DEF HalfStarts
<1>14. \A x : (CHOOSE k \in SplitOrders(t, o) : x = buddy_of(p, k)) = HalfOrder(p, t, o, x)
  BY <1>6, <1>10 DEF HalfOrder
<1>15. kFreeLists' = [k \in Orders |->
                       IF k \in t..(o - 1) THEN kFreeLists[k] \cup {MergedHalf(p, k)}
                       ELSE IF k = o THEN kFreeLists[k] \ {p} ELSE kFreeLists[k]]
  BY <1>5, <1>6, <1>10, Zenon DEF TakeBlock
<1>16. /\ flags' = [x \in DOMAIN flags |->
                      IF x = p THEN (flags[x] \ {"FREE"}) \cup {"USED"}
                      ELSE IF x \in HalfStarts(p, t, o) THEN flags[x] \cup {"FREE"} ELSE flags[x]]
  BY <1>5, <1>13 DEF TakeBlock
<1>17. order' = [x \in DOMAIN order |->
                  IF x = p THEN t
                  ELSE IF x \in HalfStarts(p, t, o) THEN HalfOrder(p, t, o, x) ELSE order[x]]
  BY <1>5, <1>13, <1>14, Zenon DEF TakeBlock
<1>18. Split(p, t, o)
  BY <1>4, <1>5, <1>20, <1>8, <1>9, <1>11, <1>12, <1>15, <1>16, <1>17, Zenon DEF Split, TakeBlock
<1> QED BY <1>4, <1>6, <1>7, <1>18

LEMMA SmallOrders == Orders \subseteq 0..10 /\ MAX_ORDER \in Nat
  BY PmmAssumption DEF Orders

(* Allocation takes the pages of <<p, t>> from the free ones. *)
LEMMA SplitBlocks ==
  ASSUME BuddyInv, NEW p \in 0..(kTotalPages - 1), NEW t \in Orders, NEW o \in Orders, Split(p, t, o)
  PROVE  /\ FreeBlocks' = (FreeBlocks \ {<<p, o>>}) \cup HalvesOf(p, t, o)
         /\ HeldBlocks' = HeldBlocks \cup {<<p, t>>}
         /\ Disjoint(FreeBlocks') /\ Aligned(FreeBlocks')
         /\ Disjoint(HeldBlocks') /\ Aligned(HeldBlocks')
         /\ FreePages' = FreePages \ PagesOf(<<p, t>>)
         /\ HeldPages' = HeldPages \cup PagesOf(<<p, t>>)
         /\ PagesOf(<<p, t>>) \subseteq FreePages
         /\ PagesOf(<<p, o>>) \subseteq FreePages
         /\ p \notin DOMAIN held
<1> DEFINE H == HalvesOf(p, t, o)
<1>1. t \in 0..10 /\ o \in 0..10 /\ t <= o /\ p \in Nat /\ p % Size(t) = 0 /\ p % Size(o) = 0
      /\ Enclosing(p, o) = p /\ p \in kFreeLists[o]
  <2>1. Orders \subseteq 0..10 /\ MAX_ORDER \in Nat
    BY SmallOrders, Zenon
  <2>2. kTotalPages \in Nat
    BY BlockFacts
  <2> QED BY <2>1, <2>2 DEF Split
<1>2. BlocksInv /\ kFreeLists \in [Orders -> SUBSET (0..(kTotalPages - 1))]
  BY DEF BuddyInv, TypeOK
<1>3. /\ \A b \in H : b[1] \in Nat /\ b[2] \in t..(o - 1) /\ b = <<b[1], b[2]>>
      /\ Disjoint(H) /\ Aligned(H)
      /\ PagesOf(<<p, t>>) \cap PagesOfAll(H) = {}
      /\ PagesOf(<<Enclosing(p, o), o>>) = PagesOf(<<p, t>>) \cup PagesOfAll(H)
  BY <1>1, Parts, Zenon
<1>4. PagesOf(<<p, o>>) = PagesOf(<<p, t>>) \cup PagesOfAll(H)
  BY <1>1, <1>3
<1>5. \A x, k : <<x, k>> \in H <=> k \in t..(o - 1) /\ x = MergedHalf(p, k)
  BY DEF HalvesOf
<1> HIDE DEF H
<1>6. FreeBlocks = BlocksOf(kFreeLists) /\ FreeBlocks' = BlocksOf(kFreeLists')
      /\ HeldBlocks = HeldOf(held) /\ HeldBlocks' = HeldOf(held')
  BY DEF FreeBlocks, HeldBlocks, BlocksOf, HeldOf
<1>7. <<p, o>> \in FreeBlocks
  BY <1>1, <1>6, BlockSets
<1>8. FreeBlocks' = (FreeBlocks \ {<<p, o>>}) \cup H
  <2>1. \A x, k : <<x, k>> \in FreeBlocks' <=> k \in Orders /\ x \in kFreeLists'[k]
    BY <1>6, BlockSets, Zenon
  <2>2. \A x, k : <<x, k>> \in FreeBlocks <=> k \in Orders /\ x \in kFreeLists[k]
    BY <1>6, BlockSets, Zenon
  <2>3. \A k \in Orders : kFreeLists'[k] = IF k \in t..(o - 1) THEN kFreeLists[k] \cup {MergedHalf(p, k)}
                                           ELSE IF k = o THEN kFreeLists[k] \ {p} ELSE kFreeLists[k]
    BY DEF Split
  <2>4. \A k \in t..(o - 1) : k \in Orders /\ k # o
    BY PmmAssumption DEF Orders
  <2>5. \A x, k : <<x, k>> \in FreeBlocks' <=>
                   (<<x, k>> \in FreeBlocks /\ ~(x = p /\ k = o)) \/ (k \in t..(o - 1) /\ x = MergedHalf(p, k))
    BY <2>1, <2>2, <2>3, <2>4, Zenon
  <2>6. \A c \in FreeBlocks' \cup FreeBlocks \cup H : c = <<c[1], c[2]>>
    BY <1>3, <1>6, BlockSets
  <2>7. \A x, k : <<x, k>> \in FreeBlocks' <=> <<x, k>> \in (FreeBlocks \ {<<p, o>>}) \cup H
    BY <2>5, <1>5, Zenon
  <2> QED BY <2>6, <2>7
<1>9. PagesOf(<<p, o>>) \subseteq FreePages /\ PagesOf(<<p, t>>) \subseteq FreePages
  <2>1. PagesOf(<<p, o>>) \subseteq FreePages
    BY <1>7 DEF FreePages, PagesOfAll
  <2> QED BY <2>1, <1>4
<1>10. Disjoint(FreeBlocks') /\ FreePages' = FreePages \ PagesOf(<<p, t>>)
  <2> DEFINE B == FreeBlocks
             R == {<<p, o>>}
  <2>1. R \in SUBSET B /\ Disjoint(B)
    BY <1>2, <1>7 DEF BlocksInv
  <2>2. PagesOfAll(R) = PagesOf(<<p, o>>)
    BY DEF PagesOfAll
  <2>3. PagesOfAll(H) \subseteq PagesOfAll(R) /\ Disjoint(H)
    BY <2>2, <1>3, <1>4
  <2> HIDE DEF B, R
  <2>4. /\ Disjoint((B \ R) \cup H)
        /\ PagesOfAll((B \ R) \cup H) = (PagesOfAll(B) \ PagesOfAll(R)) \cup PagesOfAll(H)
    <3> HIDE DEF H
    <3> QED
      BY <2>1, <2>3, Exchange
  <2>5. FreeBlocks' = (B \ R) \cup H /\ FreePages = PagesOfAll(B) /\ FreePages' = PagesOfAll(FreeBlocks')
    BY <1>8 DEF B, R, FreePages
  <2>6. FreePages' = (FreePages \ PagesOf(<<p, o>>)) \cup PagesOfAll(H)
    BY <2>2, <2>4, <2>5, Zenon
  <2> QED BY <2>4, <2>5, <2>6, <1>3, <1>4, <1>9, Zenon
<1>11. Aligned(FreeBlocks')
  BY <1>2, <1>3, <1>8 DEF BlocksInv, Aligned
<1>12. p \in PagesOf(<<p, t>>)
  BY <1>1, Sizes DEF PagesOf
<1>13. p \notin DOMAIN held
  <2> SUFFICES ASSUME p \in DOMAIN held PROVE FALSE
    OBVIOUS
  <2>1. <<p, held[p]>> \in HeldBlocks
    BY DEF HeldBlocks
  <2>2. p \in PagesOf(<<p, held[p]>>)
    BY <2>1, BlockFacts
  <2>3. p \in HeldPages
    BY <2>1, <2>2 DEF HeldPages, PagesOfAll
  <2> QED BY <2>3, <1>2, <1>9, <1>12 DEF BlocksInv
<1>14. HeldBlocks' = HeldBlocks \cup {<<p, t>>}
  <2>1. held' = [x \in DOMAIN held \cup {p} |-> IF x = p THEN t ELSE held[x]]
    BY DEF Split
  <2>2. \A x, k : <<x, k>> \in HeldBlocks' <=> x \in DOMAIN held' /\ k = held'[x]
    BY <1>6, BlockSets, Zenon
  <2>3. \A x, k : <<x, k>> \in HeldBlocks <=> x \in DOMAIN held /\ k = held[x]
    BY <1>6, BlockSets, Zenon
  <2>4. \A x, k : <<x, k>> \in HeldBlocks' <=> <<x, k>> \in HeldBlocks \/ (x = p /\ k = t)
    <3>1. DOMAIN held' = DOMAIN held \cup {p} /\ held'[p] = t /\ \A x \in DOMAIN held : x # p /\ held'[x] = held[x]
      BY <2>1, <1>13
    <3> QED BY <2>2, <2>3, <3>1, Zenon
  <2>5. \A c \in HeldBlocks' \cup HeldBlocks \cup {<<p, t>>} : c = <<c[1], c[2]>>
    BY <1>6, BlockSets
  <2> QED BY <2>4, <2>5
<1>15. Disjoint(HeldBlocks') /\ HeldPages' = HeldPages \cup PagesOf(<<p, t>>)
  <2>1. PagesOf(<<p, t>>) \cap PagesOfAll(HeldBlocks) = {} /\ Disjoint(HeldBlocks)
    BY <1>2, <1>9 DEF BlocksInv, HeldPages
  <2> QED BY <2>1, <1>14, Adding DEF HeldPages
<1>16. Aligned(HeldBlocks')
  BY <1>1, <1>2, <1>14 DEF BlocksInv, Aligned
<1> QED BY <1>8, <1>9, <1>10, <1>11, <1>13, <1>14, <1>15, <1>16, Zenon DEF H

Taken(p, t) ==
  /\ PagesOf(<<p, t>>) \subseteq FreePages
  /\ FreePages' = FreePages \ PagesOf(<<p, t>>)
  /\ p \notin DOMAIN held
  /\ held' = [x \in DOMAIN held \cup {p} |-> IF x = p THEN t ELSE held[x]]

(* The frames of the halves say what the lists say. *)
LEMMA SplitFrames ==
  ASSUME BuddyInv, NEW p \in 0..(kTotalPages - 1), NEW t \in Orders, NEW o \in Orders, Split(p, t, o),
         NEW x \in 0..(kTotalPages - 1)
  PROVE  /\ "FREE" \in flags'[x] <=> <<x, order'[x]>> \in FreeBlocks'
         /\ "USED" \in flags'[x] <=> <<x, order'[x]>> \in HeldBlocks'
         /\ \A k \in Orders : x \in kFreeLists'[k] => k = order'[x]
         /\ x \in DOMAIN held' => held'[x] = order'[x]
         /\ order'[x] \in Orders /\ flags'[x] \in SUBSET Flags
<1>1. /\ FreeBlocks' = (FreeBlocks \ {<<p, o>>}) \cup HalvesOf(p, t, o)
      /\ HeldBlocks' = HeldBlocks \cup {<<p, t>>}
      /\ Disjoint(FreeBlocks')
      /\ FreePages' = FreePages \ PagesOf(<<p, t>>)
      /\ PagesOf(<<p, t>>) \subseteq FreePages /\ PagesOf(<<p, o>>) \subseteq FreePages
      /\ p \notin DOMAIN held
  BY SplitBlocks
<1>2. Orders \subseteq 0..10 /\ kTotalPages \in Nat /\ \A k \in t..(o - 1) : k \in Orders
  <2>1. MAX_ORDER \in 0..10
    BY PmmAssumption
  <2> QED BY <2>1, BlockFacts DEF Orders
<1>3. /\ flags \in [0..(kTotalPages - 1) -> SUBSET Flags] /\ order \in [0..(kTotalPages - 1) -> Orders]
      /\ FramesTruthful /\ FreePages \cap HeldPages = {}
  BY DEF BuddyInv, TypeOK, BlocksInv
<1>4. /\ flags'[x] = IF x = p THEN (flags[x] \ {"FREE"}) \cup {"USED"}
                     ELSE IF x \in HalfStarts(p, t, o) THEN flags[x] \cup {"FREE"} ELSE flags[x]
      /\ order'[x] = IF x = p THEN t ELSE IF x \in HalfStarts(p, t, o) THEN HalfOrder(p, t, o, x) ELSE order[x]
      /\ held' = [y \in DOMAIN held \cup {p} |-> IF y = p THEN t ELSE held[y]]
  BY <1>3 DEF Split
<1>5. FreeBlocks' = BlocksOf(kFreeLists') /\ \A k \in Orders : <<x, k>> \in FreeBlocks' <=> x \in kFreeLists'[k]
  <2>1. FreeBlocks' = BlocksOf(kFreeLists')
    BY DEF FreeBlocks, BlocksOf
  <2> QED BY <2>1, BlockSets
<1>6. \A k \in Orders : x \in PagesOf(<<x, k>>)
  <2> TAKE k \in Orders
  <2>1. Size(k) \in Nat \ {0}
    BY <1>2, Sizes
  <2> QED BY <2>1, <1>2 DEF PagesOf
<1>7. \A k \in Orders : <<x, k>> \in FreeBlocks' => x \in FreePages'
  BY <1>6 DEF FreePages, PagesOfAll
<1>8. x \in FreePages => x \notin DOMAIN held /\ \A k : <<x, k>> \notin HeldBlocks
  <2>1. \A k : <<x, k>> \in HeldBlocks => k \in Orders
    BY BlockFacts
  <2>2. \A k : <<x, k>> \in HeldBlocks => x \in HeldPages
    BY <2>1, <1>6 DEF HeldPages, PagesOfAll
  <2>3. x \in DOMAIN held => <<x, held[x]>> \in HeldBlocks
    BY DEF HeldBlocks
  <2> QED BY <2>2, <2>3, <1>3
<1>9. CASE x = p
  <2>1. x \in PagesOf(<<p, t>>)
    BY <1>6, <1>9
  <2>2. \A k \in Orders : <<x, k>> \notin FreeBlocks'
    BY <2>1, <1>1, <1>7
  <2>3. flags'[x] = (flags[x] \ {"FREE"}) \cup {"USED"} /\ order'[x] = t /\ held'[x] = t
    BY <1>4, <1>9
  <2>4. <<x, t>> \in HeldBlocks'
    BY <1>1, <1>9
  <2>5. flags'[x] \in SUBSET Flags
    BY <2>3, <1>3 DEF Flags
  <2> QED BY <2>2, <2>3, <2>4, <2>5, <1>5, Zenon
<1>10. CASE x # p /\ x \in HalfStarts(p, t, o)
  <2> DEFINE j == HalfOrder(p, t, o, x)
  <2>1. j \in t..(o - 1) /\ x = MergedHalf(p, j)
    BY <1>10 DEF HalfStarts, HalfOrder
  <2> HIDE DEF j
  <2>2. flags'[x] = flags[x] \cup {"FREE"} /\ order'[x] = j
    BY <1>4, <1>10 DEF j
  <2>3. j \in Orders /\ <<x, j>> \in FreeBlocks'
    BY <2>1, <1>1, <1>2 DEF HalvesOf
  <2>4. x \in FreePages
    BY <2>3, <1>1, <1>7
  <2>5. \A k \in Orders : <<x, k>> \in FreeBlocks' => k = j
    <3> SUFFICES ASSUME NEW k \in Orders, <<x, k>> \in FreeBlocks' PROVE k = j
      OBVIOUS
    <3>1. k \in 0..10 /\ j \in 0..10 /\ x \in Nat
      BY <1>2, <2>3
    <3> QED BY <3>1, <2>3, <1>1, ListedOnce, Zenon
  <2>6. x \notin DOMAIN held' /\ \A k : <<x, k>> \notin HeldBlocks'
    BY <2>4, <1>1, <1>4, <1>8, <1>10
  <2>7. "USED" \notin flags[x]
    BY <2>4, <1>3, <1>8, Zenon DEF FramesTruthful
  <2>8. flags'[x] \in SUBSET Flags
    BY <2>2, <1>3 DEF Flags
  <2> QED BY <2>2, <2>3, <2>5, <2>6, <2>7, <2>8, <1>5, Zenon
<1>11. CASE x # p /\ x \notin HalfStarts(p, t, o)
  <2>1. flags'[x] = flags[x] /\ order'[x] = order[x]
    BY <1>4, <1>11
  <2>2. \A k : <<x, k>> \in FreeBlocks' <=> <<x, k>> \in FreeBlocks
    <3>1. \A k : <<x, k>> \notin HalvesOf(p, t, o)
      BY <1>11 DEF HalvesOf, HalfStarts
    <3> QED BY <3>1, <1>1, <1>11
  <2>3. \A k : <<x, k>> \in HeldBlocks' <=> <<x, k>> \in HeldBlocks
    BY <1>1, <1>11
  <2>4. x \in DOMAIN held' => x \in DOMAIN held /\ held'[x] = held[x]
    BY <1>4, <1>11
  <2>5. \A k \in Orders : <<x, k>> \in FreeBlocks => k = order[x]
    <3>1. FreeBlocks = BlocksOf(kFreeLists)
      BY DEF FreeBlocks, BlocksOf
    <3>2. \A k \in Orders : <<x, k>> \in FreeBlocks => x \in kFreeLists[k]
      BY <3>1, BlockSets
    <3>3. \A k \in Orders : x \in kFreeLists[k] => k = order[x]
      BY <1>3, Zenon DEF FramesTruthful
    <3> QED BY <3>2, <3>3
  <2>6. \A k \in Orders : x \in kFreeLists'[k] => k = order'[x]
    BY <2>1, <2>2, <2>5, <1>5, Zenon
  <2> QED BY <2>1, <2>2, <2>3, <2>4, <2>6, <1>3, Zenon DEF FramesTruthful
<1> QED BY <1>9, <1>10, <1>11

(* pmm_alloc_pages keeps the invariant. *)
LEMMA AllocStep ==
  ASSUME BuddyInv, NEW count \in AllocCounts, pmm_alloc_pages(count)
  PROVE  BuddyInv' /\ \E p \in 0..(kTotalPages - 1), t \in Orders : Taken(p, t)
<1>1. PICK p \in 0..(kTotalPages - 1), t \in Orders, o \in Orders : Split(p, t, o)
  BY AllocSplits
<1>2. UNCHANGED <<memmap, metaStart, region, pfn, panicked>> /\ ~panicked /\ ~Carving
  BY DEF pmm_alloc_pages, boot, Booted, Carving, BuddyInv, TypeOK, BootInv
<1>3. /\ UNCHANGED <<Carving, kTotalPages, UsablePages, MetaPages, RegionEnd, Carved>>
      /\ Roomy(memmap)' = Roomy(memmap)
  BY <1>2 DEF Carving, kTotalPages, UsablePages, MetaPages, RegionEnd, Carved
<1>4. TypeOK /\ BootInv /\ BlocksInv /\ FramesTruthful /\ kFreePages = Cardinality(FreePages)
  BY DEF BuddyInv
<1>5. /\ FreeBlocks' = (FreeBlocks \ {<<p, o>>}) \cup HalvesOf(p, t, o)
      /\ HeldBlocks' = HeldBlocks \cup {<<p, t>>}
      /\ Disjoint(FreeBlocks') /\ Aligned(FreeBlocks')
      /\ Disjoint(HeldBlocks') /\ Aligned(HeldBlocks')
      /\ FreePages' = FreePages \ PagesOf(<<p, t>>)
      /\ HeldPages' = HeldPages \cup PagesOf(<<p, t>>)
      /\ PagesOf(<<p, t>>) \subseteq FreePages
      /\ p \notin DOMAIN held
  BY <1>1, SplitBlocks, ZenonT(30)
<1>6. kTotalPages \in Nat /\ Orders \subseteq 0..10 /\ IsFiniteSet(FreePages)
      /\ FreePages \subseteq 0..(kTotalPages - 1)
  BY BlockFacts
<1>7. BlocksInv'
  <2>1. FreePages \cap HeldPages = {} /\ FreePages \cup HeldPages = Carved
    BY <1>4 DEF BlocksInv
  <2>2. FreePages' \cap HeldPages' = {} /\ FreePages' \cup HeldPages' = Carved'
    BY <2>1, <1>3, <1>5
  <2> QED BY <2>2, <1>5 DEF BlocksInv
<1>8. kFreePages' = Cardinality(FreePages') /\ kFreePages' \in Nat
  <2>1. Cardinality(FreePages \ PagesOf(<<p, t>>)) = Cardinality(FreePages) - Size(t)
    <3>1. p \in Nat /\ t \in 0..10 /\ PagesOf(<<p, t>>) \subseteq FreePages
      BY <1>1, <1>5, <1>6
    <3> QED BY <3>1, <1>6, Counting, Zenon
  <2>2. kFreePages' = kFreePages - Size(t)
    BY <1>1 DEF Split
  <2>3. kFreePages' = Cardinality(FreePages')
    BY <2>1, <2>2, <1>4, <1>5
  <2>4. IsFiniteSet(FreePages')
    BY <1>5, <1>6, FS_Difference, Zenon
  <2> QED BY <2>3, <2>4, FS_CardinalityType
<1>9. BootInv'
  BY <1>2, <1>3, <1>4 DEF BootInv
<1>10. /\ DOMAIN flags' = 0..(kTotalPages - 1)
       /\ \A x \in 0..(kTotalPages - 1) :
            /\ "FREE" \in flags'[x] <=> <<x, order'[x]>> \in FreeBlocks'
            /\ "USED" \in flags'[x] <=> <<x, order'[x]>> \in HeldBlocks'
            /\ \A k \in Orders : x \in kFreeLists'[k] => k = order'[x]
            /\ x \in DOMAIN held' => held'[x] = order'[x]
            /\ order'[x] \in Orders /\ flags'[x] \in SUBSET Flags
  <2>1. DOMAIN flags' = 0..(kTotalPages - 1)
    BY <1>1, <1>4 DEF Split, TypeOK
  <2> QED BY <2>1, <1>1, SplitFrames
<1>11. FramesTruthful'
  BY <1>10, Zenon DEF FramesTruthful
<1>12. TypeOK'
  <2>1. order' \in [0..(kTotalPages - 1) -> Orders] /\ flags' \in [0..(kTotalPages - 1) -> SUBSET Flags]
    <3>1. order' = [x \in 0..(kTotalPages - 1) |-> order'[x]] /\ flags' = [x \in 0..(kTotalPages - 1) |-> flags'[x]]
      BY <1>1, <1>4 DEF Split, TypeOK
    <3> QED BY <3>1, <1>10, Zenon
  <2>2. kFreeLists' \in [Orders -> SUBSET (0..(kTotalPages - 1))]
    <3>1. kFreeLists' = [k \in Orders |-> kFreeLists'[k]]
      BY <1>1 DEF Split
    <3>2. FreeBlocks' = BlocksOf(kFreeLists')
      BY DEF FreeBlocks, BlocksOf
    <3>3. \A k \in Orders : \A x \in kFreeLists'[k] : <<x, k>> \in FreeBlocks'
      BY <3>2, BlockSets
    <3>4. \A k \in Orders : \A x \in kFreeLists'[k] : x \in Nat
      <4>1. kFreeLists \in [Orders -> SUBSET (0..(kTotalPages - 1))]
        BY <1>4 DEF TypeOK
      <4>2. \A k \in t..(o - 1) : MergedHalf(p, k) \in Nat
        <5>1. p \in Nat /\ t \in 0..10 /\ o \in 0..10
          BY <1>1, <1>6
        <5>2. \A k \in t..(o - 1) : k \in 0..9
          BY <5>1
        <5> QED BY <5>1, <5>2, Buddies, Zenon
      <4> QED BY <4>1, <4>2, <1>1, <1>6 DEF Split
    <3>5. \A k \in Orders : Size(k) \in Nat \ {0}
      BY <1>6, Sizes
    <3>6. \A k \in Orders : \A x \in kFreeLists'[k] : x \in PagesOf(<<x, k>>)
      BY <3>4, <3>5 DEF PagesOf
    <3>7. \A k \in Orders : \A x \in kFreeLists'[k] : x \in FreePages'
      BY <3>3, <3>6, Zenon DEF FreePages, PagesOfAll
    <3>8. \A k \in Orders : kFreeLists'[k] \subseteq 0..(kTotalPages - 1)
      BY <3>7, <1>5, <1>6, Zenon
    <3> QED BY <3>1, <3>8
  <2>3. DOMAIN held' \subseteq 0..(kTotalPages - 1) /\ \A x \in DOMAIN held' : held'[x] \in Orders
    BY <1>1, <1>4, Zenon DEF Split, TypeOK
  <2> QED BY <2>1, <2>2, <2>3, <1>2, <1>3, <1>4, <1>8 DEF TypeOK
<1>13. Taken(p, t)
  BY <1>1, <1>5 DEF Taken, Split
<1> QED BY <1>7, <1>8, <1>9, <1>11, <1>12, <1>13 DEF BuddyInv

(* A call that frees merges block p up to order top. *)
Merge(p, top) ==
  /\ p \in DOMAIN held /\ top \in Orders /\ order[p] <= top
  /\ \A k \in order[p]..(top - 1) : Mergeable(p, k)
  /\ GiveBlock(p, top)

(* The halves that are merged are free blocks. *)
LEMMA MergeParts ==
  ASSUME BuddyInv, NEW p, NEW top, Merge(p, top)
  PROVE  /\ p \in 0..(kTotalPages - 1) /\ p \in Nat /\ order[p] \in Orders /\ order[p] = held[p]
         /\ order[p] \in 0..10 /\ top \in 0..10 /\ order[p] <= top /\ p % Size(order[p]) = 0
         /\ <<p, order[p]>> \in HeldBlocks
         /\ \A k \in order[p]..(top - 1) :
              /\ k \in Orders /\ k # top
              /\ MergedHalf(p, k) \in 0..(kTotalPages - 1) /\ order[MergedHalf(p, k)] = k
         /\ HalvesOf(p, order[p], top) \subseteq FreeBlocks
<1> DEFINE o == order[p]
<1>1. Orders = 0..MAX_ORDER /\ MAX_ORDER \in 0..10 /\ kTotalPages \in Nat
  BY PmmAssumption, BlockFacts DEF Orders
<1>2. p \in 0..(kTotalPages - 1) /\ p \in DOMAIN held
  BY DEF BuddyInv, TypeOK, Merge
<1>3. /\ flags \in [0..(kTotalPages - 1) -> SUBSET Flags] /\ order \in [0..(kTotalPages - 1) -> Orders]
      /\ FramesTruthful
  BY DEF BuddyInv, TypeOK
<1>4. o \in Orders /\ o = held[p]
  BY <1>2, <1>3, Zenon DEF FramesTruthful
<1>5. <<p, o>> \in HeldBlocks
  BY <1>2, <1>4 DEF HeldBlocks
<1>6. p % Size(o) = 0
  BY <1>5, BlockFacts
<1> HIDE DEF o
<1>7. top \in Orders /\ o <= top /\ \A k \in o..(top - 1) : Mergeable(p, k)
  BY DEF Merge, o
<1>8. p \in Nat /\ o \in 0..10 /\ top \in 0..10 /\ \A k \in o..(top - 1) : k \in 0..9 /\ k \in Orders /\ k # top
  <2>1. p \in Nat
    BY <1>1, <1>2
  <2>2. o \in 0..10 /\ top \in 0..10 /\ top \in Orders
    BY <1>4, <1>7, SmallOrders, Zenon
  <2>3. ASSUME NEW k \in o..(top - 1) PROVE k \in 0..9 /\ k \in Orders /\ k # top
    BY <1>1, <2>2
  <2> QED
    BY <2>1, <2>2, <2>3, Zenon
<1>9. ASSUME NEW k \in o..(top - 1)
      PROVE  /\ MergedHalf(p, k) \in 0..(kTotalPages - 1) /\ order[MergedHalf(p, k)] = k
             /\ <<MergedHalf(p, k), k>> \in FreeBlocks
  <2>1. MergedHalf(p, k) \in Nat
    BY <1>8, Buddies, Zenon
  <2>2. MergedHalf(p, k) < kTotalPages /\ "FREE" \in flags[MergedHalf(p, k)] /\ order[MergedHalf(p, k)] = k
    BY <1>7 DEF Mergeable
  <2>3. MergedHalf(p, k) \in 0..(kTotalPages - 1)
    BY <2>1, <2>2, <1>1
  <2> QED BY <2>2, <2>3, <1>3 DEF FramesTruthful
<1>10. HalvesOf(p, o, top) \subseteq FreeBlocks
  BY <1>9 DEF HalvesOf
<1> QED BY <1>2, <1>4, <1>5, <1>6, <1>7, <1>8, <1>9, <1>10, Zenon DEF o

(* Freeing moves the pages of the block to the free ones. *)
LEMMA MergeBlocks ==
  ASSUME BuddyInv, NEW p, NEW top, Merge(p, top)
  PROVE  /\ FreeBlocks' = (FreeBlocks \ HalvesOf(p, order[p], top)) \cup {<<Enclosing(p, top), top>>}
         /\ HeldBlocks' = HeldBlocks \ {<<p, order[p]>>}
         /\ Disjoint(FreeBlocks') /\ Aligned(FreeBlocks')
         /\ Disjoint(HeldBlocks') /\ Aligned(HeldBlocks')
         /\ FreePages' = FreePages \cup PagesOf(<<p, order[p]>>)
         /\ HeldPages' = HeldPages \ PagesOf(<<p, order[p]>>)
         /\ PagesOf(<<p, order[p]>>) \subseteq HeldPages
<1> DEFINE o == order[p]
           H == HalvesOf(p, o, top)
           c == <<p, o>>
           n == <<Enclosing(p, top), top>>
           run == PagesOf(c)
<1>1. /\ p \in Nat /\ o \in 0..10 /\ top \in 0..10 /\ o <= top /\ p % Size(o) = 0 /\ o = held[p]
      /\ c \in HeldBlocks /\ H \subseteq FreeBlocks
      /\ \A k \in o..(top - 1) : k \in Orders /\ k # top
  BY MergeParts, Zenon
<1>2. BlocksInv /\ p \in DOMAIN held /\ top \in Orders /\ GiveBlock(p, top)
  BY DEF BuddyInv, Merge
<1>3. PagesOfAll(Pieces(p, o, top)) = PagesOf(n)
  <2>1. p \in Nat /\ o \in 0..10 /\ top \in 0..10 /\ o <= top /\ p % Size(o) = 0
    BY <1>1
  <2> HIDE DEF o
  <2> QED BY <2>1, CutPages, ZenonT(30)
<1>4. Pieces(p, o, top) = {c} \cup H
  BY DEF Pieces
<1>5. \A x, k : <<x, k>> \in H <=> k \in o..(top - 1) /\ x = MergedHalf(p, k)
  BY DEF HalvesOf
<1>6. FreeBlocks = BlocksOf(kFreeLists) /\ FreeBlocks' = BlocksOf(kFreeLists')
      /\ HeldBlocks = HeldOf(held) /\ HeldBlocks' = HeldOf(held')
  BY DEF FreeBlocks, HeldBlocks, BlocksOf, HeldOf
<1>7. FreeBlocks' = (FreeBlocks \ H) \cup {n}
  <2>1. \A x, k : <<x, k>> \in FreeBlocks' <=> k \in Orders /\ x \in kFreeLists'[k]
    BY <1>6, BlockSets, Zenon
  <2>2. \A x, k : <<x, k>> \in FreeBlocks <=> k \in Orders /\ x \in kFreeLists[k]
    BY <1>6, BlockSets, ZenonT(30)
  <2>3. \A k \in Orders : kFreeLists'[k] = IF k \in o..(top - 1) THEN kFreeLists[k] \ {MergedHalf(p, k)}
                                           ELSE IF k = top THEN kFreeLists[k] \cup {Enclosing(p, top)}
                                           ELSE kFreeLists[k]
    BY <1>2 DEF GiveBlock
  <2> DEFINE M == o..(top - 1)
  <2>4. \A k \in M : k \in Orders /\ k # top
    BY <1>1
  <2> HIDE DEF M
  <2>5. \A x, k : <<x, k>> \in FreeBlocks' <=>
                   \/ <<x, k>> \in FreeBlocks /\ ~(k \in M /\ x = MergedHalf(p, k))
                   \/ x = Enclosing(p, top) /\ k = top
    BY <2>1, <2>2, <2>3, <2>4, <1>2, ZenonT(30) DEF M
  <2>6. \A b \in FreeBlocks' \cup FreeBlocks \cup {n} : b = <<b[1], b[2]>>
    BY <1>6, BlockSets
  <2> HIDE DEF H
  <2>7. \A x, k : <<x, k>> \in FreeBlocks' <=> <<x, k>> \in (FreeBlocks \ H) \cup {n}
    BY <2>5, <1>5, Zenon DEF M
  <2> HIDE DEF n
  <2>8. \A b \in FreeBlocks' \cup (FreeBlocks \ H) \cup {n} : b = <<b[1], b[2]>>
    BY <2>6
  <2> QED BY <2>7, <2>8
<1>8. HeldBlocks' = HeldBlocks \ {c}
  <2>1. held' = [x \in DOMAIN held \ {p} |-> held[x]]
    BY <1>2 DEF GiveBlock
  <2>2. \A x, k : <<x, k>> \in HeldBlocks' <=> x \in DOMAIN held' /\ k = held'[x]
    BY <1>6, BlockSets, Zenon
  <2>3. \A x, k : <<x, k>> \in HeldBlocks <=> x \in DOMAIN held /\ k = held[x]
    BY <1>6, BlockSets, Zenon
  <2>4. \A x, k : <<x, k>> \in HeldBlocks' <=> <<x, k>> \in HeldBlocks /\ ~(x = p /\ k = o)
    BY <2>1, <2>2, <2>3, <1>1, ZenonT(30)
  <2>5. \A b \in HeldBlocks' \cup HeldBlocks : b = <<b[1], b[2]>>
    BY <1>6, BlockSets
  <2> HIDE DEF o
  <2>6. \A x, k : <<x, k>> \in HeldBlocks' <=> <<x, k>> \in HeldBlocks \ {c}
    BY <2>4, Zenon
  <2> HIDE DEF c
  <2> QED BY <2>5, <2>6
<1> HIDE DEF o, H, c, n, run
<1>9. /\ Disjoint(FreeBlocks) /\ Disjoint(HeldBlocks) /\ Aligned(FreeBlocks) /\ Aligned(HeldBlocks)
      /\ FreePages \cap HeldPages = {}
  BY <1>2 DEF BlocksInv
<1>10. run \subseteq HeldPages /\ run \cap FreePages = {}
  <2>1. run \subseteq HeldPages
    BY <1>1 DEF HeldPages, PagesOfAll, run
  <2> QED BY <2>1, <1>9
<1>11. c \notin FreeBlocks
  <2>1. p \in run
    BY <1>1, BlockFacts DEF run, c
  <2> QED BY <2>1, <1>10 DEF FreePages, PagesOfAll, run
<1>12. Disjoint(FreeBlocks') /\ FreePages' = FreePages \cup run
  <2> DEFINE B == FreeBlocks \cup {c}
             R == {c} \cup H
             N == {n}
  <2>1. Disjoint(B) /\ PagesOfAll(B) = FreePages \cup run
    <3>1. PagesOf(c) \cap PagesOfAll(FreeBlocks) = {}
      BY <1>10 DEF FreePages, run
    <3> QED BY <3>1, <1>9, Adding DEF FreePages, run
  <2>2. R \in SUBSET B /\ B \ R = FreeBlocks \ H
    BY <1>1, <1>11
  <2>3. Disjoint(N) /\ PagesOfAll(N) = PagesOf(n)
    BY DEF Disjoint, PagesOfAll
  <2>4. PagesOfAll(R) = PagesOf(n)
    BY <1>3, <1>4
  <2>5. FreeBlocks' = (B \ R) \cup N
    BY <2>2, <1>7
  <2> HIDE DEF B, R, N
  <2>6. PagesOfAll(N) \subseteq PagesOfAll(R) /\ PagesOfAll(R) \subseteq PagesOfAll(B)
    BY <2>2, <2>3, <2>4 DEF PagesOfAll
  <2>7. /\ Disjoint((B \ R) \cup N)
        /\ PagesOfAll((B \ R) \cup N) = (PagesOfAll(B) \ PagesOfAll(R)) \cup PagesOfAll(N)
    BY <2>1, <2>2, <2>3, <2>6, Exchange
  <2>8. FreePages' = PagesOfAll(FreeBlocks')
    BY DEF FreePages
  <2> QED BY <2>1, <2>3, <2>4, <2>5, <2>6, <2>7, <2>8
<1>13. Disjoint(HeldBlocks') /\ HeldPages' = HeldPages \ run
  <2> DEFINE B == HeldBlocks
             R == {c}
             N == {}
  <2>1. Disjoint(N) /\ PagesOfAll(N) = {} /\ PagesOfAll(R) = run
    BY DEF Disjoint, PagesOfAll, run
  <2>2. R \in SUBSET B /\ Disjoint(B) /\ HeldBlocks' = (B \ R) \cup N
    BY <1>1, <1>8, <1>9
  <2>3. HeldPages = PagesOfAll(B) /\ HeldPages' = PagesOfAll(HeldBlocks')
    BY DEF HeldPages
  <2> HIDE DEF B, R, N
  <2>4. /\ Disjoint((B \ R) \cup N)
        /\ PagesOfAll((B \ R) \cup N) = (PagesOfAll(B) \ PagesOfAll(R)) \cup PagesOfAll(N)
    BY <2>1, <2>2, Exchange
  <2> QED BY <2>1, <2>2, <2>3, <2>4
<1>14. Aligned(FreeBlocks') /\ Aligned(HeldBlocks')
  <2>1. Enclosing(p, top) % Size(top) = 0
    BY <1>1, Around, ZenonT(30)
  <2> QED BY <2>1, <1>7, <1>8, <1>9 DEF Aligned, n
<1> QED BY <1>7, <1>8, <1>10, <1>12, <1>13, <1>14 DEF run, c, n, H, o

(* The frames of the merged blocks say what the lists say. *)
LEMMA MergeFrames ==
  ASSUME BuddyInv, NEW p, NEW top, Merge(p, top), NEW x \in 0..(kTotalPages - 1)
  PROVE  /\ "FREE" \in flags'[x] <=> <<x, order'[x]>> \in FreeBlocks'
         /\ "USED" \in flags'[x] <=> <<x, order'[x]>> \in HeldBlocks'
         /\ \A k \in Orders : x \in kFreeLists'[k] => k = order'[x]
         /\ x \in DOMAIN held' => held'[x] = order'[x]
         /\ order'[x] \in Orders /\ flags'[x] \in SUBSET Flags
<1> DEFINE o == order[p]
           H == HalvesOf(p, o, top)
           start == Enclosing(p, top)
           half == \E k \in o..(top - 1) : x = MergedHalf(p, k)
<1>1. /\ p \in Nat /\ o \in 0..10 /\ top \in 0..10 /\ o <= top /\ p % Size(o) = 0
      /\ H \subseteq FreeBlocks
      /\ \A k \in o..(top - 1) : k \in Orders /\ order[MergedHalf(p, k)] = k
  BY MergeParts, ZenonT(30)
<1>2. /\ FreeBlocks' = (FreeBlocks \ H) \cup {<<start, top>>}
      /\ HeldBlocks' = HeldBlocks \ {<<p, o>>}
      /\ Disjoint(FreeBlocks')
      /\ FreePages' = FreePages \cup PagesOf(<<p, o>>)
      /\ HeldPages' = HeldPages \ PagesOf(<<p, o>>)
  BY MergeBlocks
<1>3. /\ flags \in [0..(kTotalPages - 1) -> SUBSET Flags] /\ order \in [0..(kTotalPages - 1) -> Orders]
      /\ FramesTruthful /\ FreePages \cap HeldPages = {}
  BY DEF BuddyInv, TypeOK, BlocksInv
<1>4. /\ top \in Orders /\ GiveBlock(p, top)
      /\ Orders \subseteq 0..10 /\ kTotalPages \in Nat
  BY BlockFacts DEF Merge
<1>5. /\ flags'[x] = (flags[x] \ ((IF x = p THEN {"USED"} ELSE {}) \cup (IF half THEN {"FREE"} ELSE {})))
                     \cup (IF x = start THEN {"FREE"} ELSE {})
      /\ order'[x] = IF x = start THEN top ELSE order[x]
      /\ held' = [y \in DOMAIN held \ {p} |-> held[y]]
  BY <1>3, <1>4 DEF GiveBlock
<1>6. \A k : <<x, k>> \in H <=> k \in o..(top - 1) /\ x = MergedHalf(p, k)
  BY DEF HalvesOf
<1>7. half => <<x, order[x]>> \in H
  BY <1>1, <1>6
<1>8. start = p \/ \E k \in o..(top - 1) : start = MergedHalf(p, k)
  <2>1. p \in Nat /\ o \in 0..10 /\ top \in 0..10 /\ o <= top /\ p % Size(o) = 0
    BY <1>1
  <2> HIDE DEF o
  <2> QED BY <2>1, StartOf
<1>9. FreeBlocks = BlocksOf(kFreeLists) /\ FreeBlocks' = BlocksOf(kFreeLists')
  BY DEF FreeBlocks, BlocksOf
<1>10. \A k \in Orders :
         /\ <<x, k>> \in FreeBlocks' <=> x \in kFreeLists'[k]
         /\ <<x, k>> \in FreeBlocks <=> x \in kFreeLists[k]
  BY <1>9, BlockSets
<1>11. \A k \in Orders : x \in PagesOf(<<x, k>>)
  <2> TAKE k \in Orders
  <2>1. Size(k) \in Nat \ {0}
    BY <1>4, Sizes
  <2> QED BY <2>1, <1>4 DEF PagesOf
<1>12. /\ \A k \in Orders : <<x, k>> \in FreeBlocks => x \in FreePages
       /\ \A k \in Orders : <<x, k>> \in HeldBlocks => x \in HeldPages
  BY <1>11 DEF FreePages, HeldPages, PagesOfAll
<1>13. /\ "FREE" \in flags[x] <=> <<x, order[x]>> \in FreeBlocks
       /\ "USED" \in flags[x] <=> <<x, order[x]>> \in HeldBlocks
       /\ \A k \in Orders : x \in kFreeLists[k] => k = order[x]
       /\ x \in DOMAIN held => held[x] = order[x] /\ <<x, order[x]>> \in HeldBlocks
       /\ order[x] \in Orders /\ flags[x] \in SUBSET Flags
  BY <1>3 DEF FramesTruthful, HeldBlocks
<1> HIDE DEF o, H, start, half
<1>14. flags'[x] \in SUBSET Flags /\ order'[x] \in Orders
  BY <1>4, <1>5, <1>13 DEF Flags
<1>15. half => x \in FreePages
  BY <1>1, <1>7, <1>12, <1>13
<1>16. \A k : <<x, k>> \in HeldBlocks => k = order[x]
  BY <1>13 DEF HeldBlocks
<1>17. "USED" \in flags'[x] <=> "USED" \in flags[x] /\ x # p
  BY <1>5
<1>18. \A k : <<x, k>> \in HeldBlocks' <=> <<x, k>> \in HeldBlocks /\ x # p
  <2>1. \A k : <<x, k>> \in HeldBlocks /\ x = p => k = o
    BY <1>16 DEF o
  <2> QED BY <2>1, <1>2
<1>19. CASE x = start
  <2>1. <<x, top>> \in FreeBlocks' /\ "FREE" \in flags'[x] /\ order'[x] = top
    BY <1>2, <1>5, <1>19
  <2>2. \A k \in Orders : x \in kFreeLists'[k] => k = top
    <3> SUFFICES ASSUME NEW k \in Orders, x \in kFreeLists'[k] PROVE k = top
      OBVIOUS
    <3>1. <<x, k>> \in FreeBlocks'
      BY <1>10, Zenon
    <3>2. k \in 0..10 /\ top \in 0..10 /\ x \in Nat
      BY <1>4
    <3> QED BY <3>1, <3>2, <2>1, <1>2, ListedOnce, ZenonT(30)
  <2>3. x = p \/ half
    BY <1>8, <1>19 DEF half
  <2>4. x # p => <<x, order[x]>> \notin HeldBlocks
    BY <2>3, <1>3, <1>12, <1>13, <1>15
  <2>5. <<x, top>> \notin HeldBlocks' /\ "USED" \notin flags'[x]
    BY <2>4, <1>13, <1>16, <1>17, <1>18
  <2>6. x \notin DOMAIN held'
    BY <2>4, <1>5, <1>13
  <2> QED BY <2>1, <2>2, <2>5, <2>6, <1>14
<1>20. CASE x # start
  <2>1. order'[x] = order[x] /\ ("FREE" \in flags'[x] <=> "FREE" \in flags[x] /\ ~half)
    BY <1>5, <1>20
  <2>2. \A k : <<x, k>> \in FreeBlocks' <=> <<x, k>> \in FreeBlocks /\ <<x, k>> \notin H
    BY <1>2, <1>20
  <2>3. half <=> <<x, order[x]>> \in H
    BY <1>6, <1>7 DEF half
  <2>4. \A k \in Orders : x \in kFreeLists'[k] => k = order'[x]
    BY <2>1, <2>2, <1>10, <1>13, Zenon
  <2>5. x \in DOMAIN held' => held'[x] = order'[x]
    BY <2>1, <1>5, <1>13
  <2> QED BY <2>1, <2>2, <2>3, <2>4, <2>5, <1>13, <1>14, <1>17, <1>18
<1> QED BY <1>19, <1>20

Released(p) ==
  /\ p \in DOMAIN held
  /\ FreePages' = FreePages \cup PagesOf(<<p, held[p]>>)
  /\ held' = [x \in DOMAIN held \ {p} |-> held[x]]

(* pmm_free_pages keeps the invariant. *)
LEMMA FreeStep ==
  ASSUME BuddyInv, NEW p \in DOMAIN held, pmm_free_pages(p)
  PROVE  BuddyInv' /\ Released(p)
<1>1. PICK top : Merge(p, top)
  <2>1. PICK top \in order[p]..MAX_ORDER : (\A k \in order[p]..(top - 1) : Mergeable(p, k)) /\ GiveBlock(p, top)
    BY DEF pmm_free_pages, MergeLimit
  <2>2. order[p] \in Orders
    BY DEF BuddyInv, TypeOK
  <2>3. top \in Orders /\ order[p] <= top
    BY <2>1, <2>2, PmmAssumption DEF Orders
  <2> QED BY <2>1, <2>3 DEF Merge
<1> DEFINE o == order[p]
<1>2. UNCHANGED <<memmap, metaStart, region, pfn, panicked>> /\ ~panicked /\ ~Carving
  BY Zenon DEF pmm_free_pages, boot, Booted, Carving, BuddyInv, TypeOK, BootInv
<1>3. /\ UNCHANGED <<Carving, kTotalPages, UsablePages, MetaPages, RegionEnd, Carved>>
      /\ Roomy(memmap)' = Roomy(memmap)
  BY <1>2, Zenon DEF Carving, kTotalPages, UsablePages, MetaPages, RegionEnd, Carved
<1>4. TypeOK /\ BootInv /\ BlocksInv /\ FramesTruthful /\ kFreePages = Cardinality(FreePages)
  BY Zenon DEF BuddyInv
<1>5. /\ Disjoint(FreeBlocks') /\ Aligned(FreeBlocks')
      /\ Disjoint(HeldBlocks') /\ Aligned(HeldBlocks')
      /\ FreePages' = FreePages \cup PagesOf(<<p, o>>)
      /\ HeldPages' = HeldPages \ PagesOf(<<p, o>>)
      /\ PagesOf(<<p, o>>) \subseteq HeldPages
  BY <1>1, MergeBlocks
<1>6. kTotalPages \in Nat /\ Orders \subseteq 0..10 /\ IsFiniteSet(FreePages)
      /\ FreePages \subseteq 0..(kTotalPages - 1) /\ HeldPages \subseteq 0..(kTotalPages - 1)
  BY BlockFacts
<1>7. p \in Nat /\ o \in 0..10 /\ o = held[p] /\ top \in 0..10 /\ o <= top
      /\ GiveBlock(p, top) /\ top \in Orders
  BY <1>1, MergeParts, Zenon DEF Merge
<1> HIDE DEF o
<1>8. FreePages \cap HeldPages = {} /\ FreePages \cup HeldPages = Carved
  BY <1>4 DEF BlocksInv
<1>9. BlocksInv'
  <2>1. FreePages' \cap HeldPages' = {} /\ FreePages' \cup HeldPages' = Carved'
    BY <1>3, <1>5, <1>8
  <2> QED BY <2>1, <1>5 DEF BlocksInv
<1>10. kFreePages' = Cardinality(FreePages') /\ kFreePages' \in Nat
  <2>1. PagesOf(<<p, o>>) \cap FreePages = {}
    BY <1>5, <1>8
  <2>2. Cardinality(FreePages \cup PagesOf(<<p, o>>)) = Cardinality(FreePages) + Size(o)
    BY <2>1, <1>6, <1>7, Counting, ZenonT(30)
  <2>3. kFreePages' = kFreePages + Size(o)
    BY <1>7 DEF GiveBlock, o
  <2>4. Size(o) \in Nat
    BY <1>7, Sizes
  <2> QED BY <2>2, <2>3, <2>4, <1>4, <1>5 DEF TypeOK
<1>11. BootInv'
  BY <1>2, <1>3, <1>4 DEF BootInv
<1>12. /\ DOMAIN flags' = 0..(kTotalPages - 1)
       /\ \A x \in 0..(kTotalPages - 1) :
            /\ "FREE" \in flags'[x] <=> <<x, order'[x]>> \in FreeBlocks'
            /\ "USED" \in flags'[x] <=> <<x, order'[x]>> \in HeldBlocks'
            /\ \A k \in Orders : x \in kFreeLists'[k] => k = order'[x]
            /\ x \in DOMAIN held' => held'[x] = order'[x]
            /\ order'[x] \in Orders /\ flags'[x] \in SUBSET Flags
  <2>1. DOMAIN flags' = 0..(kTotalPages - 1)
    BY <1>4, <1>7 DEF GiveBlock, TypeOK
  <2> QED BY <2>1, <1>1, MergeFrames
<1>13. FramesTruthful'
  BY <1>12, ZenonT(30) DEF FramesTruthful
<1>14. TypeOK'
  <2>1. order' \in [0..(kTotalPages - 1) -> Orders] /\ flags' \in [0..(kTotalPages - 1) -> SUBSET Flags]
    <3>1. flags' = [x \in 0..(kTotalPages - 1) |-> flags'[x]]
      BY <1>4, <1>7 DEF GiveBlock, TypeOK
    <3>2. order' = [order EXCEPT ![Enclosing(p, top)] = top]
      BY <1>7 DEF GiveBlock
    <3>3. order' \in [0..(kTotalPages - 1) -> Orders]
      BY <3>2, <1>4, <1>7, ZenonT(30) DEF TypeOK
    <3> QED BY <3>1, <3>3, <1>12, Zenon
  <2>2. kFreeLists' \in [Orders -> SUBSET (0..(kTotalPages - 1))]
    <3>1. Enclosing(p, top) \in 0..(kTotalPages - 1)
      <4>1. Enclosing(p, top) \in Nat /\ Enclosing(p, top) <= p
        <5>1. Size(top) \in Nat \ {0}
          BY <1>7, Sizes
        <5>2. p = (Size(top) * (p \div Size(top))) + (p % Size(top)) /\ p % Size(top) \in 0..(Size(top) - 1)
              /\ p \div Size(top) \in Nat
          BY <5>1, <1>7, DivMod, ZenonT(30)
        <5>3. Enclosing(p, top) \in Nat
          BY <1>7, Around, Zenon
        <5> QED BY <5>1, <5>2, <5>3, <1>7 DEF Enclosing
      <4>2. p \in 0..(kTotalPages - 1)
        BY <1>1, MergeParts, Zenon
      <4> QED BY <4>1, <4>2, <1>6
    <3>2. kFreeLists \in [Orders -> SUBSET (0..(kTotalPages - 1))]
      BY <1>4 DEF TypeOK
    <3> QED BY <3>1, <3>2, <1>7 DEF GiveBlock
  <2>3. DOMAIN held' \subseteq 0..(kTotalPages - 1) /\ \A x \in DOMAIN held' : held'[x] \in Orders
    BY <1>4, <1>7, Zenon DEF GiveBlock, TypeOK
  <2> QED BY <2>1, <2>2, <2>3, <1>2, <1>3, <1>4, <1>10 DEF TypeOK
<1>15. Released(p)
  BY <1>5, <1>7 DEF Released, GiveBlock
<1> QED BY <1>9, <1>10, <1>11, <1>13, <1>14, <1>15 DEF BuddyInv

-----------------------------------------------------------------------------
(* The theorems. *)

(* A stuttering step keeps it. *)
LEMMA Unchanged == ASSUME BuddyInv, UNCHANGED vars PROVE BuddyInv' /\ FreePages' = FreePages /\ held' = held
<1>1. UNCHANGED <<memmap, metaStart, region, pfn, order, flags, kFreeLists, kFreePages, held, panicked>>
  BY DEF vars, boot, frames
<1>2. /\ UNCHANGED <<FreeBlocks, HeldBlocks, FreePages, HeldPages, kTotalPages, UsablePages, MetaPages>>
      /\ UNCHANGED <<Carving, RegionEnd, FramesTruthful>>
      /\ Roomy(memmap)' = Roomy(memmap)
  <2>1. UNCHANGED <<FreeBlocks, HeldBlocks, FreePages, HeldPages>>
    BY <1>1 DEF FreeBlocks, HeldBlocks, FreePages, HeldPages
  <2>2. UNCHANGED <<kTotalPages, UsablePages, MetaPages, RegionEnd>> /\ Roomy(memmap)' = Roomy(memmap)
    BY <1>1 DEF kTotalPages, UsablePages, MetaPages, RegionEnd
  <2>3. Carving' = Carving
    BY <1>1 DEF Carving
  <2>4. FramesTruthful' = FramesTruthful
    BY <1>1, <2>1 DEF FramesTruthful
  <2> QED BY <2>1, <2>2, <2>3, <2>4
<1>3. Carved' = Carved
  BY <1>1, <1>2 DEF Carved
<1>4. TypeOK' /\ BootInv' /\ BlocksInv'
  BY <1>1, <1>2, <1>3 DEF BuddyInv, TypeOK, BootInv, BlocksInv
<1> QED BY <1>1, <1>2, <1>4 DEF BuddyInv

(* These steps of pmm_init give nothing to the lists. *)
LEMMA BootSkips ==
  ASSUME NextRegion \/ SkipMetadata
  PROVE  FreePages' = FreePages /\ held' = held
BY ZenonT(30) DEF NextRegion, SkipMetadata, frames, FreePages, FreeBlocks

(* Every step keeps the invariant. *)
LEMMA BuddyStep == ASSUME BuddyInv, [Next]_vars PROVE BuddyInv'
<1>1. CASE NextRegion
  BY <1>1, NextRegionStep
<1>2. CASE SkipMetadata
  BY <1>2, SkipMetadataStep
<1>3. CASE FreeBlock
  BY <1>3, FreeBlockStep
<1>4. CASE \E count \in AllocCounts : pmm_alloc_pages(count)
  BY <1>4, AllocStep
<1>5. CASE \E p \in DOMAIN held : pmm_free_pages(p)
  BY <1>5, FreeStep
<1>6. CASE UNCHANGED vars
  BY <1>6, Unchanged
<1> QED BY <1>1, <1>2, <1>3, <1>4, <1>5, <1>6 DEF Next

(* pmm_init establishes the invariant that the next theorems rest on, and  *)
(* every call keeps it.                                                    *)
THEOREM BuddyInvariant == Spec => []BuddyInv
<1>1. Init => BuddyInv
  BY BuddyInit
<1>2. BuddyInv /\ [Next]_vars => BuddyInv'
  BY BuddyStep
<1> QED BY <1>1, <1>2, PTL DEF Spec

(* pmm_alloc_pages never hands out a page twice, blocks are aligned, and   *)
(* pmm_free_page_count() is right, whatever the memory map, the largest    *)
(* order and the calls.                                                    *)
THEOREM PagesHeldOnce == Spec => []NoPageTwice
<1>1. ASSUME BuddyInv PROVE NoPageTwice
  <2>1. TypeOK /\ BlocksInv /\ kFreePages = Cardinality(PagesOfAll(FreeBlocks))
    BY <1>1 DEF BuddyInv, FreePages
  <2>2. /\ Disjoint(FreeBlocks) /\ Disjoint(HeldBlocks) /\ Aligned(FreeBlocks) /\ Aligned(HeldBlocks)
        /\ FreePages \cap HeldPages = {}
    BY <2>1 DEF BlocksInv
  <2>3. \A b \in FreeBlocks, c \in HeldBlocks : PagesOf(b) \cap PagesOf(c) = {}
    BY <2>2 DEF FreePages, HeldPages, PagesOfAll
  <2>4. \A b \in FreeBlocks \cup HeldBlocks : b[1] \in PagesOf(b)
    BY <1>1, BlockFacts
  <2> HIDE DEF PagesOf
  <2>5. FreeBlocks \cap HeldBlocks = {}
    BY <2>3, <2>4
  <2>6. \A b, c \in FreeBlocks \cup HeldBlocks : b # c => PagesOf(b) \cap PagesOf(c) = {}
    BY <2>2, <2>3 DEF Disjoint
  <2>7. \A b \in FreeBlocks \cup HeldBlocks : b[1] % Size(b[2]) = 0
    BY <2>2 DEF Aligned
  <2> QED BY <2>1, <2>5, <2>6, <2>7 DEF NoPageTwice
<1> QED BY <1>1, BuddyInvariant, PTL

(* After boot the blocks make up the usable memory without the frame       *)
(* array: splitting and merging lose no page and gain none.                *)
THEOREM NothingLost == Spec => []MemoryConserved
<1>1. ASSUME BuddyInv PROVE MemoryConserved
  <2> SUFFICES ASSUME Booted PROVE PagesOfAll(FreeBlocks \cup HeldBlocks) = UsablePages \ MetaPages
    BY DEF MemoryConserved
  <2>1. ~panicked /\ ~Carving
    <3>1. memmap \in MemMaps /\ region \in Nat
      BY <1>1 DEF BuddyInv, TypeOK
    <3>2. Len(memmap) \in Nat
      BY <3>1, Entries
    <3> QED BY <3>1, <3>2 DEF Booted, Carving
  <2>2. FreePages \cup HeldPages = UsablePages \ MetaPages
    BY <2>1, <1>1 DEF BuddyInv, BlocksInv, Carved
  <2>3. PagesOfAll(FreeBlocks \cup HeldBlocks) = FreePages \cup HeldPages
    BY DEF FreePages, HeldPages, PagesOfAll
  <2> QED BY <2>2, <2>3
<1> QED BY <1>1, BuddyInvariant, PTL

(* The flags and the order in a page frame agree with the lists and with   *)
(* what callers hold, so the merge loop of pmm_free_pages takes a buddy    *)
(* only from the list it is in.                                            *)
THEOREM FramesAgree == Spec => []FramesTruthful
<1>1. BuddyInv => FramesTruthful
  BY DEF BuddyInv
<1> QED BY <1>1, BuddyInvariant, PTL

-----------------------------------------------------------------------------
(* The buddy system implements PageAllocator. *)

RunsOf(h) == {<<x, Size(h[x])>> : x \in DOMAIN h}

(* The runs of PageAllocator are the pages of the blocks. *)
LEMMA RunsArePages ==
  /\ \A x, o : Promise!Run(x, Size(o)) = PagesOf(<<x, o>>)
  /\ UNION {Promise!Run(r[1], r[2]) : r \in RunsOf(held)} = HeldPages
<1>1. \A x, o : Promise!Run(x, Size(o)) = PagesOf(<<x, o>>)
  BY DEF Promise!Run, PagesOf
<1> DEFINE U == UNION {Promise!Run(r[1], r[2]) : r \in RunsOf(held)}
<1>2. \A y : y \in U <=> \E x \in DOMAIN held : y \in Promise!Run(x, Size(held[x]))
  <2>1. \A y : y \in U <=> \E r \in RunsOf(held) : y \in Promise!Run(r[1], r[2])
    OBVIOUS
  <2>2. /\ \A x \in DOMAIN held : <<x, Size(held[x])>> \in RunsOf(held)
        /\ \A r \in RunsOf(held) : \E x \in DOMAIN held : r = <<x, Size(held[x])>>
    BY DEF RunsOf
  <2> HIDE DEF U
  <2> TAKE y
  <2>3. ASSUME y \in U PROVE \E x \in DOMAIN held : y \in Promise!Run(x, Size(held[x]))
    <3>1. PICK r \in RunsOf(held) : y \in Promise!Run(r[1], r[2])
      BY <2>1, <2>3
    <3>2. PICK x \in DOMAIN held : r = <<x, Size(held[x])>>
      BY <2>2
    <3>3. r[1] = x /\ r[2] = Size(held[x])
      BY <3>2
    <3> QED BY <3>1, <3>3
  <2>4. ASSUME NEW x \in DOMAIN held, y \in Promise!Run(x, Size(held[x])) PROVE y \in U
    <3> DEFINE r == <<x, Size(held[x])>>
    <3>1. r \in RunsOf(held) /\ r[1] = x /\ r[2] = Size(held[x])
      BY <2>2
    <3> HIDE DEF r
    <3>2. y \in Promise!Run(r[1], r[2])
      BY <3>1, <2>4
    <3> QED BY <3>1, <3>2, <2>1
  <2> QED BY <2>3, <2>4
<1>3. \A y : y \in HeldPages <=> \E x \in DOMAIN held : y \in PagesOf(<<x, held[x]>>)
  <2> HIDE DEF PagesOf
  <2> QED BY ZenonT(30) DEF HeldPages, PagesOfAll, HeldBlocks
<1> HIDE DEF U
<1>4. U = HeldPages
  <2>1. \A y : y \in U <=> \E x \in DOMAIN held : y \in PagesOf(<<x, held[x]>>)
    BY <1>1, <1>2, Zenon
  <2>2. \A y : y \in U <=> y \in HeldPages
    BY <2>1, <1>3, Zenon
  <2> QED BY <2>2
<1> QED BY <1>1, <1>4 DEF U

(* A block is no larger than the memory. *)
LEMMA RunSize ==
  ASSUME BuddyInv, NEW x \in 0..(kTotalPages - 1), NEW o \in Orders, PagesOf(<<x, o>>) \subseteq 0..(kTotalPages - 1)
  PROVE  x \in 0..MaxPages /\ Size(o) \in 1..MaxPages /\ x \in PagesOf(<<x, o>>)
<1>1. kTotalPages \in 0..MaxPages /\ MaxPages \in Nat
  BY UsableBound DEF BuddyInv, TypeOK
<1>2. Size(o) \in Nat \ {0}
  BY BlockFacts, Sizes
<1>3. x \in PagesOf(<<x, o>>) /\ x + Size(o) - 1 \in PagesOf(<<x, o>>)
  BY <1>1, <1>2 DEF PagesOf
<1>4. x + Size(o) - 1 \in 0..(kTotalPages - 1)
  BY <1>3
<1> QED BY <1>1, <1>2, <1>3, <1>4

(* Every step is one of PageAllocator or changes nothing it knows. *)
LEMMA PromiseStep ==
  ASSUME BuddyInv, [Next]_vars
  PROVE  Promise!ANext \/ (FreePages' = FreePages /\ RunsOf(held)' = RunsOf(held))
<1>1. CASE NextRegion \/ SkipMetadata
  BY <1>1, BootSkips DEF RunsOf
<1>2. CASE UNCHANGED vars
  BY <1>2, Unchanged DEF RunsOf
<1>3. CASE FreeBlock
  <2>1. PICK x \in 0..(kTotalPages - 1), o \in Orders : Given(x, o)
    BY <1>3, FreeBlockStep
  <2>2. x \in 0..MaxPages /\ Size(o) \in 1..MaxPages
    BY <2>1, RunSize DEF Given
  <2>3. /\ Promise!Run(x, Size(o)) \cap (FreePages \cup UNION {Promise!Run(r[1], r[2]) : r \in RunsOf(held)}) = {}
        /\ FreePages' = FreePages \cup Promise!Run(x, Size(o))
        /\ RunsOf(held)' = RunsOf(held)
    BY <2>1, RunsArePages DEF Given, RunsOf
  <2>4. Promise!Donate
    BY <2>2, <2>3 DEF Promise!Donate, FreePages, RunsOf
  <2> QED BY <2>4 DEF Promise!ANext
<1>4. CASE \E count \in AllocCounts : pmm_alloc_pages(count)
  <2>1. PICK p \in 0..(kTotalPages - 1), t \in Orders : Taken(p, t)
    BY <1>4, AllocStep
  <2>2. PagesOf(<<p, t>>) \subseteq FreePages /\ FreePages \subseteq 0..(kTotalPages - 1)
    BY <2>1, BlockFacts DEF Taken
  <2>3. p \in FreePages /\ Size(t) \in 1..MaxPages
    BY <2>2, RunSize, Zenon
  <2>4. RunsOf(held') = RunsOf(held) \cup {<<p, Size(t)>>}
    <3>1. DOMAIN held' = DOMAIN held \cup {p} /\ held'[p] = t /\ \A x \in DOMAIN held : held'[x] = held[x]
      BY <2>1 DEF Taken
    <3> QED BY <3>1 DEF RunsOf
  <2>5. /\ Promise!Run(p, Size(t)) \subseteq FreePages
        /\ FreePages' = FreePages \ Promise!Run(p, Size(t))
        /\ RunsOf(held)' = RunsOf(held) \cup {<<p, Size(t)>>}
    BY <2>1, <2>2, <2>4, RunsArePages, Zenon DEF Taken, RunsOf
  <2>6. Promise!Allocate
    BY <2>3, <2>5 DEF Promise!Allocate, FreePages, RunsOf
  <2> QED BY <2>6 DEF Promise!ANext
<1>5. CASE \E p \in DOMAIN held : pmm_free_pages(p)
  <2>1. PICK p \in DOMAIN held : Released(p)
    BY <1>5, FreeStep
  <2> DEFINE r == <<p, Size(held[p])>>
  <2>2. r \in RunsOf(held) /\ r[1] = p /\ r[2] = Size(held[p])
    BY DEF RunsOf
  <2>3. RunsOf(held') = RunsOf(held) \ {r}
    <3>1. DOMAIN held' = DOMAIN held \ {p} /\ \A x \in DOMAIN held' : held'[x] = held[x]
      BY <2>1 DEF Released
    <3> QED BY <3>1 DEF RunsOf
  <2>4. FreePages' = FreePages \cup Promise!Run(r[1], r[2])
    BY <2>1, <2>2, RunsArePages DEF Released
  <2>5. RunsOf(held)' = RunsOf(held) \ {r}
    BY <2>3 DEF RunsOf
  <2> HIDE DEF r
  <2>6. Promise!Release
    BY <2>2, <2>4, <2>5 DEF Promise!Release, FreePages, RunsOf
  <2> QED BY <2>6 DEF Promise!ANext
<1> QED BY <1>1, <1>2, <1>3, <1>4, <1>5 DEF Next

(* Every step of pmm_init, pmm_alloc_pages and pmm_free_pages is a step of *)
(* PageAllocator or none: callers need to know nothing of buddies.         *)
THEOREM BuddyRefines == Spec => ImplementsPageAllocator
<1>1. Init => Promise!AInit
  <2> SUFFICES ASSUME Init PROVE Promise!AInit
    OBVIOUS
  <2>1. PagesOfAll(FreeBlocks) = {} /\ DOMAIN held = {}
    BY BuddyInit DEF FreePages
  <2> QED BY <2>1 DEF Promise!AInit
<1>2. BuddyInv /\ [Next]_vars => [Promise!ANext]_<<PagesOfAll(FreeBlocks), {<<p, Size(held[p])>> : p \in DOMAIN held}>>
  BY PromiseStep DEF FreePages, RunsOf
<1> QED BY <1>1, <1>2, BuddyInvariant, PTL DEF Spec, ImplementsPageAllocator, Promise!ASpec
=============================================================================

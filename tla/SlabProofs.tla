----------------------------- MODULE SlabProofs -----------------------------
(***************************************************************************)
(* For any number of pages, any caches and any capacities: the free lists  *)
(* and the slab lists of the kernel heap are exact, a page has one use,    *)
(* and the heap implements the one without lists.                          *)
(*                                                                         *)
(* A list is exact when its nodes can be numbered along the links; the     *)
(* lemmas about numberings carry no induction, and one lemma turns a       *)
(* numbering into the walk that the properties speak of.                   *)
(***************************************************************************)
EXTENDS SlabHeap, FiniteSetTheorems, WellFoundedInduction, TLAPS

(* w numbers the nodes of S from 0, from h along the links to nil.         *)
Order(succ, h, S, nil, w, n) ==
  /\ w[0] = h /\ w[n] = nil
  /\ \A i \in 0..(n - 1) : w[i] \in S /\ succ[w[i]] = w[i + 1]
  /\ \A i, j \in 0..(n - 1) : w[i] = w[j] => i = j
  /\ \A x \in S : \E i \in 0..(n - 1) : w[i] = x

Listed(succ, h, S, nil) == \E n \in Nat : \E w \in [0..n -> S \cup {nil}] : Order(succ, h, S, nil, w, n)

-----------------------------------------------------------------------------
(* Numbers *)

LEMMA LeastNumber ==
  ASSUME NEW S \in SUBSET Nat, S # {}
  PROVE  \E n \in S : \A m \in S : n <= m
  <1> DEFINE R == OpToRel(<, Nat)
  <1>1. IsWellFoundedOn(R, Nat)
    BY NatLessThanWellFounded, Zenon
  <1> HIDE DEF R
  <1>2. PICK n \in S : \A m \in S : ~ (<<m, n>> \in R)
    BY <1>1, WFMin, Zenon
  <1>3. \A m \in S : ~ (m < n)
    BY <1>2, Zenon DEF R, OpToRel
  <1> QED
    BY <1>3

-----------------------------------------------------------------------------
(* Lists *)

LEMMA ListedEmpty ==
  ASSUME NEW succ, NEW nil
  PROVE  Listed(succ, nil, {}, nil)
  <1> DEFINE w == [i \in 0..0 |-> nil]
  <1>1. w \in [0..0 -> {} \cup {nil}] /\ w[0] = nil
    OBVIOUS
  <1> HIDE DEF w
  <1>2. Order(succ, nil, {}, nil, w, 0)
    BY <1>1 DEF Order
  <1> QED
    BY <1>1, <1>2, Zenon DEF Listed

LEMMA ListedHead ==
  ASSUME NEW succ, NEW h, NEW S, NEW nil, nil \notin S, Listed(succ, h, S, nil)
  PROVE  /\ S # {} => h \in S
         /\ S = {} => h = nil
  <1>1. PICK n \in Nat : \E w \in [0..n -> S \cup {nil}] : Order(succ, h, S, nil, w, n)
    BY DEF Listed
  <1>2. PICK w \in [0..n -> S \cup {nil}] : Order(succ, h, S, nil, w, n)
    BY <1>1
  <1> QED
    BY <1>2 DEF Order

(* Where the links of a list lead. *)
LEMMA ListedLinks ==
  ASSUME NEW succ, NEW h, NEW S, NEW nil, nil \notin S, Listed(succ, h, S, nil)
  PROVE  /\ \A x \in S : succ[x] \in S \cup {nil} /\ succ[x] # x /\ succ[x] # h
         /\ \A x, y \in S : succ[x] = succ[y] /\ succ[x] # nil => x = y
         /\ \A x \in S : x # h => \E p \in S : succ[p] = x
  <1>1. PICK n \in Nat : \E w \in [0..n -> S \cup {nil}] : Order(succ, h, S, nil, w, n)
    BY DEF Listed
  <1>2. PICK w \in [0..n -> S \cup {nil}] : Order(succ, h, S, nil, w, n)
    BY <1>1
  <1>3. ASSUME NEW x \in S PROVE succ[x] \in S \cup {nil} /\ succ[x] # x /\ succ[x] # h
    <2>1. PICK i \in 0..(n - 1) : w[i] = x
      BY <1>2 DEF Order
    <2>2. succ[x] = w[i + 1] /\ i + 1 \in 0..n /\ w[0] = h /\ 0 \in 0..(n - 1)
      BY <1>2, <2>1 DEF Order
    <2>3. CASE i + 1 = n
      BY <1>2, <2>1, <2>2, <2>3 DEF Order
    <2>4. CASE i + 1 \in 0..(n - 1)
      BY <1>2, <2>1, <2>2, <2>4 DEF Order
    <2> QED
      BY <2>2, <2>3, <2>4
  <1>4. ASSUME NEW x \in S, NEW y \in S, succ[x] = succ[y], succ[x] # nil PROVE x = y
    <2>1. PICK i \in 0..(n - 1) : w[i] = x
      BY <1>2 DEF Order
    <2>2. PICK j \in 0..(n - 1) : w[j] = y
      BY <1>2 DEF Order
    <2>3. w[i + 1] = w[j + 1] /\ w[i + 1] # nil /\ w[n] = nil
      BY <1>2, <1>4, <2>1, <2>2 DEF Order
    <2>4. i + 1 \in 0..(n - 1) /\ j + 1 \in 0..(n - 1)
      BY <2>3
    <2>5. i + 1 = j + 1
      BY <1>2, <2>3, <2>4 DEF Order
    <2> QED
      BY <2>1, <2>2, <2>5
  <1>5. ASSUME NEW x \in S, x # h PROVE \E p \in S : succ[p] = x
    <2>1. PICK i \in 0..(n - 1) : w[i] = x
      BY <1>2 DEF Order
    <2>2. i # 0 /\ i - 1 \in 0..(n - 1)
      BY <1>2, <1>5, <2>1 DEF Order
    <2>3. w[i - 1] \in S /\ succ[w[i - 1]] = w[(i - 1) + 1] /\ (i - 1) + 1 = i
      BY <1>2, <2>2 DEF Order
    <2> QED
      BY <2>1, <2>3
  <1> QED
    BY <1>3, <1>4, <1>5

LEMMA ListedNext ==
  ASSUME NEW succ, NEW h, NEW S, NEW nil, nil \notin S, Listed(succ, h, S, nil), NEW x \in S
  PROVE  succ[x] \in S \cup {nil}
  BY ListedLinks

LEMMA ListedFrame ==
  ASSUME NEW succ, NEW succ2, NEW h, NEW S, NEW nil, Listed(succ, h, S, nil), \A x \in S : succ2[x] = succ[x]
  PROVE  Listed(succ2, h, S, nil)
  <1>1. PICK n \in Nat : \E w \in [0..n -> S \cup {nil}] : Order(succ, h, S, nil, w, n)
    BY DEF Listed
  <1>2. PICK w \in [0..n -> S \cup {nil}] : Order(succ, h, S, nil, w, n)
    BY <1>1
  <1>3. Order(succ2, h, S, nil, w, n)
    BY <1>2 DEF Order
  <1> QED
    BY <1>3 DEF Listed

(* Taking the first node. *)
LEMMA ListedPop ==
  ASSUME NEW succ, NEW h, NEW S, NEW nil, nil \notin S, Listed(succ, h, S, nil), S # {}
  PROVE  Listed(succ, succ[h], S \ {h}, nil)
  <1>1. PICK n \in Nat : \E w \in [0..n -> S \cup {nil}] : Order(succ, h, S, nil, w, n)
    BY DEF Listed
  <1>2. PICK w \in [0..n -> S \cup {nil}] : Order(succ, h, S, nil, w, n)
    BY <1>1
  <1>3. n # 0 /\ n - 1 \in Nat /\ w[0] = h /\ 0 \in 0..(n - 1)
    BY <1>2 DEF Order
  <1> DEFINE m == n - 1
             v == [i \in 0..m |-> w[i + 1]]
  <1>4. \A i \in 0..m : v[i] = w[i + 1]
    OBVIOUS
  <1>5. \A i \in 0..(m - 1) : i + 1 \in 0..(n - 1) /\ w[i + 1] \in S /\ w[i + 1] # h /\ succ[w[i + 1]] = w[(i + 1) + 1]
    BY <1>2, <1>3 DEF Order
  <1>6. v \in [0..m -> (S \ {h}) \cup {nil}]
    <2>1. \A i \in 0..m : w[i + 1] \in (S \ {h}) \cup {nil}
      BY <1>2, <1>3, <1>5 DEF Order
    <2> QED
      BY <2>1
  <1>7. v[0] = succ[h] /\ v[m] = nil
    BY <1>2, <1>3 DEF Order
  <1>8. \A i \in 0..(m - 1) : v[i] \in S \ {h} /\ succ[v[i]] = v[i + 1]
    BY <1>3, <1>4, <1>5
  <1>9. \A i, j \in 0..(m - 1) : v[i] = v[j] => i = j
    <2> SUFFICES ASSUME NEW i \in 0..(m - 1), NEW j \in 0..(m - 1), v[i] = v[j] PROVE i = j
      BY Zenon
    <2>1. w[i + 1] = w[j + 1] /\ i + 1 \in 0..(n - 1) /\ j + 1 \in 0..(n - 1)
      BY <1>3, <1>4
    <2>2. i + 1 = j + 1
      BY <1>2, <2>1 DEF Order
    <2> QED
      BY <2>2
  <1>10. \A x \in S \ {h} : \E i \in 0..(m - 1) : v[i] = x
    <2> SUFFICES ASSUME NEW x \in S \ {h} PROVE \E i \in 0..(m - 1) : v[i] = x
      BY Zenon
    <2>1. PICK i \in 0..(n - 1) : w[i] = x
      BY <1>2 DEF Order
    <2>2. i - 1 \in 0..(m - 1) /\ (i - 1) + 1 = i
      BY <1>3, <2>1
    <2>3. v[i - 1] = x
      BY <1>3, <1>4, <2>1, <2>2
    <2> QED
      BY <2>2, <2>3, Zenon
  <1>11. m \in Nat
    BY <1>3
  <1> HIDE DEF m, v
  <1>12. Order(succ, succ[h], S \ {h}, nil, v, m)
    BY <1>7, <1>8, <1>9, <1>10 DEF Order
  <1> QED
    BY <1>6, <1>11, <1>12 DEF Listed

(* Putting a node in front. *)
LEMMA ListedPush ==
  ASSUME NEW succ, NEW succ2, NEW h, NEW S, NEW nil, Listed(succ, h, S, nil),
         NEW x, x \notin S, succ2[x] = h, \A y \in S : succ2[y] = succ[y]
  PROVE  Listed(succ2, x, S \cup {x}, nil)
  <1>1. PICK n \in Nat : \E w \in [0..n -> S \cup {nil}] : Order(succ, h, S, nil, w, n)
    BY DEF Listed
  <1>2. PICK w \in [0..n -> S \cup {nil}] : Order(succ, h, S, nil, w, n)
    BY <1>1
  <1> DEFINE m == n + 1
             v == [i \in 0..m |-> IF i = 0 THEN x ELSE w[i - 1]]
  <1>3. m \in Nat /\ v[0] = x /\ \A i \in 0..n : i + 1 \in 0..m /\ v[i + 1] = w[i]
    OBVIOUS
  <1>4. v \in [0..m -> (S \cup {x}) \cup {nil}]
    <2>1. \A i \in 0..m : i # 0 => i - 1 \in 0..n
      OBVIOUS
    <2>2. \A i \in 0..m : i # 0 => w[i - 1] \in S \cup {nil}
      BY <2>1
    <2> QED
      BY <2>2
  <1>5. \A i \in 1..n : i - 1 \in 0..(n - 1) /\ v[i] = w[i - 1] /\ v[i] \in S
    BY <1>2 DEF Order
  <1>6. \A i \in 0..(m - 1) : v[i] \in S \cup {x} /\ succ2[v[i]] = v[i + 1]
    <2> SUFFICES ASSUME NEW i \in 0..(m - 1) PROVE v[i] \in S \cup {x} /\ succ2[v[i]] = v[i + 1]
      BY Zenon
    <2>1. CASE i = 0
      BY <1>2, <1>3, <2>1 DEF Order
    <2>2. CASE i \in 1..n
      <3>1. i - 1 \in 0..(n - 1) /\ v[i] = w[i - 1] /\ v[i] \in S
        BY <1>5, <2>2, Zenon
      <3>2. succ2[v[i]] = w[(i - 1) + 1] /\ (i - 1) + 1 = i
        <4>1. succ[w[i - 1]] = w[(i - 1) + 1]
          BY <1>2, <3>1, Zenon DEF Order
        <4> HIDE DEF v
        <4> QED
          BY <3>1, <4>1
      <3>3. v[i + 1] = w[i]
        BY <1>3, <2>2
      <3> QED
        BY <3>1, <3>2, <3>3
    <2> QED
      BY <2>1, <2>2
  <1>7. \A i, j \in 0..(m - 1) : v[i] = v[j] => i = j
    <2> SUFFICES ASSUME NEW i \in 0..(m - 1), NEW j \in 0..(m - 1), v[i] = v[j] PROVE i = j
      BY Zenon
    <2>1. (i = 0 \/ i \in 1..n) /\ (j = 0 \/ j \in 1..n)
      OBVIOUS
    <2>2. CASE i \in 1..n /\ j \in 1..n
      <3>1. w[i - 1] = w[j - 1] /\ i - 1 \in 0..(n - 1) /\ j - 1 \in 0..(n - 1)
        BY <1>5, <2>2
      <3>2. i - 1 = j - 1
        BY <1>2, <3>1 DEF Order
      <3> QED
        BY <3>2
    <2> HIDE DEF v
    <2> QED
      BY <1>3, <1>5, <2>1, <2>2
  <1>8. \A y \in S \cup {x} : \E i \in 0..(m - 1) : v[i] = y
    <2> SUFFICES ASSUME NEW y \in S \cup {x} PROVE \E i \in 0..(m - 1) : v[i] = y
      BY Zenon
    <2>1. CASE y \in S
      <3>1. PICK i \in 0..(n - 1) : w[i] = y
        BY <1>2, <2>1 DEF Order
      <3>2. i + 1 \in 0..(m - 1) /\ v[i + 1] = y
        BY <1>3, <3>1
      <3> QED
        BY <3>2, Zenon
    <2>2. CASE y = x
      BY <1>3, <2>2
    <2> QED
      BY <2>1, <2>2, Zenon
  <1>9. v[m] = nil
    BY <1>2, <1>3 DEF Order
  <1>10. m \in Nat /\ v[0] = x
    BY <1>3
  <1> HIDE DEF m, v
  <1>11. Order(succ2, x, S \cup {x}, nil, v, m)
    BY <1>6, <1>7, <1>8, <1>9, <1>10 DEF Order
  <1> QED
    BY <1>4, <1>10, <1>11 DEF Listed

(* Taking a node out behind its predecessor. *)
LEMMA ListedCut ==
  ASSUME NEW succ, NEW succ2, NEW h, NEW S, NEW nil, nil \notin S, Listed(succ, h, S, nil),
         NEW p \in S, NEW x \in S, succ[p] = x, succ2[p] = succ[x], \A y \in S \ {p} : succ2[y] = succ[y]
  PROVE  Listed(succ2, h, S \ {x}, nil)
  <1>1. PICK n \in Nat : \E w \in [0..n -> S \cup {nil}] : Order(succ, h, S, nil, w, n)
    BY DEF Listed
  <1>2. PICK w \in [0..n -> S \cup {nil}] : Order(succ, h, S, nil, w, n)
    BY <1>1
  <1>3. PICK k \in 0..(n - 1) : w[k] = p
    BY <1>2 DEF Order
  <1>4. w[k + 1] = x /\ k + 1 \in 0..(n - 1)
    BY <1>2, <1>3 DEF Order
  <1> DEFINE m == n - 1
             v == [i \in 0..m |-> IF i <= k THEN w[i] ELSE w[i + 1]]
  <1>5. m \in Nat /\ k \in 0..(m - 1) /\ n = m + 1 /\ k + 1 \in 0..m
    BY <1>4
  <1>6. /\ \A i \in 0..k : v[i] = w[i]
        /\ \A i \in (k + 1)..m : v[i] = w[i + 1]
    BY <1>5
  <1>7. \A i \in 0..(n - 1) : w[i] = x => i = k + 1
    BY <1>2, <1>4 DEF Order
  <1> HIDE DEF v, m
  <1>8. \A i \in 0..(m - 1) : v[i] \in S \ {x}
    <2> TAKE i \in 0..(m - 1)
    <2>1. CASE i <= k
      BY <1>2, <1>5, <1>6, <1>7, <2>1 DEF Order
    <2>2. CASE i > k
      <3>1. i + 1 \in 0..(n - 1) /\ v[i] = w[i + 1] /\ i + 1 # k + 1
        BY <1>5, <1>6, <2>2
      <3> QED
        BY <1>2, <1>7, <3>1 DEF Order
    <2> QED
      BY <1>5, <2>1, <2>2
  <1>9. v[0] = h /\ v[m] = nil
    <2>1. 0 \in 0..k /\ m \in (k + 1)..m /\ m + 1 = n
      BY <1>5
    <2> QED
      BY <1>2, <1>6, <2>1, Zenon DEF Order
  <1>10. v \in [0..m -> (S \ {x}) \cup {nil}]
    <2>1. \A i \in 0..m : v[i] \in (S \ {x}) \cup {nil}
      BY <1>5, <1>8, <1>9
    <2> QED
      BY <2>1 DEF v
  <1>11. \A i \in 0..(m - 1) : succ2[v[i]] = v[i + 1]
    <2> TAKE i \in 0..(m - 1)
    <2>1. CASE i < k
      <3>1. i \in 0..(n - 1) /\ i \in 0..k /\ i + 1 \in 0..k /\ i # k
        BY <1>5, <2>1
      <3>2. v[i] = w[i] /\ v[i + 1] = w[i + 1]
        BY <1>6, <3>1
      <3>3. w[i] # w[k] /\ w[i] \in S /\ succ[w[i]] = w[i + 1]
        BY <1>2, <3>1, Zenon DEF Order
      <3> QED
        BY <1>3, <3>2, <3>3
    <2>2. CASE i = k
      <3>1. v[i] = p /\ v[i + 1] = w[(i + 1) + 1]
        BY <1>3, <1>5, <1>6, <2>2
      <3>2. succ[w[k + 1]] = w[(k + 1) + 1]
        BY <1>2, <1>4 DEF Order
      <3> QED
        BY <1>4, <2>2, <3>1, <3>2
    <2>3. CASE i > k
      <3>1. i + 1 \in 0..(n - 1) /\ v[i] = w[i + 1] /\ v[i + 1] = w[(i + 1) + 1]
        BY <1>5, <1>6, <2>3
      <3>2. w[i + 1] # p
        BY <1>2, <1>3, <2>3, <3>1 DEF Order
      <3>3. w[i + 1] \in S /\ succ[w[i + 1]] = w[(i + 1) + 1]
        BY <1>2, <3>1, Zenon DEF Order
      <3> QED
        BY <3>1, <3>2, <3>3
    <2> QED
      BY <1>5, <2>1, <2>2, <2>3
  <1>12. \A i, j \in 0..(m - 1) : v[i] = v[j] => i = j
    <2> DEFINE at(i) == IF i <= k THEN i ELSE i + 1
    <2>1. \A i \in 0..(m - 1) : at(i) \in 0..(n - 1) /\ v[i] = w[at(i)]
      BY <1>5, <1>6
    <2>2. \A i, j \in 0..(m - 1) : at(i) = at(j) => i = j
      BY <1>5
    <2> HIDE DEF at
    <2> SUFFICES ASSUME NEW i \in 0..(m - 1), NEW j \in 0..(m - 1), v[i] = v[j] PROVE i = j
      OBVIOUS
    <2>3. at(i) \in 0..(n - 1) /\ at(j) \in 0..(n - 1) /\ w[at(i)] = w[at(j)]
      BY <2>1, Zenon
    <2>4. at(i) = at(j)
      BY <1>2, <2>3, Zenon DEF Order
    <2> QED
      BY <2>2, <2>4, Zenon
  <1>13. \A y \in S \ {x} : \E i \in 0..(m - 1) : v[i] = y
    <2> TAKE y \in S \ {x}
    <2>1. PICK i \in 0..(n - 1) : w[i] = y
      BY <1>2 DEF Order
    <2>2. CASE i <= k
      <3>1. i \in 0..(m - 1) /\ v[i] = y
        BY <1>5, <1>6, <2>1, <2>2
      <3> QED
        BY <3>1
    <2>3. CASE i > k
      <3>1. i # k + 1
        BY <1>4, <2>1
      <3>2. i - 1 \in 0..(m - 1) /\ i - 1 \in (k + 1)..m /\ (i - 1) + 1 = i
        BY <1>5, <2>3, <3>1
      <3>3. v[i - 1] = y
        BY <1>6, <2>1, <3>2
      <3> QED
        BY <3>2, <3>3
    <2> QED
      BY <2>2, <2>3
  <1>14. Order(succ2, h, S \ {x}, nil, v, m)
    BY <1>8, <1>9, <1>11, <1>12, <1>13 DEF Order
  <1> QED
    BY <1>5, <1>10, <1>14 DEF Listed

(* A list has as many nodes as its numbering has numbers. *)
LEMMA OrderCounts ==
  ASSUME NEW succ, NEW h, NEW S, NEW nil, NEW n \in Nat, NEW w \in [0..n -> S \cup {nil}],
         Order(succ, h, S, nil, w, n)
  PROVE  IsFiniteSet(S) /\ Cardinality(S) = n
  <1> DEFINE f == [i \in 1..n |-> w[i - 1]]
  <1>1. \A i \in 1..n : i - 1 \in 0..(n - 1) /\ f[i] = w[i - 1] /\ w[i - 1] \in S
    BY DEF Order
  <1>2. f \in [1..n -> S]
    BY <1>1
  <1>3. \A i, j \in 1..n : f[i] = f[j] => i = j
    <2> SUFFICES ASSUME NEW i \in 1..n, NEW j \in 1..n, f[i] = f[j] PROVE i = j
      OBVIOUS
    <2>1. i - 1 \in 0..(n - 1) /\ j - 1 \in 0..(n - 1) /\ w[i - 1] = w[j - 1]
      BY <1>1
    <2>2. i - 1 = j - 1
      BY <2>1 DEF Order
    <2> QED
      BY <2>2
  <1>4. \A x \in S : \E i \in 1..n : f[i] = x
    <2> TAKE x \in S
    <2>1. PICK i \in 0..(n - 1) : w[i] = x
      BY DEF Order
    <2>2. i + 1 \in 1..n /\ (i + 1) - 1 = i
      OBVIOUS
    <2>3. f[i + 1] = x
      BY <2>1, <2>2
    <2> QED
      BY <2>2, <2>3
  <1> HIDE DEF f
  <1>5. f \in Bijection(1..n, S)
    BY <1>2, <1>3, <1>4 DEF Bijection, Injection, Surjection, IsInjective
  <1>6. ExistsBijection(1..n, S)
    BY <1>5 DEF ExistsBijection
  <1> QED
    BY <1>6, FS_CountingElements, FS_NatBijection

(* The walk along the links is the only function that follows them. *)
Follows(succ, w, n) == \A i \in 1..n : w[i] = succ[w[i - 1]]

LEMMA WalkFollows ==
  ASSUME NEW succ, NEW h, NEW T, NEW n \in Nat, NEW w \in [0..n -> T],
         w[0] = h, Follows(succ, w, n)
  PROVE  Walk(succ, h, n) = w
  <1> DEFINE Fixpoint(v) == v = [i \in 0..n |-> IF i = 0 THEN h ELSE succ[v[i - 1]]]
  <1>1. Fixpoint(w)
    <2>1. \A i \in 0..n : w[i] = IF i = 0 THEN h ELSE succ[w[i - 1]]
      BY DEF Follows
    <2> QED
      BY <2>1
  <1>2. ASSUME NEW v, Fixpoint(v) PROVE v = w
    <2>1. DOMAIN v = 0..n /\ v[0] = h /\ \A i \in 1..n : v[i] = succ[v[i - 1]]
      BY <1>2
    <2>2. v = [i \in 0..n |-> v[i]]
      BY <1>2
    <2> DEFINE D == {i \in 0..n : v[i] # w[i]}
    <2>3. SUFFICES ASSUME D # {} PROVE FALSE
      BY <2>2
    <2>d. D \in SUBSET Nat
      OBVIOUS
    <2>4. PICK k \in D : \A i \in D : k <= i
      <3> HIDE DEF D
      <3> QED
        BY <2>3, <2>d, LeastNumber
    <2>5. k \in 1..n /\ k - 1 \in 0..n /\ k - 1 \notin D
      BY <2>1, <2>4
    <2> QED
      BY <2>1, <2>4, <2>5 DEF Follows
  <1>3. Walk(succ, h, n) = CHOOSE v : Fixpoint(v)
    BY DEF Walk
  <1> HIDE DEF Fixpoint
  <1> QED
    BY <1>1, <1>2, <1>3, Zenon

(* What the properties say of a list. *)
LEMMA ListedChains ==
  ASSUME NEW succ, NEW h, NEW S, NEW nil, Listed(succ, h, S, nil)
  PROVE  Chains(succ, h, S, nil)
  <1>1. PICK n \in Nat : \E w \in [0..n -> S \cup {nil}] : Order(succ, h, S, nil, w, n)
    BY DEF Listed
  <1>2. PICK w \in [0..n -> S \cup {nil}] : Order(succ, h, S, nil, w, n)
    BY <1>1
  <1>3. Cardinality(S) = n
    BY <1>2, OrderCounts
  <1>4. Walk(succ, h, n) = w
    <2>1. w[0] = h
      BY <1>2 DEF Order
    <2>2. ASSUME NEW i \in 1..n PROVE w[i] = succ[w[i - 1]]
      <3>1. i - 1 \in 0..(n - 1) /\ (i - 1) + 1 = i
        OBVIOUS
      <3>2. succ[w[i - 1]] = w[(i - 1) + 1]
        BY <1>2, <3>1, Zenon DEF Order
      <3> QED
        BY <3>1, <3>2
    <2> DEFINE T == S \cup {nil}
    <2>3. w \in [0..n -> T]
      OBVIOUS
    <2> HIDE DEF T
    <2>4. Follows(succ, w, n)
      BY <2>2 DEF Follows
    <2> QED
      BY <2>1, <2>3, <2>4, WalkFollows, Zenon
  <1>5. {w[i] : i \in 0..(n - 1)} = S /\ w[n] = nil
    BY <1>2 DEF Order
  <1> QED
    BY <1>3, <1>4, <1>5, Zenon DEF Chains

LEMMA ListedFinite ==
  ASSUME NEW succ, NEW h, NEW S, NEW nil, Listed(succ, h, S, nil)
  PROVE  IsFiniteSet(S)
  BY OrderCounts DEF Listed

-----------------------------------------------------------------------------
(* Doubly linked lists of slabs *)

Page0 == {0} \cup Page

DList(nx, pv, h, S) ==
  /\ Listed(nx, h, S, 0)
  /\ S # {} => pv[h] = 0
  /\ \A s \in S : nx[s] # 0 => pv[nx[s]] = s

SameLinks(nx, pv, nx2, pv2, S) == \A x \in S : nx2[x] = nx[x] /\ pv2[x] = pv[x]

LEMMA DListFrame ==
  ASSUME NEW nx, NEW pv, NEW nx2, NEW pv2, NEW h, NEW S \in SUBSET Page, DList(nx, pv, h, S),
         SameLinks(nx, pv, nx2, pv2, S)
  PROVE  DList(nx2, pv2, h, S)
  <1>0. \A x \in S : nx2[x] = nx[x] /\ pv2[x] = pv[x]
    BY Zenon DEF SameLinks
  <1>1. Listed(nx, h, S, 0) /\ 0 \notin S
    BY DEF DList, Page
  <1>2. Listed(nx2, h, S, 0)
    BY <1>0, <1>1, ListedFrame
  <1>3. /\ \A x \in S : nx[x] \in S \cup {0}
        /\ S # {} => h \in S
    BY <1>1, ListedLinks, ListedHead
  <1> QED
    BY <1>0, <1>2, <1>3 DEF DList

(* The lists of one cache as its operations see them. *)
Lists(L) == L = [head |-> L.head, next |-> L.next, prev |-> L.prev]
              /\ L.head \in [Kind -> Page0] /\ L.next \in [Page0 -> Page0] /\ L.prev \in [Page0 -> Page0]

(* What taking slab s out of list k, or putting it in, leaves as it was.   *)
SameElsewhere(L, M, k, S) ==
  /\ \A l \in Kind \ {k} : M.head[l] = L.head[l]
  /\ \A x \in Page \ S : M.next[x] = L.next[x] /\ M.prev[x] = L.prev[x]

LEMMA UnlinkList ==
  ASSUME NEW L, Lists(L), NEW k \in Kind, NEW S \in SUBSET Page, DList(L.next, L.prev, L.head[k], S), NEW s \in S
  PROVE  /\ Lists(Unlink(L, k, s))
         /\ DList(Unlink(L, k, s).next, Unlink(L, k, s).prev, Unlink(L, k, s).head[k], S \ {s})
         /\ SameElsewhere(L, Unlink(L, k, s), k, S)
  <1> DEFINE nx == L.next
             pv == L.prev
             h == L.head[k]
             U == Unlink(L, k, s)
  <1>1. L.head \in [Kind -> Page0] /\ nx \in [Page0 -> Page0] /\ pv \in [Page0 -> Page0]
    BY DEF Lists
  <1>2. 0 \notin S /\ S \subseteq Page0 /\ s \in Page0 /\ s # 0
    BY DEF Page, Page0
  <1>3. Listed(nx, h, S, 0) /\ h \in S /\ pv[h] = 0 /\ \A x \in S : nx[x] # 0 => pv[nx[x]] = x
    BY <1>2, ListedHead DEF DList
  <1>4. /\ \A x \in S : nx[x] \in S \cup {0} /\ nx[x] # x /\ nx[x] # h
        /\ \A x, y \in S : nx[x] = nx[y] /\ nx[x] # 0 => x = y
        /\ \A x \in S : x # h => \E p \in S : nx[p] = x
    BY <1>2, <1>3, ListedLinks
  <1>5. /\ U.head = IF pv[s] # 0 THEN L.head ELSE [L.head EXCEPT ![k] = nx[s]]
        /\ U.next = IF pv[s] # 0 THEN [nx EXCEPT ![pv[s]] = nx[s]] ELSE nx
        /\ U.prev = IF nx[s] # 0 THEN [pv EXCEPT ![nx[s]] = pv[s]] ELSE pv
        /\ U = [head |-> U.head, next |-> U.next, prev |-> U.prev]
    BY DEF Unlink
  <1> HIDE DEF nx, pv, h, U
  <1>6. pv[s] \in Page0 /\ nx[s] \in Page0
    BY <1>1, <1>2
  <1>7. Lists(U)
    <2>1. U.head \in [Kind -> Page0]
      BY <1>1, <1>5, <1>6
    <2>2. U.next \in [Page0 -> Page0] /\ U.prev \in [Page0 -> Page0]
      BY <1>1, <1>5, <1>6
    <2> QED
      BY <1>5, <2>1, <2>2 DEF Lists
  <1>8. CASE s = h
    <2>1. U.head = [L.head EXCEPT ![k] = nx[s]] /\ U.next = nx
      BY <1>3, <1>5, <1>8
    <2>2. U.head[k] = nx[s] /\ \A l \in Kind \ {k} : U.head[l] = L.head[l]
      BY <1>1, <2>1
    <2>3. Listed(nx, nx[s], S \ {s}, 0)
      BY <1>2, <1>3, <1>8, ListedPop, Zenon
    <2>4. S \ {s} # {} => nx[s] \in S
      BY <1>2, <2>3, ListedHead
    <2>5. \A x \in Page0 : U.prev[x] = IF x = nx[s] /\ x # 0 THEN 0 ELSE pv[x]
      BY <1>1, <1>3, <1>5, <1>6, <1>8
    <2>6. S \ {s} # {} => U.prev[nx[s]] = 0
      BY <1>2, <2>4, <2>5
    <2>7. \A x \in S \ {s} : nx[x] # 0 => U.prev[nx[x]] = x
      BY <1>2, <1>3, <1>4, <2>5
    <2>8. DList(U.next, U.prev, U.head[k], S \ {s})
      BY <2>1, <2>2, <2>3, <2>6, <2>7 DEF DList
    <2>9. \A x \in Page \ S : U.next[x] = nx[x] /\ U.prev[x] = pv[x]
      BY <1>4, <2>1, <2>5 DEF Page0, Page
    <2> QED
      BY <1>7, <2>2, <2>8, <2>9 DEF SameElsewhere, U, nx, pv
  <1>9. CASE s # h
    <2>1. PICK p \in S : nx[p] = s
      BY <1>4, <1>9
    <2>2. pv[s] = p /\ p # 0 /\ p \in Page0
      BY <1>2, <1>3, <2>1
    <2>3. U.head = L.head /\ U.next = [nx EXCEPT ![p] = nx[s]]
      BY <1>5, <2>2
    <2>4. U.next[p] = nx[s] /\ \A x \in Page0 \ {p} : U.next[x] = nx[x]
      BY <1>1, <2>2, <2>3
    <2>5. Listed(U.next, h, S \ {s}, 0)
      <3>1. \A x \in S \ {p} : U.next[x] = nx[x]
        BY <1>2, <2>4
      <3> QED
        BY <1>2, <1>3, <2>1, <2>4, <3>1, ListedCut
    <2>6. \A x \in Page0 : U.prev[x] = IF x = nx[s] /\ x # 0 THEN p ELSE pv[x]
      BY <1>1, <1>5, <1>6, <2>2
    <2>7. U.prev[h] = 0
      BY <1>2, <1>3, <1>4, <2>6
    <2>8. \A x \in S \ {s} : U.next[x] # 0 => U.prev[U.next[x]] = x
      <3> SUFFICES ASSUME NEW x \in S \ {s}, U.next[x] # 0 PROVE U.prev[U.next[x]] = x
        OBVIOUS
      <3>1. CASE x = p
        BY <1>6, <2>4, <2>6, <3>1
      <3>2. CASE x # p
        BY <1>2, <1>3, <1>4, <2>4, <2>6, <3>2
      <3> QED
        BY <3>1, <3>2
    <2>9. DList(U.next, U.prev, U.head[k], S \ {s})
      BY <2>3, <2>5, <2>7, <2>8 DEF DList, h
    <2>10. \A x \in Page \ S : U.next[x] = nx[x] /\ U.prev[x] = pv[x]
      BY <1>4, <2>4, <2>6 DEF Page0, Page
    <2> QED
      BY <1>7, <2>3, <2>9, <2>10 DEF SameElsewhere, U, nx, pv
  <1> QED
    BY <1>8, <1>9

LEMMA PushList ==
  ASSUME NEW L, Lists(L), NEW k \in Kind, NEW S \in SUBSET Page, DList(L.next, L.prev, L.head[k], S), NEW s \in Page \ S
  PROVE  /\ Lists(Push(L, k, s))
         /\ DList(Push(L, k, s).next, Push(L, k, s).prev, Push(L, k, s).head[k], S \cup {s})
         /\ SameElsewhere(L, Push(L, k, s), k, S \cup {s})
  <1> DEFINE nx == L.next
             pv == L.prev
             h == L.head[k]
             P == Push(L, k, s)
  <1>1. L.head \in [Kind -> Page0] /\ nx \in [Page0 -> Page0] /\ pv \in [Page0 -> Page0]
    BY DEF Lists
  <1>2. 0 \notin S /\ S \subseteq Page0 /\ s \in Page0 /\ s # 0 /\ s \notin S /\ h \in Page0
    BY <1>1 DEF Page, Page0
  <1>3. Listed(nx, h, S, 0) /\ (S # {} => h \in S /\ pv[h] = 0) /\ \A x \in S : nx[x] # 0 => pv[nx[x]] = x
    BY <1>2, ListedHead DEF DList
  <1>4. S = {} => h = 0
    BY <1>2, <1>3, ListedHead
  <1>5. \A x \in S : nx[x] \in S \cup {0} /\ nx[x] # h
    BY <1>2, <1>3, ListedLinks
  <1>6. /\ P.head = [L.head EXCEPT ![k] = s]
        /\ P.next = [nx EXCEPT ![s] = h]
        /\ P.prev = [q \in DOMAIN pv |-> IF q = s THEN 0 ELSE IF q = h /\ h # 0 THEN s ELSE pv[q]]
        /\ P = [head |-> P.head, next |-> P.next, prev |-> P.prev]
    BY DEF Push
  <1> HIDE DEF nx, pv, h, P
  <1>7. P.head[k] = s /\ \A l \in Kind \ {k} : P.head[l] = L.head[l]
    BY <1>1, <1>6
  <1>8. P.next[s] = h /\ \A x \in Page0 \ {s} : P.next[x] = nx[x]
    BY <1>1, <1>2, <1>6
  <1>9. \A x \in Page0 : P.prev[x] = IF x = s THEN 0 ELSE IF x = h /\ h # 0 THEN s ELSE pv[x]
    BY <1>1, <1>6
  <1>10. Lists(P)
    <2>1. P.head \in [Kind -> Page0]
      BY <1>1, <1>2, <1>6
    <2>2. P.next \in [Page0 -> Page0]
      BY <1>1, <1>2, <1>6
    <2>3. P.prev \in [Page0 -> Page0]
      <3>1. DOMAIN pv = Page0 /\ 0 \in Page0 /\ \A q \in Page0 : pv[q] \in Page0
        BY <1>1 DEF Page0
      <3> QED
        BY <1>2, <1>6, <3>1
    <2> QED
      BY <1>6, <2>1, <2>2, <2>3, Zenon DEF Lists
  <1>11. Listed(P.next, s, S \cup {s}, 0)
    <2>1. \A x \in S : P.next[x] = nx[x]
      BY <1>2, <1>8
    <2> QED
      BY <1>2, <1>3, <1>8, <2>1, ListedPush
  <1>12. P.prev[s] = 0
    BY <1>2, <1>9
  <1>13. \A x \in S \cup {s} : P.next[x] # 0 => P.prev[P.next[x]] = x
    <2> SUFFICES ASSUME NEW x \in S \cup {s}, P.next[x] # 0 PROVE P.prev[P.next[x]] = x
      OBVIOUS
    <2>1. CASE x = s
      BY <1>2, <1>3, <1>4, <1>8, <1>9, <2>1
    <2>2. CASE x \in S
      <3>1. P.next[x] = nx[x] /\ nx[x] \in S /\ nx[x] # h
        BY <1>2, <1>5, <1>8, <2>2
      <3> QED
        BY <1>2, <1>3, <1>9, <2>2, <3>1
    <2> QED
      BY <2>1, <2>2
  <1>14. DList(P.next, P.prev, P.head[k], S \cup {s})
    BY <1>7, <1>11, <1>12, <1>13 DEF DList
  <1>15. \A x \in Page \ (S \cup {s}) : P.next[x] = nx[x] /\ P.prev[x] = pv[x]
    BY <1>3, <1>4, <1>8, <1>9 DEF Page0, Page
  <1> QED
    BY <1>7, <1>10, <1>14, <1>15 DEF SameElsewhere, P, nx, pv

-----------------------------------------------------------------------------
(* All lists of the heap: m[c][k] is the set of slabs in list k of cache c.*)

Apart(m) == \A c, d \in Cache : \A k, l \in Kind : m[c][k] \cap m[d][l] # {} => c = d /\ k = l

Members == [Cache -> [Kind -> SUBSET Page]]

AllLists(hd, nx, pv, m) ==
  /\ hd \in [Cache -> [Kind -> Page0]] /\ nx \in [Page0 -> Page0] /\ pv \in [Page0 -> Page0]
  /\ Apart(m)
  /\ \A c \in Cache : \A k \in Kind : DList(nx, pv, hd[c][k], m[c][k])

(* The lists with those of cache c replaced by L. *)
With(hd, c, L, m) == AllLists([hd EXCEPT ![c] = L.head], L.next, L.prev, m)

LEMMA ListsAreLists ==
  ASSUME NEW hd \in [Cache -> [Kind -> Page0]], NEW c \in Cache, NEW L, Lists(L), NEW m \in Members, With(hd, c, L, m)
  PROVE  /\ \A k \in Kind : DList(L.next, L.prev, L.head[k], m[c][k])
         /\ \A d \in Cache \ {c} : \A k \in Kind : DList(L.next, L.prev, hd[d][k], m[d][k])
  <1> DEFINE H == [hd EXCEPT ![c] = L.head]
  <1>1. H[c] = L.head /\ \A d \in Cache \ {c} : H[d] = hd[d]
    OBVIOUS
  <1>2. \A d \in Cache : \A k \in Kind : DList(L.next, L.prev, H[d][k], m[d][k])
    BY DEF With, AllLists
  <1> HIDE DEF H
  <1> QED
    BY <1>1, <1>2

LEMMA WithUnlink ==
  ASSUME NEW hd \in [Cache -> [Kind -> Page0]], NEW c \in Cache, NEW L, Lists(L), NEW m \in Members, With(hd, c, L, m),
         NEW k \in Kind, NEW s \in m[c][k]
  PROVE  /\ Lists(Unlink(L, k, s))
         /\ With(hd, c, Unlink(L, k, s), [m EXCEPT ![c][k] = @ \ {s}])
  <1> DEFINE U == Unlink(L, k, s)
             S == m[c][k]
             M == [m EXCEPT ![c][k] = @ \ {s}]
  <1>1. /\ \A l \in Kind : DList(L.next, L.prev, L.head[l], m[c][l])
        /\ \A d \in Cache \ {c} : \A l \in Kind : DList(L.next, L.prev, hd[d][l], m[d][l])
    BY ListsAreLists
  <1>2. S \in SUBSET Page /\ s \in S /\ \A d \in Cache : \A l \in Kind : m[d][l] \in SUBSET Page
    BY DEF Members
  <1>3. Lists(U) /\ DList(U.next, U.prev, U.head[k], S \ {s}) /\ SameElsewhere(L, U, k, S)
    BY <1>1, <1>2, UnlinkList, ZenonT(30)
  <1>4. /\ M[c][k] = S \ {s}
        /\ \A l \in Kind \ {k} : M[c][l] = m[c][l]
        /\ \A d \in Cache \ {c} : M[d] = m[d]
    BY DEF Members
  <1>5. Apart(m)
    BY DEF With, AllLists
  <1> HIDE DEF U, S, M
  <1>6. \A d \in Cache : \A l \in Kind : (d # c \/ l # k) => \A x \in m[d][l] : x \in Page \ S
    BY <1>2, <1>5 DEF Apart, S
  <1>7. \A d \in Cache : \A l \in Kind : (d # c \/ l # k) => \A x \in m[d][l] : U.next[x] = L.next[x] /\ U.prev[x] = L.prev[x]
    BY <1>3, <1>6 DEF SameElsewhere
  <1>8. ASSUME NEW l \in Kind PROVE DList(U.next, U.prev, U.head[l], M[c][l])
    <2>1. CASE l = k
      BY <1>3, <1>4, <2>1, ZenonT(30)
    <2>2. CASE l # k
      <3>1. U.head[l] = L.head[l] /\ M[c][l] = m[c][l]
        BY <1>3, <1>4, <2>2 DEF SameElsewhere
      <3>2. DList(U.next, U.prev, L.head[l], m[c][l])
        <4>1. SameLinks(L.next, L.prev, U.next, U.prev, m[c][l])
          BY <1>7, <2>2, Zenon DEF SameLinks
        <4> QED
          BY <1>1, <1>2, <4>1, DListFrame, Zenon
      <3> QED
        BY <3>1, <3>2
    <2> QED
      BY <2>1, <2>2
  <1>9. ASSUME NEW d \in Cache \ {c}, NEW l \in Kind PROVE DList(U.next, U.prev, hd[d][l], M[d][l])
    <2>1. DList(U.next, U.prev, hd[d][l], m[d][l])
      <3>1. SameLinks(L.next, L.prev, U.next, U.prev, m[d][l])
        BY <1>7, Zenon DEF SameLinks
      <3> QED
        BY <1>1, <1>2, <3>1, DListFrame, Zenon
    <2> QED
      BY <1>4, <2>1
  <1>10. Apart(M)
    <2>1. \A d \in Cache : \A l \in Kind : M[d][l] \subseteq m[d][l]
      BY <1>4 DEF S
    <2> QED
      BY <1>5, <2>1 DEF Apart
  <1>11. With(hd, c, U, M)
    BY <1>3, <1>8, <1>9, <1>10 DEF With, AllLists, Lists
  <1> QED
    BY <1>3, <1>11 DEF U, M

LEMMA WithPush ==
  ASSUME NEW hd \in [Cache -> [Kind -> Page0]], NEW c \in Cache, NEW L, Lists(L), NEW m \in Members, With(hd, c, L, m),
         NEW k \in Kind, NEW s \in Page, \A d \in Cache : \A l \in Kind : s \notin m[d][l]
  PROVE  /\ Lists(Push(L, k, s))
         /\ With(hd, c, Push(L, k, s), [m EXCEPT ![c][k] = @ \cup {s}])
  <1> DEFINE P == Push(L, k, s)
             S == m[c][k]
             M == [m EXCEPT ![c][k] = @ \cup {s}]
  <1>1. /\ \A l \in Kind : DList(L.next, L.prev, L.head[l], m[c][l])
        /\ \A d \in Cache \ {c} : \A l \in Kind : DList(L.next, L.prev, hd[d][l], m[d][l])
    BY ListsAreLists
  <1>2. S \in SUBSET Page /\ s \in Page \ S /\ \A d \in Cache : \A l \in Kind : m[d][l] \in SUBSET Page
    BY DEF Members
  <1>3. Lists(P) /\ DList(P.next, P.prev, P.head[k], S \cup {s}) /\ SameElsewhere(L, P, k, S \cup {s})
    BY <1>1, <1>2, PushList, ZenonT(30)
  <1>4. /\ M[c][k] = S \cup {s}
        /\ \A l \in Kind \ {k} : M[c][l] = m[c][l]
        /\ \A d \in Cache \ {c} : M[d] = m[d]
    BY DEF Members
  <1>5. Apart(m)
    BY DEF With, AllLists
  <1> HIDE DEF P, S, M
  <1>6. \A d \in Cache : \A l \in Kind : (d # c \/ l # k) => \A x \in m[d][l] : x \in Page \ (S \cup {s})
    BY <1>2, <1>5 DEF Apart, S
  <1>7. \A d \in Cache : \A l \in Kind : (d # c \/ l # k) => \A x \in m[d][l] : P.next[x] = L.next[x] /\ P.prev[x] = L.prev[x]
    BY <1>3, <1>6 DEF SameElsewhere
  <1>8. ASSUME NEW l \in Kind PROVE DList(P.next, P.prev, P.head[l], M[c][l])
    <2>1. CASE l = k
      BY <1>3, <1>4, <2>1, ZenonT(30)
    <2>2. CASE l # k
      <3>1. P.head[l] = L.head[l] /\ M[c][l] = m[c][l]
        BY <1>3, <1>4, <2>2 DEF SameElsewhere
      <3>2. DList(P.next, P.prev, L.head[l], m[c][l])
        <4>1. SameLinks(L.next, L.prev, P.next, P.prev, m[c][l])
          BY <1>7, <2>2, Zenon DEF SameLinks
        <4> QED
          BY <1>1, <1>2, <4>1, DListFrame, Zenon
      <3> QED
        BY <3>1, <3>2
    <2> QED
      BY <2>1, <2>2
  <1>9. ASSUME NEW d \in Cache \ {c}, NEW l \in Kind PROVE DList(P.next, P.prev, hd[d][l], M[d][l])
    <2>1. DList(P.next, P.prev, hd[d][l], m[d][l])
      <3>1. SameLinks(L.next, L.prev, P.next, P.prev, m[d][l])
        BY <1>7, Zenon DEF SameLinks
      <3> QED
        BY <1>1, <1>2, <3>1, DListFrame, Zenon
    <2> QED
      BY <1>4, <2>1
  <1>10. Apart(M)
    <2>1. \A d \in Cache : \A l \in Kind : \A x \in M[d][l] : x \in m[d][l] \/ (x = s /\ d = c /\ l = k)
      BY <1>4 DEF S
    <2> SUFFICES ASSUME NEW d \in Cache, NEW e \in Cache, NEW l \in Kind, NEW j \in Kind,
                        NEW x, x \in M[d][l], x \in M[e][j]
                 PROVE  d = e /\ l = j
      BY Zenon DEF Apart
    <2>2. /\ x \in m[d][l] \/ (x = s /\ d = c /\ l = k)
          /\ x \in m[e][j] \/ (x = s /\ e = c /\ j = k)
          /\ s \notin m[d][l] /\ s \notin m[e][j]
      BY <2>1, Zenon
    <2>3. x \in m[d][l] /\ x \in m[e][j] => d = e /\ l = j
      BY <1>5, Zenon DEF Apart
    <2> QED
      BY <2>2, <2>3, Zenon
  <1>11. With(hd, c, P, M)
    BY <1>3, <1>8, <1>9, <1>10 DEF With, AllLists, Lists
  <1> QED
    BY <1>3, <1>11 DEF P, M

(* Taking the first slab of the empty list is taking it out. *)
LEMMA PopIsUnlink ==
  ASSUME NEW L, Lists(L), NEW S \in SUBSET Page, DList(L.next, L.prev, L.head["empty"], S), S # {}
  PROVE  /\ L.head["empty"] \in S
         /\ PopEmpty(L) = Unlink(L, "empty", L.head["empty"])
  <1>1. 0 \notin S
    BY DEF Page
  <1>2. L.head["empty"] \in S /\ L.prev[L.head["empty"]] = 0
    BY <1>1, ListedHead DEF DList
  <1> QED
    BY <1>2 DEF PopEmpty, Unlink

-----------------------------------------------------------------------------
(* Where the slabs are *)

KindIn(ca, fc, p) == IF fc[p] = 0 THEN "full" ELSE IF fc[p] = Capacity[ca[p]] THEN "empty" ELSE "partial"

(* The slabs other than s. *)
Others(ca, fc, s, d, l) == {p \in Page \ {s} : ca[p] = d /\ KindIn(ca, fc, p) = l}

(* The members of the lists with slab s in none, and in list k of cache c. *)
Absent(ca, fc, s) == [d \in Cache |-> [l \in Kind |-> Others(ca, fc, s, d, l)]]
PlacedAt(ca, fc, s, c, k) ==
  [d \in Cache |-> [l \in Kind |-> IF d = c /\ l = k THEN Others(ca, fc, s, d, l) \cup {s} ELSE Others(ca, fc, s, d, l)]]

(* The lists hold the slabs by how many of their objects are free. *)
InLists(ca, fc) == [d \in Cache |-> [l \in Kind |-> {p \in Page : ca[p] = d /\ KindIn(ca, fc, p) = l}]]

LEMMA SameMembers ==
  ASSUME NEW X \in Members, NEW Y \in Members, \A d \in Cache : \A l \in Kind : X[d][l] = Y[d][l]
  PROVE  X = Y
  <1>1. ASSUME NEW d \in Cache PROVE X[d] = Y[d]
    <2>1. X[d] \in [Kind -> SUBSET Page] /\ Y[d] \in [Kind -> SUBSET Page]
      BY DEF Members
    <2> QED
      BY <2>1
  <1> QED
    BY <1>1 DEF Members

LEMMA MembersTypes ==
  ASSUME NEW ca, NEW fc, NEW s \in Page, NEW c \in Cache, NEW k \in Kind
  PROVE  /\ Absent(ca, fc, s) \in Members /\ PlacedAt(ca, fc, s, c, k) \in Members
         /\ s \in PlacedAt(ca, fc, s, c, k)[c][k]
         /\ \A d \in Cache : \A l \in Kind : s \notin Absent(ca, fc, s)[d][l]
         /\ [PlacedAt(ca, fc, s, c, k) EXCEPT ![c][k] = @ \ {s}] = Absent(ca, fc, s)
         /\ [Absent(ca, fc, s) EXCEPT ![c][k] = @ \cup {s}] = PlacedAt(ca, fc, s, c, k)
  <1>1. \A d \in Cache : \A l \in Kind : Others(ca, fc, s, d, l) \in SUBSET Page /\ s \notin Others(ca, fc, s, d, l)
    BY DEF Others
  <1>2. Absent(ca, fc, s) \in Members /\ PlacedAt(ca, fc, s, c, k) \in Members
    BY <1>1 DEF Absent, PlacedAt, Members
  <1>3. \A d \in Cache : \A l \in Kind : Absent(ca, fc, s)[d][l] = Others(ca, fc, s, d, l)
    BY DEF Absent
  <1>4. \A d \in Cache : \A l \in Kind :
          PlacedAt(ca, fc, s, c, k)[d][l] = IF d = c /\ l = k THEN Others(ca, fc, s, d, l) \cup {s} ELSE Others(ca, fc, s, d, l)
    BY DEF PlacedAt
  <1> DEFINE A == Absent(ca, fc, s)
             B == PlacedAt(ca, fc, s, c, k)
  <1> HIDE DEF A, B
  <1>5. /\ A \in Members /\ B \in Members
        /\ \A d \in Cache : \A l \in Kind : A[d][l] = Others(ca, fc, s, d, l)
        /\ \A d \in Cache : \A l \in Kind :
             B[d][l] = IF d = c /\ l = k THEN Others(ca, fc, s, d, l) \cup {s} ELSE Others(ca, fc, s, d, l)
    BY <1>2, <1>3, <1>4 DEF A, B
  <1>6. [B EXCEPT ![c][k] = @ \ {s}] = A
    <2> DEFINE X == [B EXCEPT ![c][k] = @ \ {s}]
    <2>1. X \in Members
      BY <1>5 DEF Members
    <2>2. \A d \in Cache : \A l \in Kind : X[d][l] = IF d = c /\ l = k THEN B[d][l] \ {s} ELSE B[d][l]
      BY <1>5, Zenon DEF Members
    <2> HIDE DEF X
    <2>3. \A d \in Cache : \A l \in Kind : X[d][l] = A[d][l]
      <3> TAKE d \in Cache
      <3> TAKE l \in Kind
      <3>1. CASE d = c /\ l = k
        <4>1. X[d][l] = (Others(ca, fc, s, d, l) \cup {s}) \ {s} /\ A[d][l] = Others(ca, fc, s, d, l)
          BY <1>5, <2>2, <3>1, Zenon
        <4> QED
          BY <1>1, <4>1
      <3>2. CASE ~(d = c /\ l = k)
        BY <1>5, <2>2, <3>2, ZenonT(30)
      <3> QED
        BY <3>1, <3>2
    <2>4. X = A
      BY <1>5, <2>1, <2>3, SameMembers
    <2> QED
      BY <2>4 DEF X
  <1>7. [A EXCEPT ![c][k] = @ \cup {s}] = B
    <2> DEFINE X == [A EXCEPT ![c][k] = @ \cup {s}]
    <2>1. X \in Members
      BY <1>5 DEF Members
    <2>2. \A d \in Cache : \A l \in Kind : X[d][l] = IF d = c /\ l = k THEN A[d][l] \cup {s} ELSE A[d][l]
      BY <1>5, Zenon DEF Members
    <2> HIDE DEF X
    <2>3. \A d \in Cache : \A l \in Kind : X[d][l] = B[d][l]
      BY <1>5, <2>2, ZenonT(30)
    <2>4. X = B
      BY <1>5, <2>1, <2>3, SameMembers
    <2> QED
      BY <2>4 DEF X
  <1> QED
    BY <1>1, <1>2, <1>3, <1>4, <1>6, <1>7, ZenonT(30) DEF A, B

LEMMA TakeOut ==
  ASSUME NEW hd \in [Cache -> [Kind -> Page0]], NEW c \in Cache, NEW L, Lists(L),
         NEW ca, NEW fc, NEW s \in Page, NEW k \in Kind,
         With(hd, c, L, PlacedAt(ca, fc, s, c, k))
  PROVE  Lists(Unlink(L, k, s)) /\ With(hd, c, Unlink(L, k, s), Absent(ca, fc, s))
  <1> DEFINE m == PlacedAt(ca, fc, s, c, k)
  <1>1. m \in Members /\ s \in m[c][k] /\ [m EXCEPT ![c][k] = @ \ {s}] = Absent(ca, fc, s) /\ With(hd, c, L, m)
    BY MembersTypes
  <1> HIDE DEF m
  <1>2. Lists(Unlink(L, k, s)) /\ With(hd, c, Unlink(L, k, s), [m EXCEPT ![c][k] = @ \ {s}])
    BY <1>1, WithUnlink, ZenonT(30)
  <1> QED
    BY <1>1, <1>2, Zenon

LEMMA PutIn ==
  ASSUME NEW hd \in [Cache -> [Kind -> Page0]], NEW c \in Cache, NEW L, Lists(L),
         NEW ca, NEW fc, NEW s \in Page, NEW k \in Kind,
         With(hd, c, L, Absent(ca, fc, s))
  PROVE  Lists(Push(L, k, s)) /\ With(hd, c, Push(L, k, s), PlacedAt(ca, fc, s, c, k))
  <1> DEFINE m == Absent(ca, fc, s)
  <1>1. /\ m \in Members /\ \A d \in Cache : \A l \in Kind : s \notin m[d][l]
        /\ [m EXCEPT ![c][k] = @ \cup {s}] = PlacedAt(ca, fc, s, c, k) /\ With(hd, c, L, m)
    BY MembersTypes
  <1> HIDE DEF m
  <1>2. Lists(Push(L, k, s)) /\ With(hd, c, Push(L, k, s), [m EXCEPT ![c][k] = @ \cup {s}])
    BY <1>1, WithPush, ZenonT(30)
  <1> QED
    BY <1>1, <1>2, Zenon

(* Each slab is in the one list where it belongs. *)
LEMMA InListsOf ==
  ASSUME NEW s \in Page, NEW ca \in [Page -> {0} \cup Cache], NEW fc
  PROVE  /\ ca[s] # 0 => ca[s] \in Cache /\ InLists(ca, fc) = PlacedAt(ca, fc, s, ca[s], KindIn(ca, fc, s))
         /\ ca[s] = 0 => InLists(ca, fc) = Absent(ca, fc, s)
  <1>1. \A d \in Cache : d # 0
    BY DEF Cache
  <1>2. \A d \in Cache : \A l \in Kind :
          {p \in Page : ca[p] = d /\ KindIn(ca, fc, p) = l} =
            IF ca[s] = d /\ KindIn(ca, fc, s) = l THEN Others(ca, fc, s, d, l) \cup {s} ELSE Others(ca, fc, s, d, l)
    BY DEF Others
  <1>3. CASE ca[s] # 0
    BY <1>2, <1>3 DEF InLists, PlacedAt
  <1>4. CASE ca[s] = 0
    BY <1>1, <1>2, <1>4 DEF InLists, Absent
  <1> QED
    BY <1>3, <1>4

(* What happens to s leaves the places of the others as they are. *)
SameBut(s, ca, fc, ca2, fc2) == \A p \in Page \ {s} : ca2[p] = ca[p] /\ fc2[p] = fc[p]

LEMMA OthersStay ==
  ASSUME NEW s \in Page, NEW ca, NEW fc, NEW ca2, NEW fc2, NEW c \in Cache, NEW k \in Kind,
         SameBut(s, ca, fc, ca2, fc2)
  PROVE  PlacedAt(ca2, fc2, s, c, k) = PlacedAt(ca, fc, s, c, k) /\ Absent(ca2, fc2, s) = Absent(ca, fc, s)
  <1>1. \A d, l : Others(ca2, fc2, s, d, l) = Others(ca, fc, s, d, l)
    BY DEF Others, KindIn, SameBut
  <1>2. \A d \in Cache : \A l \in Kind :
          /\ PlacedAt(ca2, fc2, s, c, k)[d][l] = PlacedAt(ca, fc, s, c, k)[d][l]
          /\ Absent(ca2, fc2, s)[d][l] = Absent(ca, fc, s)[d][l]
    BY <1>1, Zenon DEF PlacedAt, Absent
  <1>3. /\ Absent(ca, fc, s) \in Members /\ PlacedAt(ca, fc, s, c, k) \in Members
        /\ Absent(ca2, fc2, s) \in Members /\ PlacedAt(ca2, fc2, s, c, k) \in Members
    BY MembersTypes
  <1> QED
    BY <1>2, <1>3, SameMembers

(* s, and only s, is now in the list k of cache c. *)
Moves(s, c, k, ca, fc, ca2, fc2) ==
  /\ SameBut(s, ca, fc, ca2, fc2) /\ ca2 \in [Page -> {0} \cup Cache]
  /\ s \in Page /\ c \in Cache /\ k \in Kind
  /\ ca2[s] = c /\ ca2[s] # 0 /\ KindIn(ca2, fc2, s) = k

LEMMA MovedOne ==
  ASSUME NEW s, NEW ca, NEW fc, NEW ca2, NEW fc2, NEW c, NEW k, Moves(s, c, k, ca, fc, ca2, fc2),
         NEW hd, NEW X, With(hd, c, X, PlacedAt(ca, fc, s, c, k))
  PROVE  With(hd, c, X, InLists(ca2, fc2))
  <1>1. PlacedAt(ca2, fc2, s, c, k) = PlacedAt(ca, fc, s, c, k)
    BY OthersStay DEF Moves
  <1> QED
    BY <1>1, InListsOf DEF Moves

-----------------------------------------------------------------------------
(* Objects *)

LEMMA LargestCapacity == MaxCapacity \in Nat /\ \A c \in Cache : Capacity[c] \in Nat \ {0} /\ Capacity[c] <= MaxCapacity
  <1>1. \A c \in Cache : Capacity[c] \in Nat \ {0}
    BY HeapAssumption
  <1>2. NUM_CACHES \in Nat \ {0} /\ Cache = 1..NUM_CACHES
    BY HeapAssumption DEF Cache
  <1> DEFINE Largest(k, c) == \A d \in 1..k : Capacity[d] <= Capacity[c]
             D == {k \in 1..NUM_CACHES : ~ \E c \in 1..k : Largest(k, c)}
  <1>3. D = {}
    <2>1. SUFFICES ASSUME D # {} PROVE FALSE
      OBVIOUS
    <2>2. D \in SUBSET Nat
      BY <1>2
    <2>3. PICK k \in D : \A j \in D : k <= j
      <3> HIDE DEF D
      <3> QED
        BY <2>1, <2>2, LeastNumber
    <2>4. k \in 1..NUM_CACHES /\ k \in Cache
      BY <1>2
    <2>5. CASE k = 1
      <3>1. Largest(1, 1)
        BY <1>1, <1>2
      <3> QED
        BY <2>3, <2>5, <3>1
    <2>6. CASE k # 1
      <3>1. k - 1 \in 1..NUM_CACHES /\ k - 1 \notin D
        <4> HIDE DEF D
        <4> QED
          BY <1>2, <2>3, <2>4, <2>6
      <3>2. PICK c \in 1..(k - 1) : Largest(k - 1, c)
        BY <3>1
      <3>3. c \in Cache /\ Capacity[c] \in Nat /\ Capacity[k] \in Nat /\ c \in 1..k /\ k \in 1..k
        <4> HIDE DEF D, Largest
        <4>1. c \in 1..NUM_CACHES /\ c \in 1..k /\ k \in 1..k
          BY <1>2, <2>4
        <4> QED
          BY <1>1, <1>2, <2>4, <4>1
      <3>4. CASE Capacity[k] <= Capacity[c]
        <4>1. Largest(k, c)
          BY <2>4, <3>2, <3>4
        <4> QED
          BY <2>3, <3>3, <4>1
      <3>5. CASE Capacity[c] < Capacity[k]
        <4>1. \A d \in 1..(k - 1) : Capacity[d] \in Nat /\ Capacity[d] <= Capacity[c]
          <5>1. \A d \in 1..(k - 1) : d \in Cache
            <6> HIDE DEF D
            <6> QED
              BY <1>2, <2>4
          <5> QED
            BY <1>1, <3>2, <5>1
        <4>2. Largest(k, k)
          BY <2>4, <3>3, <3>5, <4>1
        <4> QED
          BY <2>3, <3>3, <4>2
      <3> QED
        BY <3>3, <3>4, <3>5
    <2> QED
      BY <2>5, <2>6
  <1>4. PICK c \in Cache : \A d \in Cache : Capacity[d] <= Capacity[c]
    <2>1. NUM_CACHES \in 1..NUM_CACHES /\ NUM_CACHES \notin D
      <3> HIDE DEF D
      <3> QED
        BY <1>2, <1>3
    <2> QED
      BY <1>2, <2>1
  <1>5. \E n \in {Capacity[e] : e \in Cache} : \A d \in Cache : Capacity[d] <= n
    BY <1>4
  <1>6. MaxCapacity \in {Capacity[e] : e \in Cache} /\ \A d \in Cache : Capacity[d] <= MaxCapacity
    BY <1>5 DEF MaxCapacity
  <1> QED
    BY <1>1, <1>6

(* The objects of slab s that nobody holds. *)
AllOf(ca, s) == {s} \X (1..Capacity[ca[s]])
FreeOf(ca, hl, s) == AllOf(ca, s) \ hl

LEMMA ObjectCount ==
  ASSUME NEW s \in Page, NEW ca \in [Page -> {0} \cup Cache], ca[s] # 0
  PROVE  /\ IsFiniteSet(AllOf(ca, s)) /\ Cardinality(AllOf(ca, s)) = Capacity[ca[s]]
         /\ AllOf(ca, s) \subseteq Object /\ Nil \notin AllOf(ca, s)
  <1> DEFINE C == Capacity[ca[s]]
             f == [i \in 1..C |-> <<s, i>>]
  <1>1. C \in Nat /\ C <= MaxCapacity /\ MaxCapacity \in Nat
    BY LargestCapacity
  <1>2. AllOf(ca, s) = {s} \X (1..C)
    BY DEF AllOf
  <1> HIDE DEF C
  <1>3. f \in Bijection(1..C, {s} \X (1..C))
    BY <1>1 DEF Bijection, Injection, Surjection, IsInjective
  <1>4. ExistsBijection(1..C, {s} \X (1..C))
    BY <1>3, ZenonT(30) DEF ExistsBijection
  <1>5. IsFiniteSet({s} \X (1..C)) /\ Cardinality({s} \X (1..C)) = C
    BY <1>1, <1>4, FS_CountingElements, FS_NatBijection
  <1>6. {s} \X (1..C) \subseteq Object
    BY <1>1 DEF Object
  <1>7. Nil \notin {s} \X (1..C)
    BY DEF Nil, Page
  <1> QED
    BY <1>2, <1>5, <1>6, <1>7 DEF C

LEMMA FreeCount ==
  ASSUME NEW s \in Page, NEW ca \in [Page -> {0} \cup Cache], ca[s] # 0, NEW hl
  PROVE  /\ IsFiniteSet(FreeOf(ca, hl, s)) /\ Cardinality(FreeOf(ca, hl, s)) \in 0..Capacity[ca[s]]
         /\ FreeOf(ca, hl, s) \subseteq Object /\ Nil \notin FreeOf(ca, hl, s)
         /\ Cardinality(FreeOf(ca, hl, s)) = 0 <=> FreeOf(ca, hl, s) = {}
         /\ Cardinality(FreeOf(ca, hl, s)) = Capacity[ca[s]] => FreeOf(ca, hl, s) = AllOf(ca, s)
         /\ Cardinality(FreeOf(ca, hl, s)) \in 0..MaxCapacity
  <1> DEFINE A == AllOf(ca, s)
             F == FreeOf(ca, hl, s)
             C == Capacity[ca[s]]
  <1>1. IsFiniteSet(A) /\ Cardinality(A) = C /\ A \subseteq Object /\ Nil \notin A
    BY ObjectCount
  <1>2. F \in SUBSET A
    BY DEF FreeOf
  <1>3. C \in Nat /\ C <= MaxCapacity /\ MaxCapacity \in Nat
    BY LargestCapacity
  <1> HIDE DEF A, F, C
  <1>4. IsFiniteSet(F) /\ Cardinality(F) <= Cardinality(A) /\ (Cardinality(A) = Cardinality(F) => A = F)
    BY <1>1, <1>2, FS_Subset
  <1>5. Cardinality(F) \in Nat
    BY <1>4, FS_CardinalityType
  <1>6. Cardinality(F) = 0 <=> F = {}
    BY <1>4, FS_EmptySet
  <1>7. Cardinality(F) \in 0..C /\ Cardinality(F) \in 0..MaxCapacity
    BY <1>1, <1>3, <1>4, <1>5
  <1>8. F \subseteq Object /\ Nil \notin F
    BY <1>1, <1>2
  <1> QED
    BY <1>1, <1>4, <1>6, <1>7, <1>8 DEF A, F, C

-----------------------------------------------------------------------------
(* The invariant *)

FreeOk(ca, hl, fl, fc, lk, s) ==
  Listed(lk, fl[s], FreeOf(ca, hl, s), Nil) /\ fc[s] = Cardinality(FreeOf(ca, hl, s))

AllFreeOk(ca, hl, fl, fc, lk) == \A s \in Page : ca[s] # 0 => FreeOk(ca, hl, fl, fc, lk, s)

HeldOk(ca, hl) == \A o \in hl : ca[o[1]] # 0 /\ o \in AllOf(ca, o[1])

(* The lists are numbered along their links, a slab in the list its count  *)
(* asks for and an object in the free list of its slab, and what is held   *)
(* are objects of slabs.                                                   *)
HeapInv ==
  /\ TypeOK
  /\ AllLists(head, next, prev, InLists(cache, free_count))
  /\ AllFreeOk(cache, held, free_list, free_count, link)
  /\ HeldOk(cache, held)
  /\ PagesHaveOneUse

(* What the steps of kmalloc and kfree owe the invariant, pages aside. *)
SlabsKept ==
  /\ AllLists(head', next', prev', InLists(cache', free_count'))
  /\ AllFreeOk(cache', held', free_list', free_count', link')
  /\ HeldOk(cache', held')
  /\ free_list' \in [Page -> {Nil} \cup Object] /\ free_count' \in [Page -> 0..MaxCapacity]
  /\ link' \in [{Nil} \cup Object -> {Nil} \cup Object] /\ held' \subseteq Object

LEMMA ListsTypes ==
  ASSUME NEW hd, NEW nx, NEW pv, NEW m, AllLists(hd, nx, pv, m)
  PROVE  hd \in [Cache -> [Kind -> {0} \cup Page]] /\ nx \in [{0} \cup Page -> {0} \cup Page] /\ pv \in [{0} \cup Page -> {0} \cup Page]
  BY Zenon DEF AllLists, Page0

(* A step that leaves slab p alone. *)
LEMMA FreeStays ==
  ASSUME NEW p \in Page, NEW ca, NEW hl, NEW fl, NEW fc, NEW lk, FreeOk(ca, hl, fl, fc, lk, p),
         NEW ca2, NEW hl2, NEW fl2, NEW fc2, NEW lk2,
         ca2[p] = ca[p], fl2[p] = fl[p], fc2[p] = fc[p],
         FreeOf(ca2, hl2, p) = FreeOf(ca, hl, p), \A o \in FreeOf(ca, hl, p) : lk2[o] = lk[o]
  PROVE  FreeOk(ca2, hl2, fl2, fc2, lk2, p)
  <1> DEFINE F == FreeOf(ca, hl, p)
  <1>1. Listed(lk, fl[p], F, Nil) /\ fc[p] = Cardinality(F) /\ (\A o \in F : lk2[o] = lk[o]) /\ FreeOf(ca2, hl2, p) = F
    BY DEF FreeOk
  <1> HIDE DEF F
  <1>2. Listed(lk2, fl[p], F, Nil)
    BY <1>1, ListedFrame
  <1> QED
    BY <1>1, <1>2, Zenon DEF FreeOk

LEMMA PageNotZero ==
  0 \notin Page
  BY DEF Page

LEMMA CountDown ==
  ASSUME NEW cap \in Nat, NEW max \in Nat, NEW n, n \in 0..cap, n \in 0..max, n # 0
  PROVE  n \in Nat /\ n - 1 \in 0..max /\ n - 1 # cap
  OBVIOUS

LEMMA CountUp ==
  ASSUME NEW cap \in Nat, NEW m \in Nat, m + 1 \in 0..cap
  PROVE  /\ m + 1 # 0 /\ m + 1 \in Nat /\ m # cap
         /\ (m + 1 >= cap <=> m + 1 = cap) /\ (m + 1 = 1 <=> m = 0)
  OBVIOUS

LEMMA InRange ==
  ASSUME NEW max \in Nat, NEW m \in 0..max PROVE m \in Nat
  OBVIOUS

LEMMA CacheNotZero ==
  ASSUME NEW d \in Cache PROVE d # 0
  BY DEF Cache

(* Handing out the first free object of a slab that is in the partial list *)
(* keeps every list exact.                                                 *)
LEMMA TakeStep ==
  ASSUME HeapInv, NEW c \in Cache, NEW s \in Page,
         cache' \in [Page -> {0} \cup Cache], cache'[s] = c, cache[s] \in {0, c},
         \A p \in Page \ {s} : cache'[p] = cache[p],
         NEW L, Lists(L), With(head, c, L, PlacedAt(cache, free_count, s, c, "partial")),
         NEW first, NEW links \in [{Nil} \cup Object -> {Nil} \cup Object],
         \A o \in Object : o[1] # s => links[o] = link[o],
         NEW F, F = FreeOf(cache', held, s), F # {}, Listed(links, first, F, Nil),
         NEW n, n = Cardinality(F), TakeObject(c, s, L, first, links, n)
  PROVE  SlabsKept /\ first \in F
  <1> DEFINE X == IF MovesToFull(n - 1) THEN Push(Unlink(L, "partial", s), "full", s) ELSE L
             k == IF n - 1 = 0 THEN "full" ELSE "partial"
  <1>0. /\ head \in [Cache -> [Kind -> Page0]] /\ free_list \in [Page -> {Nil} \cup Object]
        /\ free_count \in [Page -> 0..MaxCapacity] /\ held \subseteq Object
        /\ cache \in [Page -> {0} \cup Cache] /\ HeldOk(cache, held)
        /\ AllFreeOk(cache, held, free_list, free_count, link)
    BY DEF HeapInv, TypeOK, Page0
  <1>1. /\ held' = held \cup {first} /\ free_list' = [free_list EXCEPT ![s] = links[first]]
        /\ free_count' = [free_count EXCEPT ![s] = n - 1] /\ link' = links
        /\ head' = [head EXCEPT ![c] = X.head] /\ next' = X.next /\ prev' = X.prev
    BY ZenonT(30) DEF TakeObject, SetLists
  <1>x. X = (IF MovesToFull(n - 1) THEN Push(Unlink(L, "partial", s), "full", s) ELSE L)
    BY Zenon
  <1>k. k = (IF n - 1 = 0 THEN "full" ELSE "partial")
    BY Zenon
  <1> HIDE DEF X, k
  <1>2. cache'[s] # 0
    BY CacheNotZero, Zenon
  <1>3. /\ IsFiniteSet(F) /\ n \in 0..Capacity[c] /\ F \subseteq Object /\ Nil \notin F
        /\ n # 0 /\ n \in 0..MaxCapacity
    BY <1>2, FreeCount, ZenonT(30)
  <1>4. first \in F
    BY <1>3, ListedHead, ZenonT(30)
  <1>5. first \in Object /\ first[1] = s /\ first \in AllOf(cache', s)
    BY <1>3, <1>4, Zenon DEF FreeOf, AllOf
  <1>6. n \in Nat /\ n - 1 \in 0..MaxCapacity /\ n - 1 # Capacity[c] /\ Capacity[c] \in Nat
    <2>1. Capacity[c] \in Nat /\ MaxCapacity \in Nat
      BY LargestCapacity, Zenon
    <2> QED
      BY <1>3, <2>1, CountDown, Zenon
  <1>7. links[first] \in F \cup {Nil}
    BY <1>3, <1>4, ListedNext, Zenon
  <1>8. /\ free_list' \in [Page -> {Nil} \cup Object] /\ free_count' \in [Page -> 0..MaxCapacity]
        /\ link' \in [{Nil} \cup Object -> {Nil} \cup Object] /\ held' \subseteq Object
    BY <1>0, <1>1, <1>3, <1>5, <1>6, <1>7, Zenon
  <1>9. HeldOk(cache', held')
    <2>1. SUFFICES ASSUME NEW o \in held' PROVE cache'[o[1]] # 0 /\ o \in AllOf(cache', o[1])
      BY ZenonT(30) DEF HeldOk
    <2>2. CASE o = first
      BY <1>2, <1>5, <2>2, ZenonT(30)
    <2>3. CASE o \in held
      <3>1. cache[o[1]] # 0 /\ o \in AllOf(cache, o[1]) /\ o[1] \in Page
        BY <1>0, <2>3, ZenonT(30) DEF HeldOk, Object
      <3>2. cache'[o[1]] = cache[o[1]]
        BY <3>1, ZenonT(30)
      <3> QED
        BY <3>1, <3>2 DEF AllOf
    <2> QED
      BY <1>1, <2>2, <2>3, ZenonT(30)
  <1>10. ASSUME NEW p \in Page, cache'[p] # 0 PROVE FreeOk(cache', held', free_list', free_count', link', p)
    <2>1. CASE p = s
      <3>1. FreeOf(cache', held', s) = F \ {first}
        BY <1>1, ZenonT(30) DEF FreeOf
      <3>2. Listed(links, links[first], F \ {first}, Nil)
        BY <1>3, ListedPop, ZenonT(30)
      <3>3. Cardinality(F \ {first}) = n - 1
        BY <1>3, <1>4, FS_RemoveElement, ZenonT(30)
      <3>4. free_list'[s] = links[first] /\ free_count'[s] = n - 1
        BY <1>0, <1>1, ZenonT(30)
      <3> QED
        BY <1>1, <2>1, <3>1, <3>2, <3>3, <3>4, ZenonT(30) DEF FreeOk
    <2>2. CASE p # s
      <3>1. FreeOk(cache, held, free_list, free_count, link, p) /\ cache'[p] = cache[p] /\ cache[p] # 0
        BY <1>0, <1>10, <2>2, ZenonT(30) DEF AllFreeOk
      <3>2. \A o \in AllOf(cache, p) : o[1] = p /\ o # first
        BY <1>5, <2>2, ZenonT(30) DEF AllOf
      <3>3. FreeOf(cache', held', p) = FreeOf(cache, held, p)
        BY <1>1, <3>1, <3>2, ZenonT(30) DEF FreeOf, AllOf
      <3>4. FreeOf(cache, held, p) \subseteq Object
        BY <1>0, <3>1, FreeCount, ZenonT(30)
      <3>5. \A o \in FreeOf(cache, held, p) : link'[o] = link[o]
        BY <1>1, <2>2, <3>2, <3>4 DEF FreeOf
      <3>6. free_list'[p] = free_list[p] /\ free_count'[p] = free_count[p]
        BY <1>0, <1>1, <2>2, ZenonT(30)
      <3> QED
        BY <3>1, <3>3, <3>5, <3>6, FreeStays
    <2> QED
      BY <2>1, <2>2, ZenonT(30)
  <1>11. Lists(X) /\ With(head, c, X, PlacedAt(cache, free_count, s, c, k))
    <2>1. "full" \in Kind /\ "partial" \in Kind
      BY DEF Kind
    <2>2. CASE n - 1 = 0
      <3>1. Lists(Unlink(L, "partial", s)) /\ With(head, c, Unlink(L, "partial", s), Absent(cache, free_count, s))
        BY <1>0, <2>1, TakeOut, ZenonT(30)
      <3>2. With(head, c, Push(Unlink(L, "partial", s), "full", s), PlacedAt(cache, free_count, s, c, "full"))
              /\ Lists(Push(Unlink(L, "partial", s), "full", s))
        BY <1>0, <2>1, <3>1, PutIn, ZenonT(30)
      <3> QED
        BY <1>x, <1>k, <2>2, <3>2, ZenonT(30) DEF MovesToFull
    <2>3. CASE n - 1 # 0
      BY <1>x, <1>k, <2>3, ZenonT(30) DEF MovesToFull
    <2> QED
      BY <2>2, <2>3, ZenonT(30)
  <1>12. With(head, c, X, InLists(cache', free_count'))
    <2>1. SameBut(s, cache, free_count, cache', free_count')
      BY <1>0, <1>1, ZenonT(30) DEF SameBut
    <2>2. k \in Kind
      BY <1>k, ZenonT(30) DEF Kind
    <2>3. free_count'[s] = n - 1
      BY <1>0, <1>1, Zenon
    <2>4. KindIn(cache', free_count', s) = k
      BY <1>6, <1>k, <2>3, ZenonT(30) DEF KindIn
    <2>5. Moves(s, c, k, cache, free_count, cache', free_count')
      BY <1>2, <2>1, <2>2, <2>4, Zenon DEF Moves
    <2> QED
      BY <1>11, <2>5, MovedOne, Zenon
  <1>13. AllLists(head', next', prev', InLists(cache', free_count'))
    BY <1>1, <1>12, ZenonT(30) DEF With
  <1> QED
    BY <1>4, <1>8, <1>9, <1>10, <1>13, ZenonT(30) DEF SlabsKept, AllFreeOk

-----------------------------------------------------------------------------
(* kmalloc *)

(* The lists of one cache, before the step. *)
LEMMA ListsBefore ==
  ASSUME HeapInv, NEW c \in Cache
  PROVE  /\ Lists(ListsOf(c)) /\ With(head, c, ListsOf(c), InLists(cache, free_count))
         /\ \A k \in Kind : DList(next, prev, head[c][k], InLists(cache, free_count)[c][k])
  <1>1. AllLists(head, next, prev, InLists(cache, free_count))
    BY DEF HeapInv
  <1>2. head \in [Cache -> [Kind -> Page0]] /\ next \in [Page0 -> Page0] /\ prev \in [Page0 -> Page0]
    BY <1>1 DEF AllLists
  <1>3. ListsOf(c) = [head |-> head[c], next |-> next, prev |-> prev]
    BY DEF ListsOf
  <1>4. Lists(ListsOf(c)) /\ [head EXCEPT ![c] = ListsOf(c).head] = head
    BY <1>2, <1>3 DEF Lists
  <1>5. With(head, c, ListsOf(c), InLists(cache, free_count))
    BY <1>1, <1>3, <1>4 DEF With
  <1> QED
    BY <1>1, <1>4, <1>5, Zenon DEF AllLists

(* The first slab of a list is where its count says. *)
LEMMA FirstOfList ==
  ASSUME HeapInv, NEW c \in Cache, NEW k \in Kind, head[c][k] # 0, NEW s, s = head[c][k]
  PROVE  /\ s \in Page /\ cache[s] = c /\ KindIn(cache, free_count, s) = k
         /\ InLists(cache, free_count) = PlacedAt(cache, free_count, s, c, k)
         /\ FreeOk(cache, held, free_list, free_count, link, s)
  <1> DEFINE S == {p \in Page : cache[p] = c /\ KindIn(cache, free_count, p) = k}
  <1>1. InLists(cache, free_count)[c][k] = S
    BY DEF InLists
  <1>2. DList(next, prev, s, S)
    BY <1>1, ListsBefore, ZenonT(30)
  <1>3. 0 \notin S /\ Listed(next, s, S, 0)
    BY <1>2 DEF DList, Page
  <1>4. s \in S
    <2> HIDE DEF S
    <2> QED
      BY <1>3, ListedHead
  <1>5. s \in Page /\ cache[s] = c /\ KindIn(cache, free_count, s) = k /\ cache[s] # 0
    BY <1>4 DEF Cache
  <1>6. cache \in [Page -> {0} \cup Cache] /\ AllFreeOk(cache, held, free_list, free_count, link)
    BY Zenon DEF HeapInv, TypeOK
  <1>7. InLists(cache, free_count) = PlacedAt(cache, free_count, s, c, k)
    BY <1>5, <1>6, InListsOf
  <1> QED
    BY <1>5, <1>6, <1>7, ZenonT(30) DEF AllFreeOk

(* What kmalloc hands out: a free object of a slab of the cache. *)
Hands(c, s, o) == s \in Page /\ cache'[s] = c /\ o \in FreeOf(cache', held, s) /\ held' = held \cup {o}

LEMMA FromPartialStep ==
  ASSUME HeapInv, NEW c \in Cache, kmalloc_FromPartial(c)
  PROVE  SlabsKept /\ \E s, o : Hands(c, s, o)
  <1> DEFINE s == head[c]["partial"]
             F == FreeOf(cache, held, s)
  <1>1. /\ s # 0 /\ TakeObject(c, s, ListsOf(c), free_list[s], link, free_count[s])
        /\ cache' = cache
    BY DEF kmalloc_FromPartial
  <1>2. "partial" \in Kind
    BY DEF Kind
  <1>3. /\ s \in Page /\ cache[s] = c /\ KindIn(cache, free_count, s) = "partial"
        /\ InLists(cache, free_count) = PlacedAt(cache, free_count, s, c, "partial")
        /\ FreeOk(cache, held, free_list, free_count, link, s)
    BY <1>1, <1>2, FirstOfList, ZenonT(30)
  <1>4. Listed(link, free_list[s], F, Nil) /\ free_count[s] = Cardinality(F) /\ free_count[s] # 0
    BY <1>3, ZenonT(30) DEF FreeOk, KindIn
  <1>5. /\ cache \in [Page -> {0} \cup Cache] /\ c # 0
        /\ link \in [{Nil} \cup Object -> {Nil} \cup Object]
    BY DEF HeapInv, TypeOK, Cache
  <1>6. F # {}
    BY <1>3, <1>4, <1>5, FreeCount, ZenonT(30)
  <1>7. Lists(ListsOf(c)) /\ With(head, c, ListsOf(c), PlacedAt(cache, free_count, s, c, "partial"))
    BY <1>3, ListsBefore, Zenon
  <1> HIDE DEF s
  <1>8. F = FreeOf(cache', held, s)
    BY <1>1
  <1> HIDE DEF F
  <1>9. SlabsKept /\ free_list[s] \in F
    BY <1>1, <1>3, <1>4, <1>5, <1>6, <1>7, <1>8, TakeStep
  <1>10. Hands(c, s, free_list[s])
    BY <1>1, <1>3, <1>8, <1>9, ZenonT(30) DEF Hands, TakeObject
  <1> QED
    BY <1>9, <1>10

LEMMA FromEmptyStep ==
  ASSUME HeapInv, NEW c \in Cache, kmalloc_FromEmpty(c)
  PROVE  SlabsKept /\ \E s, o : Hands(c, s, o)
  <1> DEFINE s == head[c]["empty"]
             F == FreeOf(cache, held, s)
             P == PopEmpty(ListsOf(c))
             L == Push(P, "partial", s)
  <1>1. /\ s # 0 /\ TakeObject(c, s, L, free_list[s], link, free_count[s])
        /\ cache' = cache
    BY Zenon DEF kmalloc_FromEmpty
  <1>2. "empty" \in Kind /\ "partial" \in Kind
    BY DEF Kind
  <1>3. /\ s \in Page /\ cache[s] = c /\ KindIn(cache, free_count, s) = "empty"
        /\ InLists(cache, free_count) = PlacedAt(cache, free_count, s, c, "empty")
        /\ FreeOk(cache, held, free_list, free_count, link, s)
    BY <1>1, <1>2, FirstOfList, ZenonT(30)
  <1>4. Listed(link, free_list[s], F, Nil) /\ free_count[s] = Cardinality(F) /\ free_count[s] # 0
    BY <1>3, ZenonT(30) DEF FreeOk, KindIn
  <1>5. /\ cache \in [Page -> {0} \cup Cache] /\ c # 0
        /\ link \in [{Nil} \cup Object -> {Nil} \cup Object] /\ head \in [Cache -> [Kind -> Page0]]
    BY DEF HeapInv, TypeOK, Cache, Page0
  <1>6. F # {}
    BY <1>3, <1>4, <1>5, FreeCount, ZenonT(30)
  <1>7. Lists(ListsOf(c)) /\ With(head, c, ListsOf(c), PlacedAt(cache, free_count, s, c, "empty"))
    BY <1>3, ListsBefore, ZenonT(30)
  <1>8. P = Unlink(ListsOf(c), "empty", s)
    <2> DEFINE S == PlacedAt(cache, free_count, s, c, "empty")[c]["empty"]
    <2>1. S \in SUBSET Page /\ S # {}
      <3> HIDE DEF s
      <3> DEFINE m == PlacedAt(cache, free_count, s, c, "empty")
      <3>1. m \in Members /\ s \in m[c]["empty"]
        BY <1>2, <1>3, MembersTypes, ZenonT(30)
      <3> HIDE DEF m
      <3>2. m[c]["empty"] \in SUBSET Page /\ m[c]["empty"] # {}
        BY <1>2, <3>1 DEF Members
      <3> QED
        BY <3>2 DEF m
    <2>2. DList(next, prev, head[c]["empty"], S)
      BY <1>2, <1>3, ListsBefore, Zenon
    <2>3. DList(ListsOf(c).next, ListsOf(c).prev, ListsOf(c).head["empty"], S) /\ ListsOf(c).head["empty"] = s
      BY <2>2, ZenonT(30) DEF ListsOf
    <2> HIDE DEF S
    <2> QED
      BY <1>7, <2>1, <2>3, PopIsUnlink, ZenonT(30)
  <1> HIDE DEF s
  <1>9. Lists(P) /\ With(head, c, P, Absent(cache, free_count, s))
    BY <1>2, <1>3, <1>5, <1>7, <1>8, TakeOut, Zenon
  <1> HIDE DEF P
  <1>10. Lists(L) /\ With(head, c, L, PlacedAt(cache, free_count, s, c, "partial"))
    BY <1>2, <1>3, <1>5, <1>9, PutIn
  <1>11. F = FreeOf(cache', held, s)
    BY <1>1
  <1> HIDE DEF F, L
  <1>12. SlabsKept /\ free_list[s] \in F
    BY <1>1, <1>3, <1>4, <1>5, <1>6, <1>10, <1>11, TakeStep, Zenon
  <1>13. Hands(c, s, free_list[s])
    BY <1>1, <1>3, <1>11, <1>12, Zenon DEF Hands, TakeObject
  <1> QED
    BY <1>12, <1>13

(* slab_create clears the links of the page, which no list contains. *)
LEMMA CleanLists ==
  ASSUME NEW hd \in [Cache -> [Kind -> Page0]], NEW c \in Cache, NEW L, Lists(L),
         NEW ca, NEW fc, NEW s \in Page, With(hd, c, L, Absent(ca, fc, s)),
         NEW M, M = [L EXCEPT !.next[s] = 0, !.prev[s] = 0]
  PROVE  Lists(M) /\ With(hd, c, M, Absent(ca, fc, s))
  <1> DEFINE m == Absent(ca, fc, s)
             h2 == [hd EXCEPT ![c] = L.head]
  <1>1. L = [head |-> L.head, next |-> L.next, prev |-> L.prev] /\ L.head \in [Kind -> Page0]
          /\ L.next \in [Page0 -> Page0] /\ L.prev \in [Page0 -> Page0]
    BY DEF Lists
  <1>2. /\ M = [head |-> L.head, next |-> [L.next EXCEPT ![s] = 0], prev |-> [L.prev EXCEPT ![s] = 0]]
    BY <1>1, Zenon
  <1>3. M.head = L.head /\ M.next = [L.next EXCEPT ![s] = 0] /\ M.prev = [L.prev EXCEPT ![s] = 0]
    BY <1>2
  <1>4. M.head \in [Kind -> Page0] /\ M.next \in [Page0 -> Page0] /\ M.prev \in [Page0 -> Page0]
          /\ \A x \in Page \ {s} : M.next[x] = L.next[x] /\ M.prev[x] = L.prev[x]
    BY <1>1, <1>3 DEF Page0
  <1>5. Lists(M)
    BY <1>2, <1>3, <1>4, Zenon DEF Lists
  <1>6. AllLists(h2, L.next, L.prev, m)
    BY DEF With
  <1>7. \A d \in Cache : \A l \in Kind : m[d][l] \in SUBSET Page /\ s \notin m[d][l]
    BY DEF Absent, Others
  <1> HIDE DEF m, h2
  <1>8. ASSUME NEW d \in Cache, NEW l \in Kind PROVE DList(M.next, M.prev, h2[d][l], m[d][l])
    <2> DEFINE S == m[d][l]
               nx == L.next
               pv == L.prev
               nx2 == M.next
               pv2 == M.prev
    <2>1. DList(nx, pv, h2[d][l], S) /\ S \in SUBSET Page
      BY <1>6, <1>7 DEF AllLists
    <2>2. \A x \in S : nx2[x] = nx[x] /\ pv2[x] = pv[x]
      BY <1>4, <1>7
    <2> HIDE DEF S, nx, pv, nx2, pv2
    <2>3. DList(nx2, pv2, h2[d][l], S)
      BY <2>1, <2>2, DListFrame DEF SameLinks
    <2> QED
      BY <2>3 DEF S, nx2, pv2
  <1>9. AllLists(h2, M.next, M.prev, m)
    BY <1>4, <1>6, <1>8, ZenonT(30) DEF AllLists
  <1> QED
    BY <1>3, <1>5, <1>9 DEF With, m, h2

(* The links of a new slab visit its objects in order. *)
LEMMA FreshList ==
  ASSUME HeapInv, NEW c \in Cache, NEW s \in Page, NEW ca \in [Page -> {0} \cup Cache], ca[s] = c
  PROVE  /\ FreshLinks(c, s) \in [{Nil} \cup Object -> {Nil} \cup Object]
         /\ \A o \in Object : o[1] # s => FreshLinks(c, s)[o] = link[o]
         /\ Listed(FreshLinks(c, s), <<s, 1>>, AllOf(ca, s), Nil)
  <1> DEFINE C == Capacity[c]
             fl == FreshLinks(c, s)
             w == [i \in 0..C |-> IF i = C THEN Nil ELSE <<s, i + 1>>]
             A == {s} \X (1..C)
  <1>1. C \in Nat \ {0} /\ MaxCapacity \in Nat /\ C <= MaxCapacity /\ c # 0
    BY LargestCapacity DEF Cache
  <1>2. link \in [{Nil} \cup Object -> {Nil} \cup Object] /\ DOMAIN link = {Nil} \cup Object
    BY DEF HeapInv, TypeOK
  <1>3. Nil[1] = 0 /\ 0 # s
    BY DEF Nil, Page
  <1>4. AllOf(ca, s) = A
    BY DEF AllOf
  <1> HIDE DEF C
  <1>5. \A i \in 1..C : <<s, i>> \in Object /\ <<s, i>> \in A
    BY <1>1 DEF Object
  <1>6. fl = [o \in {Nil} \cup Object |-> IF o[1] # s \/ o[2] > C THEN link[o]
                                          ELSE IF o[2] < C THEN <<s, o[2] + 1>> ELSE Nil]
    BY <1>2 DEF FreshLinks, C
  <1> HIDE DEF fl
  <1>7. ASSUME NEW o \in {Nil} \cup Object PROVE fl[o] \in {Nil} \cup Object
    <2>1. CASE o[1] # s \/ o[2] > C
      BY <1>2, <1>6, <2>1
    <2>2. CASE ~(o[1] # s \/ o[2] > C)
      <3>1. o \in Object /\ o[2] \in 1..C
        BY <1>1, <1>3, <2>2 DEF Object
      <3>2. o[2] < C => o[2] + 1 \in 1..C
        BY <1>1, <3>1
      <3>3. fl[o] = IF o[2] < C THEN <<s, o[2] + 1>> ELSE Nil
        BY <1>6, <2>2
      <3> QED
        BY <1>5, <3>2, <3>3
    <2> QED
      BY <2>1, <2>2
  <1>8. fl \in [{Nil} \cup Object -> {Nil} \cup Object]
    BY <1>6, <1>7, ZenonT(30)
  <1>9. \A o \in Object : o[1] # s => fl[o] = link[o]
    BY <1>6
  <1>10. \A i \in 0..(C - 1) : w[i] = <<s, i + 1>> /\ w[i] \in A /\ w[i] \in Object
    <2>1. \A i \in 0..(C - 1) : i \in 0..C /\ i # C /\ i + 1 \in 1..C
      BY <1>1
    <2> QED
      BY <1>5, <2>1
  <1>11. w[0] = <<s, 1>> /\ w[C] = Nil /\ w \in [0..C -> A \cup {Nil}]
    <2>1. 0 \in 0..(C - 1) /\ C \in 0..C /\ \A i \in 0..C : i # C => i \in 0..(C - 1)
      BY <1>1
    <2> QED
      BY <1>10, <2>1
  <1>12. ASSUME NEW i \in 0..(C - 1) PROVE fl[w[i]] = w[i + 1]
    <2>1. w[i] = <<s, i + 1>> /\ w[i] \in Object /\ i + 1 \in 1..C /\ i \in Int
      BY <1>1, <1>10
    <2>2. fl[w[i]] = IF i + 1 < C THEN <<s, (i + 1) + 1>> ELSE Nil
      <3> HIDE DEF w
      <3>1. w[i][1] = s /\ w[i][2] = i + 1 /\ ~(i + 1 > C)
        BY <1>1, <2>1
      <3> QED
        BY <1>6, <2>1, <3>1
    <2>3. w[i + 1] = IF i + 1 = C THEN Nil ELSE <<s, (i + 1) + 1>>
      BY <1>1
    <2> QED
      BY <1>1, <2>2, <2>3
  <1>13. \A x \in A : \E i \in 0..(C - 1) : w[i] = x
    <2>1. SUFFICES ASSUME NEW x \in A PROVE \E i \in 0..(C - 1) : w[i] = x
      OBVIOUS
    <2>2. PICK j \in 1..C : x = <<s, j>>
      OBVIOUS
    <2>3. j - 1 \in 0..(C - 1) /\ (j - 1) + 1 = j
      BY <1>1
    <2>4. w[j - 1] = x
      <3> HIDE DEF w
      <3> QED
        BY <1>10, <2>2, <2>3
    <2> QED
      BY <2>3, <2>4, Zenon
  <1>14. \A i, j \in 0..(C - 1) : w[i] = w[j] => i = j
    <2> HIDE DEF w
    <2>1. SUFFICES ASSUME NEW i \in 0..(C - 1), NEW j \in 0..(C - 1), w[i] = w[j] PROVE i = j
      OBVIOUS
    <2>2. <<s, i + 1>> = <<s, j + 1>>
      BY <1>10, <2>1
    <2> QED
      BY <1>1, <2>2
  <1>15. Order(fl, <<s, 1>>, A, Nil, w, C)
    <2> HIDE DEF w, A
    <2> QED
      BY <1>10, <1>11, <1>12, <1>13, <1>14, Zenon DEF Order
  <1>16. Listed(fl, <<s, 1>>, A, Nil)
    <2> HIDE DEF w, A
    <2> QED
      BY <1>1, <1>11, <1>15 DEF Listed
  <1> QED
    BY <1>4, <1>8, <1>9, <1>16 DEF fl

LEMMA NewSlabStep ==
  ASSUME HeapInv, NEW c \in Cache, kmalloc_NewSlab(c)
  PROVE  /\ SlabsKept
         /\ \E s \in freePages : /\ cache[s] = 0 /\ cache' = [cache EXCEPT ![s] = c] /\ freePages' = freePages \ {s}
                                 /\ private_data' = [private_data EXCEPT ![s] = s] /\ largeHeld' = largeHeld
                                 /\ \E o : Hands(c, s, o)
  <1> DEFINE L == ListsOf(c)
             Clean(s) == [L EXCEPT !.next[s] = 0, !.prev[s] = 0]
  <1>1. PICK s \in freePages :
          /\ freePages' = freePages \ {s} /\ cache' = [cache EXCEPT ![s] = c] /\ private_data' = SlabFrame(s)
          /\ TakeObject(c, s, Push(Clean(s), "partial", s), <<s, 1>>, FreshLinks(c, s), Capacity[c])
    BY Zenon DEF kmalloc_NewSlab
  <1> DEFINE M == Push(Clean(s), "partial", s)
             F == FreeOf(cache', held, s)
  <1>2. /\ cache \in [Page -> {0} \cup Cache] /\ c # 0 /\ head \in [Cache -> [Kind -> Page0]]
        /\ s \in Page /\ HeldOk(cache, held) /\ held \subseteq Object
    BY DEF HeapInv, TypeOK, Cache, Page0
  <1>3. cache[s] = 0
    BY <1>2, Zenon DEF HeapInv, PagesHaveOneUse
  <1>4. InLists(cache, free_count) = Absent(cache, free_count, s)
    BY <1>2, <1>3, InListsOf
  <1>5. Lists(L) /\ With(head, c, L, Absent(cache, free_count, s))
    BY <1>4, ListsBefore, ZenonT(30)
  <1>6. Lists(Clean(s)) /\ With(head, c, Clean(s), Absent(cache, free_count, s))
    <2> HIDE DEF L
    <2> QED
      BY <1>2, <1>5, CleanLists, ZenonT(30)
  <1>7. Lists(M) /\ With(head, c, M, PlacedAt(cache, free_count, s, c, "partial"))
    <2> HIDE DEF Clean
    <2>1. "partial" \in Kind
      BY DEF Kind
    <2> QED
      BY <1>2, <1>6, <2>1, PutIn
  <1>8. /\ cache' \in [Page -> {0} \cup Cache] /\ cache'[s] = c /\ cache'[s] # 0
        /\ \A p \in Page \ {s} : cache'[p] = cache[p]
    BY <1>1, <1>2
  <1>9. F = AllOf(cache', s)
    <2>1. \A o \in held : o[1] # s
      BY <1>2, <1>3, Zenon DEF HeldOk
    <2>2. \A o \in AllOf(cache', s) : o \notin held
      BY <2>1, Zenon DEF AllOf
    <2> QED
      BY <2>2, Zenon DEF FreeOf
  <1>10. Cardinality(F) = Capacity[c] /\ Capacity[c] # 0 /\ F # {}
    <2>1. Cardinality(F) = Capacity[c] /\ Capacity[c] # 0
      BY <1>2, <1>8, <1>9, ObjectCount, LargestCapacity
    <2> QED
      BY <1>2, <1>8, <2>1, FreeCount
  <1>11. /\ FreshLinks(c, s) \in [{Nil} \cup Object -> {Nil} \cup Object]
         /\ \A o \in Object : o[1] # s => FreshLinks(c, s)[o] = link[o]
         /\ Listed(FreshLinks(c, s), <<s, 1>>, F, Nil)
    BY <1>2, <1>8, <1>9, FreshList, ZenonT(30)
  <1> HIDE DEF M, F, L, Clean
  <1>12. TakeObject(c, s, M, <<s, 1>>, FreshLinks(c, s), Capacity[c])
    BY <1>1 DEF M
  <1>13. F = FreeOf(cache', held, s)
    BY DEF F
  <1>14. SlabsKept /\ <<s, 1>> \in F
    BY <1>2, <1>3, <1>7, <1>8, <1>10, <1>11, <1>12, <1>13, TakeStep, ZenonT(30)
  <1>15. Hands(c, s, <<s, 1>>) /\ largeHeld' = largeHeld
    BY <1>2, <1>8, <1>12, <1>13, <1>14, ZenonT(30) DEF Hands, TakeObject
  <1>16. private_data' = [private_data EXCEPT ![s] = s]
    BY <1>1 DEF SlabFrame
  <1> QED
    BY <1>1, <1>3, <1>14, <1>15, <1>16, ZenonT(30)

-----------------------------------------------------------------------------
(* kfree *)

LEMMA FreeStep ==
  ASSUME HeapInv, NEW o \in held, kfree(o)
  PROVE  SlabsKept
  <1> DEFINE s == o[1]
             c == cache[s]
             F == FreeOf(cache, held, s)
             n == free_count[s] + 1
             L == ListsOf(c)
             M == IF n = 1 THEN Push(Unlink(L, "full", s), "partial", s) ELSE L
             X == IF Emptied(c, n) THEN Push(Unlink(M, "partial", s), "empty", s) ELSE M
             k == IF n = Capacity[c] THEN "empty" ELSE "partial"
  <1>1. /\ cache \in [Page -> {0} \cup Cache] /\ head \in [Cache -> [Kind -> Page0]]
        /\ free_list \in [Page -> {Nil} \cup Object] /\ free_count \in [Page -> 0..MaxCapacity]
        /\ link \in [{Nil} \cup Object -> {Nil} \cup Object] /\ held \subseteq Object
        /\ AllFreeOk(cache, held, free_list, free_count, link) /\ HeldOk(cache, held)
    BY DEF HeapInv, TypeOK, Page0
  <1>2. o \in Object /\ s \in Page /\ c # 0 /\ o \in AllOf(cache, s) /\ c \in Cache
    BY <1>1 DEF HeldOk, Object
  <1>3. private_data[s] = s
    BY <1>2, Zenon DEF HeapInv, PagesHaveOneUse
  <1>4. /\ held' = held \ {o} /\ link' = [link EXCEPT ![o] = free_list[s]]
        /\ free_list' = [free_list EXCEPT ![s] = o] /\ free_count' = [free_count EXCEPT ![s] = n]
        /\ head' = [head EXCEPT ![c] = X.head] /\ next' = X.next /\ prev' = X.prev
        /\ cache' = cache
    BY <1>3, Zenon DEF kfree, SetLists
  <1>5. Listed(link, free_list[s], F, Nil) /\ free_count[s] = Cardinality(F)
    BY <1>1, <1>2 DEF AllFreeOk, FreeOk
  <1>6. o \notin F /\ FreeOf(cache, held', s) = F \cup {o}
    BY <1>2, <1>4, ZenonT(30) DEF FreeOf
  <1>7. IsFiniteSet(F) /\ F \subseteq Object
    BY <1>1, <1>2, FreeCount
  <1>8. Cardinality(F \cup {o}) = n
    BY <1>5, <1>6, <1>7, FS_AddElement, ZenonT(30)
  <1>9. n \in 0..Capacity[c] /\ n \in 0..MaxCapacity /\ Capacity[c] \in Nat /\ MaxCapacity \in Nat /\ free_count[s] \in Nat
    <2>1. Cardinality(FreeOf(cache, held', s)) \in 0..Capacity[cache[s]] /\ Cardinality(FreeOf(cache, held', s)) \in 0..MaxCapacity
      BY <1>1, <1>2, FreeCount
    <2>2. n \in 0..Capacity[c] /\ n \in 0..MaxCapacity
      BY <1>6, <1>8, <2>1, ZenonT(30)
    <2> QED
      <3>1. Capacity[c] \in Nat /\ MaxCapacity \in Nat
        BY <1>2, LargestCapacity, Zenon
      <3>2. free_count[s] \in 0..MaxCapacity
        BY <1>1, <1>2, Zenon
      <3>3. free_count[s] \in Nat
        BY <3>1, <3>2, InRange, Zenon
      <3> QED
        BY <2>2, <3>1, <3>3, Zenon
  <1>10. n # 0 /\ n \in Nat /\ free_count[s] # Capacity[c] /\ (Emptied(c, n) <=> n = Capacity[c])
         /\ (n = 1 <=> free_count[s] = 0)
    BY <1>9, CountUp, Zenon DEF Emptied
  <1>11. /\ free_list' \in [Page -> {Nil} \cup Object] /\ free_count' \in [Page -> 0..MaxCapacity]
         /\ link' \in [{Nil} \cup Object -> {Nil} \cup Object] /\ held' \subseteq Object
    <2> HIDE DEF n, X
    <2> QED
      BY <1>1, <1>2, <1>4, <1>9
  <1>12. HeldOk(cache', held')
    BY <1>1, <1>4, Zenon DEF HeldOk
  <1>13. ASSUME NEW p \in Page, cache'[p] # 0 PROVE FreeOk(cache', held', free_list', free_count', link', p)
    <2>1. CASE p = s
      <3>1. link'[o] = free_list[s] /\ \A x \in F : link'[x] = link[x]
        BY <1>1, <1>2, <1>4, <1>6, <1>7, Zenon
      <3>2. Listed(link', o, F \cup {o}, Nil)
        <4> HIDE DEF s, F, X, n
        <4> QED
          BY <1>5, <1>6, <3>1, ListedPush, ZenonT(30)
      <3>3. free_list'[s] = o /\ free_count'[s] = n
        BY <1>1, <1>2, <1>4, ZenonT(30)
      <3> HIDE DEF F, X, n
      <3> QED
        BY <1>4, <1>6, <1>8, <2>1, <3>2, <3>3, ZenonT(30) DEF FreeOk
    <2>2. CASE p # s
      <3>1. FreeOk(cache, held, free_list, free_count, link, p) /\ cache'[p] = cache[p] /\ cache[p] # 0
        BY <1>1, <1>4, <1>13, <2>2, Zenon DEF AllFreeOk
      <3>2. \A x \in AllOf(cache, p) : x # o
        BY <2>2 DEF AllOf
      <3>3. FreeOf(cache', held', p) = FreeOf(cache, held, p)
        BY <1>4, <3>1, <3>2, ZenonT(30) DEF FreeOf, AllOf
      <3>4. FreeOf(cache, held, p) \subseteq Object
        BY <1>1, <3>1, FreeCount
      <3>5. \A x \in FreeOf(cache, held, p) : link'[x] = link[x]
        BY <1>1, <1>4, <3>2, <3>4, ZenonT(30) DEF FreeOf
      <3>6. free_list'[p] = free_list[p] /\ free_count'[p] = free_count[p]
        BY <1>1, <1>4, <2>2, Zenon
      <3> HIDE DEF X, n
      <3> QED
        BY <3>1, <3>3, <3>5, <3>6, FreeStays
    <2> QED
      BY <2>1, <2>2
  <1>14. "full" \in Kind /\ "partial" \in Kind /\ "empty" \in Kind
    BY DEF Kind
  <1>15. Lists(L) /\ With(head, c, L, PlacedAt(cache, free_count, s, c, KindIn(cache, free_count, s)))
    BY <1>1, <1>2, ListsBefore, InListsOf
  <1>16. Lists(M) /\ With(head, c, M, PlacedAt(cache, free_count, s, c, "partial"))
    <2>1. CASE n = 1
      <3>1. KindIn(cache, free_count, s) = "full"
        BY <1>10, <2>1 DEF KindIn
      <3> DEFINE U == Unlink(L, "full", s)
      <3> HIDE DEF L, s, c
      <3>2. Lists(U) /\ With(head, c, U, Absent(cache, free_count, s))
        BY <1>1, <1>2, <1>14, <1>15, <3>1, TakeOut, ZenonT(30)
      <3> HIDE DEF U
      <3>3. Lists(Push(U, "partial", s)) /\ With(head, c, Push(U, "partial", s), PlacedAt(cache, free_count, s, c, "partial"))
        BY <1>1, <1>2, <1>14, <3>2, PutIn
      <3> QED
        BY <2>1, <3>3 DEF U
    <2>2. CASE n # 1
      <3>1. KindIn(cache, free_count, s) = "partial"
        BY <1>10, <2>2 DEF KindIn
      <3> QED
        BY <1>15, <2>2, <3>1, ZenonT(30)
    <2> QED
      BY <2>1, <2>2, ZenonT(30)
  <1>17. With(head, c, X, PlacedAt(cache, free_count, s, c, k))
    <2>1. CASE n = Capacity[c]
      <3> DEFINE U == Unlink(M, "partial", s)
      <3> HIDE DEF M, s, c
      <3>1. Lists(U) /\ With(head, c, U, Absent(cache, free_count, s))
        BY <1>1, <1>2, <1>14, <1>16, TakeOut, ZenonT(30)
      <3> HIDE DEF U
      <3>2. With(head, c, Push(U, "empty", s), PlacedAt(cache, free_count, s, c, "empty"))
        BY <1>1, <1>2, <1>14, <3>1, PutIn
      <3> QED
        BY <1>10, <2>1, <3>2 DEF U
    <2>2. CASE n # Capacity[c]
      BY <1>10, <1>16, <2>2, ZenonT(30)
    <2> QED
      BY <2>1, <2>2, ZenonT(30)
  <1>18. PlacedAt(cache, free_count, s, c, k) = InLists(cache', free_count')
    <2>1. SameBut(s, cache, free_count, cache', free_count') /\ free_count'[s] = n
      BY <1>1, <1>2, <1>4, ZenonT(30) DEF SameBut
    <2>2. k \in Kind
      BY ZenonT(30) DEF Kind
    <2>3. KindIn(cache', free_count', s) = k
      BY <1>4, <1>10, <2>1, ZenonT(30) DEF KindIn
    <2>4. PlacedAt(cache', free_count', s, c, k) = PlacedAt(cache, free_count, s, c, k)
      <3> HIDE DEF k, X, c, s, n
      <3> QED
        BY <1>2, <2>1, <2>2, OthersStay
    <2>5. InLists(cache', free_count') = PlacedAt(cache', free_count', s, c, k)
      <3> HIDE DEF k, X, s, n
      <3> QED
        BY <1>1, <1>2, <1>4, <2>3, InListsOf, ZenonT(30)
    <2> QED
      BY <2>4, <2>5, ZenonT(30)
  <1>19. AllLists(head', next', prev', InLists(cache', free_count'))
    <2> HIDE DEF X, k, c, s
    <2> QED
      BY <1>4, <1>17, <1>18 DEF With
  <1> QED
    BY <1>11, <1>12, <1>13, <1>19 DEF SlabsKept, AllFreeOk

-----------------------------------------------------------------------------
(* Theorems *)

LEMMA HeapInvInit == Init => HeapInv
  <1> SUFFICES ASSUME Init PROVE HeapInv
    OBVIOUS
  <1>1. /\ head = [c \in Cache |-> [k \in Kind |-> 0]] /\ next = [p \in {0} \cup Page |-> 0] /\ prev = [p \in {0} \cup Page |-> 0]
        /\ cache = [p \in Page |-> 0] /\ held = {} /\ largeHeld = {} /\ private_data \in [Page -> BootPrivate]
        /\ free_count = [p \in Page |-> 0] /\ free_list = [p \in Page |-> Nil] /\ link = [o \in {Nil} \cup Object |-> Nil]
        /\ freePages = Page /\ corrupted = FALSE
    BY DEF Init
  <1>2. TypeOK
    <2>1. private_data \in [Page -> {0, Garbage} \cup Page]
      BY <1>1, HeapAssumption, ZenonT(30)
    <2>2. 0 \in 0..MaxCapacity
      BY LargestCapacity
    <2> QED
      BY <1>1, <2>1, <2>2, Zenon DEF TypeOK
  <1>3. \A d \in Cache : \A l \in Kind : InLists(cache, free_count)[d][l] = {}
    BY <1>1 DEF InLists, Cache
  <1>4. ASSUME NEW d \in Cache, NEW l \in Kind PROVE DList(next, prev, head[d][l], {})
    <2>1. Listed(next, 0, {}, 0) /\ head[d][l] = 0
      BY <1>1, ListedEmpty
    <2> QED
      BY <2>1 DEF DList
  <1>5. AllLists(head, next, prev, InLists(cache, free_count))
    <2>1. Apart(InLists(cache, free_count))
      BY <1>3 DEF Apart
    <2>2. head \in [Cache -> [Kind -> Page0]] /\ next \in [Page0 -> Page0] /\ prev \in [Page0 -> Page0]
      BY <1>1 DEF Page0
    <2> QED
      BY <1>3, <1>4, <2>1, <2>2, ZenonT(30) DEF AllLists
  <1>6. AllFreeOk(cache, held, free_list, free_count, link) /\ HeldOk(cache, held) /\ PagesHaveOneUse
    BY <1>1 DEF AllFreeOk, HeldOk, PagesHaveOneUse
  <1> QED
    BY <1>2, <1>5, <1>6 DEF HeapInv

LEMMA HeapInvStep == HeapInv /\ [Next]_vars => HeapInv'
  <1> SUFFICES ASSUME HeapInv, [Next]_vars PROVE HeapInv'
    OBVIOUS
  <1>0. /\ cache \in [Page -> {0} \cup Cache] /\ private_data \in [Page -> {0, Garbage} \cup Page]
        /\ freePages \subseteq Page /\ largeHeld \subseteq Page /\ corrupted \in BOOLEAN /\ held \subseteq Object
        /\ HeldOk(cache, held) /\ PagesHaveOneUse
    BY ZenonT(30) DEF HeapInv, TypeOK
  <1>1. ASSUME SlabsKept, cache' \in [Page -> {0} \cup Cache], private_data' \in [Page -> {0, Garbage} \cup Page],
               freePages' \subseteq Page, largeHeld' \subseteq Page, corrupted' \in BOOLEAN,
               \A p \in Page : cache'[p] # 0 => p \notin freePages' \cup largeHeld' /\ private_data'[p] = p,
               freePages' \cap largeHeld' = {}
        PROVE  HeapInv'
    <2>1. head' \in [Cache -> [Kind -> {0} \cup Page]] /\ next' \in [{0} \cup Page -> {0} \cup Page] /\ prev' \in [{0} \cup Page -> {0} \cup Page]
      BY <1>1, ListsTypes, ZenonT(30) DEF SlabsKept
    <2>2. TypeOK'
      BY <1>1, <2>1 DEF TypeOK, SlabsKept
    <2>3. PagesHaveOneUse'
      BY <1>1 DEF PagesHaveOneUse, SlabsKept, HeldOk
    <2> QED
      BY <1>1, <2>2, <2>3 DEF HeapInv, SlabsKept
  <1>2. ASSUME SlabsKept, UNCHANGED <<cache, private_data, freePages, largeHeld, corrupted>> PROVE HeapInv'
    BY <1>0, <1>1, <1>2 DEF PagesHaveOneUse
  <1>3. ASSUME UNCHANGED <<slabs, held>> PROVE SlabsKept
    BY <1>3 DEF SlabsKept, HeapInv, TypeOK, slabs
  <1>4. ASSUME NEW c \in Cache, kmalloc_FromPartial(c) PROVE HeapInv'
    BY <1>2, <1>4, FromPartialStep, ZenonT(30) DEF kmalloc_FromPartial, TakeObject
  <1>5. ASSUME NEW c \in Cache, kmalloc_FromEmpty(c) PROVE HeapInv'
    BY <1>2, <1>5, FromEmptyStep, ZenonT(30) DEF kmalloc_FromEmpty, TakeObject
  <1>6. ASSUME NEW c \in Cache, kmalloc_NewSlab(c) PROVE HeapInv'
    <2>1. PICK s \in freePages : /\ SlabsKept /\ cache[s] = 0 /\ cache' = [cache EXCEPT ![s] = c] /\ freePages' = freePages \ {s}
                                 /\ private_data' = [private_data EXCEPT ![s] = s] /\ largeHeld' = largeHeld
      BY <1>6, NewSlabStep
    <2>2. corrupted' = corrupted
      BY <1>6 DEF kmalloc_NewSlab, TakeObject
    <2>3. s \notin largeHeld
      BY <1>0 DEF PagesHaveOneUse
    <2> QED
      BY <1>0, <1>1, <2>1, <2>2, <2>3 DEF PagesHaveOneUse
  <1>7. ASSUME kmalloc_Large PROVE HeapInv'
    <2>1. PICK p \in freePages : freePages' = freePages \ {p} /\ largeHeld' = largeHeld \cup {p}
      BY <1>7 DEF kmalloc_Large
    <2>2. SlabsKept /\ UNCHANGED <<cache, private_data, corrupted>>
      BY <1>3, <1>7 DEF kmalloc_Large, slabs
    <2> QED
      BY <1>0, <1>1, <2>1, <2>2 DEF PagesHaveOneUse
  <1>8. ASSUME NEW o \in held, kfree(o) PROVE HeapInv'
    BY <1>2, <1>8, FreeStep, ZenonT(30) DEF kfree
  <1>9. ASSUME NEW p \in largeHeld, kfree_Large(p) PROVE HeapInv'
    <2>1. largeHeld' = largeHeld \ {p} /\ freePages' \in {freePages, freePages \cup {p}} /\ corrupted' \in BOOLEAN
      BY <1>0, <1>9, Zenon DEF kfree_Large
    <2>2. SlabsKept /\ UNCHANGED <<cache, private_data>>
      BY <1>3, <1>9 DEF kfree_Large, slabs
    <2> QED
      BY <1>0, <1>1, <2>1, <2>2 DEF PagesHaveOneUse
  <1>10. ASSUME UNCHANGED vars PROVE HeapInv'
    <2>1. UNCHANGED <<slabs, held>> /\ UNCHANGED <<cache, private_data, freePages, largeHeld, corrupted>>
      BY <1>10 DEF vars, slabs
    <2> QED
      BY <1>2, <1>3, <2>1
  <1> QED
    BY <1>4, <1>5, <1>6, <1>7, <1>8, <1>9, <1>10 DEF Next

(* Every kmalloc and kfree of heap.cpp keeps the invariant that the next   *)
(* theorems rest on.                                                       *)
THEOREM HeapInvariant == Spec => []HeapInv
  BY HeapInvInit, HeapInvStep, PTL DEF Spec

(* In every state the partial, full and empty list of every cache hold     *)
(* exactly its slabs by the number of their free objects, each once, and   *)
(* prev undoes next, whatever kmalloc and kfree moved between the lists.   *)
THEOREM SlabListsStayExact == Spec => []SlabListsExact
  <1>1. ASSUME HeapInv PROVE SlabListsExact
    <2> SUFFICES ASSUME NEW c \in Cache, NEW k \in Kind
                 PROVE  LET S == {s \in SlabsOf(c) : KindOf(s) = k}
                        IN  /\ Chains(next, head[c][k], S, 0)
                            /\ \A s \in S : prev[s] = 0 <=> head[c][k] = s
                            /\ \A s \in S : next[s] # 0 => prev[next[s]] = s
      BY Zenon DEF SlabListsExact
    <2> DEFINE S == {s \in SlabsOf(c) : KindOf(s) = k}
    <2>1. InLists(cache, free_count)[c][k] = S /\ S \subseteq Page
      BY DEF InLists, SlabsOf, KindOf, KindIn
    <2> HIDE DEF S
    <2>2. DList(next, prev, head[c][k], S)
      BY <1>1, <2>1, ListsBefore, ZenonT(30)
    <2>3. Listed(next, head[c][k], S, 0) /\ 0 \notin S
      BY <2>1, <2>2 DEF DList, Page
    <2>4. Chains(next, head[c][k], S, 0)
      BY <2>3, ListedChains
    <2>5. \A s \in S : next[s] # 0 => prev[next[s]] = s
      BY <2>2 DEF DList
    <2>6. ASSUME NEW s \in S PROVE prev[s] = 0 <=> head[c][k] = s
      <3>1. CASE head[c][k] = s
        BY <2>2, <3>1 DEF DList
      <3>2. CASE head[c][k] # s
        <4>1. PICK p \in S : next[p] = s
          BY <2>3, <3>2, ListedLinks
        <4> QED
          BY <2>3, <2>5, <3>2, <4>1, Zenon
      <3> QED
        BY <3>1, <3>2
    <2> QED
      BY <2>4, <2>5, <2>6 DEF S
  <1> QED
    BY <1>1, HeapInvariant, PTL

(* In every state the free list of a slab holds exactly its objects that   *)
(* nobody holds, each once, and free_count counts them.                    *)
THEOREM FreeListsStayExact == Spec => []FreeListsExact
  <1>1. ASSUME HeapInv PROVE FreeListsExact
    <2>1. ASSUME NEW s \in Page, cache[s] # 0, NEW S, S = ({s} \X (1..Capacity[cache[s]])) \ held
          PROVE  Chains(link, free_list[s], S, Nil) /\ free_count[s] = Cardinality(S)
      <3>1. FreeOf(cache, held, s) = S
        BY <2>1 DEF FreeOf, AllOf
      <3>2. Listed(link, free_list[s], S, Nil) /\ free_count[s] = Cardinality(S)
        BY <1>1, <2>1, <3>1 DEF HeapInv, AllFreeOk, FreeOk
      <3> QED
        BY <3>2, ListedChains
    <2> QED
      BY <1>1, <2>1, Zenon DEF FreeListsExact, HeapInv
  <1> QED
    BY <1>1, HeapInvariant, PTL

(* A page is free, a slab or a large block, the frame of a slab points at  *)
(* it, and what callers hold lies in slabs.                                *)
THEOREM PagesKeepOneUse == Spec => []PagesHaveOneUse
  <1>1. HeapInv => PagesHaveOneUse
    BY DEF HeapInv
  <1> QED
    BY <1>1, HeapInvariant, PTL

-----------------------------------------------------------------------------
(* The heap without lists *)

Use == [p \in Page |-> IF cache[p] # 0 THEN cache[p] ELSE IF p \in freePages THEN 0 ELSE NUM_CACHES + 1]

LEMMA UseOf ==
  ASSUME HeapInv, NEW c \in Cache, NEW p \in Page
  PROVE  /\ Use[p] = c <=> cache[p] = c
         /\ p \in freePages => Use[p] = 0 /\ cache[p] = 0
         /\ p \in largeHeld => Use[p] = NUM_CACHES + 1 /\ cache[p] = 0
  <1>1. NUM_CACHES \in Nat \ {0} /\ c \in 1..NUM_CACHES
    BY HeapAssumption DEF Cache
  <1>2. cache \in [Page -> {0} \cup Cache]
    BY DEF HeapInv, TypeOK
  <1>3. p \in freePages \cup largeHeld => cache[p] = 0
    BY ZenonT(30) DEF HeapInv, PagesHaveOneUse
  <1>4. ~ (p \in freePages /\ p \in largeHeld)
    BY Zenon DEF HeapInv, PagesHaveOneUse
  <1> QED
    BY <1>1, <1>2, <1>3, <1>4 DEF Use

(* An object that is handed out belongs to the size and nobody held it. *)
LEMMA ReuseStep ==
  ASSUME HeapInv, NEW c \in Cache, NEW s, NEW o, Hands(c, s, o), cache' = cache, freePages' = freePages
  PROVE  Promise!Reuse(c)
  <1>1. s \in Page /\ cache[s] = c /\ o \in FreeOf(cache, held, s) /\ held' = held \cup {o}
    BY DEF Hands
  <1>2. Use[s] = c
    BY <1>1, UseOf
  <1>3. PICK i \in 1..Capacity[c] : o = <<s, i>>
    BY <1>1 DEF FreeOf, AllOf
  <1>4. o \in Promise!ObjectsOf(c) \ held
    BY <1>1, <1>2, <1>3 DEF Promise!ObjectsOf, Use, FreeOf
  <1> QED
    BY <1>1, <1>4 DEF Promise!Reuse

(* A cache takes a page only when all its objects are in use. *)
LEMMA GrowStep ==
  ASSUME HeapInv, NEW c \in Cache, kmalloc_NewSlab(c)
  PROVE  Promise!Grow(c)
  <1>1. PICK s \in freePages : /\ cache[s] = 0 /\ cache' = [cache EXCEPT ![s] = c] /\ freePages' = freePages \ {s}
                               /\ \E o : Hands(c, s, o)
    BY NewSlabStep
  <1>2. PICK o : Hands(c, s, o)
    BY <1>1
  <1>3. cache \in [Page -> {0} \cup Cache] /\ s \in Page /\ c # 0 /\ cache'[s] = c
    BY <1>1 DEF HeapInv, TypeOK, Cache
  <1>4. PICK i \in 1..Capacity[c] : o = <<s, i>>
    BY <1>2, <1>3 DEF Hands, FreeOf, AllOf
  <1>5. Use[s] = 0
    BY <1>1, <1>3, UseOf
  <1>6. Use' = [Use EXCEPT ![s] = c]
    BY <1>1, <1>3, Zenon DEF Use
  <1>7. ASSUME NEW x \in Promise!ObjectsOf(c) PROVE x \in held
    <2>1. PICK p \in Page, j \in 1..Capacity[c] : Use[p] = c /\ x = <<p, j>>
      BY DEF Promise!ObjectsOf, Use
    <2>2. cache[p] = c /\ cache[p] # 0
      BY <1>3, <2>1, UseOf
    <2>3. "partial" \in Kind /\ "empty" \in Kind /\ head[c]["partial"] = 0 /\ head[c]["empty"] = 0
      BY DEF Kind, kmalloc_NewSlab, NeedsSlab
    <2>4. ASSUME NEW k \in Kind, head[c][k] = 0 PROVE KindIn(cache, free_count, p) # k
      <3> DEFINE S == InLists(cache, free_count)[c][k]
      <3>1. DList(next, prev, 0, S)
        BY <2>4, ListsBefore, ZenonT(30)
      <3>2. 0 \notin S /\ Listed(next, 0, S, 0)
        <4>1. S \subseteq Page
          BY Zenon DEF InLists
        <4>2. Listed(next, 0, S, 0)
          BY <3>1, Zenon DEF DList
        <4> HIDE DEF S
        <4> QED
          BY <4>1, <4>2, PageNotZero, Zenon
      <3>3. S = {}
        <4> HIDE DEF S
        <4> QED
          BY <3>2, ListedHead
      <3> QED
        BY <2>2, <3>3 DEF InLists
    <2>5. free_count[p] = 0
      BY <2>3, <2>4 DEF KindIn
    <2>6. free_count[p] = Cardinality(FreeOf(cache, held, p))
      BY <2>2, ZenonT(30) DEF HeapInv, AllFreeOk, FreeOk
    <2>7. FreeOf(cache, held, p) = {}
      BY <1>3, <2>2, <2>5, <2>6, FreeCount, ZenonT(30)
    <2>8. x \in AllOf(cache, p)
      BY <2>1, <2>2 DEF AllOf
    <2> QED
      BY <2>7, <2>8 DEF FreeOf
  <1>8. Promise!ObjectsOf(c) \subseteq held
    BY <1>7
  <1>9. held' = held \cup {<<s, i>>}
    BY <1>2, <1>4 DEF Hands
  <1> QED
    BY <1>3, <1>5, <1>6, <1>8, <1>9, Zenon DEF Promise!Grow, Use

(* Every kmalloc and kfree is a step of the heap without lists: an object  *)
(* that is handed out was in nobody's hands, and a page becomes a slab     *)
(* only when every object of that size is in use.                          *)
THEOREM SlabsImplementObjectHeap == Spec => ImplementsObjectHeap
  <1>1. Init => Promise!HInit
    BY DEF Init, Promise!HInit
  <1>2. ASSUME HeapInv, [Next]_vars PROVE [Promise!HNext]_<<Use, held>>
    <2>1. ASSUME NEW c \in Cache, kmalloc_FromPartial(c) PROVE Promise!HNext
      <3>1. PICK s, o : Hands(c, s, o)
        BY <1>2, <2>1, FromPartialStep
      <3>2. cache' = cache /\ freePages' = freePages
        BY <2>1, Zenon DEF kmalloc_FromPartial
      <3> QED
        BY <1>2, <3>1, <3>2, ReuseStep DEF Promise!HNext
    <2>2. ASSUME NEW c \in Cache, kmalloc_FromEmpty(c) PROVE Promise!HNext
      <3>1. PICK s, o : Hands(c, s, o)
        BY <1>2, <2>2, FromEmptyStep
      <3>2. cache' = cache /\ freePages' = freePages
        BY <2>2 DEF kmalloc_FromEmpty
      <3> QED
        BY <1>2, <3>1, <3>2, ReuseStep DEF Promise!HNext
    <2>3. ASSUME NEW c \in Cache, kmalloc_NewSlab(c) PROVE Promise!HNext
      BY <1>2, <2>3, GrowStep DEF Promise!HNext
    <2>4. NUM_CACHES \in Cache /\ freePages \subseteq Page /\ largeHeld \subseteq Page
      BY <1>2, HeapAssumption DEF HeapInv, TypeOK, Cache
    <2>5. ASSUME kmalloc_Large PROVE Promise!HNext
      <3>1. PICK p \in freePages : freePages' = freePages \ {p}
        BY <2>5 DEF kmalloc_Large
      <3>2. cache' = cache /\ held' = held
        BY <2>5 DEF kmalloc_Large, slabs
      <3>3. p \in Page /\ Use[p] = 0 /\ cache[p] = 0
        BY <1>2, <2>4, UseOf
      <3>4. Use' = [Use EXCEPT ![p] = NUM_CACHES + 1]
        BY <3>1, <3>2, <3>3, Zenon DEF Use
      <3>5. Promise!TakeWhole
        BY <3>2, <3>3, <3>4, Zenon DEF Promise!TakeWhole, Use
      <3> QED
        BY <3>5 DEF Promise!HNext
    <2>6. ASSUME NEW o \in held, kfree(o) PROVE Promise!HNext
      <3>1. held' = held \ {o} /\ cache' = cache /\ freePages' = freePages
        BY <2>6, Zenon DEF kfree
      <3>2. Promise!Free
        BY <3>1 DEF Promise!Free
      <3> QED
        BY <3>2 DEF Promise!HNext
    <2>7. ASSUME NEW p \in largeHeld, kfree_Large(p) PROVE [Promise!HNext]_<<Use, held>>
      <3>1. cache' = cache /\ held' = held /\ freePages' \in {freePages, freePages \cup {p}}
        BY <2>7 DEF kfree_Large, slabs
      <3>2. p \in Page /\ Use[p] = NUM_CACHES + 1 /\ cache[p] = 0
        BY <1>2, <2>4, UseOf
      <3>3. CASE freePages' = freePages
        BY <3>1, <3>3 DEF Use
      <3>4. CASE freePages' = freePages \cup {p}
        <4>1. Use' = [Use EXCEPT ![p] = 0]
          BY <3>1, <3>2, <3>4, Zenon DEF Use
        <4>2. Promise!FreeWhole
          BY <3>1, <3>2, <4>1, Zenon DEF Promise!FreeWhole, Use
        <4> QED
          BY <4>2 DEF Promise!HNext
      <3> QED
        BY <3>1, <3>3, <3>4
    <2>8. ASSUME UNCHANGED vars PROVE UNCHANGED <<Use, held>>
      BY <2>8 DEF vars, slabs, Use
    <2> QED
      BY <1>2, <2>1, <2>2, <2>3, <2>5, <2>6, <2>7, <2>8, Zenon DEF Next
  <1> QED
    BY <1>1, <1>2, HeapInvariant, PTL DEF Spec, ImplementsObjectHeap, Promise!HSpec, Use
=============================================================================

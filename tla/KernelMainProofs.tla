-------------------------- MODULE KernelMainProofs --------------------------
(***************************************************************************)
(* What kernel_main starts and what it leaves running, on every machine:   *)
(* smp_init reports all cores active only when they are, and without an    *)
(* overlap every AP has a stack of its own and the tick rate is true       *)
(* (SmpInv); a sleep on the HPET is long enough (ClockInv); the screen     *)
(* shows what was written last (ScreenInv).                                *)
(***************************************************************************)
EXTENDS KernelMain, FiniteSetTheorems, NaturalsInduction, WellFoundedInduction, TLAPS

LEMMA LeastNumber ==
  ASSUME NEW S \in SUBSET Nat, S # {}
  PROVE  \E n \in S : \A m \in S : n <= m
  <1> DEFINE R == OpToRel(<, Nat)
  <1>1. IsWellFoundedOn(R, Nat)
    BY NatLessThanWellFounded, Zenon
  <1> HIDE DEF R
  <1>2. PICK n \in S : \A m \in S : ~ (<<m, n>> \in R)
    BY <1>1, WFMin, Zenon
  <1>3. \A m \in S : ~ (m < n)
    BY <1>2, Zenon DEF R, OpToRel
  <1> QED
    BY <1>3

(* The recursion that stops at the members n with up[n] = n. *)
Follows(f, K, up, base, G) == \A n \in K : f[n] = IF up[n] = n THEN base[n] ELSE G[n][f[up[n]]]

Upwards(K, up) == \A n \in K : up[n] \in K /\ (up[n] = n \/ up[n] < n)

LEMMA Recursion ==
  ASSUME NEW M \in Nat, NEW K \in SUBSET (0..M), NEW V, NEW up, Upwards(K, up),
         NEW base \in [K -> V], NEW G \in [K -> [V -> V]]
  PROVE  \E f \in [K -> V] : Follows(f, K, up, base, G)
  <1> DEFINE Below(k) == {n \in K : n < k}
             D == {k \in Nat : ~ \E f \in [Below(k) -> V] : Follows(f, Below(k), up, base, G)}
  <1>1. \A n \in K : n \in Nat /\ n < M + 1
    OBVIOUS
  <1>2. D = {}
    <2> SUFFICES ASSUME D # {} PROVE FALSE
      OBVIOUS
    <2>1. D \in SUBSET Nat
      OBVIOUS
    <2>2. PICK k \in D : \A j \in D : k <= j
      <3> HIDE DEF D
      <3> QED
        BY <2>1, LeastNumber
    <2>3. k \in Nat /\ ~ \E f \in [Below(k) -> V] : Follows(f, Below(k), up, base, G)
      BY Zenon
    <2>b. k \in Nat
      BY <2>3, Zenon
    <2>a. ASSUME NEW j \in Nat, j < k
          PROVE  \E f \in [Below(j) -> V] : Follows(f, Below(j), up, base, G)
      <3>1. j \notin D
        <4> HIDE DEF D
        <4> QED
          BY <2>2, <2>3, <2>a
      <3> QED
        BY <3>1, Zenon
    <2> HIDE DEF D
    <2>4. CASE k = 0
      <3>1. Below(k) = {}
        <4>1. \A n \in K : ~(n < 0)
          BY <1>1
        <4> QED
          BY <2>4, <4>1, Zenon
      <3>2. [n \in {} |-> base[n]] \in [Below(k) -> V] /\ Follows([n \in {} |-> base[n]], Below(k), up, base, G)
        BY <3>1 DEF Follows
      <3> QED
        BY <2>3, <3>2, Zenon
    <2>5. CASE k # 0
      <3>1. k - 1 \in Nat /\ k - 1 < k
        BY <2>b, <2>5
      <3>3. ASSUME NEW n \in Below(k) PROVE up[n] = n \/ up[n] \in Below(k - 1)
        <4>1. n \in K /\ n < k /\ n \in Nat /\ up[n] \in K /\ up[n] \in Nat /\ (up[n] = n \/ up[n] < n)
          BY <1>1, Zenon DEF Upwards
        <4>2. up[n] < n => up[n] < k - 1
          BY <2>b, <4>1
        <4> QED
          BY <4>1, <4>2, Zenon
      <3>5. ASSUME NEW n \in Below(k - 1) PROVE n \in Below(k)
        <4>1. n \in Nat /\ n < k - 1
          BY <1>1, Zenon
        <4>2. n < k
          BY <2>b, <4>1
        <4> QED
          BY <4>2, Zenon
      <3>2. PICK f \in [Below(k - 1) -> V] : Follows(f, Below(k - 1), up, base, G)
        BY <2>a, <3>1, Zenon
      <3> DEFINE g == [n \in Below(k) |-> IF n \in Below(k - 1) THEN f[n]
                                          ELSE IF up[n] = n THEN base[n] ELSE G[n][f[up[n]]]]
      <3>4. \A n \in Below(k) : g[n] \in V
        <4> TAKE n \in Below(k)
        <4>1. g[n] = IF n \in Below(k - 1) THEN f[n] ELSE IF up[n] = n THEN base[n] ELSE G[n][f[up[n]]]
          BY Zenon
        <4>2. n \in K /\ base[n] \in V /\ G[n] \in [V -> V]
          BY Zenon
        <4> HIDE DEF g, Below
        <4> QED
          BY <3>2, <3>3, <4>1, <4>2, Zenon
      <3>6. Follows(g, Below(k), up, base, G)
        <4> SUFFICES ASSUME NEW n \in Below(k) PROVE g[n] = IF up[n] = n THEN base[n] ELSE G[n][g[up[n]]]
          BY Zenon DEF Follows
        <4>1. g[n] = IF n \in Below(k - 1) THEN f[n] ELSE IF up[n] = n THEN base[n] ELSE G[n][f[up[n]]]
          BY Zenon
        <4>2. n \in Below(k - 1) => f[n] = IF up[n] = n THEN base[n] ELSE G[n][f[up[n]]]
          BY <3>2, Zenon DEF Follows
        <4>3. up[n] \in Below(k - 1) => g[up[n]] = f[up[n]]
          BY <3>5, Zenon
        <4> HIDE DEF g, Below
        <4> QED
          BY <3>3, <4>1, <4>2, <4>3, Zenon
      <3>7. g \in [Below(k) -> V]
        BY <3>4, ZenonT(30)
      <3> HIDE DEF g, Below
      <3> QED
        BY <2>3, <3>6, <3>7, Zenon
    <2> QED
      BY <2>4, <2>5, Zenon
  <1>3. Below(M + 1) = K
    BY <1>1, ZenonT(30)
  <1>4. M + 1 \notin D
    BY <1>2, Zenon
  <1>b. M + 1 \in Nat
    OBVIOUS
  <1>5. \E f \in [Below(M + 1) -> V] : Follows(f, Below(M + 1), up, base, G)
    BY <1>4, <1>b, Zenon
  <1> QED
    BY <1>3, <1>5, Zenon

-----------------------------------------------------------------------------
(* The start of the application processors *)

Slots == 1..Len(kLapicIds)

(* What the parsing of the MADT leaves in kLapicIds: APs of the table, each *)
(* once, and all that there is room for.                                   *)
FoundAll(ids) ==
  /\ ids \in Seq(Id) /\ Len(ids) < MAX_CPUS
  /\ \A j, k \in 1..Len(ids) : ids[j] = ids[k] => j = k
  /\ \A j \in 1..Len(ids) : \E k \in Startable : ids[j] = madt[k].id
  /\ \A k \in Startable : Cardinality({j \in Startable : j < k}) < MAX_CPUS - 1 =>
       \E j \in 1..Len(ids) : ids[j] = madt[k].id

Halted(ids, at) == {j \in 1..Len(ids) : at[ids[j]] = "halted"}

(* The BSP has sent off the APs before i, and i itself between the INIT    *)
(* and the second startup IPI.  The APs that halt have counted themselves. *)
Sent ==
  /\ machine \in Machines
  /\ bsp = "parse" => kLapicIds = <<>> /\ i = 1
  /\ bsp # "parse" => FoundAll(kLapicIds)
  /\ \A c \in Id : ap[c] # "off" =>
       \E j \in Slots : c = kLapicIds[j] /\ (j < i \/ (j = i /\ bsp \in {"sipi", "sipi2"}))
  /\ \A c \in Id : ap[c] = "reset" => bsp \in {"sipi", "sipi2"} /\ c = kLapicIds[i]
  /\ bsp \in {"sipi", "sipi2"} => i \in Slots
  /\ bsp = "sipi" => ap[kLapicIds[i]] = "reset"
  /\ bsp = "done" => \A j \in Slots : ap[kLapicIds[j]] = "halted"
  /\ kCpusStarted = Cardinality(Halted(kLapicIds, ap)) + 1

(* While the slot was never overwritten too early and there was memory, it *)
(* holds the stack of the one AP that has yet to read it, and a stack is   *)
(* that of its AP.                                                         *)
OwnStack ==
  "slot" \notin mishaps /\ "memory" \notin mishaps =>
    /\ \A j \in Slots : ap[kLapicIds[j]] \in {"reset", "trampoline"} => ap_stack = j
    /\ \A c \in Id : rsp[c] # 0 => rsp[c] \in Slots /\ c = kLapicIds[rsp[c]]

(* While no two APs calibrated at a time, the one that does counts what    *)
(* has gone from the PIT.                                                  *)
OwnPit ==
  "pit" \notin mishaps =>
    /\ \A c, d \in Id : ap[c] = "calibrating" /\ ap[d] = "calibrating" => c = d
    /\ \A c \in Id : ap[c] = "calibrating" => count[c] + pit = CALIBRATE_MS
    /\ kTicksPerMs = TicksPerMs

SmpInv == TypeOK /\ Sent /\ OwnStack /\ OwnPit


-----------------------------------------------------------------------------
(* Parsing the MADT *)

LEMMA TableFacts ==
  ASSUME machine \in Machines
  PROVE  /\ Len(madt) \in Nat /\ DOMAIN madt = 1..Len(madt) /\ MAX_CPUS \in Nat \ {0}
         /\ \A k \in 1..Len(madt) : madt[k].id \in Id
         /\ \A j, k \in 1..Len(madt) : madt[j].id = madt[k].id => j = k
         /\ Startable \subseteq 1..Len(madt)
         /\ \A k \in 1..Len(madt) : Counted(madt[k]) <=> k \in Startable
  <1>1. madt \in Madts
    BY MachineAssumption, Zenon DEF madt
  <1>2. madt \in Seq([id : Nat, enabled : BOOLEAN])
    BY <1>1, SmpAssumption, Zenon
  <1>3. Len(madt) \in Nat /\ DOMAIN madt = 1..Len(madt)
    BY <1>2
  <1>4. \A k \in DOMAIN madt : madt[k].id \in Id
    BY <1>1 DEF Id
  <1>5. \A j, k \in DOMAIN madt : madt[j].id = madt[k].id => j = k
    BY <1>1, SmpAssumption, Zenon
  <1>6. Startable \subseteq DOMAIN madt /\ \A k \in DOMAIN madt : Counted(madt[k]) <=> k \in Startable
    BY Zenon DEF Startable, madt
  <1> QED
    BY <1>3, <1>4, <1>5, <1>6, SmpAssumption, Zenon

(* One turn of the loop over the table. *)
Turn(v, k) == IF k \in Startable /\ Len(v) + 1 < MAX_CPUS THEN Append(v, madt[k].id) ELSE v

LEMMA Parsing ==
  ASSUME machine \in Machines
  PROVE  /\ Parsed[0] = <<>>
         /\ \A k \in 1..Len(madt) : Parsed[k] = Turn(Parsed[k - 1], k)
  <1> DEFINE N == Len(madt)
             K == 0..N
             V == Seq(Id)
             up == [k \in K |-> IF k = 0 THEN 0 ELSE k - 1]
             base == [k \in K |-> <<>>]
             G == [k \in K |-> [v \in V |-> IF k = 0 THEN v ELSE Turn(v, k)]]
             Rule(f) == [k \in 0..Len(madt) |->
                           IF k = 0 THEN <<>>
                           ELSE IF Counted(madt[k]) /\ Len(f[k - 1]) + 1 < MAX_CPUS
                                THEN Append(f[k - 1], madt[k].id)
                           ELSE f[k - 1]]
  <1>1. N \in Nat /\ K \in SUBSET (0..N)
    BY TableFacts, Zenon
  <1>2. \A k \in K : up[k] \in K /\ (up[k] = k \/ up[k] < k) /\ (up[k] = k <=> k = 0)
    BY <1>1
  <1>3. base \in [K -> V]
    OBVIOUS
  <1>4. G \in [K -> [V -> V]]
    <2>1. ASSUME NEW k \in K, NEW v \in V, k # 0 PROVE Turn(v, k) \in V
      <3>1. k \in 1..Len(madt)
        BY <1>1, <2>1
      <3>2. madt[k].id \in Id
        BY <3>1, TableFacts, Zenon
      <3>3. Append(v, madt[k].id) \in V
        BY <3>2
      <3> QED
        BY <3>3, Zenon DEF Turn
    <2> HIDE DEF V, K
    <2> QED
      BY <2>1, Zenon
  <1>5. PICK f \in [K -> V] : Follows(f, K, up, base, G)
    <2>1. Upwards(K, up)
      BY <1>2, Zenon DEF Upwards
    <2> HIDE DEF K, V, up, base, G, N
    <2> QED
      BY <1>1, <1>3, <1>4, <2>1, Recursion, Zenon
  <1>6. ASSUME NEW k \in K PROVE f[k] = IF k = 0 THEN <<>> ELSE Turn(f[k - 1], k)
    <2>1. f[k] = IF up[k] = k THEN base[k] ELSE G[k][f[up[k]]]
      BY <1>5, Zenon DEF Follows
    <2>2. base[k] = <<>> /\ up[k] \in K /\ (up[k] = k <=> k = 0) /\ (k # 0 => up[k] = k - 1)
      BY <1>2, Zenon
    <2>3. f[up[k]] \in V /\ G[k][f[up[k]]] = IF k = 0 THEN f[up[k]] ELSE Turn(f[up[k]], k)
      BY <1>5, <2>2, Zenon
    <2> HIDE DEF K, V, up, base, G
    <2> QED
      BY <2>1, <2>2, <2>3, Zenon
  <1>7. \A k \in K \ {0} : k \in 1..N /\ k - 1 \in K
    BY <1>1
  <1>8. \A v, k : k \in 1..N => Turn(v, k) = IF Counted(madt[k]) /\ Len(v) + 1 < MAX_CPUS
                                     THEN Append(v, madt[k].id) ELSE v
    BY TableFacts, Zenon DEF Turn, madt
  <1>9. f = Rule(f)
    <2>1. f = [k \in 0..Len(madt) |-> f[k]]
      BY <1>5, Zenon DEF madt
    <2>2. ASSUME NEW k \in 0..Len(madt)
          PROVE  f[k] = IF k = 0 THEN <<>>
                        ELSE IF Counted(madt[k]) /\ Len(f[k - 1]) + 1 < MAX_CPUS
                             THEN Append(f[k - 1], madt[k].id)
                        ELSE f[k - 1]
      <3>1. k \in K
        BY Zenon DEF madt
      <3>2. f[k] = IF k = 0 THEN <<>> ELSE Turn(f[k - 1], k)
        BY <1>6, <3>1, Zenon
      <3> QED
        BY <1>7, <1>8, <3>1, <3>2, Zenon
    <2> QED
      BY <2>1, <2>2, Zenon
  <1>10. Parsed = Rule(Parsed)
    BY <1>9, Zenon DEF Parsed
  <1>11. ASSUME NEW k \in K PROVE Parsed[k] = IF k = 0 THEN <<>> ELSE Turn(Parsed[k - 1], k)
    <2>1. k \in 0..Len(madt)
      BY Zenon DEF madt
    <2>2. Parsed[k] = IF k = 0 THEN <<>>
                        ELSE IF Counted(madt[k]) /\ Len(Parsed[k - 1]) + 1 < MAX_CPUS
                             THEN Append(Parsed[k - 1], madt[k].id)
                        ELSE Parsed[k - 1]
      BY <1>10, <2>1, Zenon
    <2> QED
      BY <1>7, <1>8, <2>2, Zenon
  <1>12. 0 \in K /\ \A k \in 1..N : k \in K /\ k # 0
    BY <1>1
  <1> HIDE DEF K
  <1> QED
    BY <1>11, <1>12, Zenon


Before(k) == {j \in Startable : j < k}

LEMMA BeforeCounts ==
  ASSUME machine \in Machines, NEW k \in 1..Len(madt)
  PROVE  /\ Cardinality(Before(k)) \in Nat
         /\ Cardinality(Before(k + 1)) = IF k \in Startable THEN Cardinality(Before(k)) + 1 ELSE Cardinality(Before(k))
  <1>1. Startable \subseteq 1..Len(madt) /\ Len(madt) \in Nat
    BY TableFacts, Zenon
  <1>2. IsFiniteSet(Before(k))
    <2>1. IsFiniteSet(1..Len(madt))
      BY <1>1, FS_Interval
    <2>2. Before(k) \subseteq 1..Len(madt)
      BY <1>1, Zenon DEF Before
    <2> QED
      BY <2>1, <2>2, FS_Subset, Zenon
  <1>3. Cardinality(Before(k)) \in Nat
    BY <1>2, FS_CardinalityType, Zenon
  <1>4. k \notin Before(k) /\ Before(k + 1) = IF k \in Startable THEN Before(k) \cup {k} ELSE Before(k)
    <2>1. \A j \in 1..Len(madt) : j < k + 1 <=> j < k \/ j = k
      BY <1>1
    <2>2. ~ (k < k)
      BY <1>1
    <2> QED
      BY <1>1, <2>1, <2>2, Zenon DEF Before
  <1>5. Cardinality(Before(k) \cup {k}) = Cardinality(Before(k)) + 1
    BY <1>2, <1>4, FS_AddElement, Zenon
  <1> QED
    BY <1>3, <1>4, <1>5, Zenon

(* What the loop has found after k entries. *)
FoundIn(v, k) ==
  /\ v \in Seq(Id) /\ Len(v) < MAX_CPUS /\ Len(v) <= Cardinality(Before(k + 1))
  /\ \A j, l \in 1..Len(v) : v[j] = v[l] => j = l
  /\ \A j \in 1..Len(v) : \E m \in Startable : m <= k /\ v[j] = madt[m].id
  /\ \A m \in Startable : m <= k /\ Cardinality(Before(m)) < MAX_CPUS - 1 => \E j \in 1..Len(v) : v[j] = madt[m].id

LEMMA FoundNext ==
  ASSUME machine \in Machines, NEW k \in 1..Len(madt), NEW v, FoundIn(v, k - 1)
  PROVE  FoundIn(Turn(v, k), k)
  <1> DEFINE id == madt[k].id
             w == Append(v, id)
  <1>1. /\ Startable \subseteq 1..Len(madt) /\ Len(madt) \in Nat /\ MAX_CPUS \in Nat \ {0} /\ id \in Id
        /\ \A j, m \in 1..Len(madt) : madt[j].id = madt[m].id => j = m
    BY TableFacts, Zenon
  <1>2. /\ v \in Seq(Id) /\ Len(v) < MAX_CPUS /\ Len(v) <= Cardinality(Before(k))
        /\ \A j, l \in 1..Len(v) : v[j] = v[l] => j = l
        /\ \A j \in 1..Len(v) : \E m \in Startable : m <= k - 1 /\ v[j] = madt[m].id
        /\ \A m \in Startable : m <= k - 1 /\ Cardinality(Before(m)) < MAX_CPUS - 1 => \E j \in 1..Len(v) : v[j] = madt[m].id
    <2>1. (k - 1) + 1 = k
      BY <1>1
    <2> QED
      BY <2>1, Zenon DEF FoundIn
  <1>3. /\ Cardinality(Before(k)) \in Nat
        /\ Cardinality(Before(k + 1)) = IF k \in Startable THEN Cardinality(Before(k)) + 1 ELSE Cardinality(Before(k))
    BY BeforeCounts, Zenon
  <1>4. \A m \in Startable : m \in Nat /\ (m <= k <=> m <= k - 1 \/ m = k) /\ (m <= k - 1 => m <= k /\ m # k)
    BY <1>1
  <1>5. Len(v) \in Nat
    BY <1>2
  <1>6. CASE ~ (k \in Startable /\ Len(v) + 1 < MAX_CPUS)
    <2>1. Turn(v, k) = v
      BY <1>6, Zenon DEF Turn
    <2>2. Len(v) <= Cardinality(Before(k + 1))
      BY <1>2, <1>3, <1>5
    <2>3. ~ (k \in Startable /\ Cardinality(Before(k)) < MAX_CPUS - 1)
      BY <1>1, <1>2, <1>3, <1>5, <1>6
    <2>4. \A m \in Startable : m <= k /\ Cardinality(Before(m)) < MAX_CPUS - 1 => m <= k - 1
      BY <1>4, <2>3, Zenon
    <2> QED
      BY <1>2, <1>4, <2>1, <2>2, <2>4, Zenon DEF FoundIn
  <1>7. CASE k \in Startable /\ Len(v) + 1 < MAX_CPUS
    <2>1. Turn(v, k) = w
      BY <1>7, Zenon DEF Turn
    <2>2. /\ w \in Seq(Id) /\ Len(w) = Len(v) + 1 /\ w[Len(v) + 1] = id
          /\ \A j \in 1..Len(v) : w[j] = v[j] /\ j \in 1..Len(w)
          /\ \A j \in 1..Len(w) : j \in 1..Len(v) \/ j = Len(v) + 1
          /\ Len(v) + 1 \in 1..Len(w)
      BY <1>1, <1>2
    <2>3. Len(w) < MAX_CPUS /\ Len(w) <= Cardinality(Before(k + 1))
      BY <1>2, <1>3, <1>5, <1>7, <2>2
    <2>4. \A j \in 1..Len(v) : v[j] # id
      <3> TAKE j \in 1..Len(v)
      <3>1. PICK m \in Startable : m <= k - 1 /\ v[j] = madt[m].id
        BY <1>2, Zenon
      <3>2. m # k /\ m \in 1..Len(madt)
        BY <1>1, <1>4, <3>1, Zenon
      <3> QED
        BY <1>1, <3>1, <3>2, Zenon
    <2> HIDE DEF w, id
    <2>5. ASSUME NEW j \in 1..Len(w), NEW l \in 1..Len(w), w[j] = w[l] PROVE j = l
      <3>1. CASE j \in 1..Len(v) /\ l \in 1..Len(v)
        BY <1>2, <2>2, <2>5, <3>1, Zenon
      <3>2. CASE j = Len(v) + 1 /\ l \in 1..Len(v)
        BY <2>2, <2>4, <2>5, <3>2, Zenon
      <3>3. CASE j \in 1..Len(v) /\ l = Len(v) + 1
        BY <2>2, <2>4, <2>5, <3>3, Zenon
      <3> QED
        BY <2>2, <3>1, <3>2, <3>3, Zenon
    <2>6. ASSUME NEW j \in 1..Len(w) PROVE \E m \in Startable : m <= k /\ w[j] = madt[m].id
      <3>1. CASE j \in 1..Len(v)
        <4>1. PICK m \in Startable : m <= k - 1 /\ v[j] = madt[m].id
          BY <1>2, <3>1, Zenon
        <4>2. m <= k /\ w[j] = v[j]
          BY <1>4, <2>2, <3>1, <4>1, Zenon
        <4> QED
          BY <4>1, <4>2, Zenon
      <3>2. CASE j = Len(v) + 1
        BY <1>4, <1>7, <2>2, <3>2, Zenon DEF id
      <3> QED
        BY <2>2, <3>1, <3>2, Zenon
    <2>7. ASSUME NEW m \in Startable, m <= k, Cardinality(Before(m)) < MAX_CPUS - 1 PROVE \E j \in 1..Len(w) : w[j] = madt[m].id
      BY <1>2, <1>4, <2>2, <2>7, Zenon DEF id
    <2> QED
      BY <2>1, <2>2, <2>3, <2>5, <2>6, <2>7, Zenon DEF FoundIn
  <1> QED
    BY <1>6, <1>7, Zenon

(* smp_init_Parse. *)
LEMMA ParsedAll ==
  ASSUME machine \in Machines
  PROVE  FoundAll(Parsed[Len(madt)])
  <1> DEFINE D == {k \in 0..Len(madt) : ~FoundIn(Parsed[k], k)}
  <1>1. Len(madt) \in Nat /\ Startable \subseteq 1..Len(madt) /\ MAX_CPUS \in Nat \ {0}
    BY TableFacts, Zenon
  <1>2. FoundIn(Parsed[0], 0)
    <2>1. Parsed[0] = <<>>
      BY Parsing, Zenon
    <2>2. Before(0 + 1) = {}
      <3>1. \A j \in 1..Len(madt) : ~ (j < 0 + 1)
        BY <1>1
      <3> QED
        BY <1>1, <3>1, Zenon DEF Before
    <2>3. Cardinality(Before(0 + 1)) = 0
      BY <2>2, FS_EmptySet, Zenon
    <2>4. \A m \in Startable : ~ (m <= 0)
      BY <1>1
    <2>5. <<>> \in Seq(Id) /\ Len(<<>>) = 0 /\ 1..Len(<<>>) = {} /\ 0 < MAX_CPUS /\ 0 <= 0
      BY <1>1
    <2> QED
      BY <2>1, <2>3, <2>4, <2>5, Zenon DEF FoundIn
  <1>3. D = {}
    <2> SUFFICES ASSUME D # {} PROVE FALSE
      OBVIOUS
    <2>1. D \in SUBSET Nat
      BY <1>1
    <2>2. PICK k \in D : \A m \in D : k <= m
      BY <2>1, LeastNumber, Zenon
    <2>3. k # 0 /\ k \in 0..Len(madt)
      BY <1>2, <2>2, Zenon
    <2>4. k \in 1..Len(madt) /\ k - 1 \in 0..Len(madt) /\ ~ (k <= k - 1)
      BY <1>1, <2>3
    <2>5. FoundIn(Parsed[k - 1], k - 1)
      BY <2>2, <2>4, Zenon
    <2>6. FoundIn(Parsed[k], k)
      BY <2>4, <2>5, FoundNext, Parsing, Zenon
    <2> QED
      BY <2>2, <2>6, Zenon
  <1>4. Len(madt) \in 0..Len(madt) /\ \A m \in Startable : m <= Len(madt)
    BY <1>1
  <1>5. FoundIn(Parsed[Len(madt)], Len(madt))
    BY <1>3, <1>4, Zenon
  <1> QED
    BY <1>4, <1>5, Zenon DEF FoundIn, FoundAll, Before


-----------------------------------------------------------------------------
(* The steps of the BSP and of the APs *)

LEMMA SmpStarts == Init => SmpInv
  <1> SUFFICES ASSUME Init PROVE SmpInv
    OBVIOUS
  <1>1. machine \in Machines /\ SmpInit
    BY Zenon DEF Init
  <1>2. /\ bsp = "parse" /\ kLapicIds = <<>> /\ i = 1 /\ kCpusStarted = 1 /\ ap_stack = 0
        /\ ap = [c \in Id |-> "off"] /\ rsp = [c \in Id |-> 0]
        /\ pit = 0 /\ count = [c \in Id |-> 0] /\ kTicksPerMs = TicksPerMs
        /\ mishaps = {}
    BY <1>1, Zenon DEF SmpInit
  <1>3. MAX_CPUS \in Nat \ {0} /\ CALIBRATE_MS \in Nat \ {0} /\ TicksPerMs \in Nat
    BY SmpAssumption, Zenon
  <1>4. TypeOK
    BY <1>2, <1>3 DEF TypeOK, kCpuCount, StackAtZero
  <1>5. Halted(kLapicIds, ap) = {} /\ Slots = {}
    BY <1>2 DEF Halted, Slots
  <1>6. kCpusStarted = Cardinality(Halted(kLapicIds, ap)) + 1
    <2>1. Cardinality({}) = 0
      BY FS_EmptySet, Zenon
    <2>2. 0 + 1 = 1
      OBVIOUS
    <2> QED
      BY <1>2, <1>5, <2>1, <2>2, Zenon
  <1>7. \A c \in Id : ap[c] = "off" /\ rsp[c] = 0
    BY <1>2, Zenon
  <1>8. "off" # "reset" /\ "off" # "calibrating" /\ bsp # "sipi" /\ bsp # "sipi2" /\ bsp # "done"
    BY <1>2
  <1>9. Sent
    BY <1>1, <1>2, <1>6, <1>7, <1>8, Zenon DEF Sent
  <1>10. OwnStack /\ OwnPit
    BY <1>2, <1>5, <1>7, <1>8, Zenon DEF OwnStack, OwnPit
  <1> QED
    BY <1>4, <1>9, <1>10, Zenon DEF SmpInv

LEMMA SmpTypes ==
  ASSUME SmpInv
  PROVE  /\ kLapicIds \in Seq(Id) /\ Len(kLapicIds) \in Nat /\ i \in 1..(Len(kLapicIds) + 1) /\ i \in Nat
         /\ (\A j \in Slots : kLapicIds[j] \in Id) /\ DOMAIN ap = Id
         /\ \A j, k \in Slots : kLapicIds[j] = kLapicIds[k] => j = k
         /\ MAX_CPUS \in Nat \ {0} /\ CALIBRATE_MS \in Nat \ {0} /\ TicksPerMs \in Nat
  <1>1. kLapicIds \in Seq(Id) /\ i \in 1..(Len(kLapicIds) + 1) /\ DOMAIN ap = Id
    BY Zenon DEF SmpInv, TypeOK, kCpuCount
  <1>2. Len(kLapicIds) \in Nat /\ i \in Nat
    BY <1>1
  <1>3. \A j \in Slots : kLapicIds[j] \in Id
    BY <1>1 DEF Slots
  <1>4. \A j, k \in Slots : kLapicIds[j] = kLapicIds[k] => j = k
    <2>1. CASE bsp = "parse"
      <3>1. kLapicIds = <<>>
        BY <2>1, Zenon DEF SmpInv, Sent
      <3> QED
        BY <3>1 DEF Slots
    <2>2. CASE bsp # "parse"
      BY <2>2, Zenon DEF SmpInv, Sent, FoundAll, Slots
    <2> QED
      BY <2>1, <2>2, Zenon
  <1> QED
    BY <1>1, <1>2, <1>3, <1>4, SmpAssumption, Zenon

(* The counter goes with the APs that halt. *)
LEMMA OneMoreHalts ==
  ASSUME SmpInv, NEW j \in Slots, ap[kLapicIds[j]] # "halted"
  PROVE  /\ Cardinality(Halted(kLapicIds, [ap EXCEPT ![kLapicIds[j]] = "halted"])) = Cardinality(Halted(kLapicIds, ap)) + 1
         /\ Cardinality(Halted(kLapicIds, ap)) \in Nat /\ Cardinality(Halted(kLapicIds, ap)) < Len(kLapicIds)
  <1> DEFINE ap2 == [ap EXCEPT ![kLapicIds[j]] = "halted"]
             H == Halted(kLapicIds, ap)
  <1>1. /\ Len(kLapicIds) \in Nat /\ (\A k \in Slots : kLapicIds[k] \in Id) /\ DOMAIN ap = Id
        /\ \A k, l \in Slots : kLapicIds[k] = kLapicIds[l] => k = l
    BY SmpTypes, Zenon
  <1>2. \A k \in Slots : ap2[kLapicIds[k]] = IF k = j THEN "halted" ELSE ap[kLapicIds[k]]
    BY <1>1, Zenon
  <1>3. Halted(kLapicIds, ap2) = H \cup {j} /\ j \notin H
    BY <1>2, Zenon DEF Halted, Slots
  <1>4. IsFiniteSet(Slots) /\ Cardinality(Slots) = Len(kLapicIds)
    <2>1. 1 \in Int /\ Len(kLapicIds) \in Int
      BY <1>1
    <2>2. IsFiniteSet(Slots) /\ Cardinality(Slots) = IF 1 > Len(kLapicIds) THEN 0 ELSE Len(kLapicIds) - 1 + 1
      BY <2>1, FS_Interval, Zenon DEF Slots
    <2> QED
      BY <1>1, <2>2
  <1>5. IsFiniteSet(H) /\ H \cup {j} \subseteq Slots
    <2>1. H \subseteq Slots
      BY Zenon DEF Halted, Slots
    <2> QED
      BY <1>4, <2>1, FS_Subset, Zenon
  <1>6. Cardinality(H \cup {j}) = Cardinality(H) + 1 /\ Cardinality(H) \in Nat
    BY <1>3, <1>5, FS_AddElement, FS_CardinalityType, Zenon
  <1>7. Cardinality(H \cup {j}) <= Cardinality(Slots)
    BY <1>4, <1>5, FS_Subset, Zenon
  <1>8. Cardinality(H) < Len(kLapicIds)
    <2> HIDE DEF H
    <2> QED
      BY <1>1, <1>4, <1>6, <1>7
  <1> QED
    BY <1>3, <1>6, <1>8, Zenon


LEMMA FoundStays ==
  ASSUME machine' = machine, kLapicIds' = kLapicIds, FoundAll(kLapicIds)
  PROVE  FoundAll(kLapicIds)'
  BY Zenon DEF FoundAll, madt, Startable

States == {"off", "reset", "trampoline", "entry", "calibrating", "calibrated", "halted", "shutdown"}

(* An AP that was sent off and does not halt is one of the slots, and      *)
(* smp_init still waits for it.                                            *)
LEMMA InSlot ==
  ASSUME SmpInv, NEW c \in Id, ap[c] \notin {"off", "halted"}
  PROVE  bsp # "parse" /\ bsp # "done" /\ \E j \in Slots : c = kLapicIds[j]
  <1>1. PICK j \in Slots : c = kLapicIds[j]
    BY Zenon DEF SmpInv, Sent
  <1>2. bsp # "done"
    BY <1>1, Zenon DEF SmpInv, Sent
  <1>3. bsp # "parse"
    <2> SUFFICES ASSUME bsp = "parse" PROVE FALSE
      OBVIOUS
    <2>1. kLapicIds = <<>>
      BY Zenon DEF SmpInv, Sent
    <2> QED
      BY <1>1, <2>1 DEF Slots
  <1> QED
    BY <1>1, <1>2, <1>3, Zenon

(* An AP goes its way. *)
LEMMA ApMoves ==
  ASSUME SmpInv, NEW c \in Id, NEW b \in States \ {"off", "reset"}, ap[c] \notin {"off", "reset", "halted"},
         ap' = [ap EXCEPT ![c] = b], UNCHANGED <<machine, bsp, kLapicIds, i>>,
         kCpusStarted' = IF b = "halted" THEN kCpusStarted + 1 ELSE kCpusStarted
  PROVE  Sent' /\ ap' \in [Id -> States] /\ kCpusStarted' \in 1..(Len(kLapicIds) + 1)
  <1>1. /\ Len(kLapicIds) \in Nat /\ i \in 1..(Len(kLapicIds) + 1)
        /\ (\A j \in Slots : kLapicIds[j] \in Id) /\ DOMAIN ap = Id
        /\ \A j, k \in Slots : kLapicIds[j] = kLapicIds[k] => j = k
    BY SmpTypes, Zenon
  <1>2. Sent /\ ap \in [Id -> States] /\ kCpusStarted \in 1..(Len(kLapicIds) + 1)
    BY Zenon DEF SmpInv, TypeOK, States, kCpuCount
  <1>3. \A d \in Id : ap'[d] = IF d = c THEN b ELSE ap[d]
    BY <1>1, Zenon
  <1>4. ap' \in [Id -> States]
    BY <1>2, Zenon
  <1>5. PICK j \in Slots : c = kLapicIds[j] /\ bsp # "parse" /\ bsp # "done"
    BY InSlot, Zenon
  <1>6. kCpusStarted' = Cardinality(Halted(kLapicIds, ap')) + 1 /\ kCpusStarted' \in 1..(Len(kLapicIds) + 1)
    <2>1. CASE b = "halted"
      <3>1. /\ Cardinality(Halted(kLapicIds, ap')) = Cardinality(Halted(kLapicIds, ap)) + 1
            /\ Cardinality(Halted(kLapicIds, ap)) \in Nat /\ Cardinality(Halted(kLapicIds, ap)) < Len(kLapicIds)
        BY <1>5, <2>1, OneMoreHalts, Zenon
      <3>2. kCpusStarted' = kCpusStarted + 1 /\ kCpusStarted = Cardinality(Halted(kLapicIds, ap)) + 1
        BY <1>2, <2>1, Zenon DEF Sent
      <3> QED
        BY <1>1, <1>2, <3>1, <3>2
    <2>2. CASE b # "halted"
      <3>1. \A k \in Slots : ap'[kLapicIds[k]] = "halted" <=> ap[kLapicIds[k]] = "halted"
        BY <1>1, <1>3, <2>2, Zenon
      <3>2. Halted(kLapicIds, ap') = Halted(kLapicIds, ap)
        BY <3>1, Zenon DEF Halted, Slots
      <3> QED
        BY <1>2, <2>2, <3>2, Zenon DEF Sent
    <2> QED
      BY <2>1, <2>2, Zenon
  <1>7. FoundAll(kLapicIds)'
    BY <1>2, <1>5, FoundStays, Zenon DEF Sent
  <1>8. Slots' = Slots
    BY Zenon DEF Slots
  <1>9. bsp \in {"sipi", "sipi2"} => i \in Slots
    BY <1>2, Zenon DEF Sent
  <1>10. bsp = "sipi" => ap[kLapicIds[i]] = "reset"
    BY <1>2, Zenon DEF Sent
  <1>11. bsp' = "sipi" => ap'[kLapicIds'[i']] = "reset"
    BY <1>1, <1>3, <1>9, <1>10, Zenon
  <1>12. \A d \in Id : ap'[d] # "off" =>
           \E k \in Slots : d = kLapicIds[k] /\ (k < i \/ (k = i /\ bsp \in {"sipi", "sipi2"}))
    BY <1>2, <1>3, Zenon DEF Sent
  <1>13. \A d \in Id : ap'[d] = "reset" => bsp \in {"sipi", "sipi2"} /\ d = kLapicIds[i]
    BY <1>2, <1>3, Zenon DEF Sent
  <1>14. machine' \in Machines
    BY <1>2, Zenon DEF Sent
  <1>15. kCpusStarted' = Cardinality(Halted(kLapicIds, ap)') + 1
    BY <1>6, Zenon DEF Halted
  <1>16. Sent'
    BY <1>5, <1>7, <1>8, <1>9, <1>11, <1>12, <1>13, <1>14, <1>15, Zenon DEF Sent
  <1> QED
    BY <1>4, <1>6, <1>16, Zenon


InUse == {"reset", "trampoline"}

(* A step that leaves the slot and the stacks alone. *)
LEMMA StackKept ==
  ASSUME SmpInv, UNCHANGED <<kLapicIds, ap_stack, rsp>>, mishaps \subseteq mishaps',
         \A d \in Id : ap'[d] \in InUse => ap[d] \in InUse
  PROVE  OwnStack'
  <1>1. Slots' = Slots /\ \A j \in Slots : kLapicIds[j] \in Id
    BY SmpTypes, Zenon DEF Slots
  <1>2. OwnStack
    BY Zenon DEF SmpInv
  <1> QED
    BY <1>1, <1>2, Zenon DEF OwnStack, InUse

(* A step that leaves the PIT and the timers alone. *)
LEMMA PitKept ==
  ASSUME SmpInv, UNCHANGED <<pit, count, kTicksPerMs>>, mishaps \subseteq mishaps',
         \A d \in Id : ap'[d] = "calibrating" => ap[d] = "calibrating"
  PROVE  OwnPit'
  <1>1. OwnPit
    BY Zenon DEF SmpInv
  <1> QED
    BY <1>1, Zenon DEF OwnPit

LEMMA SmpParts ==
  ASSUME SmpInv
  PROVE  /\ bsp \in {"parse", "loop", "sipi", "sipi2", "done"} /\ kLapicIds \in Seq(Id)
         /\ i \in 1..(Len(kLapicIds) + 1) /\ kCpusStarted \in 1..(Len(kLapicIds) + 1)
         /\ ap_stack \in 0..MAX_CPUS /\ rsp \in [Id -> 0..MAX_CPUS] /\ ap \in [Id -> States]
         /\ pit \in 0..CALIBRATE_MS /\ count \in [Id -> Nat] /\ kTicksPerMs \in Nat /\ mishaps \subseteq {"slot", "memory", "pit"}
  BY Zenon DEF SmpInv, TypeOK, kCpuCount, States, StackAtZero

(* SmpInv after a step, from its parts. *)
LEMMA SmpNext ==
  ASSUME bsp' \in {"parse", "loop", "sipi", "sipi2", "done"}, kLapicIds' \in Seq(Id),
         i' \in 1..(Len(kLapicIds') + 1), kCpusStarted' \in 1..(Len(kLapicIds') + 1),
         ap_stack' \in 0..MAX_CPUS, rsp' \in [Id -> 0..MAX_CPUS], ap' \in [Id -> States],
         pit' \in 0..CALIBRATE_MS, count' \in [Id -> Nat], kTicksPerMs' \in Nat, mishaps' \subseteq {"slot", "memory", "pit"},
         Sent', OwnStack', OwnPit'
  PROVE  SmpInv'
  <1>1. TypeOK'
    BY Zenon DEF TypeOK, kCpuCount, States, StackAtZero
  <1> QED
    BY <1>1, Zenon DEF SmpInv

LEMMA TrampolineStep ==
  ASSUME SmpInv, UNCHANGED machine, NEW c \in Id, trampoline_lm(c) \/ trampoline_pm_Fault(c)
  PROVE  SmpInv'
  <1>1. PICK b \in {"entry", "shutdown"} :
          /\ ap[c] = "trampoline" /\ ap' = [ap EXCEPT ![c] = b]
          /\ rsp' = IF b = "entry" THEN [rsp EXCEPT ![c] = ap_stack] ELSE rsp
          /\ UNCHANGED <<mishaps, bsp, kLapicIds, i, kCpusStarted, ap_stack, pit, count, kTicksPerMs>>
    <2>1. CASE trampoline_lm(c)
      BY <2>1, Zenon DEF trampoline_lm, ApGoto
    <2>2. CASE trampoline_pm_Fault(c)
      <3>1. "shutdown" # "entry"
        OBVIOUS
      <3> QED
        BY <2>2, <3>1, Zenon DEF trampoline_pm_Fault, ApGoto
    <2> QED
      BY <2>1, <2>2, Zenon
  <1>2. /\ b \in States \ {"off", "reset"} /\ b # "halted" /\ b \notin InUse /\ b # "calibrating"
        /\ ap[c] \notin {"off", "reset", "halted"} /\ ap[c] \in InUse
    BY <1>1 DEF States, InUse
  <1>3. Sent' /\ ap' \in [Id -> States] /\ kCpusStarted' \in 1..(Len(kLapicIds) + 1)
    BY <1>1, <1>2, ApMoves, Zenon
  <1>4. DOMAIN ap = Id /\ \A d \in Id : ap'[d] = IF d = c THEN b ELSE ap[d]
    BY <1>1, SmpTypes, Zenon
  <1>5. OwnPit'
    BY <1>1, <1>2, <1>4, PitKept, Zenon
  <1>6. rsp' \in [Id -> 0..MAX_CPUS]
    BY <1>1, SmpParts, Zenon
  <1>7. OwnStack'
    <2>1. CASE b # "entry"
      BY <1>1, <1>2, <1>4, <2>1, StackKept, Zenon
    <2>2. CASE b = "entry"
      <3> SUFFICES ASSUME "slot" \notin mishaps, "memory" \notin mishaps
                   PROVE  /\ \A j \in Slots : ap'[kLapicIds[j]] \in InUse => ap_stack = j
                          /\ \A d \in Id : rsp'[d] # 0 => rsp'[d] \in Slots /\ d = kLapicIds[rsp'[d]]
        BY <1>1, Zenon DEF OwnStack, InUse, Slots
      <3>1. /\ \A j \in Slots : ap[kLapicIds[j]] \in InUse => ap_stack = j
            /\ \A d \in Id : rsp[d] # 0 => rsp[d] \in Slots /\ d = kLapicIds[rsp[d]]
        BY Zenon DEF SmpInv, OwnStack, InUse
      <3>2. PICK j \in Slots : c = kLapicIds[j]
        BY <1>2, InSlot, Zenon
      <3>3. ap_stack = j
        BY <1>2, <3>1, <3>2, Zenon
      <3>4. \A d \in Id : rsp'[d] = IF d = c THEN j ELSE rsp[d]
        BY <1>1, <2>2, <3>3, SmpParts, Zenon
      <3>5. \A k \in Slots : kLapicIds[k] \in Id
        BY SmpTypes, Zenon
      <3> QED
        BY <1>2, <1>4, <3>1, <3>2, <3>4, <3>5, Zenon
    <2> QED
      BY <2>1, <2>2, Zenon
  <1> QED
    BY <1>1, <1>3, <1>5, <1>6, <1>7, SmpParts, SmpNext, Zenon


LEMMA CalibrateStep ==
  ASSUME SmpInv, UNCHANGED machine, NEW c \in Id, calibrate_timer_Start(c)
  PROVE  SmpInv'
  <1>1. /\ ap[c] = "entry" /\ ap' = [ap EXCEPT ![c] = "calibrating"]
        /\ pit' = CALIBRATE_MS /\ count' = [count EXCEPT ![c] = 0]
        /\ mishaps' = mishaps \cup IF \E d \in Id : ap[d] = "calibrating" THEN {"pit"} ELSE {}
        /\ UNCHANGED <<bsp, kLapicIds, i, kCpusStarted, ap_stack, rsp, kTicksPerMs>>
    BY Zenon DEF calibrate_timer_Start, ApGoto
  <1>2. /\ "calibrating" \in States \ {"off", "reset"} /\ "calibrating" # "halted" /\ "calibrating" \notin InUse
        /\ ap[c] \notin {"off", "reset", "halted"} /\ ap[c] # "calibrating"
    BY <1>1 DEF States, InUse
  <1>3. Sent' /\ ap' \in [Id -> States] /\ kCpusStarted' \in 1..(Len(kLapicIds) + 1)
    BY <1>1, <1>2, ApMoves, Zenon
  <1>4. DOMAIN ap = Id /\ \A d \in Id : ap'[d] = IF d = c THEN "calibrating" ELSE ap[d]
    BY <1>1, SmpTypes, Zenon
  <1>5. mishaps \subseteq mishaps' /\ mishaps' \subseteq {"slot", "memory", "pit"}
    BY <1>1, SmpParts, Zenon
  <1>6. OwnStack'
    BY <1>1, <1>2, <1>4, <1>5, StackKept, Zenon
  <1>7. CALIBRATE_MS \in Nat \ {0}
    BY SmpAssumption, Zenon
  <1>8. pit' \in 0..CALIBRATE_MS /\ 0 + CALIBRATE_MS = CALIBRATE_MS /\ 0 \in Nat
    BY <1>1, <1>7
  <1>9. count' \in [Id -> Nat] /\ count'[c] = 0
    BY <1>1, <1>8, SmpParts, Zenon
  <1>10. OwnPit'
    <2> SUFFICES ASSUME "pit" \notin mishaps'
                 PROVE  /\ \A d, e \in Id : ap'[d] = "calibrating" /\ ap'[e] = "calibrating" => d = e
                        /\ \A d \in Id : ap'[d] = "calibrating" => count'[d] + pit' = CALIBRATE_MS
                        /\ kTicksPerMs' = TicksPerMs
      BY Zenon DEF OwnPit
    <2>1. \A d \in Id : ap[d] # "calibrating"
      BY <1>1, Zenon
    <2>2. kTicksPerMs = TicksPerMs
      BY <1>5, Zenon DEF SmpInv, OwnPit
    <2>3. \A d \in Id : ap'[d] = "calibrating" => d = c
      BY <1>4, <2>1, Zenon
    <2> QED
      BY <1>1, <1>8, <1>9, <2>2, <2>3, Zenon
  <1> QED
    BY <1>1, <1>3, <1>5, <1>6, <1>8, <1>9, <1>10, SmpParts, SmpNext, Zenon

LEMMA Quotient ==
  ASSUME NEW a \in Nat, NEW b \in Nat \ {0}
  PROVE  (a \div b) \in Nat
  OBVIOUS

LEMMA ExactQuotient ==
  ASSUME NEW a \in Nat, NEW b \in Nat \ {0}
  PROVE  (b * a) \div b = a
  OBVIOUS

LEMMA CalibratedStep ==
  ASSUME SmpInv, UNCHANGED machine, NEW c \in Id, calibrate_timer_End(c)
  PROVE  SmpInv'
  <1>1. /\ ap[c] = "calibrating" /\ ap' = [ap EXCEPT ![c] = "calibrated"] /\ pit = 0
        /\ kTicksPerMs' = (count[c] * TicksPerMs) \div CALIBRATE_MS
        /\ UNCHANGED <<mishaps, bsp, kLapicIds, i, kCpusStarted, ap_stack, rsp, pit, count>>
    BY Zenon DEF calibrate_timer_End, ApGoto, PitExpired
  <1>2. /\ "calibrated" \in States \ {"off", "reset"} /\ "calibrated" # "halted" /\ "calibrated" \notin InUse
        /\ ap[c] \notin {"off", "reset", "halted"} /\ "calibrated" # "calibrating"
    BY <1>1 DEF States, InUse
  <1>3. Sent' /\ ap' \in [Id -> States] /\ kCpusStarted' \in 1..(Len(kLapicIds) + 1)
    BY <1>1, <1>2, ApMoves, Zenon
  <1>4. DOMAIN ap = Id /\ \A d \in Id : ap'[d] = IF d = c THEN "calibrated" ELSE ap[d]
    BY <1>1, SmpTypes, Zenon
  <1>5. OwnStack'
    BY <1>1, <1>2, <1>4, StackKept, Zenon
  <1>6. CALIBRATE_MS \in Nat \ {0} /\ TicksPerMs \in Nat /\ count[c] \in Nat
    BY SmpAssumption, SmpParts, Zenon
  <1>7. kTicksPerMs' \in Nat
    <2>1. count[c] * TicksPerMs \in Nat
      BY <1>6
    <2> QED
      BY <1>1, <1>6, <2>1, Quotient, Zenon
  <1>8. OwnPit'
    <2> SUFFICES ASSUME "pit" \notin mishaps
                 PROVE  /\ \A d, e \in Id : ap'[d] = "calibrating" /\ ap'[e] = "calibrating" => d = e
                        /\ \A d \in Id : ap'[d] = "calibrating" => count[d] + pit = CALIBRATE_MS
                        /\ kTicksPerMs' = TicksPerMs
      BY <1>1, Zenon DEF OwnPit
    <2>1. /\ \A d, e \in Id : ap[d] = "calibrating" /\ ap[e] = "calibrating" => d = e
          /\ \A d \in Id : ap[d] = "calibrating" => count[d] + pit = CALIBRATE_MS
      BY Zenon DEF SmpInv, OwnPit
    <2>2. count[c] + 0 = CALIBRATE_MS
      BY <1>1, <2>1, Zenon
    <2>3. count[c] = CALIBRATE_MS
      BY <1>6, <2>2
    <2>4. kTicksPerMs' = TicksPerMs
      BY <1>1, <1>6, <2>3, ExactQuotient, Zenon
    <2> QED
      BY <1>2, <1>4, <2>1, <2>4, Zenon
  <1> QED
    BY <1>1, <1>3, <1>5, <1>7, <1>8, SmpParts, SmpNext, Zenon

LEMMA CountedStep ==
  ASSUME SmpInv, UNCHANGED machine, NEW c \in Id, ap_kernel_entry(c)
  PROVE  SmpInv'
  <1>1. /\ ap[c] = "calibrated" /\ ap' = [ap EXCEPT ![c] = "halted"] /\ kCpusStarted' = kCpusStarted + 1
        /\ UNCHANGED <<mishaps, bsp, kLapicIds, i, ap_stack, rsp, pit, count, kTicksPerMs>>
    BY Zenon DEF ap_kernel_entry, ApGoto, CountIn
  <1>2. /\ "halted" \in States \ {"off", "reset"} /\ "halted" \notin InUse /\ "halted" # "calibrating"
        /\ ap[c] \notin {"off", "reset", "halted"}
    BY <1>1 DEF States, InUse
  <1>3. Sent' /\ ap' \in [Id -> States] /\ kCpusStarted' \in 1..(Len(kLapicIds) + 1)
    BY <1>1, <1>2, ApMoves, Zenon
  <1>4. DOMAIN ap = Id /\ \A d \in Id : ap'[d] = IF d = c THEN "halted" ELSE ap[d]
    BY <1>1, SmpTypes, Zenon
  <1>5. OwnStack' /\ OwnPit'
    BY <1>1, <1>2, <1>4, StackKept, PitKept, Zenon
  <1> QED
    BY <1>1, <1>3, <1>5, SmpParts, SmpNext, Zenon

LEMMA MillisecondStep ==
  ASSUME SmpInv, UNCHANGED machine, PitTick
  PROVE  SmpInv'
  <1>1. /\ pit > 0 /\ pit' = pit - 1
        /\ count' = [c \in Id |-> IF ap[c] = "calibrating" THEN count[c] + 1 ELSE count[c]]
        /\ UNCHANGED <<mishaps, bsp, kLapicIds, i, kCpusStarted, ap_stack, ap, rsp, kTicksPerMs>>
    BY Zenon DEF PitTick
  <1>2. pit \in 0..CALIBRATE_MS /\ CALIBRATE_MS \in Nat \ {0} /\ count \in [Id -> Nat]
    BY SmpParts, SmpAssumption, Zenon
  <1>3. pit' \in 0..CALIBRATE_MS /\ \A n \in Nat : n + 1 \in Nat /\ (n + pit = CALIBRATE_MS => (n + 1) + pit' = CALIBRATE_MS)
    BY <1>1, <1>2
  <1>4. count' \in [Id -> Nat]
    BY <1>1, <1>2, <1>3, Zenon
  <1>5. OwnStack'
    BY <1>1, StackKept, Zenon
  <1>6. OwnPit'
    <2>1. \A d \in Id : count[d] \in Nat /\ (ap[d] = "calibrating" => count'[d] = count[d] + 1)
      BY <1>1, <1>2, Zenon
    <2> QED
      BY <1>1, <1>3, <2>1, Zenon DEF SmpInv, OwnPit
  <1>7. Sent'
    <2>1. Sent /\ Slots' = Slots /\ Halted(kLapicIds, ap)' = Halted(kLapicIds, ap)
      BY <1>1, Zenon DEF SmpInv, Slots, Halted
    <2>2. bsp # "parse" => FoundAll(kLapicIds)'
      BY <1>1, <2>1, FoundStays, Zenon DEF Sent
    <2> QED
      BY <1>1, <2>1, <2>2, Zenon DEF Sent
  <1> QED
    BY <1>1, <1>3, <1>4, <1>5, <1>6, <1>7, SmpParts, SmpNext, Zenon


LEMMA HaltedSame ==
  ASSUME kLapicIds' = kLapicIds, \A j \in Slots : ap'[kLapicIds[j]] = "halted" <=> ap[kLapicIds[j]] = "halted"
  PROVE  Halted(kLapicIds, ap)' = Halted(kLapicIds, ap)
  BY Zenon DEF Halted, Slots

LEMMA ParseStep ==
  ASSUME SmpInv, UNCHANGED machine, smp_init_Parse
  PROVE  SmpInv'
  <1>1. /\ bsp = "parse" /\ bsp' = "loop" /\ kLapicIds' = Parsed[Len(madt)]
        /\ UNCHANGED <<mishaps, i, kCpusStarted, ap_stack, ap, rsp, pit, count, kTicksPerMs>>
    BY Zenon DEF smp_init_Parse, madt
  <1>2. Sent /\ machine \in Machines /\ kLapicIds = <<>> /\ i = 1
    BY <1>1, Zenon DEF SmpInv, Sent
  <1>3. Slots = {}
    BY <1>2 DEF Slots
  <1>4. \A c \in Id : ap[c] = "off"
    BY <1>2, <1>3, Zenon DEF Sent
  <1>5. FoundAll(kLapicIds')
    BY <1>1, <1>2, ParsedAll, Zenon
  <1>6. FoundAll(kLapicIds)'
    BY <1>5, Zenon DEF FoundAll, madt, Startable
  <1>7. kLapicIds' \in Seq(Id) /\ \A j \in 1..Len(kLapicIds') : kLapicIds'[j] \in Id
    <2>1. kLapicIds' \in Seq(Id)
      BY <1>5, Zenon DEF FoundAll
    <2> QED
      BY <2>1
  <1>8. i' \in 1..(Len(kLapicIds') + 1) /\ 1 \in 1..(Len(kLapicIds') + 1)
    BY <1>1, <1>2, <1>7
  <1>9. Halted(kLapicIds, ap) = {} /\ Halted(kLapicIds, ap)' = {}
    <2>1. "off" # "halted"
      OBVIOUS
    <2> QED
      BY <1>1, <1>3, <1>4, <1>7, <2>1, Zenon DEF Halted, Slots
  <1>10. kCpusStarted' = Cardinality(Halted(kLapicIds, ap)') + 1
    BY <1>1, <1>2, <1>9, Zenon DEF Sent
  <1>11. kCpusStarted' = 1
    <2>1. Cardinality({}) = 0
      BY FS_EmptySet, Zenon
    <2>2. 0 + 1 = 1
      OBVIOUS
    <2> QED
      BY <1>9, <1>10, <2>1, <2>2, Zenon
  <1>12. bsp' # "parse" /\ bsp' # "sipi" /\ bsp' # "sipi2" /\ bsp' # "done" /\ "off" # "reset" /\ "off" # "trampoline"
    BY <1>1
  <1>13. Sent'
    BY <1>1, <1>2, <1>4, <1>6, <1>10, <1>12, Zenon DEF Sent
  <1>14. OwnStack'
    BY <1>1, <1>3, <1>4, <1>7, <1>12, Zenon DEF SmpInv, OwnStack, Slots
  <1>15. OwnPit'
    BY <1>1, PitKept, Zenon
  <1> QED
    BY <1>1, <1>7, <1>8, <1>11, <1>13, <1>14, <1>15, SmpParts, SmpNext, Zenon

LEMMA StackStep ==
  ASSUME SmpInv, UNCHANGED machine, smp_init_Stack
  PROVE  SmpInv'
  <1> DEFINE c == kLapicIds[i]
  <1>1. /\ bsp = "loop" /\ bsp' = "sipi" /\ i < Len(kLapicIds) + 1
        /\ ap_stack' = IF StackLeft THEN i ELSE MAX_CPUS
        /\ mishaps' = mishaps \cup (IF \E d \in Id : ap[d] \in InUse THEN {"slot"} ELSE {})
                       \cup (IF StackLeft THEN {} ELSE {"memory"})
        /\ ap' = [ap EXCEPT ![c] = "reset"]
        /\ UNCHANGED <<kLapicIds, i, kCpusStarted, rsp, pit, count, kTicksPerMs>>
    BY Zenon DEF smp_init_Stack, kCpuCount, StackFor, StackAtZero, SlotInUse, InUse
  <1>2. /\ Len(kLapicIds) \in Nat /\ i \in 1..(Len(kLapicIds) + 1) /\ i \in Nat /\ MAX_CPUS \in Nat \ {0}
        /\ (\A j \in Slots : kLapicIds[j] \in Id) /\ DOMAIN ap = Id
        /\ \A j, k \in Slots : kLapicIds[j] = kLapicIds[k] => j = k
    BY SmpTypes, Zenon
  <1>3. i \in Slots /\ ~ (i < i)
    BY <1>1, <1>2 DEF Slots
  <1>4. c \in Id
    BY <1>2, <1>3, Zenon
  <1>5. Sent /\ FoundAll(kLapicIds) /\ bsp # "sipi" /\ bsp # "sipi2"
    <2>1. bsp # "parse" /\ bsp # "sipi" /\ bsp # "sipi2"
      BY <1>1
    <2> QED
      BY <2>1, Zenon DEF SmpInv, Sent
  <1>6. ap[c] = "off"
    <2> SUFFICES ASSUME ap[c] # "off" PROVE FALSE
      OBVIOUS
    <2>1. PICK j \in Slots : c = kLapicIds[j] /\ (j < i \/ (j = i /\ bsp \in {"sipi", "sipi2"}))
      BY <1>4, <1>5, Zenon DEF Sent
    <2> QED
      BY <1>2, <1>3, <1>5, <2>1, Zenon
  <1>7. \A d \in Id : ap'[d] = IF d = c THEN "reset" ELSE ap[d]
    BY <1>1, <1>2, Zenon
  <1>8. ap' \in [Id -> States] /\ "reset" # "halted" /\ "off" # "halted" /\ "reset" # "calibrating" /\ bsp' # "parse" /\ bsp' # "done"
    <2>1. "reset" \in States
      BY DEF States
    <2>2. "reset" # "halted" /\ "off" # "halted" /\ "reset" # "calibrating" /\ bsp' # "parse" /\ bsp' # "done"
      BY <1>1
    <2> QED
      BY <1>1, <2>1, <2>2, SmpParts, Zenon
  <1>9. Halted(kLapicIds, ap)' = Halted(kLapicIds, ap)
    BY <1>1, <1>2, <1>6, <1>7, <1>8, HaltedSame, Zenon
  <1>10. ap_stack' \in 0..MAX_CPUS
    <2>1. Len(kLapicIds) < MAX_CPUS
      BY <1>5, Zenon DEF FoundAll
    <2> QED
      BY <1>1, <1>2, <2>1
  <1>11. mishaps \subseteq mishaps' /\ mishaps' \subseteq {"slot", "memory", "pit"}
    BY <1>1, SmpParts, Zenon
  <1>12. FoundAll(kLapicIds)' /\ Slots' = Slots
    BY <1>1, <1>5, FoundStays, Zenon DEF Slots
  <1>13. \A d \in Id : ap'[d] # "off" => \E j \in Slots : d = kLapicIds[j] /\ (j < i \/ (j = i /\ bsp' \in {"sipi", "sipi2"}))
    <2> SUFFICES ASSUME NEW d \in Id, ap'[d] # "off"
                 PROVE  \E j \in Slots : d = kLapicIds[j] /\ (j < i \/ (j = i /\ bsp' \in {"sipi", "sipi2"}))
      BY Zenon
    <2>1. CASE d = c
      BY <1>1, <1>3, <2>1, Zenon
    <2>2. CASE d # c
      <3>1. ap[d] # "off"
        BY <1>7, <2>2, Zenon
      <3>2. PICK j \in Slots : d = kLapicIds[j] /\ (j < i \/ (j = i /\ bsp \in {"sipi", "sipi2"}))
        BY <1>5, <3>1, Zenon DEF Sent
      <3> QED
        BY <1>5, <3>2, Zenon
    <2> QED
      BY <2>1, <2>2, Zenon
  <1>14. \A d \in Id : ap'[d] = "reset" => d = c
    BY <1>5, <1>7, Zenon DEF Sent
  <1>15. Sent'
    BY <1>1, <1>3, <1>4, <1>5, <1>7, <1>8, <1>9, <1>12, <1>13, <1>14, Zenon DEF Sent
  <1>16. OwnPit'
    BY <1>1, <1>7, <1>8, <1>11, PitKept, Zenon
  <1>17. OwnStack'
    <2> SUFFICES ASSUME "slot" \notin mishaps', "memory" \notin mishaps', ap_stack' = i
                 PROVE  /\ \A j \in Slots : ap'[kLapicIds[j]] \in InUse => i = j
                        /\ \A d \in Id : rsp[d] # 0 => rsp[d] \in Slots /\ d = kLapicIds[rsp[d]]
      <3>1. "memory" \notin mishaps' => StackLeft
        BY <1>1, Zenon
      <3> QED
        BY <1>1, <1>12, <3>1, Zenon DEF OwnStack, InUse
    <2>1. \A d \in Id : ap[d] \notin InUse
      BY <1>1, Zenon
    <2>2. \A d \in Id : rsp[d] # 0 => rsp[d] \in Slots /\ d = kLapicIds[rsp[d]]
      BY <1>11, Zenon DEF SmpInv, OwnStack
    <2>3. ASSUME NEW j \in Slots, ap'[kLapicIds[j]] \in InUse PROVE i = j
      <3>1. kLapicIds[j] = c
        BY <1>2, <1>7, <2>1, <2>3, Zenon
      <3> QED
        BY <1>2, <1>3, <3>1, Zenon
    <2> QED
      BY <2>2, <2>3, Zenon
  <1> QED
    BY <1>1, <1>8, <1>10, <1>11, <1>15, <1>16, <1>17, SmpParts, SmpNext, Zenon


LEMMA SipiStep ==
  ASSUME SmpInv, UNCHANGED machine, smp_init_Sipi \/ smp_init_Sipi2
  PROVE  SmpInv'
  <1> DEFINE c == kLapicIds[i]
  <1>1. /\ bsp \in {"sipi", "sipi2"} /\ bsp' \in {"sipi2", "loop"}
        /\ \/ ap' = ap /\ (bsp' = "loop" => ap[c] # "reset")
           \/ ap' = [ap EXCEPT ![c] = "trampoline"] /\ ap[c] = "reset"
        /\ (bsp' = "loop" /\ i' = i + 1) \/ (bsp' = "sipi2" /\ i' = i)
        /\ UNCHANGED <<mishaps, kLapicIds, kCpusStarted, ap_stack, rsp, pit, count, kTicksPerMs>>
    <2>1. CASE smp_init_Sipi
      <3>1. /\ bsp = "sipi" /\ bsp' = "sipi2" /\ UNCHANGED <<mishaps, kLapicIds, i, kCpusStarted, ap_stack, rsp, pit, count, kTicksPerMs>>
            /\ \E arrives \in BOOLEAN : ap' = IF arrives THEN [ap EXCEPT ![c] = "trampoline"] ELSE ap
        BY <2>1, Zenon DEF smp_init_Sipi
      <3>2. ap[c] = "reset"
        BY <3>1, Zenon DEF SmpInv, Sent
      <3>3. ap' = ap \/ ap' = [ap EXCEPT ![c] = "trampoline"]
        BY <3>1, Zenon
      <3>4. bsp' # "loop"
        BY <3>1
      <3> QED
        BY <3>1, <3>2, <3>3, <3>4, Zenon
    <2>2. CASE smp_init_Sipi2
      BY <2>2, Zenon DEF smp_init_Sipi2, SecondSipi
    <2> QED
      BY <2>1, <2>2, Zenon
  <1>2. /\ Len(kLapicIds) \in Nat /\ i \in 1..(Len(kLapicIds) + 1) /\ i \in Nat
        /\ (\A j \in Slots : kLapicIds[j] \in Id) /\ DOMAIN ap = Id
        /\ \A j, k \in Slots : kLapicIds[j] = kLapicIds[k] => j = k
    BY SmpTypes, Zenon
  <1>3. Sent /\ i \in Slots /\ bsp # "parse" /\ FoundAll(kLapicIds)
    <2>1. bsp # "parse"
      BY <1>1
    <2> QED
      BY <1>1, <2>1, Zenon DEF SmpInv, Sent
  <1>4. c \in Id
    BY <1>2, <1>3, Zenon
  <1>5. \A d \in Id : ap'[d] = ap[d] \/ (d = c /\ ap'[d] = "trampoline" /\ ap[d] = "reset")
    BY <1>1, <1>2, Zenon
  <1>6. ap' \in [Id -> States]
    <2>1. "trampoline" \in States
      BY DEF States
    <2> QED
      BY <1>1, <2>1, SmpParts, Zenon
  <1>7. /\ "trampoline" # "halted" /\ "reset" # "halted" /\ "trampoline" # "calibrating" /\ "trampoline" # "off"
        /\ "reset" # "off" /\ "trampoline" # "reset" /\ "reset" \in InUse
        /\ bsp' # "parse" /\ bsp' # "done" /\ bsp' # "sipi" /\ "loop" # "sipi2" /\ "loop" # "sipi"
    BY <1>1 DEF InUse
  <1>8. \A d \in Id : (ap'[d] = "halted" <=> ap[d] = "halted") /\ (ap'[d] = "off" <=> ap[d] = "off")
                          /\ (ap'[d] = "reset" => ap[d] = "reset") /\ (ap'[d] \in InUse => ap[d] \in InUse)
                          /\ (ap'[d] = "calibrating" => ap[d] = "calibrating")
    BY <1>5, <1>7, Zenon
  <1>9. Halted(kLapicIds, ap)' = Halted(kLapicIds, ap)
    BY <1>1, <1>2, <1>8, HaltedSame, Zenon
  <1>10. i' \in 1..(Len(kLapicIds) + 1) /\ \A j \in Slots : (j < i \/ j = i) /\ i' = i + 1 => j < i'
    BY <1>1, <1>2, <1>3 DEF Slots
  <1>11. OwnStack' /\ OwnPit'
    BY <1>1, <1>8, StackKept, PitKept, Zenon
  <1>12. FoundAll(kLapicIds)' /\ Slots' = Slots
    BY <1>1, <1>3, FoundStays, Zenon DEF Slots
  <1>13. ASSUME NEW d \in Id, ap'[d] # "off"
         PROVE  \E j \in Slots : d = kLapicIds[j] /\ (j < i' \/ (j = i' /\ bsp' \in {"sipi", "sipi2"}))
    <2>1. PICK j \in Slots : d = kLapicIds[j] /\ (j < i \/ j = i)
      BY <1>3, <1>8, <1>13, Zenon DEF Sent
    <2>2. CASE bsp' = "loop" /\ i' = i + 1
      BY <1>10, <2>1, <2>2, Zenon
    <2>3. CASE bsp' = "sipi2" /\ i' = i
      BY <2>1, <2>3, Zenon
    <2> QED
      BY <1>1, <2>2, <2>3, Zenon
  <1>14. ASSUME NEW d \in Id, ap'[d] = "reset" PROVE bsp' \in {"sipi", "sipi2"} /\ d = kLapicIds[i']
    <2>1. ap[d] = "reset" /\ d = c
      BY <1>3, <1>8, <1>14, Zenon DEF Sent
    <2>2. bsp' # "loop"
      BY <1>1, <1>2, <1>7, <1>14, <2>1, Zenon
    <2> QED
      BY <1>1, <2>1, <2>2, Zenon
  <1>15. bsp' \in {"sipi", "sipi2"} => i' \in Slots
    BY <1>1, <1>3, <1>7, Zenon
  <1>16. Sent'
    BY <1>1, <1>3, <1>7, <1>9, <1>12, <1>13, <1>14, <1>15, Zenon DEF Sent
  <1>17. bsp' \in {"parse", "loop", "sipi", "sipi2", "done"}
    BY <1>1, Zenon
  <1> QED
    BY <1>1, <1>6, <1>10, <1>11, <1>16, <1>17, SmpParts, SmpNext, Zenon

LEMMA DoneStep ==
  ASSUME SmpInv, UNCHANGED machine, smp_init_Done
  PROVE  SmpInv'
  <1>1. /\ bsp = "loop" /\ bsp' = "done" /\ kCpusStarted >= Len(kLapicIds) + 1
        /\ UNCHANGED <<mishaps, kLapicIds, i, kCpusStarted, ap_stack, ap, rsp, pit, count, kTicksPerMs>>
    BY Zenon DEF smp_init_Done, AllStarted, kCpuCount
  <1>2. Sent /\ FoundAll(kLapicIds)
    <2>1. bsp # "parse"
      BY <1>1
    <2> QED
      BY <2>1, Zenon DEF SmpInv, Sent
  <1>3. ASSUME NEW j \in Slots PROVE ap[kLapicIds[j]] = "halted"
    <2> SUFFICES ASSUME ap[kLapicIds[j]] # "halted" PROVE FALSE
      OBVIOUS
    <2>1. Cardinality(Halted(kLapicIds, ap)) \in Nat /\ Cardinality(Halted(kLapicIds, ap)) < Len(kLapicIds)
      BY OneMoreHalts, Zenon
    <2>2. kCpusStarted = Cardinality(Halted(kLapicIds, ap)) + 1 /\ Len(kLapicIds) \in Nat
      BY <1>2, SmpTypes, Zenon DEF Sent
    <2> QED
      BY <1>1, <2>1, <2>2
  <1>4. FoundAll(kLapicIds)' /\ Slots' = Slots /\ Halted(kLapicIds, ap)' = Halted(kLapicIds, ap)
    BY <1>1, <1>2, FoundStays, Zenon DEF Slots, Halted
  <1>5. OwnStack' /\ OwnPit'
    BY <1>1, StackKept, PitKept, Zenon
  <1>6. bsp \notin {"sipi", "sipi2"} /\ bsp' \notin {"sipi", "sipi2"} /\ bsp' # "parse" /\ bsp' # "sipi"
    BY <1>1
  <1>7. Sent'
    BY <1>1, <1>2, <1>3, <1>4, <1>6, Zenon DEF Sent
  <1> QED
    BY <1>1, <1>5, <1>7, SmpParts, SmpNext, Zenon

-----------------------------------------------------------------------------
LEMMA SmpStep == SmpInv /\ [Next]_vars => SmpInv'
  <1> SUFFICES ASSUME SmpInv, [Next]_vars PROVE SmpInv'
    OBVIOUS
  <1>1. CASE UNCHANGED <<machine, smpVars>>
    <2>1. UNCHANGED <<machine, mishaps, bsp, kLapicIds, i, kCpusStarted, ap_stack, ap, rsp, pit, count, kTicksPerMs>>
      BY <1>1, Zenon DEF smpVars
    <2>2. OwnStack' /\ OwnPit'
      BY <2>1, StackKept, PitKept, Zenon
    <2>3. Sent /\ Slots' = Slots /\ Halted(kLapicIds, ap)' = Halted(kLapicIds, ap)
      BY <2>1, Zenon DEF SmpInv, Slots, Halted
    <2>4. bsp # "parse" => FoundAll(kLapicIds)'
      BY <2>1, <2>3, FoundStays, Zenon DEF Sent
    <2>5. Sent'
      BY <2>1, <2>3, <2>4, Zenon DEF Sent
    <2> QED
      BY <2>1, <2>2, <2>5, SmpParts, SmpNext, Zenon
  <1>2. CASE kernel_main_Smp
    <2>1. UNCHANGED machine /\ Bsp
      BY <1>2, Zenon DEF kernel_main_Smp
    <2> QED
      BY <2>1, ParseStep, StackStep, SipiStep, DoneStep, Zenon DEF Bsp
  <1>3. ASSUME NEW c \in Id, ApStep(c) PROVE SmpInv'
    <2>1. UNCHANGED machine /\ Ap(c)
      BY <1>3, Zenon DEF ApStep
    <2> QED
      BY <2>1, TrampolineStep, CalibrateStep, CalibratedStep, CountedStep, Zenon DEF Ap
  <1>4. CASE Millisecond
    <2>1. UNCHANGED machine /\ PitTick
      BY <1>4, Zenon DEF Millisecond
    <2> QED
      BY <2>1, MillisecondStep, Zenon
  <1>5. CASE kernel_main
    <2>1. kernel_main_Smp \/ UNCHANGED <<machine, smpVars>>
      BY <1>5, Zenon DEF kernel_main, kernel_main_Requests, kernel_main_SmpSkipped, kernel_main_Vfs, kernel_main_Devices,
        kernel_main_Pci, kernel_main_PciOverflow, kernel_main_HpetFault, kernel_main_Hpet, kernel_main_Net, Goto
    <2> QED
      BY <1>1, <1>2, <2>1, Zenon
  <1>6. CASE UseClock \/ UseCard \/ UseDevices \/ UseScreen
    <2>1. UNCHANGED <<machine, smpVars>>
      BY <1>6, Zenon DEF UseClock, UseCard, UseDevices, UseScreen, Using
    <2> QED
      BY <1>1, <2>1, Zenon
  <1>7. CASE UNCHANGED vars
    <2>1. UNCHANGED <<machine, smpVars>>
      BY <1>7, Zenon DEF vars
    <2> QED
      BY <1>1, <2>1, Zenon
  <1> QED
    BY <1>3, <1>4, <1>5, <1>6, <1>7, Zenon DEF Next

(* The BSP and any number of APs keep SmpInv, whatever their order. *)
THEOREM SmpInvariant == Spec => []SmpInv
  BY SmpStarts, SmpStep, PTL DEF Spec

(* For every MADT and however the APs interleave: smp_init reports all     *)
(* cores active only when every enabled AP that has room in kLapicIds has  *)
(* counted itself, once, and starts no other processor.                    *)
THEOREM CoresAreActive == Spec => []AllCoresActive
  <1>1. SmpInv => AllCoresActive
    <2> SUFFICES ASSUME SmpInv PROVE AllCoresActive
      BY Zenon DEF AllCoresActive
    <2>1. TypeOK /\ Sent /\ machine \in Machines
      BY Zenon DEF SmpInv, Sent
    <2>2. ASSUME bsp = "done", NEW k \in Startable, Cardinality({j \in Startable : j < k}) < MAX_CPUS - 1
          PROVE  ap[madt[k].id] = "halted"
      <3>1. bsp # "parse"
        BY <2>2
      <3>2. FoundAll(kLapicIds)
        BY <2>1, <3>1, Zenon DEF Sent
      <3>3. PICK j \in Slots : kLapicIds[j] = madt[k].id
        BY <2>2, <3>2, Zenon DEF FoundAll, Slots
      <3> QED
        BY <2>1, <2>2, <3>3, Zenon DEF Sent, madt
    <2>3. ASSUME NEW k \in DOMAIN madt \ Startable PROVE ap[madt[k].id] = "off"
      <3> SUFFICES ASSUME ap[madt[k].id] # "off" PROVE FALSE
        BY Zenon DEF madt
      <3>1. k \in DOMAIN madt /\ k \notin Startable
        BY Zenon DEF madt
      <3>2. madt[k].id \in Id
        BY <2>1, <3>1, TableFacts, Zenon
      <3>3. PICK j \in Slots : kLapicIds[j] = madt[k].id
        BY <2>1, <3>2, Zenon DEF Sent
      <3>4. bsp # "parse"
        <4> SUFFICES ASSUME bsp = "parse" PROVE FALSE
          OBVIOUS
        <4>1. kLapicIds = <<>>
          BY <2>1, Zenon DEF Sent
        <4> QED
          BY <3>3, <4>1 DEF Slots
      <3>5. \A m \in Slots : \E l \in Startable : kLapicIds[m] = madt[l].id
        BY <2>1, <3>4, Zenon DEF Sent, FoundAll, Slots
      <3>6. PICK l \in Startable : madt[k].id = madt[l].id
        BY <3>3, <3>5, Zenon
      <3> QED
        BY <2>1, <3>1, <3>6, TableFacts, Zenon
    <2>4. \A k \in Startable : bsp = "done" /\ Cardinality({j \in Startable : j < k}) < MAX_CPUS - 1 => ap[madt[k].id] = "halted"
      BY <2>2, Zenon
    <2>5. \A k \in DOMAIN madt \ Startable : ap[madt[k].id] = "off"
      BY <2>3, Zenon
    <2> QED
      BY <2>1, <2>4, <2>5, Zenon DEF AllCoresActive
  <1> QED
    BY <1>1, SmpInvariant, PTL

(* For every MADT, number of processors, stacks and tick rate, as long as  *)
(* there was memory for the stacks and the slot was never overwritten      *)
(* before its AP had read it no two APs have the same stack, and as long   *)
(* as no two calibrated at a time kTicksPerMs is the true rate.            *)
THEOREM QuietStartsAreSound == Spec => []QuietStartIsSound
  <1>1. SmpInv => QuietStartIsSound
    <2> SUFFICES ASSUME SmpInv PROVE QuietStartIsSound
      BY Zenon DEF QuietStartIsSound
    <2>1. ASSUME "slot" \notin mishaps, "memory" \notin mishaps PROVE StacksApart
      <3>1. \A c \in Id : rsp[c] # 0 => rsp[c] \in Slots /\ c = kLapicIds[rsp[c]]
        BY <2>1, Zenon DEF SmpInv, OwnStack
      <3>2. ASSUME NEW c \in Id, NEW d \in Id, rsp[c] # 0, rsp[c] = rsp[d] PROVE c = d
        <4>1. c = kLapicIds[rsp[c]] /\ d = kLapicIds[rsp[d]]
          BY <3>1, <3>2, Zenon
        <4> QED
          BY <3>2, <4>1, Zenon
      <3> QED
        BY <3>2, Zenon DEF StacksApart
    <2>2. "pit" \notin mishaps => TicksAreTrue
      BY Zenon DEF SmpInv, OwnPit, TicksAreTrue
    <2> QED
      BY <2>1, <2>2, Zenon DEF QuietStartIsSound
  <1> QED
    BY <1>1, SmpInvariant, PTL


-----------------------------------------------------------------------------
(* Sleeping on the HPET *)

LEMMA ModBounds ==
  ASSUME NEW n \in Nat, NEW m \in Nat \ {0}
  PROVE  n % m \in Nat /\ n % m < m /\ n % m <= n
  OBVIOUS

LEMMA Remainder ==
  ASSUME NEW n \in Nat, NEW m \in Nat \ {0}, NEW q \in Nat, NEW r \in Nat, n = m * q + r, r < m
  PROVE  n % m = r
  <1> DEFINE p == n \div m
             s == n % m
  <1>1. p \in Nat /\ s \in Nat /\ s < m /\ n = m * p + s
    OBVIOUS
  <1> HIDE DEF p, s
  <1>2. ASSUME p < q PROVE FALSE
    <2>1. PICK d \in Nat : q = p + 1 + d
      <3>1. q - p - 1 \in Nat /\ q = p + 1 + (q - p - 1)
        BY <1>1, <1>2
      <3> QED
        BY <3>1
    <2>2. m * q = m * p + m + m * d /\ m * d \in Nat /\ m * p \in Nat
      BY <2>1, <1>1
    <2> QED
      BY <1>1, <2>2
  <1>3. ASSUME q < p PROVE FALSE
    <2>1. PICK d \in Nat : p = q + 1 + d
      <3>1. p - q - 1 \in Nat /\ p = q + 1 + (p - q - 1)
        BY <1>1, <1>3
      <3> QED
        BY <3>1
    <2>2. m * p = m * q + m + m * d /\ m * d \in Nat /\ m * q \in Nat
      BY <2>1, <1>1
    <2> QED
      BY <1>1, <2>2
  <1>4. p = q
    BY <1>1, <1>2, <1>3
  <1>5. m * q \in Nat
    OBVIOUS
  <1>6. s = r
    BY <1>1, <1>4, <1>5
  <1> QED
    BY <1>6 DEF s

LEMMA ModStep ==
  ASSUME NEW n \in Nat, NEW m \in Nat \ {0}
  PROVE  /\ n < m => n % m = n
         /\ n >= m => n % m <= n - m
  <1>1. n % m \in Nat /\ n % m < m /\ (n \div m) \in Nat /\ n = m * (n \div m) + (n % m)
    OBVIOUS
  <1>2. n >= m => m * (n \div m) >= m
    BY <1>1
  <1> QED
    BY <1>1, <1>2

LEMMA ModSum ==
  ASSUME NEW a \in Nat, NEW b \in Nat, NEW m \in Nat \ {0}
  PROVE  (a + b) % m <= (a % m) + b
  <1> DEFINE q == a \div m
             r == a % m
             p == (r + b) \div m
             s == (r + b) % m
  <1>1. q \in Nat /\ r \in Nat /\ a = m * q + r
    OBVIOUS
  <1>2. r + b \in Nat
    BY <1>1
  <1> HIDE DEF q, r
  <1>3. p \in Nat /\ s \in Nat /\ s < m /\ s <= r + b /\ r + b = m * p + s
    BY <1>2
  <1> HIDE DEF p, s
  <1>4. m * (q + p) = m * q + m * p /\ m * q \in Nat /\ m * p \in Nat
    BY <1>1, <1>3
  <1>5. a + b = m * (q + p) + s
    BY <1>1, <1>3, <1>4
  <1>6. a + b \in Nat /\ q + p \in Nat
    BY <1>1, <1>3
  <1>7. (a + b) % m = s
    BY <1>3, <1>5, <1>6, Remainder, Zenon
  <1> QED
    BY <1>3, <1>7 DEF r

LEMMA DivBounds ==
  ASSUME NEW n \in Nat, NEW m \in Nat \ {0}
  PROVE  (n \div m) \in Nat /\ m * (n \div m) <= n /\ n < m * ((n \div m) + 1) /\ (n \div m) <= n
  OBVIOUS


LEMMA SumMod ==
  ASSUME NEW a \in Nat, NEW b \in Nat, NEW m \in Nat \ {0}
  PROVE  /\ (a + b) % m \in Nat
         /\ a + b < m => (a + b) % m = a + b
         /\ a + b >= m => (a + b) % m <= a + b - m
  <1> DEFINE n == a + b
  <1>1. n \in Nat
    OBVIOUS
  <1> HIDE DEF n
  <1>2. n % m \in Nat /\ (n < m => n % m = n) /\ (n >= m => n % m <= n - m)
    BY <1>1, ModStep, ModBounds, Zenon
  <1> QED
    BY <1>2 DEF n

LEMMA ProductNat ==
  ASSUME NEW a \in Nat, NEW b \in Nat
  PROVE  a * b \in Nat
  OBVIOUS

(* A poll moves the product with the period on by no more than the time    *)
(* that passed, whether or not the counter or the product wraps around.    *)
LEMMA PollMovesOn ==
  ASSUME NEW c \in Nat, NEW M \in Nat \ {0}, NEW g \in Nat, NEW P \in Nat, NEW W \in Nat \ {0}, c < M
  PROVE  (((c + g) % M) * P) % W <= ((c * P) % W) + (g * P)
  <1> DEFINE d == (c + g) % M
  <1>1. c + g \in Nat
    OBVIOUS
  <1>2. d \in Nat
    BY <1>1, ModBounds
  <1>3. (c + g < M => d = c + g) /\ (c + g >= M => d <= c + g - M)
    BY SumMod
  <1> HIDE DEF d
  <1>4. c * P \in Nat /\ g * P \in Nat /\ d * P \in Nat
    BY <1>2
  <1>5. (c * P) % W \in Nat /\ (d * P) % W \in Nat /\ (d * P) % W <= d * P
    BY <1>4, ModBounds
  <1>6. CASE c + g < M
    <2>1. d * P = c * P + g * P
      BY <1>3, <1>6
    <2>2. (c * P + g * P) % W <= ((c * P) % W) + g * P
      BY <1>4, ModSum, Zenon
    <2>3. (d * P) % W <= ((c * P) % W) + g * P
      BY <2>1, <2>2, Zenon
    <2> QED
      BY <2>3, Zenon DEF d
  <1>7. CASE c + g >= M
    <2>1. d <= g
      BY <1>2, <1>3, <1>7
    <2>2. PICK k \in Nat : g = d + k
      <3>1. g - d \in Nat /\ g = d + (g - d)
        BY <1>2, <2>1
      <3> QED
        BY <3>1
    <2>3. g * P = d * P + k * P /\ k * P \in Nat
      BY <1>2, <2>2
    <2>4. (d * P) % W <= ((c * P) % W) + g * P
      BY <1>4, <1>5, <2>3
    <2> QED
      BY <2>4, Zenon DEF d
  <1> QED
    BY <1>1, <1>6, <1>7

(* The start of a sleep is read less than a microsecond too early.         *)
LEMMA StartReading ==
  ASSUME NEW x \in Nat, NEW F \in Nat \ {0}, NEW W \in Nat \ {0}, x < W, NEW us \in Nat,
         ((x \div F) + us) % W >= us
  PROVE  x < ((((x \div F) + us) % W) - us + 1) * F
  <1> DEFINE r == x \div F
             e == (r + us) % W
  <1>1. r \in Nat /\ F * r <= x /\ x < F * (r + 1) /\ r <= x
    BY DivBounds
  <1>2. r + us \in Nat
    BY <1>1
  <1>7. e >= us
    BY Zenon
  <1> HIDE DEF r
  <1>3. e \in Nat /\ (r + us < W => e = r + us) /\ (r + us >= W => e <= r + us - W)
    BY <1>1, SumMod
  <1> HIDE DEF e
  <1>4. e = r + us
    BY <1>1, <1>2, <1>3, <1>7
  <1>5. (e - us + 1) = r + 1
    BY <1>1, <1>4
  <1>6. x < (e - us + 1) * F
    BY <1>1, <1>5
  <1> QED
    BY <1>6 DEF e, r

(* A reading that has come to the end of the sleep comes late enough.      *)
LEMMA EndReading ==
  ASSUME NEW x \in Nat, NEW F \in Nat \ {0}, NEW W \in Nat \ {0}, x < W,
         NEW us \in Nat \ {0}, NEW e \in Nat, e >= us, NEW t \in Nat,
         t >= W \/ x < (e - us + 1) * F + t, (x \div F) >= e
  PROVE  t > (us - 1) * F
  <1> DEFINE r == x \div F
  <1>1. r \in Nat /\ F * r <= x /\ r >= e
    BY DivBounds
  <1> HIDE DEF r
  <1>2. PICK k \in Nat : r = e + k
    <2>1. r - e \in Nat /\ r = e + (r - e)
      BY <1>1
    <2> QED
      BY <2>1, Zenon
  <1>3. F * r = F * e + F * k /\ F * k \in Nat /\ F * e \in Nat
    BY <1>1, <1>2
  <1>4. PICK a \in Nat : e = us + a
    <2>1. e - us \in Nat /\ e = us + (e - us)
      OBVIOUS
    <2> QED
      BY <2>1
  <1>5. PICK b \in Nat : us = b + 1
    <2>1. us - 1 \in Nat /\ us = (us - 1) + 1
      OBVIOUS
    <2> QED
      BY <2>1
  <1>6. F * e = F * b + F + F * a /\ F * b \in Nat /\ F * a \in Nat
    BY <1>4, <1>5
  <1>7. e - us + 1 = a + 1 /\ us - 1 = b
    BY <1>4, <1>5
  <1>8. (a + 1) * F = F * a + F /\ b * F = F * b
    BY <1>4, <1>5
  <1>9. t > F * b
    BY <1>1, <1>3, <1>6, <1>7, <1>8
  <1> QED
    BY <1>7, <1>8, <1>9


(* The time that passed since the start of a sleep keeps up with the       *)
(* product that the readings are taken from, or is more than a word.       *)
Product == (counter * kPeriodFs) % WordMod

Caught ==
  sleeper.end >= sleeper.us =>
    \/ elapsed * kPeriodFs >= WordMod
    \/ Product < (sleeper.end - sleeper.us + 1) * FsPerUs + elapsed * kPeriodFs

RealPeriod == kPeriodFs \in Periods \ {0}

ClockInv ==
  /\ machine \in Machines
  /\ counter \in Nat /\ counter < machine.acpi.counterMod /\ elapsed \in Nat
  /\ sleeper \in [at : {"none", "polling", "returned", "skipped"}, us : Nat, end : Nat]
  /\ phase # "idle" => sleeper.at = "none"
  /\ kHpetBase => RealPeriod
  /\ sleeper.at \in {"polling", "returned"} => kHpetBase
  /\ sleeper.at = "polling" => Caught
  /\ SleepsLongEnough

LEMMA ClockInit == Init => ClockInv
  <1> SUFFICES ASSUME Init PROVE ClockInv
    OBVIOUS
  <1>1. /\ machine \in Machines /\ kHpetBase = FALSE /\ counter = 0 /\ elapsed = 0
        /\ sleeper = [at |-> "none", us |-> 0, end |-> 0]
    BY Zenon DEF Init, HpetInit, Awake
  <1>2. machine.acpi.counterMod \in 1..WordMod
    BY <1>1, MachineAssumption, Zenon
  <1>3. counter \in Nat /\ counter < machine.acpi.counterMod /\ elapsed \in Nat
    BY <1>1, <1>2, HpetAssumption
  <1>4. sleeper \in [at : {"none", "polling", "returned", "skipped"}, us : Nat, end : Nat] /\ sleeper.at = "none"
    BY <1>1
  <1>5. sleeper.at \notin {"polling", "returned"} /\ sleeper.at # "returned" /\ sleeper.at # "polling"
    BY <1>4
  <1> QED
    BY <1>1, <1>3, <1>4, <1>5, Zenon DEF ClockInv, SleepsLongEnough

(* What the assumptions say of the machine. *)
LEMMA ClockFacts ==
  ASSUME machine \in Machines
  PROVE  /\ machine.acpi.counterMod \in Nat \ {0}
         /\ machine.acpi.period # 0 => machine.acpi.period \in Periods \ {0}
  <1>1. machine.acpi.period \in Periods \cup {0} /\ machine.acpi.counterMod \in 1..WordMod
    BY MachineAssumption, Zenon
  <1>2. machine.acpi.counterMod \in Nat \ {0}
    BY <1>1, HpetAssumption
  <1> QED
    BY <1>1, <1>2, Zenon

LEMMA SleepingStep ==
  ASSUME ClockInv, UNCHANGED <<machine, phase>>, phase = "idle", NEW us \in Sleeps, hpet_sleep_us(us)
  PROVE  ClockInv'
  <1>1. /\ kHpetBase /\ sleeper' = [at |-> "polling", us |-> us, end |-> SleepEnd(us)]
        /\ elapsed' = 0 /\ UNCHANGED <<kHpetBase, kPeriodFs, counter>>
    BY Zenon DEF hpet_sleep_us
  <1>2. machine \in Machines /\ counter \in Nat /\ counter < machine.acpi.counterMod /\ RealPeriod
    BY <1>1, Zenon DEF ClockInv
  <1>3. kPeriodFs \in Nat /\ us \in Nat /\ WordMod \in Nat \ {0} /\ FsPerUs \in Nat \ {0}
    BY <1>2, HpetAssumption DEF RealPeriod
  <1>4. counter * kPeriodFs \in Nat
    BY <1>2, <1>3
  <1>5. Product \in Nat /\ Product < WordMod
    BY <1>3, <1>4, ModBounds DEF Product
  <1>6. SleepEnd(us) = ((Product \div FsPerUs) + us) % WordMod
    BY <1>1, Zenon DEF SleepEnd, hpet_read_us, Product
  <1> DEFINE e == ((Product \div FsPerUs) + us) % WordMod
  <1>7. e \in Nat
    <2>1. (Product \div FsPerUs) \in Nat
      BY <1>3, <1>5, DivBounds
    <2>2. (Product \div FsPerUs) + us \in Nat
      BY <1>3, <2>1
    <2> QED
      BY <1>3, <2>2, ModBounds, Zenon
  <1>8. e >= us => Product < (e - us + 1) * FsPerUs
    BY <1>3, <1>5, StartReading, Zenon
  <1>9. sleeper' = [at |-> "polling", us |-> us, end |-> e]
    BY <1>1, <1>6, Zenon
  <1> HIDE DEF e
  <1>10. /\ sleeper' \in [at : {"none", "polling", "returned", "skipped"}, us : Nat, end : Nat]
         /\ sleeper'.at = "polling" /\ sleeper'.us = us /\ sleeper'.end = e /\ sleeper'.at # "returned"
    BY <1>3, <1>7, <1>9
  <1>11. Product' = Product
    BY <1>1, Zenon DEF Product
  <1>12. Caught'
    <2> SUFFICES ASSUME e >= us PROVE Product < (e - us + 1) * FsPerUs + elapsed' * kPeriodFs'
      BY <1>10, <1>11, Zenon DEF Caught
    <2>1. elapsed' * kPeriodFs' = 0 /\ (e - us + 1) * FsPerUs \in Int
      BY <1>1, <1>3, <1>7
    <2> QED
      BY <1>5, <1>8, <2>1
  <1>13. elapsed' \in Nat
    BY <1>1
  <1>14. RealPeriod'
    BY <1>1, <1>2, Zenon DEF RealPeriod
  <1> QED
    BY <1>1, <1>2, <1>10, <1>12, <1>13, <1>14, Zenon DEF ClockInv, SleepsLongEnough


LEMMA PollingStep ==
  ASSUME ClockInv, UNCHANGED <<machine, phase>>, hpet_sleep_us_Poll
  PROVE  ClockInv'
  <1>1. PICK gap \in (IF machine.acpi.word = "mmio" THEN 1..MaxGap ELSE {0}) :
          /\ counter' = (counter + gap) % machine.acpi.counterMod
          /\ elapsed' = IF elapsed + gap < MaxElapsed THEN elapsed + gap ELSE MaxElapsed
    BY Zenon DEF hpet_sleep_us_Poll, acpi
  <1>2. sleeper.at = "polling" /\ UNCHANGED <<kHpetBase, kPeriodFs, sleeper>>
    BY Zenon DEF hpet_sleep_us_Poll, acpi
  <1>3. /\ machine \in Machines /\ counter \in Nat /\ counter < machine.acpi.counterMod /\ elapsed \in Nat
        /\ sleeper \in [at : {"none", "polling", "returned", "skipped"}, us : Nat, end : Nat]
        /\ Caught
    BY <1>2, Zenon DEF ClockInv
  <1>4. kHpetBase /\ RealPeriod
    <2>1. sleeper.at \in {"polling", "returned"}
      BY <1>2
    <2> QED
      BY <2>1, Zenon DEF ClockInv
  <1>5. /\ kPeriodFs \in Nat \ {0} /\ WordMod \in Nat \ {0} /\ FsPerUs \in Nat \ {0}
        /\ MaxElapsed \in Nat /\ MaxElapsed * kPeriodFs >= WordMod
    BY <1>4, HpetAssumption DEF RealPeriod
  <1>6. gap \in Nat
    BY HpetAssumption
  <1> DEFINE M == machine.acpi.counterMod
  <1>7. M \in Nat \ {0}
    BY <1>3, ClockFacts, Zenon
  <1>8. counter' = (counter + gap) % M /\ counter < M
    BY <1>1, <1>3, Zenon
  <1>9. counter' \in Nat /\ counter' < M
    <2>1. counter + gap \in Nat
      BY <1>3, <1>6
    <2> HIDE DEF M
    <2> QED
      BY <1>7, <1>8, <2>1, ModBounds, Zenon
  <1>10. elapsed' \in Nat /\ (elapsed' = elapsed + gap \/ elapsed' = MaxElapsed)
         /\ (elapsed' = MaxElapsed \/ elapsed + gap <= MaxElapsed)
    BY <1>1, <1>3, <1>5, <1>6
  <1> HIDE DEF M
  <1>11. Product' <= Product + gap * kPeriodFs
    BY <1>2, <1>3, <1>5, <1>6, <1>7, <1>8, PollMovesOn, Zenon DEF Product
  <1>12. Caught'
    <2> DEFINE u == sleeper.us
               e == sleeper.end
               P == kPeriodFs
    <2>1. u \in Nat /\ e \in Nat
      BY <1>3
    <2>2. sleeper'.us = u /\ sleeper'.end = e /\ kPeriodFs' = P
      BY <1>2, Zenon
    <2> HIDE DEF u, e, P
    <2> DEFINE X == (e - u + 1) * FsPerUs
    <2> SUFFICES ASSUME e >= u PROVE elapsed' * P >= WordMod \/ Product' < X + elapsed' * P
      BY <2>2, Zenon DEF Caught
    <2>3. elapsed * P >= WordMod \/ Product < X + elapsed * P
      BY <1>3, Zenon DEF Caught, u, e, P
    <2>4. X \in Int /\ P \in Nat /\ MaxElapsed * P >= WordMod
      BY <1>5, <2>1 DEF P
    <2>5. Product' <= Product + gap * P
      BY <1>11, Zenon DEF P
    <2>6. Product \in Nat /\ Product' \in Nat
      <3>1. counter * kPeriodFs \in Nat /\ counter' * kPeriodFs' \in Nat
        <4>1. kPeriodFs' = kPeriodFs
          BY <1>2, Zenon
        <4>2. counter * kPeriodFs \in Nat /\ counter' * kPeriodFs \in Nat
          <5>1. counter \in Nat /\ counter' \in Nat /\ kPeriodFs \in Nat
            BY <1>3, <1>5, <1>9
          <5> QED
            BY <5>1, ProductNat, Zenon
        <4> QED
          BY <4>1, <4>2, Zenon
      <3> QED
        BY <1>5, <3>1, ModBounds, Zenon DEF Product
    <2> HIDE DEF X
    <2>7. CASE elapsed' = MaxElapsed
      BY <2>4, <2>7, Zenon
    <2>8. CASE elapsed' = elapsed + gap
      <3>1. elapsed' * P = elapsed * P + gap * P /\ elapsed * P \in Nat /\ gap * P \in Nat
        BY <1>3, <1>6, <2>4, <2>8
      <3> DEFINE a == elapsed * P
                 g == gap * P
                 b == elapsed' * P
      <3>2. /\ b = a + g /\ a \in Nat /\ g \in Nat /\ WordMod \in Nat
            /\ a >= WordMod \/ Product < X + a
            /\ Product' <= Product + g
        BY <1>5, <2>3, <2>5, <3>1, Zenon
      <3> HIDE DEF a, g, b
      <3>3. b >= WordMod \/ Product' < X + b
        BY <2>4, <2>6, <3>2
      <3> QED
        BY <3>3, Zenon DEF b
    <2> QED
      BY <1>10, <2>7, <2>8
  <1>13. RealPeriod' /\ sleeper'.at # "returned" /\ sleeper' = sleeper
    BY <1>2, <1>4 DEF RealPeriod
  <1>14. counter' < machine'.acpi.counterMod
    BY <1>9, Zenon DEF M
  <1>15. phase' # "idle" => sleeper'.at = "none"
    BY <1>13, Zenon DEF ClockInv
  <1> QED
    BY <1>2, <1>3, <1>4, <1>9, <1>10, <1>12, <1>13, <1>14, <1>15, Zenon DEF ClockInv, SleepsLongEnough

LEMMA ReturningStep ==
  ASSUME ClockInv, UNCHANGED <<machine, phase>>, hpet_sleep_us_Return
  PROVE  ClockInv'
  <1>1. /\ sleeper.at = "polling" /\ hpet_read_us >= sleeper.end
        /\ sleeper' = [sleeper EXCEPT !.at = "returned"] /\ UNCHANGED <<kHpetBase, kPeriodFs, counter, elapsed>>
    BY Zenon DEF hpet_sleep_us_Return
  <1>2. /\ machine \in Machines /\ counter \in Nat /\ counter < machine.acpi.counterMod /\ elapsed \in Nat
        /\ sleeper \in [at : {"none", "polling", "returned", "skipped"}, us : Nat, end : Nat]
        /\ Caught
    BY <1>1, Zenon DEF ClockInv
  <1>3. kHpetBase /\ RealPeriod
    <2>1. sleeper.at \in {"polling", "returned"}
      BY <1>1
    <2> QED
      BY <2>1, Zenon DEF ClockInv
  <1>4. kPeriodFs \in Nat \ {0} /\ WordMod \in Nat \ {0} /\ FsPerUs \in Nat \ {0}
    BY <1>3, HpetAssumption DEF RealPeriod
  <1>5. counter * kPeriodFs \in Nat /\ elapsed * kPeriodFs \in Nat
    BY <1>2, <1>4
  <1>6. Product \in Nat /\ Product < WordMod
    BY <1>4, <1>5, ModBounds, Zenon DEF Product
  <1>7. (Product \div FsPerUs) >= sleeper.end
    BY <1>1, <1>3, Zenon DEF hpet_read_us, Product
  <1>8. /\ sleeper' \in [at : {"none", "polling", "returned", "skipped"}, us : Nat, end : Nat]
        /\ sleeper'.at = "returned" /\ sleeper'.us = sleeper.us /\ sleeper'.end = sleeper.end /\ sleeper'.at # "polling"
    BY <1>1, <1>2
  <1>9. ASSUME sleeper.us > 0, sleeper.end >= sleeper.us PROVE elapsed * kPeriodFs > (sleeper.us - 1) * FsPerUs
    <2>1. sleeper.us \in Nat \ {0} /\ sleeper.end \in Nat
      BY <1>2, <1>9
    <2>2. elapsed * kPeriodFs >= WordMod \/ Product < (sleeper.end - sleeper.us + 1) * FsPerUs + elapsed * kPeriodFs
      BY <1>2, <1>9, Zenon DEF Caught
    <2> QED
      BY <1>4, <1>5, <1>6, <1>7, <1>9, <2>1, <2>2, EndReading, Zenon
  <1>10. SleepsLongEnough'
    BY <1>1, <1>8, <1>9, Zenon DEF SleepsLongEnough
  <1>11. phase' # "idle" => sleeper'.at = "none"
    <2>1. phase # "idle" => sleeper.at = "none"
      BY Zenon DEF ClockInv
    <2> QED
      BY <1>1, <2>1
  <1>12. RealPeriod'
    BY <1>1, <1>3, Zenon DEF RealPeriod
  <1> QED
    BY <1>1, <1>2, <1>3, <1>8, <1>10, <1>11, <1>12, Zenon DEF ClockInv


(* Nothing else touches the clock. *)
LEMMA ClockSame ==
  ASSUME ClockInv, UNCHANGED <<machine, clockVars>>, phase' = "idle" => phase \in {"net", "idle"}, phase = "idle" => phase' = "idle"
  PROVE  ClockInv'
  <1>1. /\ machine' = machine /\ kHpetBase' = kHpetBase /\ kPeriodFs' = kPeriodFs /\ counter' = counter
        /\ sleeper' = sleeper /\ elapsed' = elapsed
    BY Zenon DEF clockVars
  <1>2. phase' # "idle" => sleeper'.at = "none"
    BY <1>1, Zenon DEF ClockInv
  <1> QED
    BY <1>1, <1>2, Zenon DEF ClockInv, Caught, Product, RealPeriod, SleepsLongEnough

LEMMA HpetStep ==
  ASSUME ClockInv, UNCHANGED machine, phase = "hpet", hpet_init
  PROVE  ClockInv'
  <1>1. /\ ~(BaseFound /\ machine.acpi.period = 0) /\ kHpetBase' = BaseFound
        /\ kPeriodFs' = IF BaseFound THEN machine.acpi.period ELSE kPeriodFs
        /\ counter' = counter /\ sleeper' = sleeper /\ elapsed' = elapsed
    BY Zenon DEF hpet_init, DividesByZero, acpi
  <1>2. phase # "idle"
    OBVIOUS
  <1>3. /\ machine \in Machines /\ counter \in Nat /\ counter < machine.acpi.counterMod /\ elapsed \in Nat
        /\ sleeper \in [at : {"none", "polling", "returned", "skipped"}, us : Nat, end : Nat]
        /\ sleeper.at = "none"
    BY <1>2, Zenon DEF ClockInv
  <1>4. kHpetBase' => RealPeriod'
    BY <1>1, <1>3, ClockFacts, Zenon DEF RealPeriod
  <1>5. sleeper'.at \notin {"polling", "returned"} /\ sleeper'.at # "polling" /\ sleeper'.at # "returned" /\ sleeper'.at = "none"
    BY <1>1, <1>3
  <1> QED
    BY <1>1, <1>3, <1>4, <1>5, Zenon DEF ClockInv, SleepsLongEnough

LEMMA SkippedStep ==
  ASSUME ClockInv, UNCHANGED <<machine, phase>>, phase = "idle", NEW us \in Sleeps, hpet_sleep_us_NoHpet(us)
  PROVE  ClockInv'
  <1>1. /\ sleeper' = [at |-> "skipped", us |-> us, end |-> 0]
        /\ UNCHANGED <<kHpetBase, kPeriodFs, counter, elapsed>>
    BY Zenon DEF hpet_sleep_us_NoHpet
  <1>2. us \in Nat
    BY HpetAssumption
  <1>3. /\ sleeper' \in [at : {"none", "polling", "returned", "skipped"}, us : Nat, end : Nat]
        /\ sleeper'.at \notin {"polling", "returned"} /\ sleeper'.at # "polling" /\ sleeper'.at # "returned"
    BY <1>1, <1>2
  <1> QED
    BY <1>1, <1>3, Zenon DEF ClockInv, RealPeriod, SleepsLongEnough

(* kernel_main goes from one part of the boot to the next.                 *)
LEMMA BootPhases ==
  ASSUME \/ kernel_main_Requests \/ kernel_main_SmpSkipped \/ kernel_main_Smp \/ kernel_main_Vfs
         \/ kernel_main_Devices \/ kernel_main_Pci \/ kernel_main_PciOverflow
         \/ kernel_main_HpetFault \/ kernel_main_Hpet
  PROVE  /\ phase \in {"entry", "smp", "vfs", "devices", "pci", "hpet"}
         /\ phase' \in {"smp", "vfs", "devices", "pci", "hpet", "net", "halted", "panicked"}
  <1>1. CASE kernel_main_Requests \/ kernel_main_SmpSkipped \/ kernel_main_Vfs \/ kernel_main_Devices
    BY <1>1 DEF kernel_main_Requests, kernel_main_SmpSkipped, kernel_main_Vfs, kernel_main_Devices, Goto
  <1>2. CASE kernel_main_Smp
    <2>1. phase = "smp" /\ phase' = IF bsp' = "done" THEN "vfs" ELSE phase
      BY <1>2, Zenon DEF kernel_main_Smp
    <2> QED
      BY <2>1
  <1>3. CASE kernel_main_Pci
    <2>1. phase = "pci" /\ (phase' = "hpet" \/ phase' = phase)
      BY <1>3, Zenon DEF kernel_main_Pci
    <2> QED
      BY <2>1
  <1>4. CASE kernel_main_PciOverflow
    <2>1. phase = "pci" /\ phase' = "panicked"
      BY <1>4, Zenon DEF kernel_main_PciOverflow, Goto
    <2> QED
      BY <2>1
  <1>5. CASE kernel_main_HpetFault
    <2>1. phase = "hpet" /\ phase' = "panicked"
      BY <1>5, Zenon DEF kernel_main_HpetFault, Goto
    <2> QED
      BY <2>1
  <1>6. CASE kernel_main_Hpet
    <2>1. phase = "hpet" /\ phase' = "net"
      BY <1>6, Zenon DEF kernel_main_Hpet, Goto
    <2> QED
      BY <2>1
  <1> QED
    BY <1>1, <1>2, <1>3, <1>4, <1>5, <1>6, Zenon

LEMMA ClockStep == ClockInv /\ [Next]_vars => ClockInv'
  <1> SUFFICES ASSUME ClockInv, [Next]_vars PROVE ClockInv'
    OBVIOUS
  <1>1. CASE UNCHANGED vars
    <2>1. UNCHANGED <<machine, clockVars>> /\ phase' = phase
      BY <1>1, Zenon DEF vars
    <2>2. (phase' = "idle" => phase \in {"net", "idle"}) /\ (phase = "idle" => phase' = "idle")
      BY <2>1
    <2> QED
      BY <2>1, <2>2, ClockSame, Zenon
  <1>2. CASE UseClock
    <2>1. UNCHANGED <<machine, phase>> /\ phase = "idle" /\ Sleep
      BY <1>2, Zenon DEF UseClock, Using
    <2> QED
      BY <2>1, SleepingStep, SkippedStep, PollingStep, ReturningStep, Zenon DEF Sleep
  <1>3. CASE kernel_main_Hpet /\ machine.rsdp # "none"
    BY <1>3, HpetStep, Zenon DEF kernel_main_Hpet, Goto
  <1>4. CASE kernel_main_Net
    <2>1. UNCHANGED <<machine, clockVars>> /\ phase = "net" /\ phase' = "idle"
      BY <1>4, Zenon DEF kernel_main_Net, Goto
    <2>2. (phase' = "idle" => phase \in {"net", "idle"}) /\ (phase = "idle" => phase' = "idle")
      BY <2>1
    <2> QED
      BY <2>1, <2>2, ClockSame, Zenon
  <1>5. CASE \/ kernel_main_Requests \/ kernel_main_SmpSkipped \/ kernel_main_Smp \/ kernel_main_Vfs
             \/ kernel_main_Devices \/ kernel_main_Pci \/ kernel_main_PciOverflow
             \/ kernel_main_HpetFault \/ (kernel_main_Hpet /\ machine.rsdp = "none")
    <2>1. UNCHANGED <<machine, clockVars>>
      BY <1>5, Zenon DEF kernel_main_Requests, kernel_main_SmpSkipped, kernel_main_Smp, kernel_main_Vfs,
         kernel_main_Devices, kernel_main_Pci, kernel_main_PciOverflow, kernel_main_HpetFault, kernel_main_Hpet, Goto
    <2>2. phase \in {"entry", "smp", "vfs", "devices", "pci", "hpet"}
          /\ phase' \in {"smp", "vfs", "devices", "pci", "hpet", "net", "halted", "panicked"}
      BY <1>5, BootPhases, Zenon
    <2>3. (phase' = "idle" => phase \in {"net", "idle"}) /\ (phase = "idle" => phase' = "idle")
      BY <2>2
    <2> QED
      BY <2>1, <2>3, ClockSame, Zenon
  <1>6. CASE (\E c \in Id : ApStep(c)) \/ Millisecond \/ UseCard \/ UseDevices \/ UseScreen
    <2>1. UNCHANGED <<machine, clockVars>> /\ phase' = phase
      BY <1>6, Zenon DEF ApStep, Millisecond, UseCard, UseDevices, UseScreen, Using
    <2>2. (phase' = "idle" => phase \in {"net", "idle"}) /\ (phase = "idle" => phase' = "idle")
      BY <2>1
    <2> QED
      BY <2>1, <2>2, ClockSame, Zenon
  <1>7. CASE kernel_main
    <2>1. machine.rsdp = "none" \/ machine.rsdp # "none"
      OBVIOUS
    <2> QED
      BY <1>7, <2>1, <1>3, <1>4, <1>5, Zenon DEF kernel_main
  <1> QED
    BY <1>1, <1>2, <1>6, <1>7, Zenon DEF Next

(* For every period, width of the counter and of the word, and however     *)
(* unevenly the counter is polled: hpet_sleep_us never returns early by a  *)
(* microsecond or more, unless its end does not fit the word.              *)
THEOREM SleepsAreLongEnough == Spec => []SleepsLongEnough
  <1>1. ClockInv => SleepsLongEnough
    BY Zenon DEF ClockInv
  <1> QED
    BY <1>1, ClockInit, ClockStep, PTL DEF Spec


-----------------------------------------------------------------------------
(* The screen *)

(* The pixels of a screen of width w and height h.                         *)
Dots(w, h) == (0..(w - 1)) \X (0..(h - 1))

(* px shows the characters of f whole, but for what is right of the        *)
(* screen.                                                                 *)
Whole(px, f) ==
  /\ DOMAIN px = Dots(kFb.width, kFb.height)
  /\ \A p \in DOMAIN f :
       /\ p = <<p[1], p[2]>> /\ p[1] \in Nat /\ p[2] \in Nat /\ p[2] + GlyphHeight <= kFb.height
       /\ \A d \in Cell(p[1], p[2]) \cap DOMAIN px : px[d] = Dot(f[p], d[2] - p[2], d[1] - p[1])

ScreenInv ==
  /\ kFbCursorX \in Nat /\ kFbCursorY \in Nat /\ above \in Int
  /\ kFb = NULL => kFbCursorX = 0 /\ kFbCursorY = 0 /\ text = << >> /\ above = NoLine
  /\ kFb # NULL =>
       /\ kFb \in Screens /\ Whole(pixel, text)
       /\ kFbCursorY + GlyphHeight <= kFb.height
       /\ kFb.height >= 2 * GlyphHeight => above >= 0 /\ (kFbCursorY = 0 \/ kFbCursorY >= GlyphHeight)

LEMMA InBox ==
  ASSUME NEW x \in Int, NEW y \in Int, NEW w \in Int, NEW h \in Int, NEW d
  PROVE  d \in Box(x, y, w, h) <=> d = <<d[1], d[2]>> /\ d[1] \in Int /\ d[2] \in Int
                                   /\ x <= d[1] /\ d[1] < x + w /\ y <= d[2] /\ d[2] < y + h
  BY DEF Box

LEMMA InDots ==
  ASSUME NEW w \in Nat, NEW h \in Nat, NEW d
  PROVE  d \in Dots(w, h) <=> d = <<d[1], d[2]>> /\ d[1] \in Nat /\ d[2] \in Nat /\ d[1] < w /\ d[2] < h
  BY DEF Dots

(* fb_scroll moves whole characters up with their pixels.                  *)
LEMMA ScrollKeeps ==
  ASSUME kFb \in Screens, NEW px, NEW f, Whole(px, f), NEW n \in Nat
  PROVE  Whole(Scrolled(px, n), MovedUp(f, n))
  <1> DEFINE h == kFb.height
             w == kFb.width
             S == Scrolled(px, n)
             M == MovedUp(f, n)
  <1>1. h \in Nat /\ w \in Nat /\ GlyphWidth \in Int /\ GlyphHeight \in Int
    BY ScreenAssumption
  <1>2. /\ DOMAIN px = Dots(w, h)
        /\ \A p \in DOMAIN f :
             /\ p = <<p[1], p[2]>> /\ p[1] \in Nat /\ p[2] \in Nat /\ p[2] + GlyphHeight <= h
             /\ \A d \in Cell(p[1], p[2]) \cap DOMAIN px : px[d] = Dot(f[p], d[2] - p[2], d[1] - p[1])
    BY Zenon DEF Whole
  <1>3. DOMAIN S = Dots(w, h) /\ \A d \in Dots(w, h) : d[2] + n < h => S[d] = px[<<d[1], d[2] + n>>]
    BY <1>2, Zenon DEF Scrolled
  <1>4. /\ DOMAIN M = {<<q[1], q[2] - n>> : q \in {c \in DOMAIN f : c[2] >= n}}
        /\ \A p \in DOMAIN M : M[p] = f[<<p[1], p[2] + n>>]
    BY Zenon DEF MovedUp
  <1> HIDE DEF h, w, S, M
  <1>5. ASSUME NEW p \in DOMAIN M
        PROVE  /\ p = <<p[1], p[2]>> /\ p[1] \in Nat /\ p[2] \in Nat /\ p[2] + GlyphHeight <= h
               /\ \A d \in Cell(p[1], p[2]) \cap DOMAIN S : S[d] = Dot(M[p], d[2] - p[2], d[1] - p[1])
    <2>1. PICK q \in DOMAIN f : q[2] >= n /\ p = <<q[1], q[2] - n>>
      BY <1>4, Zenon
    <2>2. q = <<q[1], q[2]>> /\ q[1] \in Nat /\ q[2] \in Nat /\ q[2] + GlyphHeight <= h
      BY <1>2, Zenon
    <2>3. /\ p = <<p[1], p[2]>> /\ p[1] \in Nat /\ p[2] \in Nat /\ p[2] + GlyphHeight <= h
          /\ p[1] = q[1] /\ p[2] = q[2] - n /\ q = <<p[1], p[2] + n>>
      BY <1>1, <2>1, <2>2
    <2>4. ASSUME NEW d \in Cell(p[1], p[2]), d \in DOMAIN S
          PROVE  S[d] = Dot(M[p], d[2] - p[2], d[1] - p[1])
      <3>1. /\ d = <<d[1], d[2]>> /\ d[1] \in Int /\ d[2] \in Int
            /\ p[1] <= d[1] /\ d[1] < p[1] + GlyphWidth /\ p[2] <= d[2] /\ d[2] < p[2] + GlyphHeight
        <4>1. p[1] \in Int /\ p[2] \in Int
          BY <2>3
        <4>2. d \in Box(p[1], p[2], GlyphWidth, GlyphHeight)
          BY <2>4, Zenon DEF Cell
        <4> QED
          BY <1>1, <4>1, <4>2 DEF Box
      <3>2. d \in Dots(w, h) /\ d[1] \in Nat /\ d[2] \in Nat /\ d[1] < w /\ d[2] < h
        BY <1>1, <1>3, <2>4, InDots, Zenon
      <3> DEFINE e == <<d[1], d[2] + n>>
      <3>3. d[2] + n < h /\ e = <<e[1], e[2]>> /\ e[1] = d[1] /\ e[2] = d[2] + n /\ e[1] \in Nat /\ e[2] \in Nat
        BY <1>1, <2>1, <2>2, <2>3, <3>1, <3>2
      <3>4. S[d] = px[e]
        BY <1>3, <3>2, <3>3, Zenon
      <3> HIDE DEF e
      <3>5. e \in Dots(w, h)
        BY <1>1, <3>2, <3>3, InDots
      <3>6. e \in Cell(q[1], q[2])
        <4>1. e[1] \in Int /\ e[2] \in Int /\ q[1] <= e[1] /\ e[1] < q[1] + GlyphWidth
              /\ q[2] <= e[2] /\ e[2] < q[2] + GlyphHeight /\ q[1] \in Int /\ q[2] \in Int
          BY <1>1, <2>2, <2>3, <3>1, <3>3
        <4> QED
          BY <1>1, <3>3, <4>1, InBox, Zenon DEF Cell
      <3>7. px[e] = Dot(f[q], e[2] - q[2], e[1] - q[1])
        BY <1>2, <3>5, <3>6, Zenon
      <3>8. e[2] - q[2] = d[2] - p[2] /\ e[1] - q[1] = d[1] - p[1]
        BY <2>2, <2>3, <3>1, <3>3
      <3>9. M[p] = f[q]
        BY <1>4, <2>3, Zenon
      <3> QED
        BY <3>4, <3>7, <3>8, <3>9, Zenon
    <2> QED
      BY <2>3, <2>4, Zenon
  <1> QED
    BY <1>3, <1>5, Zenon DEF Whole, h, w, S, M

(* Pixels that change within the set S cover no character outside it.      *)
LEMMA PutKeeps ==
  ASSUME Whole(pixel, text), NEW f, NEW S, DOMAIN f \cap DOMAIN pixel \subseteq S
  PROVE  Whole(put_pixel(f), Clear(text, S))
  <1> DEFINE px == put_pixel(f)
             g == Clear(text, S)
  <1>1. DOMAIN px = DOMAIN pixel /\ \A d \in DOMAIN pixel : d \notin S => px[d] = pixel[d]
    BY Zenon DEF put_pixel
  <1>2. /\ DOMAIN g \subseteq DOMAIN text /\ \A p \in DOMAIN g : g[p] = text[p] /\ Cell(p[1], p[2]) \cap S = {}
    BY Zenon DEF Clear
  <1> HIDE DEF px, g
  <1>3. ASSUME NEW p \in DOMAIN g, NEW d \in Cell(p[1], p[2]), d \in DOMAIN px
        PROVE  px[d] = Dot(g[p], d[2] - p[2], d[1] - p[1])
    <2>1. d \notin S /\ p \in DOMAIN text /\ g[p] = text[p] /\ d \in DOMAIN pixel
      BY <1>1, <1>2, <1>3, Zenon
    <2>2. pixel[d] = Dot(text[p], d[2] - p[2], d[1] - p[1])
      BY <1>3, <2>1, Zenon DEF Whole
    <2> QED
      BY <1>1, <2>1, <2>2, Zenon
  <1>4. \A p \in DOMAIN g : p = <<p[1], p[2]>> /\ p[1] \in Nat /\ p[2] \in Nat /\ p[2] + GlyphHeight <= kFb.height
    BY <1>2, Zenon DEF Whole
  <1>5. DOMAIN px = Dots(kFb.width, kFb.height)
    BY <1>1, Zenon DEF Whole
  <1> QED
    BY <1>3, <1>4, <1>5, Zenon DEF Whole, px, g

(* A line feed leaves the text whole, the cursor on the screen and, if     *)
(* there is room for two lines, the line it was on as well.                *)
LEMMA NextLineKeeps ==
  ASSUME ScreenInv, kFb # NULL, UNCHANGED kFb, NEW px, NEW f, Whole(px, f), NextLine(px, f)
  PROVE  ScreenInv'
  <1> DEFINE h == kFb.height
             y == kFbCursorY + GlyphHeight
  <1>1. /\ kFb \in Screens /\ kFbCursorY \in Nat /\ kFbCursorY + GlyphHeight <= h
        /\ (h >= 2 * GlyphHeight => kFbCursorY = 0 \/ kFbCursorY >= GlyphHeight)
    BY Zenon DEF ScreenInv
  <1>2. h \in Nat /\ GlyphHeight \in Nat \ {0} /\ h >= GlyphHeight
    BY <1>1, ScreenAssumption
  <1>3. /\ kFbCursorX' = 0
        /\ kFbCursorY' = IF AtBottom(y) THEN h - GlyphHeight ELSE y
        /\ pixel' = IF AtBottom(y) THEN Scrolled(px, GlyphHeight) ELSE px
        /\ text' = IF AtBottom(y) THEN MovedUp(f, GlyphHeight) ELSE f
        /\ above' = IF AtBottom(y) THEN kFbCursorY - GlyphHeight ELSE kFbCursorY
    BY Zenon DEF NextLine
  <1>4. AtBottom(y) <=> y + GlyphHeight > h
    BY Zenon DEF AtBottom
  <1>5. Whole(pixel', text')
    BY <1>1, <1>2, <1>3, ScrollKeeps, Zenon
  <1>6. Whole(pixel, text)'
    BY <1>5, Zenon DEF Whole
  <1> HIDE DEF h
  <1>7. kFbCursorX' \in Nat /\ kFbCursorY' \in Nat /\ above' \in Int
    BY <1>1, <1>2, <1>3, <1>4
  <1>8. kFbCursorY' + GlyphHeight <= h
    BY <1>1, <1>2, <1>3, <1>4
  <1>9. h >= 2 * GlyphHeight => above' >= 0 /\ (kFbCursorY' = 0 \/ kFbCursorY' >= GlyphHeight)
    BY <1>1, <1>2, <1>3, <1>4
  <1>10. kFb' = kFb /\ h = kFb'.height
    BY Zenon DEF h
  <1> QED
    BY <1>1, <1>6, <1>7, <1>8, <1>9, <1>10, Zenon DEF ScreenInv, h

LEMMA InitScreenStep ==
  ASSUME ScreenInv, NEW s \in Screens, framebuffer_init(s)
  PROVE  ScreenInv'
  <1>1. /\ kFb = NULL /\ kFb' = s /\ UNCHANGED <<kFbCursorX, kFbCursorY, text, above>>
        /\ pixel' = [p \in (0..(s.width - 1)) \X (0..(s.height - 1)) |-> Solid(Boot)]
    BY Zenon DEF framebuffer_init
  <1>2. kFbCursorX = 0 /\ kFbCursorY = 0 /\ text = << >> /\ above = NoLine
    BY <1>1, Zenon DEF ScreenInv
  <1>3. s.height \in Nat /\ s.height >= GlyphHeight /\ GlyphHeight \in Nat /\ DOMAIN << >> = {}
    BY ScreenAssumption
  <1>4. DOMAIN pixel' = Dots(s.width, s.height)
    BY <1>1, Zenon DEF Dots
  <1>5. Whole(pixel, text)'
    BY <1>1, <1>2, <1>3, <1>4, Zenon DEF Whole
  <1>6. /\ kFbCursorX' = 0 /\ kFbCursorY' = 0 /\ above' = GlyphHeight /\ 0 \in Nat /\ GlyphHeight \in Int
        /\ 0 + GlyphHeight <= s.height /\ GlyphHeight >= 0
    BY <1>1, <1>2, <1>3 DEF NoLine
  <1> QED
    BY <1>1, <1>2, <1>5, <1>6, Zenon DEF ScreenInv

(* A step that leaves the cursor's line and keeps the text whole.          *)
LEMMA CursorStays ==
  ASSUME ScreenInv, kFb # NULL, UNCHANGED <<kFb, kFbCursorY>>, kFbCursorX' \in Nat,
         above' = above \/ above' = NoLine, Whole(pixel', text')
  PROVE  ScreenInv'
  <1>1. Whole(pixel, text)'
    BY Zenon DEF Whole
  <1>2. NoLine \in Int /\ NoLine >= 0
    BY ScreenAssumption DEF NoLine
  <1>3. above' \in Int /\ (kFb.height >= 2 * GlyphHeight => above' >= 0)
    BY <1>2, Zenon DEF ScreenInv
  <1> QED
    BY <1>1, <1>3, Zenon DEF ScreenInv

LEMMA FillStep ==
  ASSUME ScreenInv, NEW r \in Rects, fb_fill_rect(r)
  PROVE  ScreenInv'
  <1> DEFINE xe == End(r.x, r.w, kFb.width)
             ye == End(r.y, r.h, kFb.height)
             f == [p \in (r.x..(xe - 1)) \X (r.y..(ye - 1)) |-> Solid(Paint)]
             S == Box(r.x, r.y, r.w, r.h)
  <1>1. /\ kFb # NULL /\ pixel' = put_pixel(f) /\ text' = Clear(text, S)
        /\ UNCHANGED <<kFb, kFbCursorX, kFbCursorY, above>>
    BY Zenon DEF fb_fill_rect
  <1>2. kFb \in Screens /\ Whole(pixel, text) /\ kFbCursorX \in Nat
    BY <1>1, Zenon DEF ScreenInv
  <1>3. /\ r.x \in Nat /\ r.y \in Nat /\ r.w \in Nat /\ r.h \in Nat
        /\ kFb.width \in Nat /\ kFb.height \in Nat /\ CoordMod \in Nat \ {0}
    BY <1>2, ScreenAssumption, Zenon
  <1>4. ASSUME NEW a \in Nat, NEW b \in Nat, NEW c \in Nat PROVE End(a, b, c) \in Nat /\ End(a, b, c) <= a + b
    <2> DEFINE n == a + b
               m == n % CoordMod
    <2>1. n \in Nat
      OBVIOUS
    <2>2. m \in Nat /\ m <= n
      <3> HIDE DEF n
      <3> QED
        BY <1>3, <2>1, ModBounds, Zenon
    <2>3. End(a, b, c) = IF m > c THEN c ELSE m
      BY Zenon DEF End
    <2> HIDE DEF m, n
    <2>4. End(a, b, c) \in Nat /\ End(a, b, c) <= n
      BY <2>1, <2>2, <2>3
    <2> QED
      BY <2>4, Zenon DEF n
  <1>5. xe \in Nat /\ xe <= r.x + r.w /\ ye \in Nat /\ ye <= r.y + r.h
    BY <1>3, <1>4, Zenon
  <1>6. DOMAIN f = (r.x..(xe - 1)) \X (r.y..(ye - 1))
    BY Zenon
  <1> HIDE DEF xe, ye, f
  <1>7. r.x..(xe - 1) \subseteq r.x..(r.x + r.w - 1) /\ r.y..(ye - 1) \subseteq r.y..(r.y + r.h - 1)
    BY <1>3, <1>5
  <1>8. DOMAIN f \subseteq S
    BY <1>6, <1>7 DEF Box
  <1> HIDE DEF S
  <1>9. DOMAIN f \cap DOMAIN pixel \subseteq S
    BY <1>8, Zenon
  <1>10. Whole(pixel', text')
    BY <1>1, <1>2, <1>9, PutKeeps, Zenon
  <1> QED
    BY <1>1, <1>2, <1>10, CursorStays, Zenon

LEMMA ScrollStep ==
  ASSUME ScreenInv, NEW n \in Scrolls, fb_scroll(n)
  PROVE  ScreenInv'
  <1>1. /\ kFb # NULL /\ pixel' = Scrolled(pixel, n) /\ text' = MovedUp(text, n) /\ above' = NoLine
        /\ UNCHANGED <<kFb, kFbCursorX, kFbCursorY>>
    BY Zenon DEF fb_scroll
  <1>2. kFb \in Screens /\ Whole(pixel, text) /\ kFbCursorX \in Nat /\ n \in Nat
    BY <1>1, ScreenAssumption, Zenon DEF ScreenInv
  <1>3. Whole(pixel', text')
    BY <1>1, <1>2, ScrollKeeps, Zenon
  <1> QED
    BY <1>1, <1>2, <1>3, CursorStays, Zenon

LEMMA ClearStep ==
  ASSUME ScreenInv, fb_clear
  PROVE  ScreenInv'
  <1>1. /\ kFb # NULL /\ pixel' = put_pixel([p \in DOMAIN pixel |-> Solid(Paint)]) /\ text' = << >>
        /\ UNCHANGED <<kFb, kFbCursorX, kFbCursorY, above>>
    BY Zenon DEF fb_clear
  <1>2. Whole(pixel, text) /\ kFbCursorX \in Nat
    BY <1>1, Zenon DEF ScreenInv
  <1>3. DOMAIN pixel' = DOMAIN pixel
    BY <1>1, Zenon DEF put_pixel
  <1>4. DOMAIN << >> = {}
    OBVIOUS
  <1>5. Whole(pixel', text')
    BY <1>1, <1>2, <1>3, <1>4, Zenon DEF Whole
  <1> QED
    BY <1>1, <1>2, <1>5, CursorStays, Zenon

(* Tabs and carriage returns move the cursor within its line.              *)
LEMMA MoveStep ==
  ASSUME ScreenInv, fb_putchar_Return \/ fb_putchar_Tab
  PROVE  ScreenInv'
  <1>1. kFb # NULL /\ UNCHANGED <<kFb, kFbCursorY, pixel, text, above>>
    BY Zenon DEF fb_putchar_Return, fb_putchar_Tab
  <1>2. Whole(pixel', text') /\ kFbCursorX \in Nat
    BY <1>1, Zenon DEF ScreenInv
  <1>3. kFbCursorX' \in Nat
    <2>1. CASE fb_putchar_Return
      <3>1. kFbCursorX' = 0
        BY <2>1, Zenon DEF fb_putchar_Return
      <3> QED
        BY <3>1
    <2>2. CASE fb_putchar_Tab
      <3> DEFINE n == kFbCursorX + 4 * GlyphWidth
                 m == n % CoordMod
                 q == m \div GlyphWidth
      <3>1. kFbCursorX' = q * GlyphWidth
        BY <2>2, Zenon DEF fb_putchar_Tab
      <3>2. n \in Nat /\ CoordMod \in Nat \ {0} /\ GlyphWidth \in Nat \ {0} /\ GlyphWidth \in Nat
        BY <1>2, ScreenAssumption
      <3> HIDE DEF n
      <3>3. m \in Nat
        BY <3>2, ModBounds, Zenon
      <3> HIDE DEF m
      <3>4. q \in Nat
        BY <3>2, <3>3, DivBounds, Zenon
      <3> HIDE DEF q
      <3> QED
        BY <3>1, <3>2, <3>4, ProductNat, Zenon
    <2> QED
      BY <2>1, <2>2
  <1> QED
    BY <1>1, <1>2, <1>3, CursorStays, Zenon

(* Drawing a glyph puts one whole character on the screen and takes away   *)
(* no more than those it is drawn over.                                    *)
LEMMA TypedKeeps ==
  ASSUME ScreenInv, kFb # NULL, NEW g
  PROVE  Whole(Drawn(g), Typed(g))
  <1> DEFINE x == kFbCursorX
             y == kFbCursorY
             C == Cell(x, y)
             f == [p \in C |-> Dot(g, p[2] - y, p[1] - x)]
             px == put_pixel(f)
             at == <<x, y>>
             left == Clear(text, C)
  <1>1. /\ kFb \in Screens /\ Whole(pixel, text) /\ x \in Nat /\ y \in Nat /\ y + GlyphHeight <= kFb.height
    BY Zenon DEF ScreenInv
  <1>2. Drawn(g) = px
    BY Zenon DEF Drawn
  <1>3. /\ Typed(g) = IF x >= kFb.width THEN text
                      ELSE [p \in DOMAIN left \cup {at} |-> IF p = at THEN g ELSE left[p]]
    BY Zenon DEF Typed
  <1>4. DOMAIN f = C /\ \A d \in C : f[d] = Dot(g, d[2] - y, d[1] - x)
    BY Zenon
  <1>5. DOMAIN px = DOMAIN pixel /\ \A d \in DOMAIN pixel \cap C : px[d] = Dot(g, d[2] - y, d[1] - x)
    BY <1>4, Zenon DEF put_pixel
  <1> HIDE DEF f
  <1>6. Whole(px, left)
    <2>1. DOMAIN f \cap DOMAIN pixel \subseteq C
      BY <1>4, Zenon
    <2> QED
      BY <1>1, <2>1, PutKeeps, Zenon
  <1>7. CASE x >= kFb.width
    <2>1. C \cap DOMAIN pixel = {}
      <3>1. kFb.width \in Nat /\ kFb.height \in Nat /\ GlyphWidth \in Nat /\ GlyphHeight \in Nat
        BY <1>1, ScreenAssumption
      <3>2. DOMAIN pixel = Dots(kFb.width, kFb.height)
        BY <1>1, Zenon DEF Whole
      <3>3. ASSUME NEW d \in C, d \in DOMAIN pixel PROVE FALSE
        <4>1. d \in Box(x, y, GlyphWidth, GlyphHeight)
          BY <3>3, Zenon DEF Cell
        <4>2. d[1] \in Int /\ x <= d[1]
          BY <1>1, <3>1, <4>1 DEF Box
        <4>3. d \in Dots(kFb.width, kFb.height)
          BY <3>2, <3>3, Zenon
        <4>4. d[1] < kFb.width
          BY <3>1, <4>3 DEF Dots
        <4> QED
          BY <1>1, <1>7, <3>1, <4>2, <4>4
      <3> QED
        BY <3>3, Zenon
    <2>2. DOMAIN f \cap DOMAIN pixel \subseteq {}
      BY <1>4, <2>1, Zenon
    <2> HIDE DEF px, C
    <2>3. Whole(px, Clear(text, {}))
      BY <1>1, <2>2, PutKeeps, Zenon DEF px
    <2>4. DOMAIN Clear(text, {}) = DOMAIN text /\ \A p \in DOMAIN text : Clear(text, {})[p] = text[p]
      <3>1. \A q \in DOMAIN text : Cell(q[1], q[2]) \cap {} = {}
        BY Zenon
      <3> QED
        BY <3>1, Zenon DEF Clear
    <2>5. Whole(px, text)
      BY <2>3, <2>4, Zenon DEF Whole
    <2> QED
      BY <1>2, <1>3, <1>7, <2>5, Zenon
  <1>8. CASE ~(x >= kFb.width)
    <2> DEFINE t == [p \in DOMAIN left \cup {at} |-> IF p = at THEN g ELSE left[p]]
    <2>1. DOMAIN t = DOMAIN left \cup {at} /\ t[at] = g /\ \A p \in DOMAIN left : p # at => t[p] = left[p]
      BY Zenon
    <2>2. at = <<at[1], at[2]>> /\ at[1] = x /\ at[2] = y
      OBVIOUS
    <2> HIDE DEF t, at, px, left, C
    <2>3. ASSUME NEW p \in DOMAIN t
          PROVE  /\ p = <<p[1], p[2]>> /\ p[1] \in Nat /\ p[2] \in Nat /\ p[2] + GlyphHeight <= kFb.height
                 /\ \A d \in Cell(p[1], p[2]) \cap DOMAIN px : px[d] = Dot(t[p], d[2] - p[2], d[1] - p[1])
      <3>1. CASE p = at
        <4>1. p = <<p[1], p[2]>> /\ p[1] = x /\ p[2] = y /\ t[p] = g
          BY <2>1, <2>2, <3>1
        <4>2. Cell(p[1], p[2]) = C
          BY <4>1, Zenon DEF C
        <4> QED
          BY <1>1, <1>5, <4>1, <4>2, Zenon
      <3>2. CASE p # at
        <4>1. p \in DOMAIN left /\ t[p] = left[p]
          BY <2>1, <3>2, Zenon
        <4> QED
          BY <1>6, <4>1, Zenon DEF Whole
      <3> QED
        BY <3>1, <3>2, Zenon
    <2>4. DOMAIN px = Dots(kFb.width, kFb.height)
      BY <1>6, Zenon DEF Whole
    <2>5. Whole(px, t)
      BY <2>3, <2>4, Zenon DEF Whole
    <2> QED
      BY <1>2, <1>3, <1>8, <2>5, Zenon DEF t
  <1> QED
    BY <1>7, <1>8, Zenon

LEMMA PutcharStep ==
  ASSUME ScreenInv, NEW code, fb_putchar(code)
  PROVE  ScreenInv'
  <1> DEFINE g == kFont8x16(Shown(code))
             s == kFbCursorX + GlyphWidth
             x == s % CoordMod
  <1>1. /\ kFb # NULL /\ UNCHANGED kFb
        /\ \/ NextLine(Drawn(g), Typed(g))
           \/ kFbCursorX' = x /\ pixel' = Drawn(g) /\ text' = Typed(g) /\ UNCHANGED <<kFbCursorY, above>>
    BY Zenon DEF fb_putchar
  <1> HIDE DEF g
  <1>2. Whole(Drawn(g), Typed(g))
    BY <1>1, TypedKeeps, Zenon
  <1>3. x \in Nat
    <2>1. s \in Nat /\ CoordMod \in Nat \ {0}
      BY ScreenAssumption DEF ScreenInv
    <2> HIDE DEF s
    <2> QED
      BY <2>1, ModBounds, Zenon
  <1> HIDE DEF x
  <1>4. CASE NextLine(Drawn(g), Typed(g))
    BY <1>1, <1>2, <1>4, NextLineKeeps, Zenon
  <1>5. CASE kFbCursorX' = x /\ pixel' = Drawn(g) /\ text' = Typed(g) /\ UNCHANGED <<kFbCursorY, above>>
    BY <1>1, <1>2, <1>3, <1>5, CursorStays, Zenon
  <1> QED
    BY <1>1, <1>4, <1>5, Zenon

LEMMA ScreenSame ==
  ASSUME ScreenInv, UNCHANGED screenVars
  PROVE  ScreenInv'
  <1>1. /\ kFb' = kFb /\ kFbCursorX' = kFbCursorX /\ kFbCursorY' = kFbCursorY
        /\ pixel' = pixel /\ text' = text /\ above' = above
    BY Zenon DEF screenVars
  <1>2. Whole(pixel, text) => Whole(pixel, text)'
    BY <1>1, Zenon DEF Whole
  <1> QED
    BY <1>1, <1>2, Zenon DEF ScreenInv

LEMMA ScreenStep == ScreenInv /\ [Next]_vars => ScreenInv'
  <1> SUFFICES ASSUME ScreenInv, [Next]_vars PROVE ScreenInv'
    OBVIOUS
  <1>1. CASE UseScreen
    <2>1. ScreenNext
      BY <1>1, Zenon DEF UseScreen
    <2>2. CASE fb_putchar_Newline
      <3>1. kFb # NULL /\ UNCHANGED kFb /\ NextLine(pixel, text) /\ Whole(pixel, text)
        BY <2>2, Zenon DEF fb_putchar_Newline, ScreenInv
      <3> QED
        BY <3>1, NextLineKeeps, Zenon
    <2> QED
      BY <2>1, <2>2, InitScreenStep, ClearStep, FillStep, ScrollStep, MoveStep, PutcharStep, Zenon DEF ScreenNext
  <1>2. CASE UNCHANGED vars \/ (\E c \in Id : ApStep(c)) \/ Millisecond \/ UseClock \/ UseCard \/ UseDevices
    BY <1>2, ScreenSame, Zenon DEF vars, ApStep, Millisecond, UseClock, UseCard, UseDevices
  <1>3. CASE kernel_main
    BY <1>3, ScreenSame, Zenon DEF kernel_main, kernel_main_Requests, kernel_main_SmpSkipped, kernel_main_Smp,
       kernel_main_Vfs, kernel_main_Devices, kernel_main_Pci, kernel_main_PciOverflow, kernel_main_HpetFault,
       kernel_main_Hpet, kernel_main_Net
  <1> QED
    BY <1>1, <1>2, <1>3, Zenon DEF Next

(* Whatever is written, filled and scrolled on a screen of any size:       *)
(* characters stay whole until something covers them or they leave at the  *)
(* top, and the cursor's line stays on the screen.                         *)
THEOREM TextStaysShown == Spec => []TextShown
  <1>1. Init => ScreenInv
    <2>1. Init => kFb = NULL /\ kFbCursorX = 0 /\ kFbCursorY = 0 /\ text = << >> /\ above = NoLine
      BY Zenon DEF Init, ScreenInit
    <2>2. 0 \in Nat /\ NoLine \in Int
      BY ScreenAssumption DEF NoLine
    <2> QED
      BY <2>1, <2>2, Zenon DEF ScreenInv
  <1>2. ScreenInv => TextShown
    BY Zenon DEF ScreenInv, Whole, TextShown
  <1> QED
    BY <1>1, <1>2, ScreenStep, PTL DEF Spec
=============================================================================

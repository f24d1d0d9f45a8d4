---------------------------- MODULE DeviceProofs ----------------------------
(***************************************************************************)
(* How the kernel finds its devices, for every machine: the list of        *)
(* device.cpp holds exactly the records that are registered (RegInv), and  *)
(* the recursive PCI scan that kernel_main makes reports exactly what can  *)
(* be reached (ScanInv).                                                   *)
(***************************************************************************)
EXTENDS KernelMain, FiniteSetTheorems, NaturalsInduction, WellFoundedInduction, TLAPS

LEMMA LeastNumber ==
  ASSUME NEW S \in SUBSET Nat, S # {}
  PROVE  \E n \in S : \A m \in S : n <= m
  <1> DEFINE R == OpToRel(<, Nat)
  <1>1. IsWellFoundedOn(R, Nat)
    BY NatLessThanWellFounded, Zenon
  <1> HIDE DEF R
  <1>2. PICK n \in S : \A m \in S : ~ (<<m, n>> \in R)
    BY <1>1, WFMin, Zenon
  <1>3. \A m \in S : ~ (m < n)
    BY <1>2, Zenon DEF R, OpToRel
  <1> QED
    BY <1>3

(* kernel_main goes from one part of the boot to the next.                 *)
LEMMA BootPhases ==
  ASSUME \/ kernel_main_Requests \/ kernel_main_SmpSkipped \/ kernel_main_Smp \/ kernel_main_Vfs
         \/ kernel_main_Devices \/ kernel_main_Pci \/ kernel_main_PciOverflow
         \/ kernel_main_HpetFault \/ kernel_main_Hpet
  PROVE  /\ phase \in {"entry", "smp", "vfs", "devices", "pci", "hpet"}
         /\ phase' \in {"smp", "vfs", "devices", "pci", "hpet", "net", "halted", "panicked"}
  <1>1. CASE kernel_main_Requests \/ kernel_main_SmpSkipped \/ kernel_main_Vfs \/ kernel_main_Devices
    BY <1>1 DEF kernel_main_Requests, kernel_main_SmpSkipped, kernel_main_Vfs, kernel_main_Devices, Goto
  <1>2. CASE kernel_main_Smp
    <2>1. phase = "smp" /\ phase' = IF bsp' = "done" THEN "vfs" ELSE phase
      BY <1>2, Zenon DEF kernel_main_Smp
    <2> QED
      BY <2>1
  <1>3. CASE kernel_main_Pci
    <2>1. phase = "pci" /\ (phase' = "hpet" \/ phase' = phase)
      BY <1>3, Zenon DEF kernel_main_Pci
    <2> QED
      BY <2>1
  <1>4. CASE kernel_main_PciOverflow
    <2>1. phase = "pci" /\ phase' = "panicked"
      BY <1>4, Zenon DEF kernel_main_PciOverflow, Goto
    <2> QED
      BY <2>1
  <1>5. CASE kernel_main_HpetFault
    <2>1. phase = "hpet" /\ phase' = "panicked"
      BY <1>5, Zenon DEF kernel_main_HpetFault, Goto
    <2> QED
      BY <2>1
  <1>6. CASE kernel_main_Hpet
    <2>1. phase = "hpet" /\ phase' = "net"
      BY <1>6, Zenon DEF kernel_main_Hpet, Goto
    <2> QED
      BY <2>1
  <1> QED
    BY <1>1, <1>2, <1>3, <1>4, <1>5, <1>6, Zenon

-----------------------------------------------------------------------------
(* The device list *)

(* The list holds the records of s, in its order and each once.            *)
Chained(s) ==
  /\ s \in Seq(Device)
  /\ \A j, k \in 1..Len(s) : s[j] = s[k] => j = k
  /\ kDeviceList = IF Len(s) = 0 THEN NULL ELSE s[1]
  /\ \A k \in 1..Len(s) : private_data[s[k]] = IF k = Len(s) THEN NULL ELSE s[k + 1]
  /\ registered = {s[k] : k \in 1..Len(s)}

RegInv ==
  /\ private_data \in [Device -> Device \cup {NULL}] /\ name \in [Device -> Names]
  /\ \E s : Chained(s) /\ kDeviceCount = Len(s) /\ Len(s) <= MAX_DEVICES
  /\ \A d, e \in registered : name[d] = name[e] => d = e
  /\ phase # "idle" => registered = {}

(* A walk of the list comes past the records of s and ends behind them.    *)
LEMMA Walk ==
  ASSUME NEW s, Chained(s)
  PROVE  \A k \in Nat : Node[k] = IF k < Len(s) THEN s[k + 1] ELSE NULL
  <1> DEFINE f == [k \in Nat |-> IF k < Len(s) THEN s[k + 1] ELSE NULL]
             Rule(g) == [k \in Nat |-> IF k = 0 THEN kDeviceList
                                       ELSE IF g[k - 1] = NULL THEN NULL ELSE private_data[g[k - 1]]]
  <1>1. Len(s) \in Nat /\ \A k \in 1..Len(s) : s[k] \in Device /\ s[k] # NULL
    <2>1. s \in Seq(Device) /\ NULL \notin Device
      BY RegistryAssumption, Zenon DEF Chained
    <2> QED
      BY <2>1
  <1>2. \A k \in Nat : f[k] = IF k = 0 THEN kDeviceList ELSE IF f[k - 1] = NULL THEN NULL ELSE private_data[f[k - 1]]
    <2> TAKE k \in Nat
    <2>1. CASE k = 0
      BY <1>1, <2>1 DEF Chained
    <2>2. CASE k # 0 /\ k <= Len(s)
      <3>1. k - 1 \in Nat /\ k - 1 < Len(s) /\ k \in 1..Len(s) /\ (k - 1) + 1 = k
        BY <1>1, <2>2
      <3>2. f[k - 1] = s[k] /\ s[k] # NULL
        BY <1>1, <3>1
      <3>3. private_data[s[k]] = IF k = Len(s) THEN NULL ELSE s[k + 1]
        BY <3>1, Zenon DEF Chained
      <3>4. f[k] = IF k = Len(s) THEN NULL ELSE s[k + 1]
        BY <1>1, <2>2
      <3> QED
        BY <2>2, <3>2, <3>3, <3>4, Zenon
    <2>3. CASE k > Len(s)
      <3>1. k - 1 \in Nat /\ ~ (k - 1 < Len(s)) /\ ~ (k < Len(s)) /\ k # 0
        BY <1>1, <2>3
      <3> QED
        BY <3>1, Zenon
    <2> QED
      BY <1>1, <2>1, <2>2, <2>3
  <1>3. f = Rule(f)
    <2> HIDE DEF f
    <2>1. f = [k \in Nat |-> f[k]]
      BY Zenon DEF f
    <2> QED
      BY <1>2, <2>1, Zenon
  <1>4. Node = Rule(Node)
    <2> HIDE DEF f
    <2> QED
      BY <1>3, Zenon DEF Node
  <1> DEFINE D == {k \in Nat : Node[k] # f[k]}
  <1>5. \A k \in Nat : Node[k] = IF k = 0 THEN kDeviceList ELSE IF Node[k - 1] = NULL THEN NULL ELSE private_data[Node[k - 1]]
    <2> DEFINE g == Node
    <2>1. g = Rule(g)
      BY <1>4, Zenon
    <2> HIDE DEF g
    <2>2. \A k \in Nat : g[k] = Rule(g)[k]
      BY <2>1, Zenon
    <2>3. \A k \in Nat : Rule(g)[k] = IF k = 0 THEN kDeviceList ELSE IF g[k - 1] = NULL THEN NULL ELSE private_data[g[k - 1]]
      BY Zenon
    <2>4. \A k \in Nat : g[k] = IF k = 0 THEN kDeviceList ELSE IF g[k - 1] = NULL THEN NULL ELSE private_data[g[k - 1]]
      BY <2>2, <2>3, Zenon
    <2> QED
      BY <2>4, Zenon DEF g
  <1> HIDE DEF f
  <1>6. ASSUME D # {} PROVE FALSE
    <2>1. D \in SUBSET Nat
      OBVIOUS
    <2>2. PICK k \in D : \A j \in D : k <= j
      <3> HIDE DEF D
      <3> QED
        BY <1>6, <2>1, LeastNumber
    <2>3. k \in Nat /\ Node[k] # f[k]
      OBVIOUS
    <2>4. k # 0
      BY <1>2, <1>5, <2>3, Zenon
    <2>5. k - 1 \in Nat /\ ~ (k <= k - 1)
      BY <2>3, <2>4
    <2>6. Node[k - 1] = f[k - 1]
      BY <2>2, <2>5, Zenon
    <2> QED
      BY <1>2, <1>5, <2>3, <2>6, Zenon
  <1>7. \A k \in Nat : Node[k] = f[k]
    BY <1>6, Zenon
  <1> QED
    BY <1>7, Zenon DEF f

LEMMA ChainIs ==
  ASSUME NEW s, Chained(s)
  PROVE  Chain = s
  <1>1. s \in Seq(Device) /\ Len(s) \in Nat /\ DOMAIN s = 1..Len(s) /\ s = [k \in 1..Len(s) |-> s[k]]
    BY DEF Chained
  <1>2. \A k \in 1..Len(s) : s[k] \in Device /\ s[k] # NULL
    BY <1>1, RegistryAssumption
  <1>3. Cardinality(Device) \in Nat /\ Len(s) <= Cardinality(Device)
    <2>1. IsFiniteSet(Device) /\ Cardinality(Device) \in Nat
      BY RegistryAssumption, FS_CardinalityType, Zenon
    <2>2. s \in [1..Len(s) -> Device]
      BY <1>1, <1>2
    <2>3. s \in Injection(1..Len(s), Device)
      BY <2>2, Zenon DEF Injection, IsInjective, Chained
    <2>4. Cardinality(1..Len(s)) <= Cardinality(Device)
      BY <2>1, <2>3, FS_Injection, Zenon
    <2>5. Cardinality(1..Len(s)) = Len(s)
      BY <1>1, FS_Interval
    <2> QED
      BY <2>1, <2>4, <2>5, Zenon
  <1> DEFINE K == {k \in 0..(Cardinality(Device) - 1) : Node[k] # NULL}
  <1>4. \A k \in Nat : Node[k] = IF k < Len(s) THEN s[k + 1] ELSE NULL
    BY Walk, Zenon
  <1>5. K = 0..(Len(s) - 1)
    <2>1. ASSUME NEW k \in 0..(Cardinality(Device) - 1) PROVE Node[k] # NULL <=> k \in 0..(Len(s) - 1)
      <3>1. k \in Nat
        BY <1>3
      <3>2. CASE k < Len(s)
        <4>1. k + 1 \in 1..Len(s) /\ k \in 0..(Len(s) - 1)
          BY <1>1, <3>1, <3>2
        <4> QED
          BY <1>2, <1>4, <3>1, <3>2, <4>1, Zenon
      <3>3. CASE ~ (k < Len(s))
        <4>1. k \notin 0..(Len(s) - 1)
          BY <1>1, <3>1, <3>3
        <4> QED
          BY <1>4, <3>1, <3>3, <4>1, Zenon
      <3> QED
        BY <3>2, <3>3
    <2>2. 0..(Len(s) - 1) \subseteq 0..(Cardinality(Device) - 1)
      BY <1>1, <1>3
    <2> QED
      BY <2>1, <2>2, Zenon
  <1>6. Cardinality(K) = Len(s)
    <2> HIDE DEF K
    <2>1. Len(s) - 1 \in Int /\ 0 \in Int
      BY <1>1
    <2>2. Cardinality(0..(Len(s) - 1)) = IF 0 > Len(s) - 1 THEN 0 ELSE Len(s) - 1 - 0 + 1
      BY <2>1, FS_Interval
    <2>3. (IF 0 > Len(s) - 1 THEN 0 ELSE Len(s) - 1 - 0 + 1) = Len(s)
      BY <1>1
    <2> QED
      BY <1>5, <2>2, <2>3, Zenon
  <1>7. Chain = [k \in 1..Cardinality(K) |-> Node[k - 1]]
    BY Zenon DEF Chain
  <1> HIDE DEF K
  <1>8. \A k \in 1..Len(s) : Node[k - 1] = s[k]
    <2> TAKE k \in 1..Len(s)
    <2>1. k - 1 \in Nat /\ k - 1 < Len(s) /\ (k - 1) + 1 = k
      BY <1>1
    <2> QED
      BY <1>4, <2>1, Zenon
  <1>9. Chain = [k \in 1..Len(s) |-> Node[k - 1]]
    BY <1>6, <1>7, Zenon
  <1> QED
    BY <1>1, <1>8, <1>9, Zenon

LEMMA Found ==
  ASSUME NEW s, Chained(s), NEW n
  PROVE  /\ device_find(n) = NULL <=> \A d \in registered : name[d] # n
         /\ device_find(n) # NULL => device_find(n) \in registered /\ name[device_find(n)] = n
  <1>1. s \in Seq(Device) /\ Len(s) \in Nat /\ DOMAIN s = 1..Len(s)
        /\ registered = {s[k] : k \in 1..Len(s)}
    BY DEF Chained
  <1>2. \A k \in 1..Len(s) : s[k] # NULL
    BY <1>1, RegistryAssumption
  <1> DEFINE F == {k \in DOMAIN Chain : name[Chain[k]] = n}
  <1>3. device_find(n) = IF F = {} THEN NULL ELSE Chain[CHOOSE k \in F : \A j \in F : k <= j]
    BY Zenon DEF device_find
  <1>7. Chain = s
    BY ChainIs, Zenon
  <1>4. F \in SUBSET Nat
    BY <1>1, <1>7
  <1>5. CASE F = {}
    <2>1. \A k \in 1..Len(s) : name[s[k]] # n
      BY <1>1, <1>5, <1>7, Zenon
    <2> QED
      BY <1>1, <1>3, <1>5, <2>1, Zenon
  <1>6. CASE F # {}
    <2> DEFINE m == CHOOSE k \in F : \A j \in F : k <= j
    <2>1. m \in F
      <3> HIDE DEF F
      <3>1. \E k \in F : \A j \in F : k <= j
        BY <1>4, <1>6, LeastNumber, Zenon
      <3> QED
        BY <3>1, Zenon
    <2>2. device_find(n) = s[m]
      BY <1>3, <1>6, <1>7, Zenon
    <2> HIDE DEF m
    <2>3. m \in 1..Len(s) /\ name[s[m]] = n
      BY <1>1, <1>7, <2>1, Zenon
    <2> QED
      BY <1>1, <1>2, <2>2, <2>3, Zenon
  <1> QED
    BY <1>5, <1>6, Zenon

LEMMA RegistryIsExact ==
  ASSUME RegInv
  PROVE  RegistryExact
  <1>1. PICK s : Chained(s) /\ kDeviceCount = Len(s) /\ Len(s) <= MAX_DEVICES
    BY Zenon DEF RegInv
  <1>2. Chain = s
    BY <1>1, ChainIs, Zenon
  <1>3. Len(s) \in Nat /\ DOMAIN s = 1..Len(s) /\ registered = {s[k] : k \in 1..Len(s)} /\ s \in [1..Len(s) -> registered]
    <2>1. s \in Seq(Device) /\ registered = {s[k] : k \in 1..Len(s)}
      BY <1>1, Zenon DEF Chained
    <2> QED
      BY <2>1
  <1>4. Listed = registered
    BY <1>2, <1>3, Zenon DEF Listed
  <1>5. Cardinality(registered) = Len(s)
    <2>4. s \in Injection(1..Len(s), registered)
      BY <1>1, <1>3, Zenon DEF Injection, IsInjective, Chained
    <2>5. s \in Surjection(1..Len(s), registered)
      BY <1>3, Zenon DEF Surjection
    <2>1. s \in Bijection(1..Len(s), registered)
      BY <2>4, <2>5, Zenon DEF Bijection
    <2>2. ExistsBijection(1..Len(s), registered)
      BY <2>1, Zenon DEF ExistsBijection
    <2>3. IsFiniteSet(1..Len(s)) /\ Cardinality(1..Len(s)) = Len(s)
      <3>1. 1 \in Int /\ Len(s) \in Int
        BY <1>3
      <3>2. Cardinality(1..Len(s)) = IF 1 > Len(s) THEN 0 ELSE Len(s) - 1 + 1
        BY <3>1, FS_Interval, Zenon
      <3>3. (IF 1 > Len(s) THEN 0 ELSE Len(s) - 1 + 1) = Len(s)
        BY <1>3
      <3> QED
        BY <3>1, <3>2, <3>3, FS_Interval, Zenon
    <2> QED
      BY <2>2, <2>3, FS_Bijection, Zenon
  <1>6. ASSUME NEW d \in registered PROVE device_find(name[d]) = d
    <2>1. device_find(name[d]) # NULL
      BY <1>1, <1>6, Found, Zenon
    <2>2. device_find(name[d]) \in registered /\ name[device_find(name[d])] = name[d]
      BY <1>1, <2>1, Found, Zenon
    <2> QED
      BY <2>2, Zenon DEF RegInv
  <1> QED
    BY <1>1, <1>2, <1>4, <1>5, <1>6, Zenon DEF RegistryExact

LEMMA RegistryStarts == Init => RegInv
  <1> SUFFICES ASSUME Init PROVE RegInv
    OBVIOUS
  <1>1. /\ kDeviceList = NULL /\ kDeviceCount = 0 /\ registered = {}
        /\ name = [d \in Device |-> CHOOSE n \in Names : TRUE] /\ private_data = [d \in Device |-> NULL]
    BY Zenon DEF Init, RegistryInit
  <1>2. private_data \in [Device -> Device \cup {NULL}] /\ name \in [Device -> Names]
    BY <1>1, RegistryAssumption, Zenon
  <1>3. << >> \in Seq(Device) /\ Len(<< >>) = 0 /\ 1..Len(<< >>) = {} /\ MAX_DEVICES \in Nat
    BY RegistryAssumption
  <1>4. Chained(<< >>)
    BY <1>1, <1>3, Zenon DEF Chained
  <1>5. 0 <= MAX_DEVICES
    BY <1>3
  <1>6. kDeviceCount = Len(<< >>) /\ Len(<< >>) <= MAX_DEVICES
    BY <1>1, <1>3, <1>5, Zenon
  <1> QED
    BY <1>1, <1>2, <1>4, <1>6, Zenon DEF RegInv

LEMMA RegisterStep ==
  ASSUME RegInv, phase = "idle", phase' = phase, NEW d \in Device, device_register(d)
  PROVE  RegInv'
  <1>1. /\ kDeviceCount < MAX_DEVICES /\ device_find(name[d]) = NULL /\ kDeviceList' = d
        /\ private_data' = [private_data EXCEPT ![d] = kDeviceList]
        /\ kDeviceCount' = kDeviceCount + 1 /\ registered' = registered \cup {d} /\ name' = name
    BY Zenon DEF device_register, HasRoom
  <1>2. PICK s : Chained(s) /\ kDeviceCount = Len(s) /\ Len(s) <= MAX_DEVICES
    BY Zenon DEF RegInv
  <1>3. private_data \in [Device -> Device \cup {NULL}] /\ name \in [Device -> Names]
        /\ \A c, e \in registered : name[c] = name[e] => c = e
    BY Zenon DEF RegInv
  <1>4. \A c \in registered : name[c] # name[d]
    BY <1>1, <1>2, Found, Zenon
  <1>5. /\ s \in Seq(Device) /\ Len(s) \in Nat
        /\ \A j, k \in 1..Len(s) : s[j] = s[k] => j = k
        /\ kDeviceList = IF Len(s) = 0 THEN NULL ELSE s[1]
        /\ \A k \in 1..Len(s) : private_data[s[k]] = IF k = Len(s) THEN NULL ELSE s[k + 1]
        /\ registered = {s[k] : k \in 1..Len(s)}
    BY <1>2 DEF Chained
  <1>6. \A k \in 1..Len(s) : s[k] \in Device /\ s[k] \in registered /\ s[k] # d
    <2>1. \A k \in 1..Len(s) : s[k] \in Device
      BY <1>5
    <2>2. \A k \in 1..Len(s) : s[k] \in registered
      BY <1>5, Zenon
    <2> QED
      BY <1>4, <2>1, <2>2, Zenon
  <1> DEFINE n == Len(s) + 1
             t == [k \in 1..n |-> IF k = 1 THEN d ELSE s[k - 1]]
  <1>7. n \in Nat /\ t \in Seq(Device) /\ Len(t) = n /\ t[1] = d
        /\ \A k \in 2..n : t[k] = s[k - 1] /\ k - 1 \in 1..Len(s)
    BY <1>5, <1>6
  <1>8. 1..n = {1} \cup 2..n /\ 1 \notin 2..n
    BY <1>5
  <1> HIDE DEF t, n
  <1>9. kDeviceList \in Device \cup {NULL}
    BY <1>5, <1>6
  <1>10. /\ private_data' \in [Device -> Device \cup {NULL}] /\ private_data'[d] = kDeviceList
         /\ \A k \in 1..Len(s) : private_data'[s[k]] = private_data[s[k]]
    BY <1>1, <1>3, <1>6, <1>9
  <1>11. Chained(t)'
    <2>1. ASSUME NEW j \in 1..n, NEW k \in 1..n, t[j] = t[k] PROVE j = k
      <3>1. CASE j = 1 /\ k = 1
        BY <3>1
      <3>2. CASE j = 1 /\ k \in 2..n
        BY <1>6, <1>7, <2>1, <3>2, Zenon
      <3>3. CASE j \in 2..n /\ k = 1
        BY <1>6, <1>7, <2>1, <3>3, Zenon
      <3>4. CASE j \in 2..n /\ k \in 2..n
        <4>1. s[j - 1] = s[k - 1] /\ j - 1 \in 1..Len(s) /\ k - 1 \in 1..Len(s)
          BY <1>7, <2>1, <3>4
        <4>2. j - 1 = k - 1
          BY <1>5, <4>1, Zenon
        <4> QED
          BY <1>7, <4>2
      <3> QED
        BY <1>8, <3>1, <3>2, <3>3, <3>4, Zenon
    <2>2. kDeviceList' = IF Len(t) = 0 THEN NULL ELSE t[1]
      BY <1>1, <1>5, <1>7 DEF n
    <2>3. ASSUME NEW k \in 1..n PROVE private_data'[t[k]] = IF k = Len(t) THEN NULL ELSE t[k + 1]
      <3>1. CASE k = 1
        <4>1. CASE Len(s) = 0
          BY <1>5, <1>7, <1>10, <3>1, <4>1 DEF n
        <4>2. CASE Len(s) # 0
          <5>1. k # Len(t) /\ k + 1 \in 2..n /\ (k + 1) - 1 = 1 /\ t[k + 1] = s[1]
            BY <1>5, <1>7, <3>1, <4>2 DEF n
          <5> QED
            BY <1>5, <1>7, <1>10, <3>1, <4>2, <5>1, Zenon
        <4> QED
          BY <4>1, <4>2
      <3>2. CASE k \in 2..n
        <4>1. t[k] = s[k - 1] /\ k - 1 \in 1..Len(s)
          BY <1>7, <3>2, Zenon
        <4>2. private_data'[t[k]] = IF k - 1 = Len(s) THEN NULL ELSE s[(k - 1) + 1]
          BY <1>5, <1>10, <4>1, Zenon
        <4>3. CASE k = n
          <5>1. k - 1 = Len(s)
            BY <1>5, <4>3 DEF n
          <5> QED
            BY <1>7, <4>2, <4>3, <5>1, Zenon
        <4>4. CASE k # n
          <5>1. k - 1 # Len(s) /\ (k - 1) + 1 = k /\ k + 1 \in 2..n /\ (k + 1) - 1 = k
            BY <1>5, <3>2, <4>4 DEF n
          <5>2. t[k + 1] = s[k]
            BY <1>7, <5>1
          <5> QED
            BY <1>7, <4>2, <4>4, <5>1, <5>2, Zenon
        <4> QED
          BY <4>3, <4>4
      <3> QED
        BY <1>8, <3>1, <3>2, Zenon
    <2>4. registered' = {t[k] : k \in 1..n}
      <3>1. \A k \in 1..Len(s) : k + 1 \in 2..n /\ (k + 1) - 1 = k
        BY <1>5 DEF n
      <3>2. \A k \in 1..Len(s) : k + 1 \in 1..n /\ t[k + 1] = s[k]
        BY <1>7, <1>8, <3>1, Zenon
      <3>3. \A k \in 2..n : t[k] \in registered
        BY <1>6, <1>7, Zenon
      <3>4. 1 \in 1..n
        BY <1>8, Zenon
      <3>5. ASSUME NEW e \in registered' PROVE \E k \in 1..n : e = t[k]
        <4>1. CASE e = d
          BY <1>7, <3>4, <4>1, Zenon
        <4>2. CASE e \in registered
          <5>1. PICK k \in 1..Len(s) : e = s[k]
            BY <1>5, <4>2, Zenon
          <5> QED
            BY <3>2, <5>1
        <4> QED
          BY <1>1, <3>5, <4>1, <4>2, Zenon
      <3>6. ASSUME NEW k \in 1..n PROVE t[k] \in registered'
        BY <1>1, <1>7, <1>8, <3>3, Zenon
      <3> QED
        BY <3>5, <3>6, Zenon
    <2> QED
      BY <1>7, <2>1, <2>2, <2>3, <2>4, Zenon DEF Chained
  <1>12. kDeviceCount' = Len(t) /\ Len(t) <= MAX_DEVICES
    BY <1>1, <1>2, <1>5, <1>7, RegistryAssumption DEF n
  <1>13. \A c, e \in registered' : name'[c] = name'[e] => c = e
    BY <1>1, <1>3, <1>4, Zenon
  <1> QED
    BY <1>1, <1>3, <1>10, <1>11, <1>12, <1>13, Zenon DEF RegInv

LEMMA UnregisterStep ==
  ASSUME RegInv, phase = "idle", phase' = phase, NEW d \in Device, device_unregister(d)
  PROVE  RegInv'
  <1>1. /\ d \in Listed /\ Unlinked(d) /\ kDeviceCount' = kDeviceCount - 1
        /\ registered' = registered \ {d} /\ name' = name
    BY Zenon DEF device_unregister
  <1>2. PICK s : Chained(s) /\ kDeviceCount = Len(s) /\ Len(s) <= MAX_DEVICES
    BY Zenon DEF RegInv
  <1>3. private_data \in [Device -> Device \cup {NULL}] /\ name \in [Device -> Names]
        /\ \A c, e \in registered : name[c] = name[e] => c = e
    BY Zenon DEF RegInv
  <1>5. /\ s \in Seq(Device) /\ Len(s) \in Nat
        /\ \A j, k \in 1..Len(s) : s[j] = s[k] => j = k
        /\ kDeviceList = IF Len(s) = 0 THEN NULL ELSE s[1]
        /\ \A k \in 1..Len(s) : private_data[s[k]] = IF k = Len(s) THEN NULL ELSE s[k + 1]
        /\ registered = {s[k] : k \in 1..Len(s)}
    BY <1>2 DEF Chained
  <1>6. \A k \in 1..Len(s) : s[k] \in Device
    BY <1>5
  <1>7. Chain = s
    BY <1>2, ChainIs
  <1>8. DOMAIN Chain = 1..Len(s)
    BY <1>5, <1>7
  <1>9. PICK c \in 1..Len(s) : s[c] = d /\ c = CHOOSE j \in DOMAIN Chain : Chain[j] = d
    <2>1. \E j \in DOMAIN Chain : Chain[j] = d
      BY <1>1, Zenon DEF Listed
    <2> DEFINE h == CHOOSE j \in DOMAIN Chain : Chain[j] = d
    <2>2. h \in DOMAIN Chain /\ Chain[h] = d
      BY <2>1, Zenon
    <2>3. h \in 1..Len(s) /\ s[h] = d
      <3> HIDE DEF h
      <3> QED
        BY <1>7, <1>8, <2>2
    <2> QED
      BY <2>3, Zenon
  <1>10. IF c = 1 THEN kDeviceList' = private_data[d] /\ private_data' = private_data
         ELSE private_data' = [private_data EXCEPT ![s[c - 1]] = private_data[d]] /\ kDeviceList' = kDeviceList
    <2>1. IF c = 1 THEN kDeviceList' = private_data[d] /\ private_data' = private_data
          ELSE private_data' = [private_data EXCEPT ![Chain[c - 1]] = private_data[d]] /\ kDeviceList' = kDeviceList
      BY <1>1, <1>9, Zenon DEF Unlinked
    <2>2. Chain[c - 1] = s[c - 1]
      BY <1>7
    <2> QED
      BY <2>1, <2>2, Zenon
  <1> DEFINE n == Len(s) - 1
             t == [k \in 1..n |-> IF k < c THEN s[k] ELSE s[k + 1]]
  <1>11. n \in Nat /\ t \in Seq(Device) /\ Len(t) = n /\ c \in Nat /\ c >= 1 /\ c <= n + 1 /\ n + 1 = Len(s)
         /\ \A k \in 1..n : k \in 1..Len(s) /\ k + 1 \in 1..Len(s) /\ t[k] = IF k < c THEN s[k] ELSE s[k + 1]
    BY <1>5, <1>6, <1>9
  <1> HIDE DEF t, n
  <1>12. private_data[d] = IF c = n + 1 THEN NULL ELSE s[c + 1]
    BY <1>5, <1>9, <1>11, Zenon
  <1>13. private_data[d] \in Device \cup {NULL}
    BY <1>3, Zenon
  <1>14. private_data' \in [Device -> Device \cup {NULL}]
         /\ (c # 1 => private_data'[s[c - 1]] = private_data[d])
         /\ \A k \in 1..Len(s) : k # c - 1 => private_data'[s[k]] = private_data[s[k]]
    <2>1. CASE c = 1
      BY <1>3, <1>10, <2>1, Zenon
    <2>2. CASE c # 1
      <3>1. c - 1 \in 1..Len(s) /\ s[c - 1] \in Device
        BY <1>6, <1>9, <1>11, <2>2
      <3>2. private_data' = [private_data EXCEPT ![s[c - 1]] = private_data[d]]
        BY <1>10, <2>2, Zenon
      <3>3. \A k \in 1..Len(s) : k # c - 1 => s[k] # s[c - 1]
        BY <1>5, <3>1, Zenon
      <3> QED
        BY <1>3, <1>6, <1>13, <3>1, <3>2, <3>3, Zenon
    <2> QED
      BY <2>1, <2>2, Zenon
  <1>15. Chained(t)'
    <2>1. ASSUME NEW j \in 1..n, NEW k \in 1..n, t[j] = t[k] PROVE j = k
      <3> DEFINE p(h) == IF h < c THEN h ELSE h + 1
      <3>1. \A h \in 1..n : p(h) \in 1..Len(s) /\ t[h] = s[p(h)]
        BY <1>11
      <3> HIDE DEF p
      <3>2. s[p(j)] = s[p(k)] /\ p(j) \in 1..Len(s) /\ p(k) \in 1..Len(s)
        BY <2>1, <3>1
      <3>3. p(j) = p(k)
        BY <1>5, <3>2, Zenon
      <3> QED
        BY <1>11, <3>3 DEF p
    <2>2. kDeviceList' = IF Len(t) = 0 THEN NULL ELSE t[1]
      <3>1. CASE c = 1
        <4>1. kDeviceList' = IF c = n + 1 THEN NULL ELSE s[c + 1]
          BY <1>10, <1>12, <3>1, Zenon
        <4>2. CASE n = 0
          BY <1>11, <3>1, <4>1, <4>2
        <4>3. CASE n # 0
          <5>1. 1 \in 1..n /\ ~(1 < c) /\ c # n + 1
            BY <1>11, <3>1, <4>3
          <5>2. t[1] = s[1 + 1]
            BY <1>11, <5>1, Zenon
          <5>3. Len(t) # 0
            BY <1>11, <4>3, Zenon
          <5> QED
            BY <3>1, <4>1, <5>1, <5>2, <5>3, Zenon
        <4> QED
          BY <4>2, <4>3
      <3>2. CASE c # 1
        <4>1. 1 \in 1..n /\ 1 < c /\ n # 0 /\ Len(s) # 0
          BY <1>11, <3>2
        <4> QED
          BY <1>5, <1>10, <1>11, <3>2, <4>1, Zenon
      <3> QED
        BY <3>1, <3>2
    <2>3. ASSUME NEW k \in 1..n PROVE private_data'[t[k]] = IF k = Len(t) THEN NULL ELSE t[k + 1]
      <3>1. CASE k >= c
        <4>1. ~(k < c) /\ k + 1 # c - 1 /\ k + 1 \in 1..Len(s) /\ k + 1 # c
          BY <1>11, <3>1
        <4>2. t[k] = s[k + 1]
          BY <1>11, <4>1, Zenon
        <4>3. private_data'[s[k + 1]] = private_data[s[k + 1]]
              /\ private_data[s[k + 1]] = IF k + 1 = Len(s) THEN NULL ELSE s[(k + 1) + 1]
          BY <1>5, <1>14, <4>1, Zenon
        <4>6. private_data'[t[k]] = IF k + 1 = n + 1 THEN NULL ELSE s[(k + 1) + 1]
          BY <1>11, <4>2, <4>3, Zenon
        <4>4. CASE k = n
          BY <1>11, <4>4, <4>6
        <4>5. CASE k # n
          <5>1. k + 1 \in 1..n /\ ~(k + 1 < c) /\ k + 1 # n + 1
            BY <1>11, <3>1, <4>5
          <5>2. t[k + 1] = s[(k + 1) + 1]
            BY <1>11, <5>1, Zenon
          <5> QED
            BY <1>11, <4>5, <4>6, <5>1, <5>2, Zenon
        <4> QED
          BY <4>4, <4>5
      <3>2. CASE k = c - 1
        <4>1. k < c /\ c # 1 /\ k + 1 = c
          BY <1>11, <3>2
        <4>2. t[k] = s[c - 1]
          BY <1>11, <3>2, <4>1, Zenon
        <4>3. private_data'[t[k]] = IF c = n + 1 THEN NULL ELSE s[c + 1]
          BY <1>12, <1>14, <4>1, <4>2, Zenon
        <4>4. CASE k = n
          BY <1>11, <4>1, <4>3, <4>4
        <4>5. CASE k # n
          <5>1. c \in 1..n /\ ~(c < c) /\ c # n + 1
            BY <1>11, <4>1, <4>5
          <5>2. t[c] = s[c + 1]
            BY <1>11, <5>1, Zenon
          <5> QED
            BY <1>11, <4>1, <4>3, <4>5, <5>1, <5>2, Zenon
        <4> QED
          BY <4>4, <4>5
      <3>3. CASE k < c - 1
        <4>1. k < c /\ k + 1 < c /\ k # c - 1 /\ k # n /\ k # Len(s) /\ k + 1 \in 1..n /\ k \in 1..Len(s)
          BY <1>11, <3>3
        <4>2. t[k] = s[k] /\ t[k + 1] = s[k + 1]
          BY <1>11, <4>1, Zenon
        <4> QED
          BY <1>5, <1>11, <1>14, <4>1, <4>2, Zenon
      <3> QED
        BY <1>11, <3>1, <3>2, <3>3
    <2>4. registered' = {t[k] : k \in 1..n}
      <3>1. ASSUME NEW e \in registered' PROVE \E k \in 1..n : e = t[k]
        <4>1. e \in registered /\ e # d
          BY <1>1, <3>1, Zenon
        <4>2. PICK k \in 1..Len(s) : e = s[k]
          BY <1>5, <4>1, Zenon
        <4>3. k # c
          BY <1>9, <4>1, <4>2, Zenon
        <4>4. CASE k < c
          <5>1. k \in 1..n
            BY <1>11, <4>4
          <5> QED
            BY <1>11, <4>2, <4>4, <5>1, Zenon
        <4>5. CASE k > c
          <5>1. k - 1 \in 1..n /\ ~(k - 1 < c) /\ (k - 1) + 1 = k
            BY <1>11, <4>5
          <5>2. t[k - 1] = s[k]
            BY <1>11, <5>1
          <5> QED
            BY <4>2, <5>1, <5>2, Zenon
        <4> QED
          BY <1>11, <4>3, <4>4, <4>5
      <3>2. ASSUME NEW k \in 1..n PROVE t[k] \in registered'
        <4> DEFINE h == IF k < c THEN k ELSE k + 1
        <4>1. h \in 1..Len(s) /\ h # c /\ t[k] = s[h]
          BY <1>11
        <4> HIDE DEF h
        <4>2. s[h] \in registered /\ s[h] # d
          BY <1>5, <1>9, <4>1, Zenon
        <4> QED
          BY <1>1, <4>1, <4>2, Zenon
      <3> QED
        BY <3>1, <3>2, Zenon
    <2> QED
      BY <1>11, <2>1, <2>2, <2>3, <2>4, Zenon DEF Chained
  <1>16. kDeviceCount' = Len(t) /\ Len(t) <= MAX_DEVICES
    BY <1>1, <1>2, <1>5, <1>11, RegistryAssumption DEF n
  <1>17. \A b, e \in registered' : name'[b] = name'[e] => b = e
    BY <1>1, <1>3, Zenon
  <1> QED
    BY <1>1, <1>3, <1>14, <1>15, <1>16, <1>17, Zenon DEF RegInv

LEMMA PrepareStep ==
  ASSUME RegInv, phase = "idle", phase' = phase, NEW d \in Device, Prepare(d)
  PROVE  RegInv'
  <1>1. PICK n \in Names : name' = [name EXCEPT ![d] = n]
    BY Zenon DEF Prepare
  <1>2. d \notin registered /\ UNCHANGED <<kDeviceList, kDeviceCount, private_data, registered>>
    BY Zenon DEF Prepare
  <1>3. PICK s : Chained(s) /\ kDeviceCount = Len(s) /\ Len(s) <= MAX_DEVICES
    BY Zenon DEF RegInv
  <1>4. Chained(s)'
    BY <1>2, <1>3, Zenon DEF Chained
  <1>5. name \in [Device -> Names] /\ registered \subseteq Device
    <2>1. name \in [Device -> Names]
      BY Zenon DEF RegInv
    <2>2. registered = {s[k] : k \in 1..Len(s)} /\ \A k \in 1..Len(s) : s[k] \in Device
      BY <1>3 DEF Chained
    <2> QED
      BY <2>1, <2>2, Zenon
  <1>6. name' \in [Device -> Names] /\ \A e \in registered : name'[e] = name[e]
    BY <1>1, <1>2, <1>5, Zenon
  <1>7. \A c, e \in registered' : name'[c] = name'[e] => c = e
    BY <1>2, <1>6, Zenon DEF RegInv
  <1>8. private_data' \in [Device -> Device \cup {NULL}]
    BY <1>2, Zenon DEF RegInv
  <1>9. kDeviceCount' = Len(s) /\ Len(s) <= MAX_DEVICES
    BY <1>2, <1>3, Zenon
  <1> QED
    BY <1>4, <1>6, <1>7, <1>8, <1>9, Zenon DEF RegInv

(* device_manager_init, before any driver has registered a record.         *)
LEMMA ManagerStep ==
  ASSUME RegInv, phase # "idle", device_manager_init
  PROVE  RegInv'
  <1>1. /\ kDeviceList' = NULL /\ kDeviceCount' = 0
        /\ name' = name /\ private_data' = private_data /\ registered' = registered /\ registered = {}
    BY Zenon DEF device_manager_init, RegInv
  <1>2. private_data' \in [Device -> Device \cup {NULL}] /\ name' \in [Device -> Names]
    BY <1>1, Zenon DEF RegInv
  <1>3. << >> \in Seq(Device) /\ Len(<< >>) = 0 /\ 1..Len(<< >>) = {} /\ MAX_DEVICES \in Nat
    BY RegistryAssumption
  <1>4. Chained(<< >>)'
    BY <1>1, <1>3, Zenon DEF Chained
  <1>5. 0 <= MAX_DEVICES
    BY <1>3
  <1>6. kDeviceCount' = Len(<< >>) /\ Len(<< >>) <= MAX_DEVICES
    BY <1>1, <1>3, <1>5, Zenon
  <1> QED
    BY <1>1, <1>2, <1>4, <1>6, Zenon DEF RegInv

LEMMA RegistrySame ==
  ASSUME RegInv, UNCHANGED registryVars, phase' # "idle" => phase # "idle"
  PROVE  RegInv'
  <1>1. UNCHANGED <<kDeviceList, kDeviceCount, name, private_data, registered>>
    BY Zenon DEF registryVars
  <1>2. PICK s : Chained(s) /\ kDeviceCount = Len(s) /\ Len(s) <= MAX_DEVICES
    BY Zenon DEF RegInv
  <1>3. Chained(s)'
    BY <1>1, <1>2, Zenon DEF Chained
  <1>4. kDeviceCount' = Len(s)
    BY <1>1, <1>2, Zenon
  <1>5. private_data' \in [Device -> Device \cup {NULL}] /\ name' \in [Device -> Names]
        /\ (\A d, e \in registered' : name'[d] = name'[e] => d = e) /\ (phase' # "idle" => registered' = {})
    BY <1>1, Zenon DEF RegInv
  <1> QED
    BY <1>2, <1>3, <1>4, <1>5, Zenon DEF RegInv

LEMMA RegistryStep == RegInv /\ [Next]_vars => RegInv'
  <1> SUFFICES ASSUME RegInv, [Next]_vars PROVE RegInv'
    OBVIOUS
  <1>1. CASE UNCHANGED vars
    BY <1>1, RegistrySame, Zenon DEF vars
  <1>2. CASE UseDevices
    <2>1. phase = "idle" /\ phase' = phase /\ RegistryNext
      BY <1>2, Zenon DEF UseDevices, Using
    <2> QED
      BY <2>1, RegisterStep, UnregisterStep, PrepareStep, Zenon DEF RegistryNext
  <1>3. CASE kernel_main_Devices
    <2>1. phase = "devices" /\ device_manager_init
      BY <1>3, Zenon DEF kernel_main_Devices, Goto
    <2>2. phase # "idle"
      BY <2>1
    <2> QED
      BY <2>1, <2>2, ManagerStep, Zenon
  <1>4. CASE kernel_main_Net
    <2>1. UNCHANGED registryVars /\ phase = "net"
      BY <1>4, Zenon DEF kernel_main_Net, Goto
    <2>2. phase # "idle"
      BY <2>1
    <2> QED
      BY <2>1, <2>2, RegistrySame, Zenon
  <1>5. CASE \/ kernel_main_Requests \/ kernel_main_SmpSkipped \/ kernel_main_Smp \/ kernel_main_Vfs
             \/ kernel_main_Pci \/ kernel_main_PciOverflow \/ kernel_main_HpetFault \/ kernel_main_Hpet
    <2>1. UNCHANGED registryVars
      BY <1>5, Zenon DEF kernel_main_Requests, kernel_main_SmpSkipped, kernel_main_Smp, kernel_main_Vfs,
         kernel_main_Pci, kernel_main_PciOverflow, kernel_main_HpetFault, kernel_main_Hpet, Goto
    <2>2. phase \in {"entry", "smp", "vfs", "devices", "pci", "hpet"}
      BY <1>5, BootPhases, Zenon
    <2>3. phase # "idle"
      BY <2>2
    <2> QED
      BY <2>1, <2>3, RegistrySame, Zenon
  <1>6. CASE (\E c \in Id : ApStep(c)) \/ Millisecond \/ UseClock \/ UseCard \/ UseScreen
    <2>1. UNCHANGED registryVars /\ phase' = phase
      BY <1>6, Zenon DEF ApStep, Millisecond, UseClock, UseCard, UseScreen, Using
    <2> QED
      BY <2>1, RegistrySame, Zenon
  <1>7. CASE kernel_main
    BY <1>3, <1>4, <1>5, <1>7, Zenon DEF kernel_main
  <1> QED
    BY <1>1, <1>2, <1>6, <1>7, Zenon DEF Next

(* However the kernel's drivers register and remove their records, the     *)
(* list of device.cpp holds exactly the registered ones, kDeviceCount is   *)
(* their number and device_find finds each by its name: for any number of  *)
(* records, names and places.                                              *)
THEOREM RegistryStaysExact == Spec => []RegistryExact
  <1>1. RegInv => RegistryExact
    BY RegistryIsExact, Zenon
  <1> QED
    BY <1>1, RegistryStarts, RegistryStep, PTL DEF Spec

-----------------------------------------------------------------------------
(* The PCI scan *)

(* The call c has gone past the function p of its bus.                     *)
Past(p, c) == p[2] < c.dev \/ (p[2] = c.dev /\ p[3] < c.func)

(* The calls of q that are still to come to p.                             *)
AheadOf(p, q) == {k \in 1..Len(q) : q[k].bus = p[1] /\ ~Past(p, q[k])}
Ahead(p) == AheadOf(p, calls)

ScanCalls == [bus : Buses, dev : 0..MaxDev, func : 0..(MaxFunc - 1)]
InProbed(c) == c.func > 0 => Present(<<c.bus, c.dev, 0>>) /\ MultiFunction(c.bus, c.dev)
Scannable == {p \in DOMAIN functions : Probed(p)}

(* Bus b is, or has been, scanned; and how often its scan was started.     *)
LedTo(b) == {q \in Bridges : functions[q].secondary = b}
BusEntered(b) == b = 0 \/ \E q \in LedTo(b) : reported[q] > 0
FromBoot(b) == IF b = 0 THEN 1 ELSE 0
TimesEntered(b, n) ==
  \/ \E q \in LedTo(b) : n = reported[q] + FromBoot(b)
  \/ LedTo(b) = {} /\ n = FromBoot(b)

CallsFit(q) ==
  /\ q \in Seq(ScanCalls)
  /\ \A k \in 1..Len(q) : q[k].bus \in ReachableBuses /\ InProbed(q[k])

ScanTypes ==
  /\ machine \in Machines /\ reported \in [DOMAIN functions -> Nat] /\ CallsFit(calls)
  /\ \A p \in DOMAIN functions : reported[p] > 0 => p \in Visible

ScanCounts ==
  /\ \A p \in Scannable : BusEntered(p[1]) => reported[p] > 0 \/ Ahead(p) # {}
  /\ OneBridgeEach => \A p \in Scannable : TimesEntered(p[1], reported[p] + Cardinality(Ahead(p)))

ScanInv ==
  /\ ScanTypes
  /\ phase \in {"entry", "smp", "vfs", "devices"} => calls = << >> /\ \A p \in DOMAIN functions : reported[p] = 0
  /\ phase \in {"hpet", "net", "idle"} => calls = << >>
  /\ phase \in {"pci", "hpet", "net", "idle"} => ScanCounts

LEMMA Positions ==
  ASSUME machine \in Machines, NEW p \in DOMAIN functions
  PROVE  p = <<p[1], p[2], p[3]>> /\ p[1] \in Nat /\ p[2] \in 0..(MaxDev - 1) /\ p[3] \in 0..(MaxFunc - 1)
  <1>1. p \in Nat \X (0..(MaxDev - 1)) \X (0..(MaxFunc - 1))
    BY PciAssumption, Zenon DEF functions
  <1> QED
    BY <1>1

(* A call that goes on goes past the one function it was at.               *)
LEMMA AdvancedFields ==
  ASSUME NEW c \in ScanCalls, c.dev < MaxDev, InProbed(c)
  PROVE  /\ Advanced(c) \in ScanCalls /\ InProbed(Advanced(c)) /\ Advanced(c).bus = c.bus
         /\ \/ /\ Present(<<c.bus, c.dev, 0>>) /\ MultiFunction(c.bus, c.dev) /\ c.func + 1 < MaxFunc
               /\ Advanced(c).dev = c.dev /\ Advanced(c).func = c.func + 1
            \/ /\ ~(Present(<<c.bus, c.dev, 0>>) /\ MultiFunction(c.bus, c.dev) /\ c.func + 1 < MaxFunc)
               /\ Advanced(c).dev = c.dev + 1 /\ Advanced(c).func = 0
  <1> DEFINE more == Present(<<c.bus, c.dev, 0>>) /\ MultiFunction(c.bus, c.dev) /\ c.func + 1 < MaxFunc
  <1>1. c.bus \in Buses /\ c.dev \in 0..MaxDev /\ c.func \in 0..(MaxFunc - 1) /\ MaxDev \in Nat /\ MaxFunc \in Nat \ {0}
    BY PciAssumption DEF ScanCalls
  <1>2. CASE more
    <2>1. Advanced(c) = [c EXCEPT !.func = @ + 1]
      BY <1>2, Zenon DEF Advanced
    <2>2. c.func + 1 < MaxFunc
      BY <1>2, Zenon
    <2> HIDE DEF more
    <2>3. Advanced(c) \in ScanCalls /\ Advanced(c).bus = c.bus /\ Advanced(c).dev = c.dev /\ Advanced(c).func = c.func + 1
      BY <1>1, <2>1, <2>2 DEF ScanCalls
    <2> QED
      BY <1>2, <2>3, Zenon DEF more, InProbed
  <1>3. CASE ~more
    <2>1. Advanced(c) = [c EXCEPT !.dev = @ + 1, !.func = 0]
      BY <1>3, Zenon DEF Advanced
    <2> HIDE DEF more
    <2>4. c = [bus |-> c.bus, dev |-> c.dev, func |-> c.func]
      BY DEF ScanCalls
    <2>5. Advanced(c) = [bus |-> c.bus, dev |-> c.dev + 1, func |-> 0]
      BY <2>1, <2>4, Zenon
    <2>6. c.dev + 1 \in 0..MaxDev /\ 0 \in 0..(MaxFunc - 1)
      BY <1>1
    <2>2. Advanced(c) \in ScanCalls /\ Advanced(c).bus = c.bus /\ Advanced(c).dev = c.dev + 1 /\ Advanced(c).func = 0
      BY <1>1, <2>5, <2>6 DEF ScanCalls
    <2>3. ~(Advanced(c).func > 0)
      BY <2>2
    <2> QED
      BY <1>3, <2>2, <2>3, Zenon DEF more, InProbed
  <1> QED
    BY <1>2, <1>3, Zenon

LEMMA AdvancedPasses ==
  ASSUME machine \in Machines, NEW c \in ScanCalls, c.dev < MaxDev, InProbed(c),
         NEW p \in Scannable, p[1] = c.bus
  PROVE  Past(p, Advanced(c)) <=> Past(p, c) \/ p = <<c.bus, c.dev, c.func>>
  <1> DEFINE multi == Present(<<c.bus, c.dev, 0>>) /\ MultiFunction(c.bus, c.dev)
  <1>1. c.dev \in Nat /\ c.func \in Nat /\ c.func <= MaxFunc - 1 /\ MaxDev \in Nat /\ MaxFunc \in Nat \ {0}
    BY PciAssumption DEF ScanCalls
  <1>2. p \in DOMAIN functions /\ Probed(p)
    BY Zenon DEF Scannable
  <1>3. p = <<p[1], p[2], p[3]>> /\ p[2] \in Nat /\ p[3] \in Nat /\ p[3] <= MaxFunc - 1
    BY <1>1, <1>2, Positions
  <1>4. p = <<c.bus, c.dev, c.func>> <=> p[2] = c.dev /\ p[3] = c.func
    BY <1>3
  <1>5. c.func > 0 => multi
    BY Zenon DEF InProbed
  <1>6. p[2] = c.dev => p[3] = 0 \/ multi
    BY <1>2, Zenon DEF Probed
  <1>7. \/ multi /\ c.func + 1 < MaxFunc /\ Advanced(c).dev = c.dev /\ Advanced(c).func = c.func + 1
        \/ ~(multi /\ c.func + 1 < MaxFunc) /\ Advanced(c).dev = c.dev + 1 /\ Advanced(c).func = 0
    BY AdvancedFields, Zenon
  <1> HIDE DEF multi
  <1>8. Past(p, Advanced(c)) <=> Past(p, c) \/ (p[2] = c.dev /\ p[3] = c.func)
    <2>1. CASE multi /\ c.func + 1 < MaxFunc /\ Advanced(c).dev = c.dev /\ Advanced(c).func = c.func + 1
      BY <1>1, <1>3, <2>1 DEF Past
    <2>2. CASE ~(multi /\ c.func + 1 < MaxFunc) /\ Advanced(c).dev = c.dev + 1 /\ Advanced(c).func = 0
      <3>1. p[2] = c.dev => p[3] <= c.func
        BY <1>1, <1>3, <1>5, <1>6, <2>2
      <3> QED
        BY <1>1, <1>3, <2>2, <3>1 DEF Past
    <2> QED
      BY <1>7, <2>1, <2>2, Zenon
  <1> QED
    BY <1>4, <1>8, Zenon

WithLast(q, c) == [q EXCEPT ![Len(q)] = c]

LEMMA StackPassed ==
  ASSUME NEW S, NEW q \in Seq(S), q # << >>, NEW c \in S
  PROVE  /\ WithLast(q, c) \in Seq(S) /\ Len(WithLast(q, c)) = Len(q) /\ WithLast(q, c)[Len(q)] = c
         /\ \A k \in 1..Len(q) : k # Len(q) => WithLast(q, c)[k] = q[k]
  <1> DEFINE n == Len(q)
             r == [q EXCEPT ![n] = c]
  <1>1. n \in Nat /\ n \in 1..n /\ DOMAIN q = 1..n /\ q \in [1..n -> S]
    OBVIOUS
  <1> HIDE DEF n
  <1>2. r \in [1..n -> S] /\ r[n] = c /\ \A k \in 1..n : k # n => r[k] = q[k]
    BY <1>1, Zenon
  <1> HIDE DEF r
  <1>3. r \in Seq(S) /\ Len(r) = n
    BY <1>1, <1>2
  <1> QED
    BY <1>1, <1>2, <1>3, Zenon DEF r, n, WithLast

LEMMA StackPushed ==
  ASSUME NEW S, NEW q \in Seq(S), NEW c \in S
  PROVE  LET r == q \o <<c>>
         IN  /\ r \in Seq(S) /\ Len(r) = Len(q) + 1 /\ r[Len(q) + 1] = c
             /\ \A k \in 1..Len(q) : r[k] = q[k]
  OBVIOUS

LEMMA StackPopped ==
  ASSUME NEW S, NEW q \in Seq(S), q # << >>
  PROVE  LET r == SubSeq(q, 1, Len(q) - 1)
         IN  /\ r \in Seq(S) /\ Len(r) = Len(q) - 1
             /\ \A k \in 1..(Len(q) - 1) : r[k] = q[k]
  OBVIOUS

(* The innermost call.                                                     *)
LEMMA TopCall ==
  ASSUME ScanTypes, calls # << >>
  PROVE  /\ Len(calls) \in Nat /\ Len(calls) \in 1..Len(calls)
         /\ Top \in ScanCalls /\ Top.bus \in ReachableBuses /\ InProbed(Top) /\ Top = calls[Len(calls)]
  <1>1. calls \in Seq(ScanCalls)
    BY Zenon DEF ScanTypes, CallsFit
  <1>2. Len(calls) \in Nat /\ Len(calls) \in 1..Len(calls) /\ calls[Len(calls)] \in ScanCalls
    BY <1>1
  <1> QED
    BY <1>2, Zenon DEF ScanTypes, CallsFit, Top

(* A call that returns is past every function of its bus.                  *)
LEMMA AllPast ==
  ASSUME machine \in Machines, NEW c \in ScanCalls, c.dev = MaxDev, NEW p \in DOMAIN functions
  PROVE  Past(p, c)
  <1>1. p[2] \in 0..(MaxDev - 1) /\ MaxDev \in Nat
    BY Positions, PciAssumption, Zenon
  <1> QED
    BY <1>1 DEF Past

LEMMA NotPastAtStart ==
  ASSUME machine \in Machines, NEW b, NEW p \in DOMAIN functions
  PROVE  ~Past(p, CallAt(b)) /\ CallAt(b).bus = b
  <1>1. p[2] \in 0..(MaxDev - 1) /\ p[3] \in 0..(MaxFunc - 1)
    BY Positions, Zenon
  <1> QED
    BY <1>1, PciAssumption DEF Past, CallAt

(* What the functions of the machine determine stays as they are.          *)
LEMMA SameFunctions ==
  ASSUME UNCHANGED machine
  PROVE  /\ functions' = functions /\ Buses' = Buses /\ Scannable' = Scannable /\ Bridges' = Bridges
         /\ ReachableBuses' = ReachableBuses /\ Visible' = Visible /\ ScanCalls' = ScanCalls
         /\ OneBridgeEach' = OneBridgeEach
         /\ \A b : LedTo(b)' = LedTo(b)
         /\ \A c : InProbed(c)' <=> InProbed(c)
  <1>1. functions' = functions
    BY DEF functions
  <1>2. Buses' = Buses
    BY <1>1 DEF Buses
  <1>3. Scannable' = Scannable
    BY <1>1 DEF Scannable, Probed, Present, MultiFunction
  <1>4. Bridges' = Bridges
    BY <1>1 DEF Bridges, Probed, Present, MultiFunction
  <1>5. ReachableBuses' = ReachableBuses
    BY <1>1, <1>2, <1>4 DEF ReachableBuses, Closed
  <1>6. Visible' = Visible
    BY <1>1, <1>5 DEF Visible, Probed, Present, MultiFunction
  <1>7. ScanCalls' = ScanCalls
    BY <1>2 DEF ScanCalls
  <1>8. OneBridgeEach' = OneBridgeEach
    BY <1>1, <1>4 DEF OneBridgeEach
  <1>9. \A b : LedTo(b)' = LedTo(b)
    BY <1>1, <1>4 DEF LedTo
  <1>10. \A c : InProbed(c)' <=> InProbed(c)
    BY <1>1 DEF InProbed, Present, MultiFunction
  <1> QED
    BY <1>1, <1>2, <1>3, <1>4, <1>5, <1>6, <1>7, <1>8, <1>9, <1>10, Zenon

(* The innermost call goes on: only for the function that it was at is     *)
(* there one call less to come.                                            *)
LEMMA PassedCalls ==
  ASSUME ScanTypes, calls # << >>, Top.dev < MaxDev
  PROVE  /\ CallsFit(Passed) /\ Len(Passed) = Len(calls)
         /\ \A p \in Scannable :
              AheadOf(p, Passed) = IF p = Position THEN Ahead(p) \ {Len(calls)} ELSE Ahead(p)
         /\ \A p \in Scannable : p = Position => Len(calls) \in Ahead(p)
  <1> DEFINE n == Len(calls)
             q == Passed
  <1>1. /\ n \in Nat /\ n \in 1..n /\ Top \in ScanCalls /\ Top.bus \in ReachableBuses /\ InProbed(Top)
        /\ Top = calls[n] /\ machine \in Machines /\ CallsFit(calls)
    BY TopCall, Zenon DEF ScanTypes
  <1>2. /\ Advanced(Top) \in ScanCalls /\ InProbed(Advanced(Top)) /\ Advanced(Top).bus = Top.bus
    BY <1>1, AdvancedFields, Zenon
  <1>3. /\ q \in Seq(ScanCalls) /\ Len(q) = n /\ q[n] = Advanced(Top)
        /\ \A k \in 1..n : k # n => q[k] = calls[k]
    <2>1. calls \in Seq(ScanCalls)
      BY <1>1, Zenon DEF CallsFit
    <2> QED
      <3>1. q = WithLast(calls, Advanced(Top))
        BY Zenon DEF Passed, WithLast
      <3> QED
        BY <1>2, <2>1, <3>1, StackPassed, Zenon
  <1> HIDE DEF n, q
  <1>4. \A k \in 1..n : q[k].bus \in ReachableBuses /\ InProbed(q[k])
    <2> TAKE k \in 1..n
    <2>1. CASE k = n
      BY <1>1, <1>2, <1>3, <2>1, Zenon
    <2>2. CASE k # n
      BY <1>1, <1>3, <2>2, Zenon DEF CallsFit, n
    <2> QED
      BY <2>1, <2>2
  <1>5. ASSUME NEW p \in Scannable
        PROVE  /\ AheadOf(p, q) = IF p = Position THEN Ahead(p) \ {n} ELSE Ahead(p)
               /\ p = Position => n \in Ahead(p)
    <2>1. p[1] = Top.bus => (Past(p, Advanced(Top)) <=> Past(p, Top) \/ p = Position)
      BY <1>1, AdvancedPasses, Zenon DEF Position
    <2>2. p = Position => p[1] = Top.bus /\ ~Past(p, Top)
      <3>1. Top.dev \in Nat /\ Top.func \in Nat
        BY <1>1, PciAssumption DEF ScanCalls
      <3>2. p = Position => p[1] = Top.bus /\ p[2] = Top.dev /\ p[3] = Top.func
        BY DEF Position
      <3> QED
        BY <3>1, <3>2 DEF Past
    <2>3. \A k \in 1..n : k # n => (k \in AheadOf(p, q) <=> k \in Ahead(p))
      BY <1>3, Zenon DEF Ahead, AheadOf, n
    <2>4. n \in AheadOf(p, q) <=> p[1] = Top.bus /\ ~Past(p, Advanced(Top))
      BY <1>1, <1>2, <1>3, Zenon DEF AheadOf
    <2>5. n \in Ahead(p) <=> p[1] = Top.bus /\ ~Past(p, Top)
      BY <1>1, Zenon DEF Ahead, AheadOf, n
    <2>6. AheadOf(p, q) \subseteq 1..n /\ Ahead(p) \subseteq 1..n
      BY <1>3, Zenon DEF Ahead, AheadOf, n
    <2>7. n \in AheadOf(p, q) <=> n \in Ahead(p) /\ p # Position
      BY <2>1, <2>4, <2>5, Zenon
    <2>8. CASE p = Position
      BY <2>2, <2>3, <2>5, <2>6, <2>7, <2>8, Zenon
    <2>9. CASE p # Position
      <3>1. \A k \in 1..n : k \in AheadOf(p, q) <=> k \in Ahead(p)
        BY <2>3, <2>7, <2>9, Zenon
      <3>2. AheadOf(p, q) = Ahead(p)
        BY <2>6, <3>1, Zenon
      <3> QED
        BY <2>9, <3>2, Zenon
    <2> QED
      BY <2>8, <2>9, Zenon
  <1>6. CallsFit(q)
    BY <1>3, <1>4, Zenon DEF CallsFit
  <1> QED
    BY <1>3, <1>5, <1>6, Zenon DEF n, q

(* A new call is to come to every function of its bus.                     *)
LEMMA PushedCall ==
  ASSUME machine \in Machines, NEW q, CallsFit(q), NEW b \in ReachableBuses
  PROVE  LET r == q \o <<CallAt(b)>>
         IN  /\ CallsFit(r) /\ Len(q) \in Nat
             /\ \A p \in Scannable :
                  AheadOf(p, r) = IF p[1] = b THEN AheadOf(p, q) \cup {Len(q) + 1} ELSE AheadOf(p, q)
  <1> DEFINE n == Len(q)
             r == q \o <<CallAt(b)>>
  <1>1. CallAt(b) \in ScanCalls /\ InProbed(CallAt(b)) /\ CallAt(b).bus = b
    <2>1. b \in Buses
      BY Zenon DEF ReachableBuses
    <2>2. 0 \in 0..MaxDev /\ 0 \in 0..(MaxFunc - 1) /\ ~(0 > 0)
      BY PciAssumption
    <2>3. CallAt(b).bus = b /\ CallAt(b).func = 0
      BY DEF CallAt
    <2>4. CallAt(b) \in ScanCalls
      BY <2>1, <2>2, Zenon DEF CallAt, ScanCalls
    <2> QED
      BY <2>2, <2>3, <2>4, Zenon DEF InProbed
  <1>2. q \in Seq(ScanCalls) /\ \A k \in 1..Len(q) : q[k].bus \in ReachableBuses /\ InProbed(q[k])
    BY Zenon DEF CallsFit
  <1>3. /\ r \in Seq(ScanCalls) /\ Len(r) = n + 1 /\ r[n + 1] = CallAt(b)
        /\ \A k \in 1..n : r[k] = q[k]
    <2>1. q \in Seq(ScanCalls) /\ CallAt(b) \in ScanCalls
      BY <1>1, <1>2, Zenon
    <2>2. r \in Seq(ScanCalls) /\ Len(r) = Len(q) + 1
      BY <2>1, StackPushed
    <2>3. r[Len(q) + 1] = CallAt(b) /\ \A k \in 1..Len(q) : r[k] = q[k]
      BY <2>1, StackPushed
    <2> QED
      BY <2>2, <2>3, Zenon
  <1>4. n \in Nat
    BY <1>2
  <1> HIDE DEF n, r
  <1>5. 1..(n + 1) = 1..n \cup {n + 1} /\ n + 1 \notin 1..n
    BY <1>4
  <1>6. CallsFit(r)
    <2>1. \A k \in 1..n : r[k].bus \in ReachableBuses /\ InProbed(r[k])
      BY <1>2, <1>3, Zenon DEF n
    <2> QED
      BY <1>1, <1>3, <1>5, <2>1, Zenon DEF CallsFit
  <1>7. ASSUME NEW p \in Scannable
        PROVE  AheadOf(p, r) = IF p[1] = b THEN AheadOf(p, q) \cup {n + 1} ELSE AheadOf(p, q)
    <2>1. ~Past(p, CallAt(b))
      BY NotPastAtStart, Zenon DEF Scannable
    <2>2. \A k \in 1..n : k \in AheadOf(p, r) <=> k \in AheadOf(p, q)
      BY <1>3, <1>5, Zenon DEF AheadOf, n
    <2>3. n + 1 \in AheadOf(p, r) <=> p[1] = b
      BY <1>1, <1>3, <1>5, <2>1, Zenon DEF AheadOf
    <2>4. AheadOf(p, r) \subseteq 1..n \cup {n + 1} /\ AheadOf(p, q) \subseteq 1..n
      BY <1>3, <1>5, Zenon DEF AheadOf, n
    <2>5. AheadOf(p, q) = AheadOf(p, r) \ {n + 1}
      BY <1>5, <2>2, <2>4, Zenon
    <2>6. CASE p[1] = b
      BY <2>3, <2>5, <2>6, Zenon
    <2>7. CASE p[1] # b
      BY <2>3, <2>5, <2>7, Zenon
    <2> QED
      BY <2>6, <2>7, Zenon
  <1> QED
    BY <1>4, <1>6, <1>7, Zenon DEF n, r

LEMMA PoppedCall ==
  ASSUME ScanTypes, calls # << >>, Top.dev = MaxDev
  PROVE  LET r == SubSeq(calls, 1, Len(calls) - 1)
         IN  CallsFit(r) /\ \A p \in Scannable : AheadOf(p, r) = Ahead(p)
  <1> DEFINE n == Len(calls)
             r == SubSeq(calls, 1, Len(calls) - 1)
  <1>1. /\ n \in Nat /\ n \in 1..n /\ Top \in ScanCalls /\ Top = calls[n]
        /\ machine \in Machines /\ CallsFit(calls)
    BY TopCall, Zenon DEF ScanTypes
  <1>2. calls \in Seq(ScanCalls) /\ \A k \in 1..n : calls[k].bus \in ReachableBuses /\ InProbed(calls[k])
    BY <1>1, Zenon DEF CallsFit
  <1>3. r \in Seq(ScanCalls) /\ Len(r) = n - 1 /\ \A k \in 1..(n - 1) : r[k] = calls[k]
    BY <1>2, StackPopped, Zenon
  <1> HIDE DEF n, r
  <1>4. 1..n = 1..(n - 1) \cup {n} /\ n \notin 1..(n - 1)
    BY <1>1
  <1>5. CallsFit(r)
    BY <1>2, <1>3, <1>4, Zenon DEF CallsFit
  <1>6. ASSUME NEW p \in Scannable PROVE AheadOf(p, r) = Ahead(p)
    <2>1. Past(p, Top)
      BY <1>1, AllPast, Zenon DEF Scannable
    <2>2. n \notin Ahead(p)
      BY <1>1, <2>1, Zenon DEF Ahead, AheadOf
    <2>3. \A k \in 1..(n - 1) : k \in AheadOf(p, r) <=> k \in Ahead(p)
      BY <1>3, <1>4, Zenon DEF Ahead, AheadOf, n
    <2>4. AheadOf(p, r) \subseteq 1..(n - 1) /\ Ahead(p) \subseteq 1..(n - 1) \cup {n}
      BY <1>3, <1>4, Zenon DEF Ahead, AheadOf, n
    <2> QED
      BY <2>2, <2>3, <2>4, Zenon
  <1> QED
    BY <1>5, <1>6, Zenon DEF r

LEMMA AheadFinite ==
  ASSUME ScanTypes, NEW p
  PROVE  IsFiniteSet(Ahead(p)) /\ Cardinality(Ahead(p)) \in Nat /\ Ahead(p) \subseteq 1..Len(calls)
  <1>1. Len(calls) \in Nat
    BY DEF ScanTypes, CallsFit
  <1>2. 1 \in Int /\ Len(calls) \in Int
    BY <1>1
  <1>3. Ahead(p) \subseteq 1..Len(calls)
    BY Zenon DEF Ahead, AheadOf
  <1> QED
    BY <1>2, <1>3, FS_Interval, FS_Subset, FS_CardinalityType, Zenon

(* Bus 0 can be reached, and from a bus that can the one behind each of    *)
(* its bridges.                                                            *)
LEMMA ReachableClosed == Closed(ReachableBuses) /\ ReachableBuses \subseteq Buses
  <1>1. 0 \in Buses /\ \A p \in Bridges : functions[p].secondary \in Buses
    BY Zenon DEF Buses, Bridges
  <1>2. 0 \in ReachableBuses
    BY <1>1, Zenon DEF ReachableBuses, Closed
  <1>3. ASSUME NEW p \in Bridges, p[1] \in ReachableBuses PROVE functions[p].secondary \in ReachableBuses
    <2>1. ASSUME NEW B \in SUBSET Buses, Closed(B) PROVE functions[p].secondary \in B
      <3>1. p[1] \in B
        BY <1>3, <2>1, Zenon DEF ReachableBuses
      <3> QED
        BY <2>1, <3>1, Zenon DEF Closed
    <2> QED
      BY <1>1, <2>1, Zenon DEF ReachableBuses
  <1> QED
    BY <1>2, <1>3, Zenon DEF Closed, ReachableBuses

LEMMA PositionVisible ==
  ASSUME ScanTypes, Scanning, Present(Position)
  PROVE  /\ Position \in Visible /\ Position \in Scannable /\ Position[1] = Top.bus
         /\ BridgeFollowed(Position) <=> Position \in Bridges
  <1>1. Top \in ScanCalls /\ Top.bus \in ReachableBuses /\ InProbed(Top)
    BY TopCall, Zenon DEF Scanning
  <1>2. Position[1] = Top.bus /\ Position[2] = Top.dev /\ Position[3] = Top.func
    BY DEF Position
  <1>3. Top.func \in 0..(MaxFunc - 1)
    BY <1>1 DEF ScanCalls
  <1>4. Top.func = 0 \/ Top.func > 0
    BY <1>3, PciAssumption
  <1>5. Probed(Position)
    BY <1>1, <1>2, <1>4, Zenon DEF Probed, InProbed
  <1> QED
    BY <1>1, <1>2, <1>5, Zenon DEF Visible, Scannable, Bridges, BridgeFollowed, Present

(* A step that reports nothing and leaves the calls that are to come to    *)
(* each function.                                                          *)
LEMMA CountsSame ==
  ASSUME ScanTypes, ScanCounts, UNCHANGED <<machine, reported>>, \A p \in Scannable : Ahead(p)' = Ahead(p)
  PROVE  ScanCounts'
  <1>1. Scannable' = Scannable /\ (OneBridgeEach' = OneBridgeEach) /\ (\A b : LedTo(b)' = LedTo(b))
    BY SameFunctions, Zenon
  <1>2. ASSUME NEW p \in Scannable, BusEntered(p[1])' PROVE reported'[p] > 0 \/ Ahead(p)' # {}
    <2>1. BusEntered(p[1])
      BY <1>1, <1>2, Zenon DEF BusEntered
    <2> QED
      BY <2>1, Zenon DEF ScanCounts
  <1>3. ASSUME OneBridgeEach, NEW p \in Scannable
        PROVE  TimesEntered(p[1], reported[p] + Cardinality(Ahead(p)))'
    <2>1. TimesEntered(p[1], reported[p] + Cardinality(Ahead(p)))
      BY <1>3, Zenon DEF ScanCounts
    <2>2. Ahead(p)' = Ahead(p) /\ LedTo(p[1])' = LedTo(p[1]) /\ reported' = reported
      BY <1>1, <1>3, Zenon
    <2>3. (reported[p] + Cardinality(Ahead(p)))' = reported[p] + Cardinality(Ahead(p))
      BY <2>2, Zenon
    <2> QED
      BY <2>1, <2>2, <2>3, Zenon DEF TimesEntered, FromBoot
  <1> QED
    BY <1>1, <1>2, <1>3, Zenon DEF ScanCounts

LEMMA TypesSame ==
  ASSUME ScanTypes, UNCHANGED <<machine, reported>>, CallsFit(calls')
  PROVE  ScanTypes'
  <1>1. functions' = functions /\ Visible' = Visible /\ ScanCalls' = ScanCalls
        /\ ReachableBuses' = ReachableBuses /\ \A c : InProbed(c)' <=> InProbed(c)
    BY SameFunctions, Zenon
  <1>2. calls' \in Seq(ScanCalls') /\ \A k \in 1..Len(calls') : calls'[k].bus \in ReachableBuses' /\ InProbed(calls'[k])
    BY <1>1, Zenon DEF CallsFit
  <1>3. \A k \in 1..Len(calls') : InProbed(calls[k])'
    BY <1>1, <1>2 DEF InProbed, Present, MultiFunction
  <1>4. CallsFit(calls)'
    BY <1>2, <1>3, Zenon DEF CallsFit
  <1> QED
    BY <1>1, <1>4, Zenon DEF ScanTypes

LEMMA AbsentStep ==
  ASSUME ScanTypes, ScanCounts, UNCHANGED machine, pci_scan_function_Absent
  PROVE  ScanTypes' /\ ScanCounts'
  <1>1. calls # << >> /\ Top.dev < MaxDev /\ ~Present(Position) /\ calls' = Passed /\ reported' = reported
    BY Zenon DEF pci_scan_function_Absent, Scanning
  <1>2. \A p \in Scannable : p # Position
    BY <1>1, Zenon DEF Scannable, Present
  <1>3. CallsFit(calls') /\ \A p \in Scannable : AheadOf(p, calls') = Ahead(p)
    BY <1>1, <1>2, PassedCalls, Zenon
  <1>4. \A p \in Scannable : Ahead(p)' = Ahead(p)
    BY <1>3, Zenon DEF Ahead
  <1> QED
    BY <1>1, <1>3, <1>4, CountsSame, TypesSame, Zenon

LEMMA ReturnStep ==
  ASSUME ScanTypes, ScanCounts, UNCHANGED machine, pci_scan_bus_Return
  PROVE  ScanTypes' /\ ScanCounts'
  <1>1. calls # << >> /\ Top.dev = MaxDev /\ calls' = SubSeq(calls, 1, Len(calls) - 1) /\ reported' = reported
    BY Zenon DEF pci_scan_bus_Return
  <1>2. CallsFit(calls') /\ \A p \in Scannable : AheadOf(p, calls') = Ahead(p)
    BY <1>1, PoppedCall, Zenon
  <1>3. \A p \in Scannable : Ahead(p)' = Ahead(p)
    BY <1>2, Zenon DEF Ahead
  <1> QED
    BY <1>1, <1>2, <1>3, CountsSame, TypesSame, Zenon

(* A function is reported, and behind a bridge the scan of another bus     *)
(* starts: the calls that are to come to a function.                       *)
LEMMA ReportedCalls ==
  ASSUME ScanTypes, UNCHANGED machine, pci_scan_function
  PROVE  /\ CallsFit(calls')
         /\ \A p \in Scannable :
              Ahead(p)' =
                IF p = Position THEN Ahead(p) \ {Len(calls)}
                ELSE IF Position \in LedTo(p[1]) THEN Ahead(p) \cup {Len(calls) + 1} ELSE Ahead(p)
         /\ Len(calls) \in Ahead(Position)
  <1> DEFINE P == Position
             b == functions[P].secondary
  <1>1. /\ Scanning /\ Present(P) /\ calls # << >> /\ Top.dev < MaxDev
        /\ calls' = Passed \o IF BridgeFollowed(P) THEN <<CallAt(b)>> ELSE << >>
    BY Zenon DEF pci_scan_function, Scanning
  <1>2. P \in Visible /\ P \in Scannable /\ P[1] = Top.bus /\ (BridgeFollowed(P) <=> P \in Bridges)
    BY <1>1, PositionVisible, Zenon
  <1>3. /\ CallsFit(Passed) /\ Len(Passed) = Len(calls) /\ Len(calls) \in Ahead(P)
        /\ \A p \in Scannable : AheadOf(p, Passed) = IF p = P THEN Ahead(p) \ {Len(calls)} ELSE Ahead(p)
    BY <1>1, <1>2, PassedCalls, Zenon
  <1> HIDE DEF P
  <1>4. CASE BridgeFollowed(P)
    <2>1. P \in Bridges /\ b # P[1] /\ P[1] \in ReachableBuses
      BY <1>2, <1>4, Zenon DEF BridgeFollowed, Visible
    <2>2. b \in ReachableBuses
      BY <2>1, ReachableClosed, Zenon DEF Closed
    <2>3. calls' = Passed \o <<CallAt(b)>>
      BY <1>1, <1>4, Zenon
    <2> HIDE DEF b
    <2>4. machine \in Machines
      BY Zenon DEF ScanTypes
    <2>5. /\ CallsFit(calls')
          /\ \A p \in Scannable :
               AheadOf(p, calls') = IF p[1] = b THEN AheadOf(p, Passed) \cup {Len(Passed) + 1} ELSE AheadOf(p, Passed)
      BY <1>3, <2>2, <2>3, <2>4, PushedCall, Zenon
    <2>6. ASSUME NEW p \in Scannable
          PROVE  Ahead(p)' = IF p = P THEN Ahead(p) \ {Len(calls)}
                             ELSE IF P \in LedTo(p[1]) THEN Ahead(p) \cup {Len(calls) + 1} ELSE Ahead(p)
      <3>1. P \in LedTo(p[1]) <=> p[1] = b
        BY <2>1, Zenon DEF LedTo, b
      <3>2. Ahead(p)' = AheadOf(p, calls')
        BY Zenon DEF Ahead
      <3>3. AheadOf(p, Passed) = IF p = P THEN Ahead(p) \ {Len(calls)} ELSE Ahead(p)
        BY <1>3, Zenon
      <3>4. AheadOf(p, calls') = IF p[1] = b THEN AheadOf(p, Passed) \cup {Len(calls) + 1} ELSE AheadOf(p, Passed)
        BY <1>3, <2>5, Zenon
      <3>5. CASE p = P
        BY <2>1, <3>2, <3>3, <3>4, <3>5, Zenon
      <3>6. CASE p # P
        BY <3>1, <3>2, <3>3, <3>4, <3>6, Zenon
      <3> QED
        BY <3>5, <3>6, Zenon
    <2> QED
      BY <1>3, <2>5, <2>6, Zenon DEF P
  <1>5. CASE ~BridgeFollowed(P)
    <2>1. Passed \o << >> = Passed
      BY <1>3 DEF CallsFit
    <2>2. calls' = Passed
      BY <1>1, <1>5, <2>1, Zenon
    <2>3. \A p \in Scannable : P \notin LedTo(p[1])
      BY <1>2, <1>5, Zenon DEF LedTo
    <2>4. \A p \in Scannable : Ahead(p)' = AheadOf(p, Passed)
      BY <2>2, Zenon DEF Ahead
    <2>5. ASSUME NEW p \in Scannable
          PROVE  Ahead(p)' = IF p = P THEN Ahead(p) \ {Len(calls)}
                             ELSE IF P \in LedTo(p[1]) THEN Ahead(p) \cup {Len(calls) + 1} ELSE Ahead(p)
      BY <1>3, <2>3, <2>4, Zenon
    <2> QED
      BY <1>3, <2>2, <2>5, Zenon DEF P
  <1> QED
    BY <1>4, <1>5, Zenon

LEMMA ReportedStep ==
  ASSUME ScanTypes, ScanCounts, UNCHANGED machine, pci_scan_function
  PROVE  ScanTypes' /\ ScanCounts'
  <1> DEFINE P == Position
             n == Len(calls)
  <1>1. Scanning /\ Present(P) /\ reported' = [reported EXCEPT ![P] = @ + 1]
    BY Zenon DEF pci_scan_function
  <1>2. P \in Visible /\ P \in Scannable /\ P \in DOMAIN functions
    BY <1>1, PositionVisible, Zenon DEF Scannable
  <1>3. /\ CallsFit(calls') /\ n \in Ahead(P)
        /\ \A p \in Scannable :
             Ahead(p)' = IF p = P THEN Ahead(p) \ {n}
                         ELSE IF P \in LedTo(p[1]) THEN Ahead(p) \cup {n + 1} ELSE Ahead(p)
    BY ReportedCalls, Zenon
  <1>4. functions' = functions /\ Visible' = Visible /\ ScanCalls' = ScanCalls /\ ReachableBuses' = ReachableBuses
        /\ Scannable' = Scannable /\ (OneBridgeEach' = OneBridgeEach) /\ (\A b : LedTo(b)' = LedTo(b))
    BY SameFunctions, Zenon
  <1>5. n \in Nat /\ n + 1 \notin 1..n
    BY DEF ScanTypes, CallsFit
  <1> HIDE DEF P, n
  <1>6. reported \in [DOMAIN functions -> Nat]
    BY Zenon DEF ScanTypes
  <1>7. /\ reported' \in [DOMAIN functions -> Nat] /\ reported'[P] = reported[P] + 1 /\ reported'[P] > 0
        /\ \A p \in DOMAIN functions : p # P => reported'[p] = reported[p]
    BY <1>1, <1>2, <1>6
  <1>8. ScanTypes'
    <2>1. \A c : InProbed(c)' <=> InProbed(c)
      BY SameFunctions, Zenon
    <2>2. calls' \in Seq(ScanCalls') /\ \A k \in 1..Len(calls') : calls'[k].bus \in ReachableBuses' /\ InProbed(calls'[k])
      BY <1>3, <1>4, Zenon DEF CallsFit
    <2>3. \A k \in 1..Len(calls') : InProbed(calls[k])'
      BY <1>4, <2>2 DEF InProbed, Present, MultiFunction
    <2>4. CallsFit(calls)'
      BY <2>2, <2>3, Zenon DEF CallsFit
    <2>5. \A p \in DOMAIN functions : reported'[p] > 0 => p \in Visible
      BY <1>2, <1>7, Zenon DEF ScanTypes
    <2>6. machine' \in Machines
      BY Zenon DEF ScanTypes
    <2> QED
      BY <1>4, <1>7, <2>4, <2>5, <2>6, Zenon DEF ScanTypes
  <1>9. ASSUME NEW p \in Scannable, BusEntered(p[1])' PROVE reported'[p] > 0 \/ Ahead(p)' # {}
    <2>1. CASE p = P
      BY <1>7, <2>1, Zenon
    <2>2. CASE p # P /\ P \in LedTo(p[1])
      BY <1>3, <2>2, Zenon
    <2>3. CASE p # P /\ P \notin LedTo(p[1])
      <3>1. p \in DOMAIN functions /\ LedTo(p[1]) \subseteq DOMAIN functions
        BY Zenon DEF Scannable, LedTo, Bridges
      <3>2. BusEntered(p[1])
        BY <1>4, <1>7, <1>9, <2>3, <3>1, Zenon DEF BusEntered
      <3>3. reported[p] > 0 \/ Ahead(p) # {}
        BY <3>2, Zenon DEF ScanCounts
      <3> QED
        BY <1>3, <1>7, <2>3, <3>1, <3>3, Zenon
    <2> QED
      BY <2>1, <2>2, <2>3, Zenon
  <1>10. ASSUME OneBridgeEach, NEW p \in Scannable
         PROVE  TimesEntered(p[1], reported[p] + Cardinality(Ahead(p)))'
    <2> DEFINE m == reported[p] + Cardinality(Ahead(p))
               m2 == reported'[p] + Cardinality(Ahead(p)')
    <2>1. p \in DOMAIN functions /\ LedTo(p[1]) \subseteq DOMAIN functions
      BY Zenon DEF Scannable, LedTo, Bridges
    <2>2. TimesEntered(p[1], m)
      BY <1>10, Zenon DEF ScanCounts
    <2>3. IsFiniteSet(Ahead(p)) /\ Cardinality(Ahead(p)) \in Nat /\ Ahead(p) \subseteq 1..n
      BY AheadFinite, Zenon DEF n
    <2>4. reported[p] \in Nat /\ reported'[p] \in Nat
      BY <1>6, <1>7, <2>1
    <2>5. CASE P \notin LedTo(p[1])
      <3>1. \A q \in LedTo(p[1]) : reported'[q] = reported[q]
        BY <1>7, <2>1, <2>5, Zenon
      <3>2. m2 = m
        <4>1. CASE p = P
          <5>1. Cardinality(Ahead(p)') = Cardinality(Ahead(p)) - 1 /\ reported'[p] = reported[p] + 1
            BY <1>3, <1>7, <2>3, <4>1, FS_RemoveElement, Zenon
          <5> QED
            BY <2>3, <2>4, <5>1
        <4>2. CASE p # P
          BY <1>3, <1>7, <2>1, <2>5, <4>2, Zenon
        <4> QED
          BY <4>1, <4>2, Zenon
      <3> QED
        BY <1>4, <2>2, <3>1, <3>2, Zenon DEF TimesEntered, FromBoot
    <2>6. CASE P \in LedTo(p[1])
      <3>1. P \in Bridges /\ functions[P].secondary = p[1] /\ functions[P].secondary # P[1]
        BY <2>6, Zenon DEF LedTo, Bridges
      <3>2. p # P
        BY <3>1, Zenon
      <3>3. Ahead(p)' = Ahead(p) \cup {n + 1} /\ n + 1 \notin Ahead(p) /\ reported'[p] = reported[p]
        BY <1>3, <1>5, <1>7, <2>1, <2>3, <2>6, <3>2, Zenon
      <3>4. Cardinality(Ahead(p)') = Cardinality(Ahead(p)) + 1
        BY <2>3, <3>3, FS_AddElement, Zenon
      <3>5. \A q \in LedTo(p[1]) : q = P
        BY <1>10, <3>1, Zenon DEF LedTo, OneBridgeEach
      <3>6. m = reported[P] + FromBoot(p[1])
        BY <2>2, <2>6, <3>5, Zenon DEF TimesEntered
      <3>7. m2 = reported'[P] + FromBoot(p[1])
        <4>1. reported[P] \in Nat /\ FromBoot(p[1]) \in Nat
          BY <1>2, <1>6 DEF FromBoot
        <4>2. reported'[P] = reported[P] + 1 /\ m2 = reported[p] + (Cardinality(Ahead(p)) + 1)
          BY <1>7, <3>3, <3>4, Zenon
        <4>3. m = reported[p] + Cardinality(Ahead(p))
          OBVIOUS
        <4> HIDE DEF m, m2
        <4> QED
          BY <2>3, <2>4, <3>6, <4>1, <4>2, <4>3
      <3> QED
        BY <1>4, <2>6, <3>7, Zenon DEF TimesEntered, FromBoot
    <2> QED
      BY <2>5, <2>6
  <1>11. ScanCounts'
    BY <1>4, <1>9, <1>10, Zenon DEF ScanCounts
  <1> QED
    BY <1>8, <1>11

(* A scan that has ended has reported every function that can be reached.  *)
LEMMA AllReported ==
  ASSUME ScanTypes, ScanCounts, calls = << >>
  PROVE  {p \in DOMAIN functions : reported[p] > 0} = Visible
  <1>1. \A p \in Scannable : Ahead(p) = {}
    <2>1. 1..Len(calls) = {}
      OBVIOUS
    <2> QED
      BY <2>1, AheadFinite, Zenon
  <1>2. \A p \in Scannable : BusEntered(p[1]) => reported[p] > 0
    BY <1>1, Zenon DEF ScanCounts
  <1> DEFINE B == {b \in Buses : BusEntered(b)}
  <1>3. Closed(B)
    <2>1. 0 \in Buses /\ \A p \in Bridges : functions[p].secondary \in Buses
      BY Zenon DEF Buses, Bridges
    <2>2. ASSUME NEW p \in Bridges, p[1] \in B PROVE functions[p].secondary \in B
      <3>1. p \in Scannable
        BY Zenon DEF Bridges, Scannable
      <3>2. reported[p] > 0
        BY <1>2, <2>2, <3>1, Zenon
      <3>3. p \in LedTo(functions[p].secondary)
        BY Zenon DEF LedTo
      <3> QED
        BY <2>1, <3>2, <3>3, Zenon DEF BusEntered
    <2> QED
      BY <2>1, <2>2, Zenon DEF Closed, BusEntered
  <1>4. \A b \in ReachableBuses : BusEntered(b)
    BY <1>3, Zenon DEF ReachableBuses
  <1>5. ASSUME NEW p \in Visible PROVE p \in DOMAIN functions /\ reported[p] > 0
    BY <1>2, <1>4, Zenon DEF Visible, Scannable
  <1> QED
    BY <1>5, Zenon DEF ScanTypes

(* A bridge back to bus 0 that can be reached would have been reported     *)
(* less often than every function that can.                                *)
LEMMA NoneToBusZero ==
  ASSUME ScanTypes, OneBridgeEach, \A p \in Scannable : TimesEntered(p[1], reported[p]),
         NEW q \in LedTo(0)
  PROVE  q \notin Visible
  <1> DEFINE B == {b \in Buses : \A p \in Scannable : p[1] = b => reported[p] > reported[q]}
  <1>1. q \in Bridges /\ functions[q].secondary = 0 /\ q \in Scannable /\ q \in DOMAIN functions
    BY Zenon DEF LedTo, Bridges, Scannable
  <1>2. \A p \in DOMAIN functions : reported[p] \in Nat
    BY DEF ScanTypes
  <1>3. \A r, p \in Bridges : functions[r].secondary = functions[p].secondary => r = p
    BY Zenon DEF OneBridgeEach
  <1>4. 0 \in Buses /\ \A p \in Bridges : functions[p].secondary \in Buses
    BY Zenon DEF Buses, Bridges
  <1>5. ASSUME NEW r \in Bridges, NEW p \in Scannable, functions[r].secondary = p[1]
        PROVE  reported[p] = reported[r] + FromBoot(p[1])
    <2>1. TimesEntered(p[1], reported[p]) /\ r \in LedTo(p[1])
      BY <1>5, Zenon DEF LedTo
    <2>2. \A s \in LedTo(p[1]) : s = r
      BY <1>3, <1>5, Zenon DEF LedTo
    <2> QED
      BY <2>1, <2>2, Zenon DEF TimesEntered
  <1>6. 0 \in B
    <2>1. ASSUME NEW p \in Scannable, p[1] = 0 PROVE reported[p] > reported[q]
      <3>1. reported[p] = reported[q] + FromBoot(0)
        BY <1>1, <1>5, <2>1, Zenon
      <3> QED
        BY <1>1, <1>2, <3>1 DEF FromBoot
    <2> QED
      BY <1>4, <2>1, Zenon
  <1>7. ASSUME NEW r \in Bridges, r[1] \in B PROVE functions[r].secondary \in B
    <2>1. r \in Scannable /\ r \in DOMAIN functions
      BY Zenon DEF Bridges, Scannable
    <2>2. reported[r] > reported[q]
      BY <1>7, <2>1, Zenon
    <2>3. ASSUME NEW p \in Scannable, p[1] = functions[r].secondary PROVE reported[p] > reported[q]
      <3>1. reported[p] = reported[r] + FromBoot(p[1])
        BY <1>5, <2>3, Zenon
      <3> QED
        BY <1>1, <1>2, <2>1, <2>2, <3>1 DEF FromBoot
    <2> QED
      BY <1>4, <2>3, Zenon
  <1>8. Closed(B)
    BY <1>6, <1>7, Zenon DEF Closed
  <1>9. ASSUME q \in Visible PROVE FALSE
    <2>1. q[1] \in ReachableBuses
      BY <1>9, Zenon DEF Visible
    <2>2. q[1] \in B
      BY <1>8, <2>1, Zenon DEF ReachableBuses
    <2>3. reported[q] > reported[q]
      BY <1>1, <2>2, Zenon
    <2> QED
      BY <1>1, <1>2, <2>3
  <1> QED
    BY <1>9, Zenon

LEMMA ReportedOnce ==
  ASSUME ScanTypes, ScanCounts, calls = << >>, OneBridgeEach
  PROVE  \A p \in Visible : reported[p] = 1
  <1>1. \A p \in Scannable : Ahead(p) = {}
    <2>1. 1..Len(calls) = {}
      OBVIOUS
    <2> QED
      BY <2>1, AheadFinite, Zenon
  <1>2. \A p \in DOMAIN functions : reported[p] \in Nat /\ (p \notin Visible => reported[p] = 0)
    BY DEF ScanTypes
  <1>3. ASSUME NEW p \in Scannable PROVE TimesEntered(p[1], reported[p])
    <2>1. Cardinality({}) = 0
      BY FS_EmptySet, Zenon
    <2>2. reported[p] \in Nat
      BY <1>2, Zenon DEF Scannable
    <2>3. reported[p] + 0 = reported[p]
      BY <2>2
    <2>4. TimesEntered(p[1], reported[p] + Cardinality(Ahead(p)))
      BY Zenon DEF ScanCounts
    <2> QED
      BY <1>1, <2>1, <2>3, <2>4, Zenon
  <1>4. \A q \in LedTo(0) : q \notin Visible
    BY <1>3, NoneToBusZero, Zenon
  <1> DEFINE B == {b \in ReachableBuses : \A p \in Scannable : p[1] = b => reported[p] = 1}
  <1>5. 0 \in B
    <2>1. ASSUME NEW p \in Scannable, p[1] = 0 PROVE reported[p] = 1
      <3>1. TimesEntered(0, reported[p])
        BY <1>3, <2>1, Zenon
      <3>2. CASE LedTo(0) = {} /\ reported[p] = FromBoot(0)
        BY <3>2 DEF FromBoot
      <3>3. CASE \E q \in LedTo(0) : reported[p] = reported[q] + FromBoot(0)
        <4>1. PICK q \in LedTo(0) : reported[p] = reported[q] + FromBoot(0)
          BY <3>3, Zenon
        <4>2. q \in DOMAIN functions
          BY Zenon DEF LedTo, Bridges
        <4>3. reported[q] = 0
          BY <1>2, <1>4, <4>2, Zenon
        <4> QED
          BY <4>1, <4>3 DEF FromBoot
      <3> QED
        BY <3>1, <3>2, <3>3, Zenon DEF TimesEntered
    <2> QED
      BY <2>1, ReachableClosed, Zenon DEF Closed
  <1>6. ASSUME NEW r \in Bridges, r[1] \in B PROVE functions[r].secondary \in B
    <2>1. r \in Scannable /\ r \in Visible /\ r \in DOMAIN functions
      BY <1>6, Zenon DEF Bridges, Scannable, Visible
    <2>2. reported[r] = 1
      BY <1>6, <2>1, Zenon
    <2>3. functions[r].secondary # 0
      BY <1>4, <2>1, Zenon DEF LedTo
    <2>4. ASSUME NEW p \in Scannable, p[1] = functions[r].secondary PROVE reported[p] = 1
      <3>1. TimesEntered(p[1], reported[p]) /\ r \in LedTo(p[1])
        BY <1>3, <2>4, Zenon DEF LedTo
      <3>2. \A s \in LedTo(p[1]) : s = r
        BY <2>4, Zenon DEF LedTo, OneBridgeEach
      <3>3. reported[p] = reported[r] + FromBoot(p[1])
        BY <3>1, <3>2, Zenon DEF TimesEntered
      <3> QED
        BY <2>2, <2>3, <2>4, <3>3 DEF FromBoot
    <2> QED
      BY <1>6, <2>4, ReachableClosed, Zenon DEF Closed
  <1>7. Closed(B) /\ B \subseteq Buses
    BY <1>5, <1>6, ReachableClosed, Zenon DEF Closed
  <1>8. \A b \in ReachableBuses : b \in B
    BY <1>7, Zenon DEF ReachableBuses
  <1> QED
    BY <1>8, Zenon DEF Visible, Scannable

LEMMA ScanStarts == Init => ScanInv
  <1> SUFFICES ASSUME Init PROVE ScanInv
    OBVIOUS
  <1>1. machine \in Machines /\ phase = "entry" /\ calls = << >> /\ reported = [p \in DOMAIN functions |-> 0]
    BY Zenon DEF Init, PciInit
  <1>2. reported \in [DOMAIN functions -> Nat] /\ \A p \in DOMAIN functions : reported[p] = 0 /\ ~(reported[p] > 0)
    BY <1>1
  <1>3. calls \in Seq(ScanCalls) /\ 1..Len(calls) = {}
    BY <1>1
  <1>4. ScanTypes
    BY <1>1, <1>2, <1>3, Zenon DEF ScanTypes, CallsFit
  <1>5. phase \notin {"pci", "hpet", "net", "idle"}
    BY <1>1
  <1>6. phase \notin {"hpet", "net", "idle"}
    BY <1>1
  <1> QED
    BY <1>1, <1>2, <1>4, <1>5, <1>6, Zenon DEF ScanInv

(* pci_scan_bus(0) is to come to the functions of bus 0.                   *)
LEMMA BeginStep ==
  ASSUME ScanTypes, UNCHANGED machine, calls = << >>, \A p \in DOMAIN functions : reported[p] = 0, ScanBegins
  PROVE  ScanTypes' /\ ScanCounts'
  <1>1. calls' = <<CallAt(0)>> /\ reported' = reported /\ machine \in Machines
    BY Zenon DEF ScanBegins, ScanTypes
  <1>2. << >> \o <<CallAt(0)>> = <<CallAt(0)>> /\ Len(<< >>) = 0 /\ 0 + 1 = 1
    OBVIOUS
  <1>3. CallsFit(<< >>)
    <2>1. << >> \in Seq(ScanCalls) /\ 1..Len(<< >>) = {}
      OBVIOUS
    <2> QED
      BY <2>1, Zenon DEF CallsFit
  <1>4. \A p : AheadOf(p, << >>) = {}
    BY DEF AheadOf
  <1>5. 0 \in ReachableBuses
    BY ReachableClosed, Zenon DEF Closed
  <1>6. /\ CallsFit(calls')
        /\ \A p \in Scannable : AheadOf(p, calls') = IF p[1] = 0 THEN {1} ELSE {}
    <2>1. LET r == << >> \o <<CallAt(0)>>
          IN  /\ CallsFit(r)
              /\ \A p \in Scannable :
                   AheadOf(p, r) = IF p[1] = 0 THEN AheadOf(p, << >>) \cup {Len(<< >>) + 1} ELSE AheadOf(p, << >>)
      BY <1>1, <1>3, <1>5, PushedCall, Zenon
    <2>2. {} \cup {1} = {1}
      OBVIOUS
    <2> QED
      BY <1>1, <1>2, <1>4, <2>1, <2>2, Zenon
  <1>7. ScanTypes'
    BY <1>1, <1>6, TypesSame, Zenon
  <1>8. Scannable' = Scannable /\ (OneBridgeEach' = OneBridgeEach) /\ (\A b : LedTo(b)' = LedTo(b))
    BY SameFunctions, Zenon
  <1>9. ASSUME NEW p \in Scannable
        PROVE  /\ Ahead(p)' = IF p[1] = 0 THEN {1} ELSE {}
               /\ reported'[p] = 0 /\ \A q \in LedTo(p[1]) : reported'[q] = 0
    <2>1. p \in DOMAIN functions /\ LedTo(p[1]) \subseteq DOMAIN functions
      BY Zenon DEF Scannable, LedTo, Bridges
    <2>2. Ahead(p)' = AheadOf(p, calls')
      BY Zenon DEF Ahead
    <2> QED
      BY <1>1, <1>6, <2>1, <2>2, Zenon
  <1>10. ASSUME NEW p \in Scannable, BusEntered(p[1])' PROVE reported'[p] > 0 \/ Ahead(p)' # {}
    <2>1. ~(0 > 0)
      OBVIOUS
    <2>2. p[1] = 0
      BY <1>8, <1>9, <1>10, <2>1, Zenon DEF BusEntered
    <2> QED
      BY <1>9, <2>2, Zenon
  <1>11. ASSUME NEW p \in Scannable
         PROVE  TimesEntered(p[1], reported[p] + Cardinality(Ahead(p)))'
    <2>1. Cardinality(Ahead(p)') = FromBoot(p[1])
      <3>1. CASE p[1] = 0
        <4>1. Cardinality({1}) = 1
          BY FS_Singleton, Zenon
        <4> QED
          BY <1>9, <3>1, <4>1, Zenon DEF FromBoot
      <3>2. CASE p[1] # 0
        <4>1. Cardinality({}) = 0
          BY FS_EmptySet, Zenon
        <4> QED
          BY <1>9, <3>2, <4>1, Zenon DEF FromBoot
      <3> QED
        BY <3>1, <3>2, Zenon
    <2>2. 0 + FromBoot(p[1]) = FromBoot(p[1])
      BY DEF FromBoot
    <2>3. reported'[p] + Cardinality(Ahead(p)') = FromBoot(p[1])
      BY <1>9, <2>1, <2>2, Zenon
    <2>4. CASE LedTo(p[1]) = {}
      BY <1>8, <2>3, <2>4, Zenon DEF TimesEntered, FromBoot
    <2>5. CASE LedTo(p[1]) # {}
      <3>1. PICK q \in LedTo(p[1]) : TRUE
        BY <2>5, Zenon
      <3>2. reported'[q] + FromBoot(p[1]) = FromBoot(p[1])
        BY <1>9, <2>2, <3>1, Zenon
      <3> QED
        BY <1>8, <2>3, <3>1, <3>2, Zenon DEF TimesEntered, FromBoot
    <2> QED
      BY <2>4, <2>5, Zenon
  <1>12. ScanCounts'
    BY <1>8, <1>10, <1>11, Zenon DEF ScanCounts
  <1> QED
    BY <1>7, <1>12

(* A step that leaves the scan alone.                                      *)
LEMMA ScanSame ==
  ASSUME ScanInv, UNCHANGED <<machine, pciVars>>,
         phase' \in {"entry", "smp", "vfs", "devices"} => phase \in {"entry", "smp", "vfs", "devices"},
         phase' \in {"hpet", "net", "idle"} => phase \in {"hpet", "net", "idle"},
         phase' \in {"pci", "hpet", "net", "idle"} => phase \in {"pci", "hpet", "net", "idle"}
  PROVE  ScanInv'
  <1>1. calls' = calls /\ reported' = reported /\ machine' = machine /\ ScanTypes
    BY Zenon DEF pciVars, ScanInv
  <1>2. functions' = functions
    BY SameFunctions, Zenon
  <1>3. ScanTypes'
    BY <1>1, TypesSame, Zenon DEF ScanTypes
  <1>4. \A p \in Scannable : Ahead(p)' = Ahead(p)
    BY <1>1, Zenon DEF Ahead
  <1>5. ScanCounts => ScanCounts'
    BY <1>1, <1>4, CountsSame, Zenon
  <1> QED
    BY <1>1, <1>2, <1>3, <1>5, Zenon DEF ScanInv

LEMMA PciStep ==
  ASSUME ScanInv, kernel_main_Pci
  PROVE  ScanInv'
  <1>1. phase = "pci" /\ UNCHANGED machine /\ Scan /\ phase' = IF calls' = << >> THEN "hpet" ELSE phase
    BY Zenon DEF kernel_main_Pci
  <1>2. phase \in {"pci", "hpet", "net", "idle"}
    BY <1>1
  <1>3. ScanTypes /\ ScanCounts
    BY <1>2, Zenon DEF ScanInv
  <1>4. ScanTypes' /\ ScanCounts'
    BY <1>1, <1>3, AbsentStep, ReportedStep, ReturnStep, Zenon DEF Scan
  <1>5. phase' \notin {"entry", "smp", "vfs", "devices"} /\ (phase' \in {"hpet", "net", "idle"} => calls' = << >>)
    <2>1. CASE calls' = << >>
      BY <1>1, <2>1
    <2>2. CASE calls' # << >>
      <3>1. phase' = "pci"
        BY <1>1, <2>2, Zenon
      <3> QED
        BY <3>1
    <2> QED
      BY <2>1, <2>2, Zenon
  <1> QED
    BY <1>4, <1>5, Zenon DEF ScanInv

LEMMA DevicesStep ==
  ASSUME ScanInv, kernel_main_Devices
  PROVE  ScanInv'
  <1>1. phase = "devices" /\ phase' = "pci" /\ UNCHANGED machine /\ ScanBegins
    BY Zenon DEF kernel_main_Devices, Goto
  <1>2. phase \in {"entry", "smp", "vfs", "devices"}
    BY <1>1
  <1>3. ScanTypes /\ calls = << >> /\ \A p \in DOMAIN functions : reported[p] = 0
    BY <1>2, Zenon DEF ScanInv
  <1>4. ScanTypes' /\ ScanCounts'
    BY <1>1, <1>3, BeginStep, Zenon
  <1>5. phase' \notin {"entry", "smp", "vfs", "devices"} /\ phase' \notin {"hpet", "net", "idle"}
    BY <1>1
  <1> QED
    BY <1>4, <1>5, Zenon DEF ScanInv

LEMMA ScanStep == ScanInv /\ [Next]_vars => ScanInv'
  <1> SUFFICES ASSUME ScanInv, [Next]_vars PROVE ScanInv'
    OBVIOUS
  <1>1. CASE UNCHANGED vars \/ (\E c \in Id : ApStep(c)) \/ Millisecond \/ UseClock \/ UseCard \/ UseDevices \/ UseScreen
    <2>1. UNCHANGED <<machine, pciVars>> /\ phase' = phase
      BY <1>1, Zenon DEF vars, ApStep, Millisecond, UseClock, UseCard, UseDevices, UseScreen, Using
    <2> QED
      BY <2>1, ScanSame, Zenon
  <1>2. CASE kernel_main_Requests \/ kernel_main_SmpSkipped \/ kernel_main_Vfs
    <2>1. UNCHANGED <<machine, pciVars>>
      BY <1>2, Zenon DEF kernel_main_Requests, kernel_main_SmpSkipped, kernel_main_Vfs, Goto
    <2>2. phase \in {"entry", "smp", "vfs"} /\ phase' \in {"smp", "vfs", "devices", "halted", "panicked"}
      BY <1>2 DEF kernel_main_Requests, kernel_main_SmpSkipped, kernel_main_Vfs, Goto
    <2>3. /\ phase \in {"entry", "smp", "vfs", "devices"}
          /\ phase' \notin {"hpet", "net", "idle"} /\ phase' \notin {"pci", "hpet", "net", "idle"}
      BY <2>2
    <2> QED
      BY <2>1, <2>3, ScanSame, Zenon
  <1>3. CASE kernel_main_Smp
    <2>1. UNCHANGED <<machine, pciVars>> /\ phase = "smp" /\ (phase' = "vfs" \/ phase' = phase)
      BY <1>3, Zenon DEF kernel_main_Smp
    <2>2. /\ phase \in {"entry", "smp", "vfs", "devices"}
          /\ phase' \notin {"hpet", "net", "idle"} /\ phase' \notin {"pci", "hpet", "net", "idle"}
      BY <2>1
    <2> QED
      BY <2>1, <2>2, ScanSame, Zenon
  <1>4. CASE kernel_main_PciOverflow \/ kernel_main_HpetFault
    <2>1. UNCHANGED <<machine, pciVars>> /\ phase' = "panicked"
      BY <1>4, Zenon DEF kernel_main_PciOverflow, kernel_main_HpetFault, Goto
    <2>2. /\ phase' \notin {"entry", "smp", "vfs", "devices"}
          /\ phase' \notin {"hpet", "net", "idle"} /\ phase' \notin {"pci", "hpet", "net", "idle"}
      BY <2>1
    <2> QED
      BY <2>1, <2>2, ScanSame, Zenon
  <1>5. CASE kernel_main_Hpet \/ kernel_main_Net
    <2>1. UNCHANGED <<machine, pciVars>> /\ ((phase = "hpet" /\ phase' = "net") \/ (phase = "net" /\ phase' = "idle"))
      BY <1>5, Zenon DEF kernel_main_Hpet, kernel_main_Net, Goto
    <2>2. /\ phase' \notin {"entry", "smp", "vfs", "devices"}
          /\ phase \in {"hpet", "net", "idle"} /\ phase \in {"pci", "hpet", "net", "idle"}
      BY <2>1
    <2> QED
      BY <2>1, <2>2, ScanSame, Zenon
  <1>6. CASE kernel_main
    BY <1>2, <1>3, <1>4, <1>5, <1>6, PciStep, DevicesStep, Zenon DEF kernel_main
  <1> QED
    BY <1>1, <1>6, Zenon DEF Next

(* The card in use is one of those on bus 0.                               *)
CardInv == g_device_found => g_io_base \in DOMAIN cards

LEMMA FirstCard ==
  ASSUME DOMAIN cards # {}
  PROVE  pci_find_virtio_net \in DOMAIN cards
  <1>1. DOMAIN cards \subseteq 0..(MaxDev - 1)
    BY Zenon DEF cards
  <1>2. DOMAIN cards \in SUBSET Nat
    BY <1>1, PciAssumption
  <1>3. \E d \in DOMAIN cards : \A e \in DOMAIN cards : d <= e
    BY <1>2, LeastNumber, Zenon
  <1> QED
    BY <1>3, Zenon DEF pci_find_virtio_net

LEMMA CardStep == CardInv /\ [Next]_vars => CardInv'
  <1> SUFFICES ASSUME CardInv, [Next]_vars PROVE CardInv'
    OBVIOUS
  <1>1. machine' = machine
    BY Zenon DEF Next, vars, kernel_main, kernel_main_Requests, kernel_main_SmpSkipped, kernel_main_Smp, kernel_main_Vfs,
       kernel_main_Devices, kernel_main_Pci, kernel_main_PciOverflow, kernel_main_HpetFault, kernel_main_Hpet,
       kernel_main_Net, Goto, ApStep, Millisecond, UseClock, UseCard, UseDevices, UseScreen, Using
  <1>2. DOMAIN cards' = DOMAIN cards
    BY <1>1 DEF cards
  <1>3. CASE UseCard /\ eth_probe
    <2>1. DOMAIN cards # {} /\ g_io_base' = pci_find_virtio_net
      BY <1>3, Zenon DEF eth_probe, virtio_net_init
    <2> QED
      BY <1>2, <2>1, FirstCard, Zenon DEF CardInv
  <1>4. CASE g_device_found' = g_device_found /\ g_io_base' = g_io_base
    BY <1>2, <1>4, Zenon DEF CardInv
  <1>5. CASE UseCard /\ ~eth_probe
    BY <1>4, <1>5, Zenon DEF UseCard, UseNic, eth_set_mac
  <1>6. CASE UNCHANGED vars \/ (\E c \in Id : ApStep(c)) \/ Millisecond \/ UseClock \/ UseDevices \/ UseScreen
    BY <1>4, <1>6, Zenon DEF vars, cardVars, ApStep, Millisecond, UseClock, UseDevices, UseScreen
  <1>7. CASE kernel_main
    BY <1>4, <1>7, Zenon DEF cardVars, kernel_main, kernel_main_Requests, kernel_main_SmpSkipped, kernel_main_Smp,
       kernel_main_Vfs, kernel_main_Devices, kernel_main_Pci, kernel_main_PciOverflow, kernel_main_HpetFault,
       kernel_main_Hpet, kernel_main_Net, eth_get_mac
  <1> QED
    BY <1>3, <1>5, <1>6, <1>7, Zenon DEF Next

LEMMA ScanIsExact ==
  ASSUME ScanInv, CardInv
  PROVE  ScanExact
  <1> SUFFICES ASSUME phase \in {"hpet", "net", "idle"}
               PROVE  /\ {p \in DOMAIN functions : reported[p] > 0} = Visible
                      /\ OneBridgeEach => \A p \in Visible : reported[p] = 1
                      /\ g_device_found => <<0, g_io_base, 0>> \in Visible
    BY Zenon DEF ScanExact
  <1>1. phase \in {"pci", "hpet", "net", "idle"}
    OBVIOUS
  <1>2. ScanTypes /\ ScanCounts /\ calls = << >>
    BY <1>1, Zenon DEF ScanInv
  <1>3. ASSUME NEW d \in DOMAIN cards PROVE <<0, d, 0>> \in Visible
    <2>1. <<0, d, 0>> \in DOMAIN functions
      BY Zenon DEF cards, functions
    <2>2. <<0, d, 0>>[3] = 0 /\ <<0, d, 0>>[1] = 0
      OBVIOUS
    <2>3. 0 \in ReachableBuses
      BY ReachableClosed, Zenon DEF Closed
    <2> QED
      BY <2>1, <2>2, <2>3, Zenon DEF Visible, Probed
  <1> QED
    BY <1>2, <1>3, AllReported, ReportedOnce, Zenon DEF CardInv

(* On every machine, whatever its buses and bridges: a scan that ends has  *)
(* reported exactly the functions visible from bus 0, each once if no bus  *)
(* is behind two bridges, and the card that eth_probe takes into use is    *)
(* one of them.                                                            *)
THEOREM ScansAreExact == Spec => []ScanExact
  <1>1. Init => CardInv
    BY Zenon DEF Init, VirtioInit, CardInv
  <1>2. ScanInv /\ CardInv => ScanExact
    BY ScanIsExact, Zenon
  <1> QED
    BY <1>1, <1>2, ScanStarts, ScanStep, CardStep, PTL DEF Spec
=============================================================================

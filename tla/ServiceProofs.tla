--------------------------- MODULE ServiceProofs ---------------------------
(***************************************************************************)
(* What programs rely on when they use files and sockets, proved of Vfs,   *)
(* of TmpfsFile and of Net: the links of the name space stay a tree and    *)
(* every node that nothing hides is found under its path; a                *)
(* tmpfs file is a byte file of one page; a socket gets its own datagrams, *)
(* and a frame goes to the host that it is for.                            *)
(***************************************************************************)
EXTENDS Vfs, TmpfsFile, Net, NaturalsInduction, WellFoundedInduction, TLAPS

-----------------------------------------------------------------------------
(* Recursion: a value for every member of K, from the value of another one *)
(* that is smaller.                                                        *)

LEMMA LeastNumber ==
  ASSUME NEW S \in SUBSET Nat, S # {}
  PROVE  \E n \in S : \A m \in S : n <= m
  <1> DEFINE R == OpToRel(<, Nat)
  <1>1. IsWellFoundedOn(R, Nat)
    BY NatLessThanWellFounded, Zenon
  <1> HIDE DEF R
  <1>2. PICK n \in S : \A m \in S : ~ (<<m, n>> \in R)
    BY <1>1, WFMin, Zenon
  <1>3. \A m \in S : ~ (m < n)
    BY <1>2, Zenon DEF R, OpToRel
  <1> QED
    BY <1>3

(* The recursion that stops at the members n with up[n] = n. *)
Follows(f, K, up, base, G) == \A n \in K : f[n] = IF up[n] = n THEN base[n] ELSE G[n][f[up[n]]]

Upwards(K, up) == \A n \in K : up[n] \in K /\ (up[n] = n \/ up[n] < n)

LEMMA Recursion ==
  ASSUME NEW M \in Nat, NEW K \in SUBSET (0..M), NEW V, NEW up, Upwards(K, up),
         NEW base \in [K -> V], NEW G \in [K -> [V -> V]]
  PROVE  \E f \in [K -> V] : Follows(f, K, up, base, G)
  <1> DEFINE Below(k) == {n \in K : n < k}
             D == {k \in Nat : ~ \E f \in [Below(k) -> V] : Follows(f, Below(k), up, base, G)}
  <1>1. \A n \in K : n \in Nat /\ n < M + 1
    OBVIOUS
  <1>2. D = {}
    <2> SUFFICES ASSUME D # {} PROVE FALSE
      OBVIOUS
    <2>1. D \in SUBSET Nat
      OBVIOUS
    <2>2. PICK k \in D : \A j \in D : k <= j
      <3> HIDE DEF D
      <3> QED
        BY <2>1, LeastNumber
    <2>3. k \in Nat /\ ~ \E f \in [Below(k) -> V] : Follows(f, Below(k), up, base, G)
      BY Zenon
    <2>b. k \in Nat
      BY <2>3, Zenon
    <2>a. ASSUME NEW j \in Nat, j < k
          PROVE  \E f \in [Below(j) -> V] : Follows(f, Below(j), up, base, G)
      <3>1. j \notin D
        <4> HIDE DEF D
        <4> QED
          BY <2>2, <2>3, <2>a
      <3> QED
        BY <3>1, Zenon
    <2> HIDE DEF D
    <2>4. CASE k = 0
      <3>1. Below(k) = {}
        <4>1. \A n \in K : ~(n < 0)
          BY <1>1
        <4> QED
          BY <2>4, <4>1, Zenon
      <3>2. [n \in {} |-> base[n]] \in [Below(k) -> V] /\ Follows([n \in {} |-> base[n]], Below(k), up, base, G)
        BY <3>1 DEF Follows
      <3> QED
        BY <2>3, <3>2, Zenon
    <2>5. CASE k # 0
      <3>1. k - 1 \in Nat /\ k - 1 < k
        BY <2>b, <2>5
      <3>3. ASSUME NEW n \in Below(k) PROVE up[n] = n \/ up[n] \in Below(k - 1)
        <4>1. n \in K /\ n < k /\ n \in Nat /\ up[n] \in K /\ up[n] \in Nat /\ (up[n] = n \/ up[n] < n)
          BY <1>1, Zenon DEF Upwards
        <4>2. up[n] < n => up[n] < k - 1
          BY <2>b, <4>1
        <4> QED
          BY <4>1, <4>2, Zenon
      <3>5. ASSUME NEW n \in Below(k - 1) PROVE n \in Below(k)
        <4>1. n \in Nat /\ n < k - 1
          BY <1>1, Zenon
        <4>2. n < k
          BY <2>b, <4>1
        <4> QED
          BY <4>2, Zenon
      <3>2. PICK f \in [Below(k - 1) -> V] : Follows(f, Below(k - 1), up, base, G)
        BY <2>a, <3>1, Zenon
      <3> DEFINE g == [n \in Below(k) |-> IF n \in Below(k - 1) THEN f[n]
                                          ELSE IF up[n] = n THEN base[n] ELSE G[n][f[up[n]]]]
      <3>4. \A n \in Below(k) : g[n] \in V
        <4> TAKE n \in Below(k)
        <4>1. g[n] = IF n \in Below(k - 1) THEN f[n] ELSE IF up[n] = n THEN base[n] ELSE G[n][f[up[n]]]
          BY Zenon
        <4>2. n \in K /\ base[n] \in V /\ G[n] \in [V -> V]
          BY Zenon
        <4> HIDE DEF g, Below
        <4> QED
          BY <3>2, <3>3, <4>1, <4>2, Zenon
      <3>6. Follows(g, Below(k), up, base, G)
        <4> SUFFICES ASSUME NEW n \in Below(k) PROVE g[n] = IF up[n] = n THEN base[n] ELSE G[n][g[up[n]]]
          BY Zenon DEF Follows
        <4>1. g[n] = IF n \in Below(k - 1) THEN f[n] ELSE IF up[n] = n THEN base[n] ELSE G[n][f[up[n]]]
          BY Zenon
        <4>2. n \in Below(k - 1) => f[n] = IF up[n] = n THEN base[n] ELSE G[n][f[up[n]]]
          BY <3>2, Zenon DEF Follows
        <4>3. up[n] \in Below(k - 1) => g[up[n]] = f[up[n]]
          BY <3>5, Zenon
        <4> HIDE DEF g, Below
        <4> QED
          BY <3>3, <4>1, <4>2, <4>3, Zenon
      <3>7. g \in [Below(k) -> V]
        BY <3>4, ZenonT(30)
      <3> HIDE DEF g, Below
      <3> QED
        BY <2>3, <3>6, <3>7, Zenon
    <2> QED
      BY <2>4, <2>5, Zenon
  <1>3. Below(M + 1) = K
    BY <1>1, ZenonT(30)
  <1>4. M + 1 \notin D
    BY <1>2, Zenon
  <1>b. M + 1 \in Nat
    OBVIOUS
  <1>5. \E f \in [Below(M + 1) -> V] : Follows(f, Below(M + 1), up, base, G)
    BY <1>4, <1>b, Zenon
  <1> QED
    BY <1>3, <1>5, Zenon


-----------------------------------------------------------------------------
(* The inductive invariant *)

(* Nodes are handed out in order, so that a parent has a smaller number    *)
(* than its children: every recursion along the parents ends.              *)
Numbered ==
  /\ \A n \in live : \A m \in 5..(n - 1) : m \in live
  /\ \A n \in live \ {Root, DevRoot} :
       /\ parent[n] \in live /\ parent[n] < n
       /\ type[parent[n]] = "DIRECTORY"
       /\ name[n] \notin {".", ".."}

(* What vfs_init leaves, and what nothing changes after it. *)
Booted ==
  /\ live # {} => Root \in live
  /\ DevRoot \in live => DevMountPoint \in live
  /\ kMountList \in {<<>>, <<<<DevMountPoint, DevRoot>>>>}
  /\ kMountList # <<>> => DevRoot \in live
  /\ DevMountPoint \in live => name[DevMountPoint] = "dev"

TreeInv ==
  /\ TreeLinked /\ Numbered /\ Booted
  /\ \A n \in Node \ live : children[n] = <<>>
  /\ \A n \in live : type[n] = "DIRECTORY" => opens[n]
  /\ \A n \in Known \ {Root, DevRoot} : parent[n] \in Known


(* TreeLinked, said of each entry of a child list. *)
Links(lv, ch, pa, na) ==
  /\ \A d \in lv : \A i \in DOMAIN ch[d] : pa[ch[d][i]] = d /\ ch[d][i] \notin {Root, DevRoot}
  /\ \A n \in lv \ {Root, DevRoot} : pa[n] \in lv => \E i \in DOMAIN ch[pa[n]] : ch[pa[n]][i] = n
  /\ \A d \in lv : \A i, j \in DOMAIN ch[d] : ch[d][i] = ch[d][j] => i = j
  /\ \A d \in lv : \A i, j \in DOMAIN ch[d] : na[ch[d][i]] = na[ch[d][j]] => i = j \/ na[ch[d][i]] \in CutNames

Tree(lv, ch, pa, na) ==
  /\ \A d \in lv, n \in lv :
       LET places == {i \in DOMAIN ch[d] : ch[d][i] = n}
       IN  IF d = pa[n] /\ n \notin {Root, DevRoot} THEN \E i \in places : places = {i} ELSE places = {}
  /\ \A d \in lv : \A i, j \in DOMAIN ch[d] : na[ch[d][i]] = na[ch[d][j]] => i = j \/ na[ch[d][i]] \in CutNames

LEMMA TreeOfLinks ==
  ASSUME NEW lv, NEW ch, NEW pa, NEW na, \A d \in lv : \A i \in DOMAIN ch[d] : ch[d][i] \in lv
  PROVE  Tree(lv, ch, pa, na) <=> Links(lv, ch, pa, na)
  <1> DEFINE places(d, n) == {i \in DOMAIN ch[d] : ch[d][i] = n}
             Place(d, n) == IF d = pa[n] /\ n \notin {Root, DevRoot} THEN \E i \in places(d, n) : places(d, n) = {i} ELSE places(d, n) = {}
             Apart == \A d \in lv : \A i, j \in DOMAIN ch[d] : na[ch[d][i]] = na[ch[d][j]] => i = j \/ na[ch[d][i]] \in CutNames
  <1>1. Tree(lv, ch, pa, na) <=> (\A d \in lv, n \in lv : Place(d, n)) /\ Apart
    BY Zenon DEF Tree
  <1>2. ASSUME Links(lv, ch, pa, na), NEW d \in lv, NEW n \in lv PROVE Place(d, n)
    <2>1. CASE d = pa[n] /\ n \notin {Root, DevRoot}
      <3>1. PICK i \in DOMAIN ch[d] : ch[d][i] = n
        BY <1>2, <2>1, Zenon DEF Links
      <3>2. \A j \in DOMAIN ch[d] : ch[d][j] = n => j = i
        BY <1>2, <3>1, Zenon DEF Links
      <3>3. places(d, n) = {i}
        BY <3>1, <3>2, Zenon
      <3>4. i \in places(d, n)
        BY <3>1, Zenon
      <3> HIDE DEF places
      <3> QED
        BY <2>1, <3>3, <3>4, Zenon
    <2>2. CASE ~(d = pa[n] /\ n \notin {Root, DevRoot})
      <3>1. places(d, n) = {}
        <4>1. ASSUME NEW i \in DOMAIN ch[d], ch[d][i] = n PROVE FALSE
          <5>1. pa[ch[d][i]] = d /\ ch[d][i] \notin {Root, DevRoot}
            BY <1>2, Zenon DEF Links
          <5> QED
            BY <2>2, <4>1, <5>1
        <4> QED
          BY <4>1, Zenon
      <3> HIDE DEF places
      <3> QED
        BY <2>2, <3>1, Zenon
    <2> QED
      BY <2>1, <2>2, Zenon
  <1>3. ASSUME \A d \in lv, n \in lv : Place(d, n), Apart PROVE Links(lv, ch, pa, na)
    <2>1. ASSUME NEW d \in lv, NEW i \in DOMAIN ch[d] PROVE pa[ch[d][i]] = d /\ ch[d][i] \notin {Root, DevRoot}
      <3>1. ch[d][i] \in lv /\ i \in places(d, ch[d][i])
        BY Zenon
      <3>2. Place(d, ch[d][i])
        BY <1>3, <3>1, Zenon
      <3>3. places(d, ch[d][i]) # {}
        BY <3>1, Zenon
      <3> HIDE DEF places
      <3> QED
        BY <3>2, <3>3, Zenon
    <2>2. ASSUME NEW n \in lv \ {Root, DevRoot}, pa[n] \in lv PROVE \E i \in DOMAIN ch[pa[n]] : ch[pa[n]][i] = n
      <3>1. Place(pa[n], n)
        BY <1>3, <2>2, Zenon
      <3> QED
        BY <3>1, Zenon
    <2>3. ASSUME NEW d \in lv, NEW i \in DOMAIN ch[d], NEW j \in DOMAIN ch[d], ch[d][i] = ch[d][j] PROVE i = j
      <3> DEFINE n == ch[d][i]
      <3>1. n \in lv /\ i \in places(d, n) /\ j \in places(d, n)
        BY <2>3, Zenon
      <3>2. Place(d, n)
        BY <1>3, <3>1, Zenon
      <3>3. \E k \in places(d, n) : places(d, n) = {k}
        <4> HIDE DEF places, n
        <4> QED
          BY <3>1, <3>2, Zenon
      <3>4. \A P : (i \in P /\ j \in P /\ \E k \in P : P = {k}) => i = j
        OBVIOUS
      <3> HIDE DEF places, n
      <3> QED
        BY <3>1, <3>3, <3>4, Zenon
    <2> QED
      BY <1>3, <2>1, <2>2, <2>3, Zenon DEF Links
  <1>4. Links(lv, ch, pa, na) => Apart
    BY Zenon DEF Links
  <1> HIDE DEF Place, Apart
  <1> QED
    BY <1>1, <1>2, <1>3, <1>4, Zenon


LEMMA Constants ==
  /\ \A n \in Node : n \in Nat \ {0}
  /\ 1 \in Node /\ 2 \in Node /\ 3 \in Node /\ 4 \in Node
  /\ Root = 1 /\ DevMountPoint = 2 /\ DevRoot = 3 /\ NullDev = 4
  <1>1. MaxNodes \in Nat /\ MaxNodes >= 4
    BY VfsAssumption, Zenon
  <1>2. /\ \A n \in 1..MaxNodes : n \in Nat \ {0}
        /\ 1 \in 1..MaxNodes /\ 2 \in 1..MaxNodes /\ 3 \in 1..MaxNodes /\ 4 \in 1..MaxNodes
    BY <1>1
  <1> QED
    BY <1>2, Zenon DEF Node, Root, DevMountPoint, DevRoot, NullDev

LEMMA TreeForm ==
  ASSUME VfsTypeOK
  PROVE  TreeLinked <=> Links(live, children, parent, name)
  <1>1. \A d \in live : \A i \in DOMAIN children[d] : children[d][i] \in live
    BY DEF VfsTypeOK
  <1>2. Tree(live, children, parent, name) <=> Links(live, children, parent, name)
    BY <1>1, TreeOfLinks
  <1> QED
    BY <1>2, Zenon DEF TreeLinked, Tree

LEMMA TreeFormNext ==
  ASSUME VfsTypeOK'
  PROVE  TreeLinked' <=> Links(live', children', parent', name')
  <1>1. \A d \in live' : \A i \in DOMAIN children'[d] : children'[d][i] \in live'
    BY DEF VfsTypeOK
  <1>2. Tree(live', children', parent', name') <=> Links(live', children', parent', name')
    BY <1>1, TreeOfLinks
  <1> QED
    BY <1>2, Zenon DEF TreeLinked, Tree

-----------------------------------------------------------------------------
(* vfs_init *)

(* What vfs_init leaves when it got the nodes b. *)
BootNodes(b) ==
  /\ b \subseteq {1, 2, 3, 4} /\ (2 \in b => 1 \in b) /\ (3 \in b => 2 \in b) /\ (4 \in b => 3 \in b)

AfterBoot(b) ==
  /\ live = b
  /\ 1 \in b => parent[1] = 1 /\ opens[1]
  /\ 2 \in b => parent[2] = 1 /\ name[2] = "dev" /\ opens[2] /\ children[1] = <<2>>
  /\ 2 \notin b => children[1] = <<>>
  /\ 3 \in b => opens[3]
  /\ 4 \in b => parent[4] = 3 /\ name[4] = "null" /\ children[3] = <<4>>
  /\ 4 \notin b => children[3] = <<>>
  /\ \A n \in Node \ {1, 3} : children[n] = <<>>
  /\ \A n \in {1, 2, 3} : type[n] = "DIRECTORY"
  /\ type[4] = "CHAR_DEVICE"
  /\ kMountList = <<>> \/ (kMountList = <<<<2, 3>>>> /\ 3 \in b)

LEMMA Booting ==
  ASSUME NEW b \in Boots, NEW mounts \in BOOLEAN, mounts => DevRoot \in b, vfs_init(b, mounts)
  PROVE  BootNodes(b) /\ AfterBoot(b) /\ VfsTypeOK
  <1>1. BootNodes(b)
    <2>1. b \subseteq 1..4 /\ (2 \in b => 2 - 1 \in b) /\ (3 \in b => 3 - 1 \in b) /\ (4 \in b => 3 \in b)
      BY Zenon DEF Boots, DevMountPoint, DevRoot, NullDev
    <2>2. 2 - 1 = 1 /\ 3 - 1 = 2 /\ 1..4 = {1, 2, 3, 4}
      OBVIOUS
    <2> QED
      BY <2>1, <2>2, Zenon DEF BootNodes
  <1>2. 1 \in Node /\ 2 \in Node /\ 3 \in Node /\ 4 \in Node /\ b \subseteq Node
    BY <1>1, Constants, Zenon DEF BootNodes
  <1>3. 1 # 2 /\ 1 # 3 /\ 1 # 4 /\ 2 # 3 /\ 2 # 4 /\ 3 # 4
    OBVIOUS
  <1>4. /\ parent = [n \in Node |-> CASE n \in b \cap {1, 2} -> 1 [] n \in b \cap {4} -> 3
                                     [] n = 3 /\ mounts -> 2 [] OTHER -> 0]
        /\ children = [n \in Node |-> CASE n = 1 /\ 2 \in b -> <<2>> [] n = 3 /\ 4 \in b -> <<4>> [] OTHER -> <<>>]
        /\ opens = [n \in Node |-> n \in b \ {4}]
        /\ kMountList = IF mounts THEN <<<<2, 3>>>> ELSE <<>>
        /\ type = [n \in Node |-> IF n = 4 THEN "CHAR_DEVICE" ELSE "DIRECTORY"]
        /\ name = [n \in Node |-> CASE n = 1 -> "/" [] n = 4 -> "null" [] OTHER -> "dev"]
        /\ live = b
    BY Zenon DEF vfs_init, Root, DevMountPoint, DevRoot, NullDev
  <1>5. /\ 1 \in b => parent[1] = 1 /\ opens[1]
        /\ 2 \in b => parent[2] = 1 /\ opens[2]
        /\ 3 \in b => opens[3]
        /\ 4 \in b => parent[4] = 3
    BY <1>2, <1>3, <1>4, Zenon
  <1>6. /\ 2 \in b => children[1] = <<2>>
        /\ 2 \notin b => children[1] = <<>>
        /\ 4 \in b => children[3] = <<4>>
        /\ 4 \notin b => children[3] = <<>>
        /\ \A n \in Node \ {1, 3} : children[n] = <<>>
    BY <1>2, <1>3, <1>4, Zenon
  <1>7. type[1] = "DIRECTORY" /\ type[2] = "DIRECTORY" /\ type[3] = "DIRECTORY" /\ type[4] = "CHAR_DEVICE"
    BY <1>2, <1>3, <1>4, Zenon
  <1>8. name[2] = "dev" /\ name[4] = "null"
    BY <1>2, <1>3, <1>4, Zenon
  <1>9. kMountList = <<>> \/ (kMountList = <<<<2, 3>>>> /\ 3 \in b)
    <2>0. kMountList = IF mounts THEN <<<<2, 3>>>> ELSE <<>>
      BY <1>4, Zenon
    <2>1. CASE mounts
      BY <2>0, <2>1, Zenon DEF DevRoot
    <2>2. CASE ~mounts
      <3>1. kMountList = <<>>
        BY <2>0, <2>2, Zenon
      <3> QED
        BY <3>1, Zenon
    <2> QED
      BY <2>1, <2>2, Zenon
  <1>10. AfterBoot(b)
    BY <1>4, <1>5, <1>6, <1>7, <1>8, <1>9, Zenon DEF AfterBoot
  <1>11. VfsTypeOK
    <2>1. live \subseteq Node
      BY <1>2, <1>4, Zenon
    <2>2. name \in [Node -> Names]
      BY <1>4, VfsAssumption, Zenon DEF Short
    <2>3. type \in [Node -> {"FILE", "DIRECTORY", "CHAR_DEVICE"}]
      BY <1>4, Zenon
    <2>4. parent \in [Node -> {0} \cup live]
      <3>1. ASSUME NEW n \in Node PROVE parent[n] \in {0} \cup b
        BY <1>1, <1>4, Zenon DEF BootNodes, DevRoot
      <3> QED
        BY <1>4, <3>1, Zenon
    <2>5. children \in [Node -> Seq(live)]
      <3>1. <<>> \in Seq(b) /\ (2 \in b => <<2>> \in Seq(b)) /\ (4 \in b => <<4>> \in Seq(b))
        OBVIOUS
      <3>2. ASSUME NEW n \in Node PROVE children[n] \in Seq(b)
        BY <1>6, <3>1, Zenon
      <3> QED
        BY <1>4, <3>2, Zenon
    <2>6. opens \in [Node -> BOOLEAN]
      <3>1. ASSUME NEW n \in Node PROVE opens[n] \in BOOLEAN
        <4>1. opens[n] = (n \in b \ {4})
          BY <1>4, Zenon
        <4>2. (n \in b \ {4}) \in BOOLEAN
          OBVIOUS
        <4> QED
          BY <4>1, <4>2, Zenon
      <3> QED
        BY <1>4, <3>1, Zenon
    <2>7. kMountList \in Seq(live \X live)
      <3>1. <<>> \in Seq(b \X b) /\ (2 \in b /\ 3 \in b => <<<<2, 3>>>> \in Seq(b \X b))
        OBVIOUS
      <3> QED
        BY <1>1, <1>4, <1>9, <3>1, Zenon DEF BootNodes
    <2> QED
      BY <2>1, <2>2, <2>3, <2>4, <2>5, <2>6, <2>7, Zenon DEF VfsTypeOK
  <1> QED
    BY <1>1, <1>10, <1>11, Zenon

LEMMA TreeInvInit == VfsInit => TreeInv
  <1>1. SUFFICES ASSUME NEW b, BootNodes(b), AfterBoot(b), VfsTypeOK PROVE TreeInv
    BY Booting, Zenon DEF VfsInit
  <1>2. Links(live, children, parent, name)
    <2>1. ASSUME NEW d \in live, NEW i \in DOMAIN children[d]
          PROVE  i = 1 /\ parent[children[d][i]] = d /\ children[d][i] \notin {Root, DevRoot}
      <3>1. d \in Node
        BY <1>1, Zenon DEF VfsTypeOK
      <3>2. (d = 1 /\ 2 \in b) \/ (d = 3 /\ 4 \in b) \/ children[d] = <<>>
        BY <1>1, <3>1 DEF BootNodes, AfterBoot
      <3>3. CASE d = 1 /\ 2 \in b
        BY <1>1, <3>3, Constants DEF AfterBoot
      <3>4. CASE d = 3 /\ 4 \in b
        BY <1>1, <3>4, Constants DEF AfterBoot
      <3>5. CASE children[d] = <<>>
        BY <3>5
      <3> QED
        BY <3>2, <3>3, <3>4, <3>5, Zenon
    <2>2. ASSUME NEW n \in live \ {Root, DevRoot}
          PROVE  \E i \in DOMAIN children[parent[n]] : children[parent[n]][i] = n
      <3>1. (n = 2 \/ n = 4) /\ n \in b
        BY <1>1, Constants, Zenon DEF BootNodes, AfterBoot
      <3>2. CASE n = 2
        BY <1>1, <3>1, <3>2 DEF AfterBoot
      <3>3. CASE n = 4
        BY <1>1, <3>1, <3>3 DEF AfterBoot
      <3> QED
        BY <3>1, <3>2, <3>3, Zenon
    <2>3. ASSUME NEW d \in live, NEW i \in DOMAIN children[d], NEW j \in DOMAIN children[d] PROVE i = j
      <3>1. i = 1 /\ j = 1
        BY <2>1, Zenon
      <3> QED
        BY <3>1
    <2>4. \A d \in live : \A i \in DOMAIN children[d] : parent[children[d][i]] = d /\ children[d][i] \notin {Root, DevRoot}
      BY <2>1, Zenon
    <2> QED
      BY <2>2, <2>3, <2>4, Zenon DEF Links
  <1>3. TreeLinked
    BY <1>1, <1>2, TreeForm, Zenon
  <1>4. Numbered
    <2>1. \A n \in live : n \in {1, 2, 3, 4}
      BY <1>1, Zenon DEF BootNodes, AfterBoot
    <2>2. ASSUME NEW n \in live, NEW m \in 5..(n - 1) PROVE m \in live
      BY <2>1
    <2>3. ASSUME NEW n \in live \ {Root, DevRoot}
          PROVE  /\ parent[n] \in live /\ parent[n] < n
                 /\ type[parent[n]] = "DIRECTORY" /\ name[n] \notin {".", ".."}
      <3>1. n = 2 \/ n = 4
        BY <2>1, Constants, Zenon
      <3>2. CASE n = 2
        BY <1>1, <3>2, Constants DEF BootNodes, AfterBoot
      <3>3. CASE n = 4
        BY <1>1, <3>3, Constants DEF BootNodes, AfterBoot
      <3> QED
        BY <3>1, <3>2, <3>3, Zenon
    <2> QED
      BY <2>2, <2>3, Zenon DEF Numbered
  <1>5. Booted
    BY <1>1, Constants, ZenonT(30) DEF BootNodes, AfterBoot, Booted
  <1>6. \A n \in Node \ live : children[n] = <<>>
    BY <1>1, Constants DEF BootNodes, AfterBoot
  <1>7. \A n \in live : type[n] = "DIRECTORY" => opens[n]
    BY <1>1, Constants DEF BootNodes, AfterBoot
  <1>8. \A n \in Known \ {Root, DevRoot} : parent[n] \in Known
    BY <1>1, Constants DEF BootNodes, AfterBoot, Known
  <1> QED
    BY <1>3, <1>4, <1>5, <1>6, <1>7, <1>8, Zenon DEF TreeInv


-----------------------------------------------------------------------------
(* Lookup *)

Hits(d, nm) == {i \in DOMAIN children[d] : name[children[d][i]] = nm}

(* A directory's open gives the first child of that name, if there is one. *)
LEMMA FirstHit ==
  ASSUME VfsTypeOK, NEW d \in live, NEW nm, nm # ".", nm # ".."
  PROVE  /\ Hits(d, nm) = {} => dir_open(d, nm) = 0
         /\ Hits(d, nm) # {} => \E i \in Hits(d, nm) : dir_open(d, nm) = children[d][i] /\ \A j \in Hits(d, nm) : i <= j
  <1> DEFINE H == Hits(d, nm)
             first == CHOOSE i \in H : \A j \in H : i <= j
  <1>1. dir_open(d, nm) = IF H = {} THEN 0 ELSE children[d][first]
    BY Zenon DEF dir_open, Hits
  <1>2. H \in SUBSET Nat
    BY DEF VfsTypeOK, Hits
  <1>3. ASSUME H # {} PROVE first \in H /\ \A j \in H : first <= j
    <2> HIDE DEF H
    <2>1. \E i \in H : \A j \in H : i <= j
      BY <1>2, <1>3, LeastNumber, Zenon
    <2> QED
      BY <2>1, Zenon
  <1> HIDE DEF H, first
  <1>4. H = Hits(d, nm)
    BY Zenon DEF H
  <1> QED
    BY <1>1, <1>3, <1>4, Zenon

(* Directories refuse the names they have, and the dot names. *)
LEMMA FreeName ==
  ASSUME VfsTypeOK, NEW d \in live, NEW nm, dir_open(d, nm) = 0
  PROVE  nm \notin {".", ".."} /\ \A i \in DOMAIN children[d] : name[children[d][i]] # nm
  <1>0. \A n \in live : n # 0
    BY Constants, Zenon DEF VfsTypeOK
  <1>1. nm # "."
    BY <1>0, Zenon DEF dir_open
  <1>2. nm # ".."
    BY <1>0, Zenon DEF dir_open
  <1>3. ASSUME Hits(d, nm) # {} PROVE FALSE
    <2>1. PICK i \in Hits(d, nm) : dir_open(d, nm) = children[d][i]
      BY <1>1, <1>2, <1>3, FirstHit, Zenon
    <2>2. children[d][i] \in live
      BY DEF Hits, VfsTypeOK
    <2> QED
      BY <1>0, <2>1, <2>2, Zenon
  <1> QED
    BY <1>1, <1>2, <1>3, Zenon DEF Hits


-----------------------------------------------------------------------------
(* vfs_mkdir, and the addition of a file *)

(* A child list after dir_add_child. *)
LEMMA Prepended ==
  ASSUME NEW S, NEW s \in Seq(S), NEW x
  PROVE  /\ DOMAIN (<<x>> \o s) = 1..(Len(s) + 1) /\ (<<x>> \o s)[1] = x
         /\ \A i \in DOMAIN s : i + 1 \in DOMAIN (<<x>> \o s) /\ (<<x>> \o s)[i + 1] = s[i]
         /\ \A i \in DOMAIN (<<x>> \o s) \ {1} : i - 1 \in DOMAIN s /\ (<<x>> \o s)[i] = s[i - 1]
         /\ <<x>> \o s \in Seq(S \cup {x})
  OBVIOUS

LEMMA Adding ==
  ASSUME TreeInv, NEW d \in Known, NEW nm \in Names, NEW new, NEW ty, NEW op,
         type[d] = "DIRECTORY", dir_open(d, nm) = 0, AddChild(d, new, nm, ty, op),
         ty \in {"FILE", "DIRECTORY"}, op \in BOOLEAN, ty = "FILE" \/ op
  PROVE  TreeInv'
  <1>1. /\ VfsTypeOK /\ Links(live, children, parent, name) /\ Numbered /\ Booted
        /\ \A n \in Node \ live : children[n] = <<>>
        /\ \A n \in live : type[n] = "DIRECTORY" => opens[n]
        /\ \A n \in Known \ {Root, DevRoot} : parent[n] \in Known
    BY TreeForm, Zenon DEF TreeInv, TreeLinked
  <1>2. /\ live' = live \cup {new} /\ name' = [name EXCEPT ![new] = str_cpy[nm]] /\ type' = [type EXCEPT ![new] = ty]
        /\ opens' = [opens EXCEPT ![new] = op] /\ parent' = [parent EXCEPT ![new] = d]
        /\ children' = [children EXCEPT ![d] = <<new>> \o @] /\ kMountList' = kMountList
    BY Zenon DEF AddChild
  <1>3. d \in live /\ d \in Node
    BY <1>1, Zenon DEF Known, VfsTypeOK
  <1>4. /\ new \in Node /\ new \notin live /\ new # Root /\ new # DevRoot /\ new # NullDev
        /\ \A m \in 5..(new - 1) : m \in live
    <2>1. new \in 5..MaxNodes /\ new \notin live /\ \A m \in 5..(new - 1) : m \in live
      BY Zenon DEF AddChild, Unused
    <2>2. new \in Node /\ new # 1 /\ new # 3 /\ new # 4
      BY <2>1, VfsAssumption DEF Node
    <2> QED
      BY <2>1, <2>2, Constants, Zenon
  <1>5. d < new /\ d # new
    <2>1. d \in Nat /\ new \in Nat /\ new >= 5 /\ d # new
      BY <1>3, <1>4, Constants DEF AddChild, Unused
    <2>2. new < d => new \in live
      BY <1>1, <1>3, <2>1 DEF Numbered
    <2> QED
      BY <1>4, <2>1, <2>2
  <1> DEFINE C == <<new>> \o children[d]
  <1>6. /\ name'[new] = str_cpy[nm] /\ type'[new] = ty /\ parent'[new] = d /\ children'[d] = C
        /\ \A n \in Node \ {new} : name'[n] = name[n] /\ type'[n] = type[n] /\ parent'[n] = parent[n] /\ opens'[n] = opens[n]
        /\ \A n \in Node \ {d} : children'[n] = children[n]
    BY <1>1, <1>2, <1>3, <1>4, Zenon DEF VfsTypeOK
  <1>o. opens'[new] = op
    BY <1>1, <1>2, <1>4, Zenon DEF VfsTypeOK
  <1>7. /\ DOMAIN C = 1..(Len(children[d]) + 1) /\ C[1] = new
        /\ \A i \in DOMAIN children[d] : i + 1 \in DOMAIN C /\ C[i + 1] = children[d][i]
        /\ \A i \in DOMAIN C \ {1} : i - 1 \in DOMAIN children[d] /\ C[i] = children[d][i - 1]
        /\ C \in Seq(live')
    <2>1. children[d] \in Seq(live)
      BY <1>1, <1>3, Zenon DEF VfsTypeOK
    <2> QED
      BY <1>2, <2>1, Prepended
  <1> HIDE DEF C
  <1>8. VfsTypeOK'
    <2>1. live' \subseteq Node /\ kMountList' \in Seq(live' \X live')
      BY <1>1, <1>2, <1>4 DEF VfsTypeOK
    <2>2. name' \in [Node -> Names] /\ parent' \in [Node -> {0} \cup live']
      BY <1>1, <1>2, <1>3, VfsAssumption, Zenon DEF VfsTypeOK
    <2>3. type' \in [Node -> {"FILE", "DIRECTORY", "CHAR_DEVICE"}] /\ opens' \in [Node -> BOOLEAN]
      BY <1>1, <1>2, Zenon DEF VfsTypeOK
    <2>4. ASSUME NEW n \in Node PROVE children'[n] \in Seq(live')
      <3>1. children[n] \in Seq(live)
        BY <1>1, Zenon DEF VfsTypeOK
      <3>2. Seq(live) \subseteq Seq(live')
        BY <1>2
      <3> QED
        BY <1>6, <1>7, <3>1, <3>2, Zenon
    <2>5. children' \in [Node -> Seq(live')]
      BY <1>1, <1>2, <2>4, Zenon DEF VfsTypeOK
    <2> QED
      BY <2>1, <2>2, <2>3, <2>5, Zenon DEF VfsTypeOK

  <1>9. /\ str_cpy[nm] # "." /\ str_cpy[nm] # ".."
        /\ \A i \in DOMAIN children[d] : name[children[d][i]] = str_cpy[nm] => str_cpy[nm] \in CutNames
    <2>1. nm # "." /\ nm # ".." /\ \A i \in DOMAIN children[d] : name[children[d][i]] # nm
      BY <1>1, <1>3, FreeName, Zenon
    <2>2. str_cpy[nm] \in Short => str_cpy[nm] = nm
      BY VfsAssumption, Zenon
    <2> QED
      BY <2>1, <2>2, Zenon DEF Short, CutNames
  <1>10. \A e \in live : \A i \in DOMAIN children[e] : children[e][i] \in live /\ children[e][i] # new /\ children[e][i] \in Node
    <2>1. \A e \in live : \A i \in DOMAIN children[e] : children[e][i] \in live
      BY <1>1 DEF VfsTypeOK
    <2> QED
      BY <1>1, <1>4, <2>1, Zenon DEF VfsTypeOK
  <1>11. children'[new] = <<>> /\ DOMAIN children'[new] = {}
    <2>1. children'[new] = <<>>
      BY <1>1, <1>4, <1>5, <1>6, Zenon
    <2> QED
      BY <2>1
  <1>12. Links(live', children', parent', name')
    <2>1. ASSUME NEW e \in live', NEW i \in DOMAIN children'[e]
          PROVE  parent'[children'[e][i]] = e /\ children'[e][i] \notin {Root, DevRoot}
      <3>1. e \in live
        BY <1>2, <1>11, <2>1, Zenon
      <3>2. CASE e # d
        <4>1. children'[e] = children[e]
          BY <1>1, <1>6, <3>1, <3>2, Zenon DEF VfsTypeOK
        <4>2. children[e][i] \in Node \ {new} /\ parent[children[e][i]] = e /\ children[e][i] \notin {Root, DevRoot}
          BY <1>1, <1>10, <3>1, <4>1, Zenon DEF Links
        <4> QED
          BY <1>6, <4>1, <4>2, Zenon
      <3>3. CASE e = d /\ i = 1
        BY <1>4, <1>6, <1>7, <3>3, Zenon
      <3>4. CASE e = d /\ i # 1
        <4>1. i - 1 \in DOMAIN children[d] /\ children'[e][i] = children[d][i - 1]
          BY <1>6, <1>7, <3>4, Zenon
        <4>2. children[d][i - 1] \in Node \ {new} /\ parent[children[d][i - 1]] = d /\ children[d][i - 1] \notin {Root, DevRoot}
          BY <1>1, <1>3, <1>10, <4>1 DEF Links
        <4> QED
          BY <1>6, <3>4, <4>1, <4>2, Zenon
      <3> QED
        BY <3>2, <3>3, <3>4, Zenon
    <2>2. ASSUME NEW n \in live' \ {Root, DevRoot}, parent'[n] \in live'
          PROVE  \E i \in DOMAIN children'[parent'[n]] : children'[parent'[n]][i] = n
      <3>1. CASE n = new
        <4>1. 1 \in DOMAIN C
          BY <1>1, <1>3, <1>7 DEF VfsTypeOK
        <4> QED
          BY <1>6, <1>7, <3>1, <4>1, Zenon
      <3>2. CASE n # new
        <4>1. n \in live /\ n \in Node /\ parent'[n] = parent[n] /\ parent[n] \in live /\ parent[n] \in Node
          BY <1>1, <1>2, <1>6, <3>2, Zenon DEF VfsTypeOK, Numbered
        <4>2. PICK i \in DOMAIN children[parent[n]] : children[parent[n]][i] = n
          BY <1>1, <4>1, Zenon DEF Links
        <4>3. CASE parent[n] # d
          BY <1>6, <4>1, <4>2, <4>3
        <4>4. CASE parent[n] = d
          <5>1. i \in DOMAIN children[d] /\ children[d][i] = n /\ children'[parent'[n]] = C
            BY <1>6, <4>1, <4>2, <4>4, Zenon
          <5>2. i + 1 \in DOMAIN C /\ C[i + 1] = n
            BY <1>7, <5>1, Zenon
          <5> QED
            BY <5>1, <5>2, Zenon
        <4> QED
          BY <4>3, <4>4, Zenon
      <3> QED
        BY <3>1, <3>2, Zenon
    <2>0. ASSUME NEW e \in live', NEW i \in DOMAIN children'[e], NEW j \in DOMAIN children'[e],
                 children'[e][i] = children'[e][j]
          PROVE  i = j
      <3>1. e \in live
        BY <1>2, <1>11, <2>0, Zenon
      <3>2. CASE e # d
        <4>1. children'[e] = children[e]
          BY <1>1, <1>6, <3>1, <3>2, Zenon DEF VfsTypeOK
        <4>2. \A k, l \in DOMAIN children[e] : children[e][k] = children[e][l] => k = l
          BY <1>1, <3>1, Zenon DEF Links
        <4> QED
          BY <2>0, <4>1, <4>2
      <3>3. CASE e = d
        <4>0. i \in DOMAIN C /\ j \in DOMAIN C /\ C[i] = C[j] /\ \A y \in DOMAIN children[d] : children[d][y] # new
          BY <1>3, <1>6, <1>10, <2>0, <3>3, Zenon
        <4>1. \A x \in DOMAIN C \ {1} : C[x] # new
          <5>1. ASSUME NEW x \in DOMAIN C \ {1} PROVE C[x] # new
            <6>1. x - 1 \in DOMAIN children[d] /\ C[x] = children[d][x - 1]
              BY <1>7, Zenon
            <6> QED
              BY <4>0, <6>1, Zenon
          <5> QED
            BY <5>1, Zenon
        <4>2. CASE i = 1 \/ j = 1
          BY <1>7, <4>0, <4>1, <4>2, Zenon
        <4>3. CASE i # 1 /\ j # 1
          <5>1. i - 1 = j - 1
            BY <1>1, <1>3, <1>7, <4>0, <4>3 DEF Links
          <5>2. i \in Int /\ j \in Int
            BY <1>6, <1>7, <3>3
          <5> QED
            BY <5>1, <5>2
        <4> QED
          BY <4>2, <4>3, Zenon
      <3> QED
        BY <3>2, <3>3, Zenon
    <2>3. ASSUME NEW e \in live', NEW i \in DOMAIN children'[e], NEW j \in DOMAIN children'[e],
                 name'[children'[e][i]] = name'[children'[e][j]], name'[children'[e][i]] \notin CutNames
          PROVE  i = j
      <3>1. e \in live
        BY <1>2, <1>11, <2>3, Zenon
      <3>2. CASE e # d
        <4>1. children'[e] = children[e]
          BY <1>1, <1>6, <3>1, <3>2, Zenon DEF VfsTypeOK
        <4>2. name'[children[e][i]] = name[children[e][i]] /\ name'[children[e][j]] = name[children[e][j]]
          BY <1>6, <1>10, <3>1, <4>1, Zenon
        <4> QED
          BY <1>1, <2>3, <3>1, <4>1, <4>2 DEF Links
      <3>3. CASE e = d
        <4>1. \A x \in DOMAIN C \ {1} : /\ x - 1 \in DOMAIN children[d] /\ C[x] = children[d][x - 1]
                                        /\ name'[C[x]] = name[children[d][x - 1]]
                                        /\ (name'[C[x]] = str_cpy[nm] => str_cpy[nm] \in CutNames)
          BY <1>3, <1>6, <1>7, <1>9, <1>10
        <4>2. name'[C[1]] = str_cpy[nm]
          BY <1>6, <1>7, Zenon
        <4>3. CASE i = 1 \/ j = 1
          BY <1>6, <2>3, <3>3, <4>1, <4>2, <4>3
        <4>4. CASE i # 1 /\ j # 1
          <5>1. i - 1 = j - 1
            BY <1>1, <1>3, <1>6, <2>3, <3>3, <4>1, <4>4 DEF Links
          <5>2. i \in Int /\ j \in Int
            BY <1>6, <1>7, <3>3
          <5> QED
            BY <5>1, <5>2
        <4> QED
          BY <4>3, <4>4, Zenon
      <3> QED
        BY <3>2, <3>3, Zenon
    <2> QED
      BY <2>0, <2>1, <2>2, <2>3, Zenon DEF Links
  <1>13. Numbered'
    <2>1. ASSUME NEW n \in live', NEW m \in 5..(n - 1) PROVE m \in live'
      BY <1>1, <1>2, <1>4, Zenon DEF Numbered
    <2>2. ASSUME NEW n \in live' \ {Root, DevRoot}
          PROVE  /\ parent'[n] \in live' /\ parent'[n] < n
                 /\ type'[parent'[n]] = "DIRECTORY" /\ name'[n] \notin {".", ".."}
      <3>1. CASE n = new
        BY <1>2, <1>3, <1>5, <1>6, <1>9, <3>1
      <3>2. CASE n # new
        <4>1. n \in live /\ n \in Node \ {new} /\ parent[n] \in live
          BY <1>1, <1>2, <3>2, Zenon DEF Numbered, VfsTypeOK
        <4>2. parent[n] \in Node \ {new} /\ parent[n] < n /\ type[parent[n]] = "DIRECTORY" /\ name[n] \notin {".", ".."}
          BY <1>1, <1>4, <4>1, Zenon DEF Numbered, VfsTypeOK
        <4> QED
          BY <1>2, <1>6, <4>1, <4>2
      <3> QED
        BY <3>1, <3>2, Zenon
    <2> QED
      BY <2>1, <2>2, Zenon DEF Numbered, Root, DevRoot
  <1>14. Booted'
    <2>1. Root \in live /\ (DevRoot \in live => DevMountPoint \in live) /\ (DevMountPoint \in live => name[DevMountPoint] = "dev")
          /\ kMountList \in {<<>>, <<<<DevMountPoint, DevRoot>>>>} /\ (kMountList # <<>> => DevRoot \in live)
      BY <1>1, <1>3, Zenon DEF Booted
    <2>2. /\ Root \in live' /\ (DevRoot \in live' => DevMountPoint \in live')
          /\ kMountList' \in {<<>>, <<<<DevMountPoint, DevRoot>>>>} /\ (kMountList' # <<>> => DevRoot \in live')
      BY <1>2, <1>4, <2>1, Zenon
    <2>3. DevMountPoint \in live' => name'[DevMountPoint] = "dev"
      <3>1. DevMountPoint \in Node \ {new}
        BY <1>4, Constants DEF AddChild, Unused
      <3> QED
        BY <1>2, <1>6, <2>1, <3>1, Zenon
    <2> QED
      BY <2>2, <2>3, Zenon DEF Booted, Root, DevRoot, DevMountPoint
  <1>15. \A n \in Node \ live' : children'[n] = <<>>
    BY <1>1, <1>2, <1>3, <1>6, Zenon
  <1>16. \A n \in live' : type'[n] = "DIRECTORY" => opens'[n]
    <2>1. ASSUME NEW n \in live', type'[n] = "DIRECTORY" PROVE opens'[n]
      <3>1. CASE n = new
        BY <1>6, <1>o, <2>1, <3>1, Zenon
      <3>2. CASE n # new
        BY <1>1, <1>2, <1>6, <2>1, <3>2, Zenon DEF VfsTypeOK
      <3> QED
        BY <3>1, <3>2, Zenon
    <2> QED
      BY <2>1, Zenon
  <1>17. \A n \in Known' \ {Root, DevRoot} : parent'[n] \in Known'
    <2>1. Known' = Known \cup {new}
      BY <1>2, <1>4, Zenon DEF Known, DevRoot, NullDev
    <2>2. Known \subseteq Node \ {new}
      BY <1>1, <1>4, Zenon DEF Known, VfsTypeOK
    <2> QED
      BY <1>1, <1>6, <2>1, <2>2, Zenon
  <1>18. TreeLinked'
    BY <1>8, <1>12, TreeFormNext, Zenon
  <1> QED
    BY <1>13, <1>14, <1>15, <1>16, <1>17, <1>18, Zenon DEF TreeInv, Root, DevRoot, Node


LEMMA TreeInvStep == TreeInv /\ [VfsNext]_vfsVars => TreeInv'
  <1> SUFFICES ASSUME TreeInv, [VfsNext]_vfsVars PROVE TreeInv'
    OBVIOUS
  <1>1. VfsTypeOK /\ (\A n \in live : type[n] = "DIRECTORY" => opens[n]) /\ Known \subseteq live
    BY Zenon DEF TreeInv, TreeLinked, Known
  <1>2. ASSUME NEW d \in Known, NEW nm \in Names, vfs_mkdir(d, nm) PROVE TreeInv'
    <2>1. PICK new \in Unused : AddChild(d, new, nm, "DIRECTORY", opens[d])
      BY <1>2, Zenon DEF vfs_mkdir
    <2>2. type[d] = "DIRECTORY" /\ opens[d] /\ opens[d] \in BOOLEAN
      BY <1>1, <1>2, Zenon DEF vfs_mkdir, VfsTypeOK
    <2>3. dir_open(d, nm) = 0
      BY <1>2, <2>2, Zenon DEF vfs_mkdir, Existing
    <2> QED
      BY <2>1, <2>2, <2>3, Adding, Zenon
  <1>3. ASSUME NEW d \in Known, NEW nm \in Names, AddFile(d, nm) PROVE TreeInv'
    <2>0. PICK op \in BOOLEAN : op = FALSE
      BY Zenon
    <2>1. PICK new \in Unused : AddChild(d, new, nm, "FILE", op)
      BY <1>3, <2>0, Zenon DEF AddFile
    <2>2. type[d] = "DIRECTORY" /\ dir_open(d, nm) = 0
      BY <1>3, Zenon DEF AddFile
    <2> QED
      BY <2>1, <2>2, Adding, Zenon
  <1>4. CASE UNCHANGED vfsVars
    <2>1. /\ live' = live /\ name' = name /\ type' = type /\ parent' = parent /\ children' = children
          /\ opens' = opens /\ kMountList' = kMountList
      BY <1>4, Zenon DEF vfsVars
    <2>2. VfsTypeOK' /\ Numbered' /\ Booted' /\ Known' = Known
      BY <2>1, Zenon DEF TreeInv, TreeLinked, VfsTypeOK, Numbered, Booted, Known, Node, Root, DevRoot, DevMountPoint, NullDev
    <2>3. Links(live, children, parent, name)
      BY <1>1, TreeForm, Zenon DEF TreeInv
    <2>4. TreeLinked'
      BY <2>1, <2>2, <2>3, TreeFormNext, Zenon
    <2> QED
      BY <2>1, <2>2, <2>4, Zenon DEF TreeInv, Node, Root, DevRoot
  <1> QED
    BY <1>2, <1>3, <1>4, Zenon DEF VfsNext

(* Whatever vfs_init got memory for, and whatever directories and files    *)
(* are then added, TreeInv holds.                                          *)
THEOREM TreeInvariant == VfsSpec => []TreeInv
  BY TreeInvInit, TreeInvStep, PTL DEF VfsSpec

(* The links of the nodes stay a tree, and a name that a directory lists   *)
(* twice is what create_node left of a longer one.                         *)
THEOREM TreeStaysLinked == VfsSpec => []TreeLinked
  <1>1. TreeInv => TreeLinked
    BY Zenon DEF TreeInv
  <1> QED
    BY <1>1, TreeInvariant, PTL


-----------------------------------------------------------------------------
(* Path resolution *)

LEMMA MountResolve ==
  ASSUME Booted, NEW n
  PROVE  mount_resolve(n) = IF kMountList # <<>> /\ n = DevMountPoint THEN DevRoot ELSE n
  <1>1. CASE kMountList = <<>>
    <2>1. ~ \E i \in DOMAIN kMountList : kMountList[i][1] = n
      BY <1>1
    <2> QED
      BY <1>1, <2>1, Zenon DEF mount_resolve
  <1>2. CASE kMountList = <<<<DevMountPoint, DevRoot>>>>
    <2>1. DOMAIN kMountList = {1} /\ kMountList[1][1] = DevMountPoint /\ kMountList[1][2] = DevRoot /\ kMountList # <<>>
      BY <1>2
    <2>2. \A j \in 1..(1 - 1) : kMountList[j][1] # n
      OBVIOUS
    <2>3. CASE n = DevMountPoint
      <3> DEFINE P(i) == kMountList[i][1] = n /\ \A j \in 1..(i - 1) : kMountList[j][1] # n
      <3>1. P(1)
        BY <2>1, <2>2, <2>3, Zenon
      <3>2. (CHOOSE i \in DOMAIN kMountList : P(i)) = 1
        <4> HIDE DEF P
        <4> QED
          BY <2>1, <3>1, Zenon
      <3>3. mount_resolve(n) = kMountList[1][2]
        BY <2>1, <2>3, <3>2, Zenon DEF mount_resolve
      <3> QED
        BY <2>1, <2>3, <3>3, Zenon
    <2>4. CASE n # DevMountPoint
      BY <2>1, <2>4, Zenon DEF mount_resolve
    <2> QED
      BY <2>3, <2>4, Zenon
  <1> QED
    BY <1>1, <1>2, Zenon DEF Booted

(* Going down to a child by its name. *)
LEMMA StepDown ==
  ASSUME TreeInv, NEW n \in live \ {Root, DevRoot}, ~Shadowed(n)
  PROVE  ResolveStep(parent[n], name[n]) = mount_resolve(n)
  <1>1. VfsTypeOK /\ Links(live, children, parent, name) /\ Numbered /\ (\A m \in live : type[m] = "DIRECTORY" => opens[m])
    BY TreeForm, Zenon DEF TreeInv, TreeLinked
  <1>2. \A m \in live : m # 0
    BY <1>1, Constants, Zenon DEF VfsTypeOK
  <1>3. /\ parent[n] \in live /\ parent[n] # 0 /\ opens[parent[n]]
        /\ name[n] # "." /\ name[n] # ".."
    BY <1>1, <1>2, Zenon DEF Numbered
  <1>4. PICK i \in DOMAIN children[parent[n]] : children[parent[n]][i] = n
    BY <1>1, <1>3, Zenon DEF Links
  <1>5. i \in Hits(parent[n], name[n])
    BY <1>4, Zenon DEF Hits
  <1>6. PICK j \in Hits(parent[n], name[n]) :
          dir_open(parent[n], name[n]) = children[parent[n]][j] /\ \A k \in Hits(parent[n], name[n]) : j <= k
    BY <1>1, <1>3, <1>5, FirstHit, Zenon
  <1>7. j = i
    <2>1. j \in DOMAIN children[parent[n]] /\ name[children[parent[n]][j]] = name[n] /\ j <= i
      BY <1>5, <1>6, Zenon DEF Hits
    <2>2. ~(j < i)
      BY <1>4, <2>1, Zenon DEF Shadowed
    <2>3. i \in Int /\ j \in Int
      BY <1>1, <1>3, <2>1 DEF VfsTypeOK
    <2> QED
      BY <2>1, <2>2, <2>3
  <1>8. dir_open(parent[n], name[n]) = n /\ n # 0
    BY <1>2, <1>4, <1>6, <1>7, Zenon
  <1> QED
    BY <1>3, <1>8, Zenon DEF ResolveStep

(* Every round of resolve_path ends at a node, or at none. *)
LEMMA StepTypes ==
  ASSUME TreeInv, NEW v \in {0} \cup live, NEW nm
  PROVE  ResolveStep(v, nm) \in {0} \cup live
  <1>1. VfsTypeOK /\ Booted
    BY Zenon DEF TreeInv, TreeLinked
  <1>2. v # 0 => parent[v] \in {0} \cup live
    BY <1>1, Zenon DEF VfsTypeOK
  <1>3. ASSUME v # 0, nm # ".", nm # ".." PROVE dir_open(v, nm) \in {0} \cup live
    <2>1. v \in live
      BY <1>3, Zenon
    <2>2. \A i \in Hits(v, nm) : children[v][i] \in live
      BY <1>1, <2>1 DEF VfsTypeOK, Hits
    <2> QED
      BY <1>1, <1>3, <2>1, <2>2, FirstHit, Zenon
  <1>4. \A n \in live : mount_resolve(n) \in live
    BY <1>1, MountResolve, Zenon DEF Booted
  <1>5. CASE v = 0 \/ nm = "." \/ nm = ".."
    BY <1>2, <1>5, Zenon DEF ResolveStep
  <1>6. CASE v # 0 /\ nm # "." /\ nm # ".."
    <2>1. ResolveStep(v, nm) = IF ~opens[v] THEN 0 ELSE LET n == dir_open(v, nm) IN IF n = 0 THEN 0 ELSE mount_resolve(n)
      BY <1>6, Zenon DEF ResolveStep
    <2> QED
      BY <1>3, <1>4, <1>6, <2>1, Zenon
  <1> QED
    BY <1>5, <1>6, Zenon


(* The loop of resolve_path. *)
LEMMA Resolution ==
  ASSUME TreeInv, Root \in live, NEW S, NEW path \in Seq(S)
  PROVE  /\ resolve_path(path)[0] = Root
         /\ \A i \in 1..Len(path) : resolve_path(path)[i] = ResolveStep(resolve_path(path)[i - 1], path[i])
  <1> DEFINE K == 0..Len(path)
             V == {0} \cup live
             up == [i \in K |-> IF i = 0 THEN 0 ELSE i - 1]
             base == [i \in K |-> Root]
             G == [i \in K |-> [v \in V |-> ResolveStep(v, path[i])]]
             Loop(f) == [i \in 0..Len(path) |-> IF i = 0 THEN Root ELSE ResolveStep(f[i - 1], path[i])]
  <1>1. Len(path) \in Nat /\ K \in SUBSET (0..Len(path))
    OBVIOUS
  <1>2. \A i \in K : up[i] \in K /\ (up[i] = i \/ up[i] < i) /\ (up[i] = i <=> i = 0) /\ (i # 0 => up[i] = i - 1)
    BY <1>1
  <1>3. base \in [K -> V]
    BY Zenon
  <1>4. G \in [K -> [V -> V]]
    BY StepTypes, Zenon
  <1>5. PICK f \in [K -> V] : Follows(f, K, up, base, G)
    <2>1. Upwards(K, up)
      BY <1>2, Zenon DEF Upwards
    <2> HIDE DEF K, V, up, base, G
    <2> QED
      BY <1>1, <1>3, <1>4, <2>1, Recursion, Zenon
  <1>6. f = Loop(f)
    <2>1. ASSUME NEW i \in K PROVE f[i] = IF i = 0 THEN Root ELSE ResolveStep(f[i - 1], path[i])
      <3>1. f[i] = IF up[i] = i THEN base[i] ELSE G[i][f[up[i]]]
        BY <1>5, Zenon DEF Follows
      <3>2. base[i] = Root /\ up[i] \in K
        BY <1>2, Zenon
      <3>3. f[up[i]] \in V /\ G[i][f[up[i]]] = ResolveStep(f[up[i]], path[i])
        BY <1>5, <3>2, Zenon
      <3> HIDE DEF K, V, up, base, G
      <3> QED
        BY <1>2, <3>1, <3>2, <3>3, Zenon
    <2> QED
      BY <1>5, <2>1, Zenon
  <1>7. resolve_path(path) = Loop(resolve_path(path))
    BY <1>6, Zenon DEF resolve_path
  <1>8. 0 \in 0..Len(path) /\ \A i \in 1..Len(path) : i \in 0..Len(path) /\ i # 0
    BY <1>1
  <1> HIDE DEF K, V, up, base, G
  <1> QED
    BY <1>7, <1>8, Zenon


LEMMA OpenRoot ==
  ASSUME TreeInv, Root \in live
  PROVE  vfs_open(<<>>) = Root
  <1>1. <<>> \in Seq({}) /\ Len(<<>>) = 0
    OBVIOUS
  <1>2. resolve_path(<<>>)[0] = Root
    BY <1>1, Resolution, Zenon
  <1> QED
    BY <1>1, <1>2, Zenon DEF vfs_open

(* One more component is one more round of the loop. *)
LEMMA OpenAppend ==
  ASSUME TreeInv, Root \in live, NEW S, NEW path \in Seq(S), NEW x
  PROVE  vfs_open(Append(path, x)) = ResolveStep(vfs_open(path), x)
  <1> DEFINE q == Append(path, x)
             D == {i \in 0..Len(path) : resolve_path(q)[i] # resolve_path(path)[i]}
  <1>1. /\ q \in Seq(S \cup {x}) /\ Len(path) \in Nat /\ Len(q) = Len(path) + 1 /\ q[Len(q)] = x
        /\ \A i \in 1..Len(path) : i \in 1..Len(q) /\ q[i] = path[i]
        /\ Len(q) \in 1..Len(q) /\ Len(q) - 1 = Len(path)
    OBVIOUS
  <1> HIDE DEF q
  <1>2. /\ resolve_path(path)[0] = Root
        /\ \A i \in 1..Len(path) : resolve_path(path)[i] = ResolveStep(resolve_path(path)[i - 1], path[i])
    BY Resolution, Zenon
  <1>3. /\ resolve_path(q)[0] = Root
        /\ \A i \in 1..Len(q) : resolve_path(q)[i] = ResolveStep(resolve_path(q)[i - 1], q[i])
    BY <1>1, Resolution, Zenon
  <1>4. D = {}
    <2> SUFFICES ASSUME D # {} PROVE FALSE
      OBVIOUS
    <2>1. D \in SUBSET Nat
      BY <1>1
    <2>2. PICK k \in D : \A j \in D : k <= j
      <3> HIDE DEF D
      <3> QED
        BY <2>1, LeastNumber, Zenon
    <2>3. k \in 0..Len(path) /\ resolve_path(q)[k] # resolve_path(path)[k]
      BY Zenon
    <2>4. k # 0
      BY <1>2, <1>3, <2>3, Zenon
    <2>5. k \in 1..Len(path) /\ k - 1 \in 0..Len(path) /\ ~(k <= k - 1)
      BY <1>1, <2>3, <2>4
    <2>6. k - 1 \notin D
      <3> HIDE DEF D
      <3> QED
        BY <2>2, <2>5, Zenon
    <2>7. resolve_path(q)[k - 1] = resolve_path(path)[k - 1]
      BY <2>5, <2>6, Zenon
    <2> QED
      BY <1>1, <1>2, <1>3, <2>3, <2>5, <2>7, Zenon
  <1>5. resolve_path(q)[Len(path)] = resolve_path(path)[Len(path)]
    <2>1. Len(path) \in 0..Len(path)
      BY <1>1
    <2> QED
      BY <1>4, <2>1, Zenon
  <1>6. resolve_path(q)[Len(q)] = ResolveStep(resolve_path(path)[Len(path)], x)
    BY <1>1, <1>3, <1>5, Zenon
  <1> HIDE DEF D
  <1> QED
    BY <1>6, Zenon DEF vfs_open, q


-----------------------------------------------------------------------------
(* Paths *)

(* What the recursions along the parents need of the tree. *)
LEMMA KnownFacts ==
  ASSUME TreeInv
  PROVE  /\ Known \subseteq live /\ live \subseteq Node /\ Known \in SUBSET (0..MaxNodes) /\ MaxNodes \in Nat
         /\ (Known # {} => Root \in live /\ Root \in Known)
         /\ DevRoot \in Known => DevMountPoint \in Known /\ DevMountPoint < DevRoot /\ kMountList # <<>>
         /\ DevMountPoint \in live => parent[DevMountPoint] = Root
         /\ \A n \in Known \ {Root, DevRoot} : parent[n] \in Known /\ parent[n] < n /\ parent[n] # n
         /\ Root # DevRoot /\ Root # DevMountPoint /\ DevRoot # DevMountPoint /\ Root # NullDev
  <1>1. VfsTypeOK /\ Numbered /\ Booted /\ \A n \in Known \ {Root, DevRoot} : parent[n] \in Known
    BY Zenon DEF TreeInv, TreeLinked
  <1>2. Root # DevRoot /\ Root # DevMountPoint /\ Root # NullDev /\ DevRoot # DevMountPoint /\ DevMountPoint # NullDev /\ DevMountPoint < DevRoot
    BY Constants
  <1>3. Known \subseteq live /\ live \subseteq Node
    BY <1>1, Zenon DEF Known, VfsTypeOK
  <1>4. Node \subseteq 0..MaxNodes /\ MaxNodes \in Nat
    BY VfsAssumption DEF Node
  <1>5. Known # {} => Root \in live /\ Root \in Known
    BY <1>1, <1>2, <1>3, Zenon DEF Booted, Known
  <1>6. DevRoot \in Known => DevMountPoint \in Known /\ kMountList # <<>>
    BY <1>1, <1>2, Zenon DEF Booted, Known
  <1>7. ASSUME DevMountPoint \in live PROVE parent[DevMountPoint] = Root
    <2>1. parent[DevMountPoint] \in live /\ parent[DevMountPoint] < DevMountPoint
      BY <1>1, <1>2, <1>7, Zenon DEF Numbered
    <2>2. parent[DevMountPoint] \in Nat \ {0}
      BY <1>3, <2>1, Constants, Zenon
    <2> QED
      BY <2>1, <2>2, Constants
  <1>8. ASSUME NEW n \in Known \ {Root, DevRoot} PROVE parent[n] \in Known /\ parent[n] < n /\ parent[n] # n
    <2>1. parent[n] \in Known /\ parent[n] < n /\ n \in Node
      BY <1>1, <1>3, Zenon DEF Numbered
    <2>2. n \in Nat
      BY <2>1, Constants, Zenon
    <2> QED
      BY <2>1, <2>2
  <1> QED
    BY <1>2, <1>3, <1>4, <1>5, <1>6, <1>7, <1>8, Zenon

LEMMA Paths ==
  ASSUME TreeInv
  PROVE  /\ Root \in Known => PathOf[Root] = <<>>
         /\ DevRoot \in Known => PathOf[DevRoot] = PathOf[DevMountPoint]
         /\ \A n \in Known \ {Root, DevRoot} : PathOf[n] = PathOf[parent[n]] \o Components[name[n]]
  <1> DEFINE K == Known
             V == Seq(Names)
             up == [n \in K |-> IF n = Root THEN Root ELSE IF n = DevRoot THEN DevMountPoint ELSE parent[n]]
             base == [n \in K |-> <<>>]
             G == [n \in K |-> [v \in V |-> IF n = DevRoot THEN v ELSE v \o Components[name[n]]]]
             Rule(f) == [n \in Known |-> IF n = Root THEN <<>> ELSE IF n = DevRoot THEN f[DevMountPoint]
                                         ELSE f[parent[n]] \o Components[name[n]]]
  <1>1. MaxNodes \in Nat /\ K \in SUBSET (0..MaxNodes)
    BY KnownFacts, Zenon
  <1>2. \A n \in K : up[n] \in K /\ (up[n] = n \/ up[n] < n) /\ (up[n] = n <=> n = Root)
    BY KnownFacts, Zenon
  <1>3. base \in [K -> V]
    <2>1. <<>> \in V
      OBVIOUS
    <2> QED
      BY <2>1, Zenon
  <1>4. G \in [K -> [V -> V]]
    <2>1. \A n \in K : Components[name[n]] \in V
      BY KnownFacts, VfsAssumption, Zenon DEF TreeInv, TreeLinked, VfsTypeOK
    <2>2. \A v, w \in V : v \o w \in V
      OBVIOUS
    <2> HIDE DEF V, K
    <2> QED
      BY <2>1, <2>2, Zenon
  <1>5. PICK f \in [K -> V] : Follows(f, K, up, base, G)
    <2>1. Upwards(K, up)
      BY <1>2, Zenon DEF Upwards
    <2> HIDE DEF K, V, up, base, G
    <2> QED
      BY <1>1, <1>3, <1>4, <2>1, Recursion, Zenon
  <1>6. f = Rule(f)
    <2>1. ASSUME NEW n \in K PROVE f[n] = IF n = Root THEN <<>> ELSE IF n = DevRoot THEN f[DevMountPoint] ELSE f[parent[n]] \o Components[name[n]]
      <3>1. f[n] = IF up[n] = n THEN base[n] ELSE G[n][f[up[n]]]
        BY <1>5, Zenon DEF Follows
      <3>2. base[n] = <<>> /\ up[n] \in K
        BY <1>2, Zenon
      <3>3. f[up[n]] \in V /\ G[n][f[up[n]]] = IF n = DevRoot THEN f[up[n]] ELSE f[up[n]] \o Components[name[n]]
        BY <1>5, <3>2, Zenon
      <3>4. up[n] = IF n = Root THEN Root ELSE IF n = DevRoot THEN DevMountPoint ELSE parent[n]
        BY Zenon
      <3> HIDE DEF K, V, up, base, G
      <3> QED
        BY <1>2, <3>1, <3>2, <3>3, <3>4, Zenon
    <2> HIDE DEF V
    <2> QED
      BY <1>5, <2>1, Zenon
  <1>7. PathOf = Rule(PathOf)
    BY <1>6, Zenon DEF PathOf
  <1>8. ASSUME NEW n \in Known PROVE PathOf[n] = IF n = Root THEN <<>> ELSE IF n = DevRoot THEN PathOf[DevMountPoint] ELSE PathOf[parent[n]] \o Components[name[n]]
    BY <1>7, Zenon
  <1> HIDE DEF K, V, up, base, G
  <1> QED
    BY <1>8, KnownFacts, Zenon


(* What keeps a node from having a path, but for what is above it. *)
Blocked(n) ==
  \/ n = DevMountPoint /\ kMountList # <<>>
  \/ Components[name[n]] # <<name[n]>>
  \/ Shadowed(n)

LEMMA Hiding ==
  ASSUME TreeInv
  PROVE  /\ Root \in Known => ~Hidden[Root]
         /\ DevRoot \in Known => ~Hidden[DevRoot]
         /\ \A n \in Known \ {Root, DevRoot} : Blocked(n) \/ Hidden[parent[n]] => Hidden[n]
  <1> DEFINE K == Known
             V == BOOLEAN
             up == [n \in K |-> IF n \in {Root, DevRoot} THEN n ELSE parent[n]]
             base == [n \in K |-> FALSE]
             G == [n \in K |-> [v \in V |-> Blocked(n) \/ v]]
             At(f, n) == /\ n \notin {Root, DevRoot}
                         /\ \/ n = DevMountPoint /\ kMountList # <<>>
                            \/ Components[name[n]] # <<name[n]>>
                            \/ Shadowed(n)
                            \/ f[parent[n]]
             Rule(f) == [n \in Known |-> At(f, n)]
  <1>1. MaxNodes \in Nat /\ K \in SUBSET (0..MaxNodes)
    BY KnownFacts, Zenon
  <1>2. \A n \in K : up[n] \in K /\ (up[n] = n \/ up[n] < n) /\ (up[n] = n <=> n \in {Root, DevRoot})
    BY KnownFacts, Zenon
  <1>3. base \in [K -> V] /\ G \in [K -> [V -> V]]
    BY Zenon
  <1>4. PICK f \in [K -> V] : Follows(f, K, up, base, G)
    <2>1. Upwards(K, up)
      BY <1>2, Zenon DEF Upwards
    <2> HIDE DEF K, V, up, base, G
    <2> QED
      BY <1>1, <1>3, <2>1, Recursion, Zenon
  <1>5. f = Rule(f)
    <2>1. ASSUME NEW n \in K PROVE f[n] = At(f, n)
      <3>1. f[n] = IF up[n] = n THEN base[n] ELSE G[n][f[up[n]]]
        BY <1>4, Zenon DEF Follows
      <3>2. base[n] = FALSE /\ up[n] \in K
        BY <1>2, Zenon
      <3>3. f[up[n]] \in V /\ G[n][f[up[n]]] = (Blocked(n) \/ f[up[n]])
        BY <1>4, <3>2, Zenon
      <3>4. up[n] = IF n \in {Root, DevRoot} THEN n ELSE parent[n]
        BY Zenon
      <3>5. CASE n \in {Root, DevRoot}
        <4>1. f[n] = FALSE
          BY <1>2, <3>1, <3>2, <3>5, Zenon
        <4> HIDE DEF K, V, up, base, G
        <4> QED
          BY <3>5, <4>1, Zenon
      <3>6. CASE n \notin {Root, DevRoot}
        <4>1. f[n] = (Blocked(n) \/ f[parent[n]]) /\ f[parent[n]] \in BOOLEAN
          BY <1>2, <3>1, <3>3, <3>4, <3>6, Zenon
        <4> HIDE DEF K, V, up, base, G
        <4> QED
          BY <3>6, <4>1, Zenon DEF Blocked
      <3> QED
        BY <3>5, <3>6, Zenon
    <2> HIDE DEF V, At
    <2> QED
      BY <1>4, <2>1, Zenon
  <1>6. Hidden = Rule(Hidden)
    BY <1>5, Zenon DEF Hidden
  <1>7. ASSUME NEW n \in Known PROVE Hidden[n] = At(Hidden, n)
    <2> HIDE DEF At
    <2> QED
      BY <1>6, Zenon
  <1> HIDE DEF K, V, up, base, G, Rule
  <1> QED
    BY <1>7, KnownFacts, Zenon DEF Blocked

(* The path of a node that nothing keeps from having one. *)
LEMMA PlainPath ==
  ASSUME TreeInv, NEW n \in Known \ {Root, DevRoot}, NEW S, PathOf[parent[n]] \in Seq(S),
         Components[name[n]] = <<name[n]>>
  PROVE  PathOf[n] = Append(PathOf[parent[n]], name[n])
  <1>1. PathOf[n] = PathOf[parent[n]] \o <<name[n]>>
    BY Paths, Zenon
  <1>2. \A v \in Seq(S) : v \o <<name[n]>> = Append(v, name[n])
    OBVIOUS
  <1> QED
    BY <1>1, <1>2, Zenon

(* Nothing keeps the mount point of devfs from being found: its name is    *)
(* not one that a longer one could be cut to.                              *)
LEMMA MountPointFound ==
  ASSUME TreeInv, DevMountPoint \in live
  PROVE  ~Shadowed(DevMountPoint) /\ Components[name[DevMountPoint]] = <<name[DevMountPoint]>>
  <1>1. VfsTypeOK /\ Links(live, children, parent, name) /\ Numbered /\ name[DevMountPoint] = "dev"
    BY TreeForm, Zenon DEF TreeInv, TreeLinked, Booted
  <1>2. "dev" \notin CutNames
    <2>1. ASSUME NEW nm \in Names, str_cpy[nm] = "dev" PROVE str_cpy[nm] = nm
      BY <2>1, VfsAssumption, Zenon DEF Short
    <2> QED
      BY <2>1, Zenon DEF CutNames
  <1>3. parent[DevMountPoint] \in live
    BY <1>1, Constants DEF Numbered
  <1>4. ASSUME NEW i \in DOMAIN children[parent[DevMountPoint]], NEW j \in DOMAIN children[parent[DevMountPoint]], i < j,
               children[parent[DevMountPoint]][j] = DevMountPoint,
               name[children[parent[DevMountPoint]][i]] = name[DevMountPoint]
        PROVE  FALSE
    <2>0. /\ name[children[parent[DevMountPoint]][i]] = name[children[parent[DevMountPoint]][j]]
          /\ name[children[parent[DevMountPoint]][i]] \notin CutNames
      BY <1>1, <1>2, <1>4, Zenon
    <2>1. i = j
      <3> DEFINE p == parent[DevMountPoint]
      <3> HIDE DEF p
      <3> QED
        BY <1>1, <1>3, <2>0, Zenon DEF Links, p
    <2>2. i \in Int
      BY <1>1, <1>3 DEF VfsTypeOK
    <2> QED
      BY <1>4, <2>1, <2>2
  <1> QED
    BY <1>1, <1>4, VfsAssumption, Zenon DEF Shadowed

(* Going up from a node and down again by its name. *)
LEMMA RoundTrip ==
  ASSUME TreeInv, NEW n \in Known \ {Root, DevRoot}, NEW S, NEW path \in Seq(S), vfs_open(path) = n,
         mount_resolve(n) = n, ~Shadowed(n)
  PROVE  vfs_open(path \o <<"..", name[n]>>) = n
  <1>1. path \o <<"..", name[n]>> = Append(Append(path, ".."), name[n])
    OBVIOUS
  <1>2. Append(path, "..") \in Seq(S \cup {".."})
    OBVIOUS
  <1>3. Root \in live /\ n \in live \ {Root, DevRoot} /\ n # 0 /\ parent[n] # 0
    <2>1. Root \in live /\ n \in live \ {Root, DevRoot} /\ parent[n] \in live /\ live \subseteq Node
      BY KnownFacts, Zenon
    <2> QED
      BY <2>1, Constants, Zenon
  <1>4. vfs_open(Append(path, "..")) = ResolveStep(n, "..")
    BY <1>3, OpenAppend, Zenon
  <1>5. ResolveStep(n, "..") = parent[n]
    <2>1. ".." # "."
      OBVIOUS
    <2> QED
      BY <1>3, <2>1, Zenon DEF ResolveStep
  <1>6. vfs_open(Append(Append(path, ".."), name[n])) = ResolveStep(parent[n], name[n])
    BY <1>2, <1>3, <1>4, <1>5, OpenAppend, Zenon
  <1> QED
    BY <1>1, <1>3, <1>6, StepDown, Zenon


(* A node that nothing hides is found under its path. *)
LEMMA PathsLead ==
  ASSUME TreeInv
  PROVE  \E S : \A n \in Known : ~Hidden[n] => PathOf[n] \in Seq(S) /\ vfs_open(PathOf[n]) = n
  <1> DEFINE T == Names
             Good(n) == PathOf[n] \in Seq(T) /\ vfs_open(PathOf[n]) = n
             D == {n \in Known : ~Hidden[n] /\ ~Good(n)}
  <1>1. Booted /\ \A n \in Known : name[n] \in T
    BY KnownFacts, Zenon DEF TreeInv, TreeLinked, VfsTypeOK
  <1>2. \A v \in Seq(T) : \A t \in T : Append(v, t) \in Seq(T)
    OBVIOUS
  <1>3. <<>> \in Seq(T)
    OBVIOUS
  <1> HIDE DEF T
  <1>4. D = {}
    <2> SUFFICES ASSUME D # {} PROVE FALSE
      OBVIOUS
    <2>1. D \in SUBSET Nat
      BY KnownFacts, Constants, Zenon
    <2>2. PICK n \in D : \A m \in D : n <= m
      BY <2>1, LeastNumber, Zenon
    <2>3. n \in Known /\ ~Hidden[n] /\ ~Good(n) /\ Root \in live /\ Root \in Known
      BY <2>2, KnownFacts, Zenon
    <2>4. ASSUME NEW p \in Known, n \in Known \ {Root, DevRoot}, p = parent[n], Good(p), ~Blocked(n) PROVE vfs_open(PathOf[n]) = mount_resolve(n) /\ PathOf[n] \in Seq(T)
      <3>1. PathOf[n] = Append(PathOf[p], name[n])
        BY <2>4, PlainPath, Zenon DEF Blocked
      <3>2. PathOf[n] \in Seq(T)
        BY <1>1, <1>2, <2>3, <2>4, <3>1, Zenon
      <3>3. vfs_open(PathOf[n]) = ResolveStep(p, name[n])
        BY <2>3, <2>4, <3>1, OpenAppend, Zenon
      <3>4. n \in live \ {Root, DevRoot}
        BY <2>4, KnownFacts, Zenon
      <3> QED
        BY <2>4, <3>2, <3>3, <3>4, StepDown, Zenon DEF Blocked
    <2>5. Good(Root)
      <3>1. PathOf[Root] = <<>>
        BY <2>3, Paths, Zenon
      <3> QED
        BY <1>3, <2>3, <3>1, OpenRoot, Zenon
    <2>6. CASE n = Root
      BY <2>3, <2>5, <2>6, Zenon
    <2>7. CASE n = DevRoot
      <3>1. DevMountPoint \in live \ {Root, DevRoot} /\ DevMountPoint \in Known \ {Root, DevRoot} /\ parent[DevMountPoint] = Root /\ kMountList # <<>>
        BY <2>3, <2>7, KnownFacts, Zenon
      <3>2. PathOf[n] = PathOf[DevMountPoint] /\ PathOf[DevMountPoint] = Append(PathOf[Root], name[DevMountPoint])
        BY <2>3, <2>5, <2>7, <3>1, Paths, PlainPath, MountPointFound, Zenon
      <3>3. PathOf[n] \in Seq(T)
        BY <1>1, <1>2, <2>5, <3>1, <3>2, Zenon
      <3>4. vfs_open(PathOf[n]) = ResolveStep(Root, name[DevMountPoint])
        BY <2>3, <2>5, <3>2, OpenAppend, Zenon
      <3>5. ResolveStep(Root, name[DevMountPoint]) = mount_resolve(DevMountPoint)
        BY <3>1, StepDown, MountPointFound, Zenon
      <3>6. mount_resolve(DevMountPoint) = DevRoot
        BY <1>1, <3>1, MountResolve, Zenon
      <3> QED
        BY <2>3, <2>7, <3>3, <3>4, <3>5, <3>6, Zenon
    <2>8. CASE n \notin {Root, DevRoot}
      <3>1. n \in Known \ {Root, DevRoot} /\ parent[n] \in Known /\ parent[n] < n
        BY <2>3, <2>8, KnownFacts, Zenon
      <3>2. ~Blocked(n) /\ ~Hidden[parent[n]]
        BY <2>3, <3>1, Hiding, Zenon
      <3>3. mount_resolve(n) = n
        BY <1>1, <3>2, MountResolve, Zenon DEF Blocked
      <3>5. Good(parent[n])
        <4>1. parent[n] \in Nat /\ n \in Nat
          BY <2>3, <3>1, KnownFacts, Constants, Zenon
        <4>2. ~ (n <= parent[n])
          BY <3>1, <4>1
        <4>3. parent[n] \notin D
          BY <2>2, <4>2, Zenon
        <4> QED
          BY <3>1, <3>2, <4>3, Zenon
      <3>6. vfs_open(PathOf[n]) = mount_resolve(n) /\ PathOf[n] \in Seq(T)
        BY <2>4, <3>1, <3>2, <3>5, Zenon
      <3> QED
        BY <2>3, <3>3, <3>6, Zenon
    <2> QED
      BY <2>6, <2>7, <2>8, Zenon
  <1>5. \A n \in Known : ~Hidden[n] => Good(n)
    <2> HIDE DEF Good
    <2> QED
      BY <1>4, Zenon
  <1> WITNESS T
  <1> QED
    BY <1>5, Zenon

LEMMA PathsFromTree == TreeInv => PathsResolve
  <1> SUFFICES ASSUME TreeInv PROVE PathsResolve
    OBVIOUS
  <1>1. PICK S : \A n \in Known : ~Hidden[n] => PathOf[n] \in Seq(S) /\ vfs_open(PathOf[n]) = n
    BY PathsLead, Zenon
  <1>2. ASSUME NEW n \in Known, ~Hidden[n], n \notin {Root, DevRoot} PROVE vfs_open(PathOf[n] \o <<"..", name[n]>>) = n
    <2>1. ~Blocked(n)
      BY <1>2, Hiding, Zenon
    <2>2. Booted
      BY Zenon DEF TreeInv
    <2>3. mount_resolve(n) = n /\ ~Shadowed(n)
      BY <2>1, <2>2, MountResolve, Zenon DEF Blocked
    <2>4. PathOf[n] \in Seq(S) /\ vfs_open(PathOf[n]) = n
      BY <1>1, <1>2, Zenon
    <2> QED
      BY <1>2, <2>3, <2>4, RoundTrip, Zenon
  <1> QED
    BY <1>1, <1>2, Zenon DEF PathsResolve

(* At every point of a run of vfs.cpp, part-way through vfs_init and after *)
(* any sequence of creations, vfs_open finds each node that is not hidden, *)
(* by the mount, by a newer node of the same cut name or by a name that is *)
(* no path component, under the path that its parents spell, and ".."      *)
(* followed by its name comes back to it.                                  *)
THEOREM PathsStayResolved == VfsSpec => []PathsResolve
  BY TreeInvariant, PathsFromTree, PTL

-----------------------------------------------------------------------------
(* One tmpfs file, for pages, offsets and sizes of any magnitude *)

(* Nothing below the size is what the page held before. *)
TmpfsInv == TmpfsTypeOK /\ \A i \in InPage : i < size => page[i] # Stale

-----------------------------------------------------------------------------
(* Where a write ends: at its end, at the page's, or wrapped around. *)

LEMMA EndOfWrite ==
  ASSUME NEW off \in 0..(SizeModulus - 1), NEW n \in 0..(SizeModulus - 1)
  PROVE  /\ off + n < SizeModulus => (off + n) % SizeModulus = off + n
         /\ off + n >= SizeModulus => (off + n) % SizeModulus = off + n - SizeModulus
  <1>1. SizeModulus \in Nat /\ SizeModulus > 0
    BY TmpfsAssumption
  <1> QED
    BY <1>1

LEMMA ClampedPlain ==
  ASSUME NEW off \in Offsets, NEW n \in Sizes, off + n < SizeModulus
  PROVE  /\ Clamped(off, n).end = IF off + n > PAGE_SIZE THEN PAGE_SIZE ELSE off + n
         /\ Clamped(off, n).size = IF off + n > PAGE_SIZE THEN IF off < PAGE_SIZE THEN PAGE_SIZE - off ELSE 0 ELSE n
  <1>1. off \in 0..(SizeModulus - 1) /\ n \in 0..(SizeModulus - 1)
    BY TmpfsAssumption
  <1>2. (off + n) % SizeModulus = off + n
    BY <1>1, EndOfWrite
  <1> QED
    BY <1>2 DEF Clamped

LEMMA ClampedWrapped ==
  ASSUME NEW off \in Offsets, NEW n \in Sizes, off + n >= SizeModulus
  PROVE  /\ Clamped(off, n).end \in 0..PAGE_SIZE /\ Clamped(off, n).end <= off
         /\ Clamped(off, n).size \in Nat
  <1> DEFINE end == off + n - SizeModulus
  <1>1. /\ off \in 0..(SizeModulus - 1) /\ n \in 0..(SizeModulus - 1)
        /\ PAGE_SIZE \in Nat /\ SizeModulus \in Nat
    BY TmpfsAssumption
  <1>2. (off + n) % SizeModulus = end
    BY <1>1, EndOfWrite
  <1>3. end \in Nat /\ end < off
    BY <1>1
  <1>4. /\ Clamped(off, n).end = IF end > PAGE_SIZE THEN PAGE_SIZE ELSE end
        /\ Clamped(off, n).size = IF end > PAGE_SIZE THEN IF off < PAGE_SIZE THEN PAGE_SIZE - off ELSE 0 ELSE n
    BY <1>2 DEF Clamped
  <1> HIDE DEF end
  <1> QED
    BY <1>1, <1>3, <1>4

LEMMA ClampedBounds ==
  ASSUME NEW off \in Offsets, NEW n \in Sizes
  PROVE  /\ Clamped(off, n).end \in 0..PAGE_SIZE /\ Clamped(off, n).size \in Nat
         /\ Clamped(off, n).end <= off \/ Clamped(off, n).end <= off + Clamped(off, n).size
  <1>1. off \in Nat /\ n \in Nat /\ PAGE_SIZE \in Nat /\ SizeModulus \in Nat
    BY TmpfsAssumption
  <1>2. CASE off + n < SizeModulus
    BY <1>1, <1>2, ClampedPlain
  <1>3. CASE off + n >= SizeModulus
    BY <1>1, <1>3, ClampedWrapped
  <1> QED
    BY <1>1, <1>2, <1>3

-----------------------------------------------------------------------------
(* The invariant *)

LEMMA WriteKeeps ==
  ASSUME TmpfsInv, NEW off \in Offsets, NEW n \in Sizes, NEW b \in Byte, tmpfs_file_write(off, n, b)
  PROVE  TmpfsInv'
  <1> DEFINE end == Clamped(off, n).end
             len == Clamped(off, n).size
  <1>1. off \in Nat /\ n \in Nat /\ PAGE_SIZE \in Nat /\ Stale \notin Byte \cup {0}
    BY TmpfsAssumption
  <1>2. end \in 0..PAGE_SIZE /\ len \in Nat /\ (end <= off \/ end <= off + len)
    BY ClampedBounds
  <1>3. size \in 0..PAGE_SIZE /\ overrun \subseteq Nat /\ page \in [InPage -> Byte \cup {0, Stale}]
    BY DEF TmpfsInv, TmpfsTypeOK
  <1>4. /\ private_data' = TRUE
        /\ page' = [i \in InPage |-> IF i \in off..(off + len - 1) THEN b
                                     ELSE IF i \in size..(off - 1) THEN 0 ELSE page[i]]
        /\ overrun' = overrun \cup ((size..(off - 1) \cup off..(off + len - 1)) \ InPage)
        /\ size' = IF end > size THEN end ELSE size
    BY DEF tmpfs_file_write, Filled
  <1> HIDE DEF end, len
  <1>5. TmpfsTypeOK'
    <2>1. page' \in [InPage -> Byte \cup {0, Stale}]
      BY <1>3, <1>4
    <2>2. size' \in 0..PAGE_SIZE
      BY <1>2, <1>3, <1>4
    <2>3. size..(off - 1) \subseteq Nat /\ off..(off + len - 1) \subseteq Nat
      BY <1>1, <1>2, <1>3
    <2>4. overrun' \subseteq Nat
      BY <1>3, <1>4, <2>3, Zenon
    <2> QED
      BY <1>4, <2>1, <2>2, <2>4, Zenon DEF TmpfsTypeOK
  <1>6. ASSUME NEW i \in InPage, i < size' PROVE page'[i] # Stale
    BY <1>1, <1>2, <1>3, <1>4, <1>6 DEF TmpfsInv, InPage
  <1> QED
    BY <1>5, <1>6 DEF TmpfsInv

LEMMA TmpfsInvariant == TmpfsSpec => []TmpfsInv
  <1>1. TmpfsInit => TmpfsInv
    <2> SUFFICES ASSUME TmpfsInit PROVE TmpfsInv
      OBVIOUS
    <2>1. page \in [InPage -> Byte \cup {0, Stale}]
      BY DEF TmpfsInit
    <2>2. size = 0 /\ 0 \in 0..PAGE_SIZE /\ \A i \in InPage : ~(i < 0)
      BY TmpfsAssumption DEF TmpfsInit, InPage
    <2> QED
      BY <2>1, <2>2, Zenon DEF TmpfsInit, TmpfsInv, TmpfsTypeOK
  <1>2. TmpfsInv /\ [TmpfsNext]_fileVars => TmpfsInv'
    BY WriteKeeps, Zenon DEF TmpfsNext, fileVars, TmpfsInv, TmpfsTypeOK
  <1> QED
    BY <1>1, <1>2, PTL DEF TmpfsSpec

(* For every page size: no tmpfs_file_read leaves the page or returns what *)
(* it held before the file got it, in whatever order the writes came.      *)
THEOREM NothingStaleIsRead == TmpfsSpec => []ReadsOnlyWritten
  <1>1. TmpfsInv => ReadsOnlyWritten
    <2> SUFFICES ASSUME TmpfsInv, NEW off \in Offsets, NEW n \in Sizes,
                        NEW i \in DOMAIN tmpfs_file_read(off, n)
                 PROVE  tmpfs_file_read(off, n)[i] # Stale
      BY DEF ReadsOnlyWritten, TmpfsInv
    <2>1. off \in Nat /\ n \in Nat /\ PAGE_SIZE \in Nat /\ size \in 0..PAGE_SIZE
      BY TmpfsAssumption DEF TmpfsInv, TmpfsTypeOK
    <2>2. off < size /\ i \in 1..(size - off) /\ tmpfs_file_read(off, n)[i] = page[off + i - 1]
      BY <2>1 DEF tmpfs_file_read
    <2> QED
      BY <2>1, <2>2 DEF TmpfsInv, InPage
  <1> QED
    BY <1>1, TmpfsInvariant, PTL

-----------------------------------------------------------------------------
(* The byte file *)

LEMMA LengthIsSize ==
  ASSUME TmpfsInv
  PROVE  ByteFiles!Length = size
  <1>1. size \in 0..PAGE_SIZE /\ PAGE_SIZE \in Nat
    BY TmpfsAssumption DEF TmpfsInv, TmpfsTypeOK
  <1>2. DOMAIN content = 0..(size - 1)
    BY DEF content
  <1>3. ASSUME NEW n \in 0..PAGE_SIZE, 0..(n - 1) = 0..(size - 1) PROVE n = size
    <2>1. n \notin 0..(n - 1) /\ size \notin 0..(size - 1)
      BY <1>1
    <2>2. ~(n < size) /\ ~(size < n)
      BY <1>1, <1>3, <2>1
    <2> QED
      BY <1>1, <2>2
  <1> QED
    BY <1>1, <1>2, <1>3 DEF ByteFiles!Length

LEMMA PlainWrite ==
  ASSUME TmpfsInv, NEW off \in Offsets, NEW n \in Sizes, NEW b \in Byte, tmpfs_file_write(off, n, b),
         off + n < SizeModulus
  PROVE  content' = ByteFiles!Written(off, n, b)
  <1> DEFINE end == Clamped(off, n).end
             len == Clamped(off, n).size
             upto == IF off + n > PAGE_SIZE THEN PAGE_SIZE ELSE off + n
             last == IF upto > size THEN upto ELSE size
  <1>1. off \in Nat /\ n \in Nat /\ PAGE_SIZE \in Nat /\ size \in 0..PAGE_SIZE
    BY TmpfsAssumption DEF TmpfsInv, TmpfsTypeOK
  <1>2. end = upto /\ len = IF off + n > PAGE_SIZE THEN IF off < PAGE_SIZE THEN PAGE_SIZE - off ELSE 0 ELSE n
    BY ClampedPlain
  <1>3. /\ page' = [i \in InPage |-> IF i \in off..(off + len - 1) THEN b
                                     ELSE IF i \in size..(off - 1) THEN 0 ELSE page[i]]
        /\ size' = last
    BY <1>2 DEF tmpfs_file_write, Filled
  <1>4. ByteFiles!Written(off, n, b) =
          [i \in 0..(last - 1) |-> IF i \in off..(upto - 1) THEN b ELSE IF i < size THEN content[i] ELSE 0]
    BY LengthIsSize DEF ByteFiles!Written
  <1>5. content' = [i \in 0..(last - 1) |-> page'[i]]
    BY <1>3 DEF content
  <1> HIDE DEF end, len
  <1>6. ASSUME NEW i \in 0..(last - 1)
        PROVE  page'[i] = IF i \in off..(upto - 1) THEN b ELSE IF i < size THEN content[i] ELSE 0
    <2>1. i \in InPage
      BY <1>1 DEF InPage
    <2>2. i < size => content[i] = page[i]
      BY <1>1 DEF content
    <2>3. i \in off..(off + len - 1) <=> i \in off..(upto - 1)
      BY <1>1, <1>2, <2>1 DEF InPage
    <2>4. i \notin off..(upto - 1) => (i \in size..(off - 1) <=> ~(i < size))
      BY <1>1, <2>1 DEF InPage
    <2> QED
      BY <1>3, <2>1, <2>2, <2>3, <2>4
  <1> QED
    BY <1>4, <1>5, <1>6

LEMMA NearWrite ==
  ASSUME TmpfsInv, NEW off \in Offsets, NEW n \in Sizes, NEW b \in Byte, tmpfs_file_write(off, n, b),
         off + n < SizeModulus, off <= PAGE_SIZE
  PROVE  overrun' = overrun
  <1> DEFINE len == Clamped(off, n).size
  <1>1. off \in Nat /\ n \in Nat /\ PAGE_SIZE \in Nat /\ size \in 0..PAGE_SIZE
    BY TmpfsAssumption DEF TmpfsInv, TmpfsTypeOK
  <1>2. len \in Nat /\ off + len <= PAGE_SIZE
    BY <1>1, ClampedPlain
  <1>3. overrun' = overrun \cup ((size..(off - 1) \cup off..(off + len - 1)) \ InPage)
    BY DEF tmpfs_file_write, Filled
  <1> HIDE DEF len
  <1>4. size..(off - 1) \subseteq InPage /\ off..(off + len - 1) \subseteq InPage
    BY <1>1, <1>2 DEF InPage
  <1> QED
    BY <1>3, <1>4, Zenon

(* For every page size and every modulus of size_t: the bytes of the file  *)
(* are those of a byte file of one page except when a write's end wraps    *)
(* around, and no write that starts within the page and does not wrap      *)
(* touches anything behind it.                                             *)
THEOREM FileIsByteFile == TmpfsSpec => ImplementsByteFile
  <1>1. TmpfsInit => ByteFiles!AInit
    BY DEF TmpfsInit, ByteFiles!AInit, content
  <1>2. TmpfsInv /\ [TmpfsNext]_fileVars => [ByteFiles!AWrite \/ WrappingWrite]_content
    <2> SUFFICES ASSUME TmpfsInv, [TmpfsNext]_fileVars, content' # content PROVE ByteFiles!AWrite \/ WrappingWrite
      OBVIOUS
    <2>1. TmpfsNext
      BY DEF fileVars, content
    <2>2. PICK off \in Offsets, n \in Sizes, b \in Byte : tmpfs_file_write(off, n, b)
      BY <2>1 DEF TmpfsNext
    <2>3. off \in Nat /\ n \in Nat /\ SizeModulus \in Nat
      BY TmpfsAssumption
    <2>4. CASE off + n < SizeModulus
      BY <2>2, <2>4, PlainWrite DEF ByteFiles!AWrite
    <2>5. CASE off + n >= SizeModulus
      BY <2>2, <2>5 DEF WrappingWrite
    <2> QED
      BY <2>3, <2>4, <2>5
  <1>3. TmpfsInv /\ [TmpfsNext]_fileVars =>
          [(overrun' # overrun) =>
             \E off \in Offsets, n \in Sizes, b \in Byte :
               /\ off > PAGE_SIZE \/ off + n >= SizeModulus
               /\ tmpfs_file_write(off, n, b)]_fileVars
    <2> SUFFICES ASSUME TmpfsInv, TmpfsNext, overrun' # overrun
                 PROVE  \E off \in Offsets, n \in Sizes, b \in Byte :
                          /\ off > PAGE_SIZE \/ off + n >= SizeModulus
                          /\ tmpfs_file_write(off, n, b)
      OBVIOUS
    <2>1. PICK off \in Offsets, n \in Sizes, b \in Byte : tmpfs_file_write(off, n, b)
      BY DEF TmpfsNext
    <2>2. off \in Nat /\ n \in Nat /\ SizeModulus \in Nat /\ PAGE_SIZE \in Nat
      BY TmpfsAssumption
    <2>3. off > PAGE_SIZE \/ off + n >= SizeModulus
      BY <2>1, <2>2, NearWrite
    <2> QED
      BY <2>1, <2>3
  <1> QED
    BY <1>1, <1>2, <1>3, TmpfsInvariant, PTL DEF TmpfsSpec, ImplementsByteFile, NearWritesStayInPage

-----------------------------------------------------------------------------
(* The network stack *)

(* A valid entry is for a host that was heard. *)
ArpHeard == \A i \in Slot : g_arp_cache[i].valid => g_arp_cache[i].ip \in Peers

(* A socket in use has a port of its own, and so does what it received. *)
Content(s, ports) ==
  /\ s.rx_data.port \in ports
  /\ s.rx_data.length \in HeaderLen..s.rx_data.received => s.rx_len <= s.rx_data.received - HeaderLen

Own(f) ==
  g_udp_sockets[f].state # "FREE" =>
    /\ g_udp_sockets[f].local_port \in bound[f]
    /\ g_udp_sockets[f].rx_pending => Content(g_udp_sockets[f], bound[f])

NetInv == NetTypeOK /\ ArpHeard /\ ArpLatest /\ (\A f \in Fd : Own(f)) /\ TcpNeverOpens

arpVars == <<g_arp_cache, g_arp_cache_next, heard>>
udpVars == <<g_udp_sockets, bound>>

(* What NetTypeOK says of the variables of one protocol. *)
ArpType ==
  /\ g_arp_cache \in [Slot -> [ip : Peers \cup {0}, mac : Macs \cup {0}, valid : BOOLEAN]]
  /\ g_arp_cache_next \in Slot
  /\ heard \in [Peers -> Macs \cup {0}]
Socket ==
  [state : {"FREE", "BOUND", "CONNECTED"}, local_port : Ports \cup {0},
   remote_ip : Peers \cup {0}, remote_port : PeerPorts \cup {0},
   rx_data : Datagram, rx_len : 0..RxCapacity, rx_pending : BOOLEAN]
UdpType ==
  /\ g_udp_sockets \in [Fd -> Socket]
  /\ bound \in [Fd -> SUBSET (Ports \cup {0})]
TcpType ==
  g_tcp_sockets \in [TcpFd -> [state : {"CLOSED", "LISTEN", "SYN_SENT", "SYN_RECEIVED", "ESTABLISHED", "CLOSE_WAIT"},
                              local_port : Ports \cup {0}]]

ArpInv == ArpType /\ ArpHeard /\ ArpLatest
UdpInv == UdpType /\ \A f \in Fd : Own(f)
TcpInv == TcpType /\ TcpNeverOpens

(* The invariant has a part for each protocol. *)
LEMMA Parts == NetInv <=> ArpInv /\ UdpInv /\ TcpInv
  BY DEF NetInv, ArpInv, UdpInv, TcpInv, NetTypeOK, ArpType, UdpType, TcpType, Socket

(* Searches of the tables find the first of the matching entries. *)
LEMMA FirstExists ==
  ASSUME NEW S \in SUBSET Nat, S # {}
  PROVE  \E n \in S : \A m \in S : n <= m
  <1> DEFINE R == OpToRel(<, Nat)
  <1>1. IsWellFoundedOn(R, Nat)
    BY NatLessThanWellFounded, Zenon
  <1> HIDE DEF R
  <1>2. PICK n \in S : \A m \in S : ~ (<<m, n>> \in R)
    BY <1>1, WFMin, Zenon
  <1>3. \A m \in S : ~ (m < n)
    BY <1>2, Zenon DEF R, OpToRel
  <1> QED
    BY <1>3

-----------------------------------------------------------------------------
(* ARP *)

LEMMA NextSlot ==
  ASSUME NEW i \in Slot
  PROVE  (i + 1) % ARP_CACHE_SIZE \in Slot
  BY NetAssumption DEF Slot

LEMMA ArpStep ==
  ASSUME ArpInv, NEW p \in Peers, NEW mac \in MacsOf[p], NEW r \in BOOLEAN, NEW t,
         arp_handle_packet(p, mac, r, t)
  PROVE  ArpInv'
  <1>1. mac \in Macs
    BY DEF Macs
  <1>2. heard' = [heard EXCEPT ![p] = mac] /\ arp_cache_insert(p, mac)
    BY DEF arp_handle_packet
  <1>3. heard' \in [Peers -> Macs \cup {0}]
    BY <1>1, <1>2 DEF ArpInv, ArpType
  <1>4. CASE arp_cache_find(p) # {}
    <2> DEFINE i == CHOOSE j \in arp_cache_find(p) : \A k \in arp_cache_find(p) : j <= k
    <2>1. PICK e \in Slot : g_arp_cache[e].valid /\ g_arp_cache[e].ip = p
      BY <1>4 DEF arp_cache_find
    <2>2. \A k \in arp_cache_find(p) : k = e
      BY <2>1 DEF ArpInv, ArpLatest, arp_cache_find
    <2>3. e \in arp_cache_find(p) /\ \A k \in arp_cache_find(p) : e <= k
      BY <2>1, <2>2, NetAssumption DEF arp_cache_find, Slot
    <2>4. i = e
      BY <2>2, <2>3
    <2>5. g_arp_cache' = [g_arp_cache EXCEPT ![e].mac = mac] /\ g_arp_cache_next' = g_arp_cache_next
      BY <1>2, <1>4, <2>4, Zenon DEF arp_cache_insert
    <2>6. ArpType'
      BY <1>1, <1>3, <2>5 DEF ArpInv, ArpType
    <2>7. \A j \in Slot : /\ g_arp_cache'[j].valid = g_arp_cache[j].valid
                          /\ g_arp_cache'[j].ip = g_arp_cache[j].ip
                          /\ g_arp_cache'[j].mac = IF j = e THEN mac ELSE g_arp_cache[j].mac
      BY <2>5 DEF ArpInv, ArpType
    <2>8. ArpHeard'
      BY <2>7 DEF ArpInv, ArpHeard
    <2>9. ArpLatest'
      BY <1>2, <2>1, <2>7 DEF ArpInv, ArpType, ArpHeard, ArpLatest
    <2> QED
      BY <2>6, <2>8, <2>9 DEF ArpInv
  <1>5. CASE arp_cache_find(p) = {}
    <2> DEFINE n == g_arp_cache_next
    <2>1. /\ g_arp_cache' = [g_arp_cache EXCEPT ![n] = [ip |-> p, mac |-> mac, valid |-> TRUE]]
          /\ g_arp_cache_next' = (n + 1) % ARP_CACHE_SIZE
      BY <1>2, <1>5 DEF arp_cache_insert
    <2>2. ArpType'
      BY <1>1, <1>3, <2>1, NextSlot DEF ArpInv, ArpType
    <2>3. n \in Slot /\ \A j \in Slot : g_arp_cache'[j] = IF j = n THEN [ip |-> p, mac |-> mac, valid |-> TRUE]
                                                           ELSE g_arp_cache[j]
      BY <2>1 DEF ArpInv, ArpType
    <2>4. \A j \in Slot : g_arp_cache[j].valid => g_arp_cache[j].ip # p
      BY <1>5 DEF arp_cache_find
    <2>5. ArpHeard'
      BY <2>3 DEF ArpInv, ArpHeard
    <2>6. ArpLatest'
      BY <1>2, <2>3, <2>4 DEF ArpInv, ArpType, ArpHeard, ArpLatest
    <2> QED
      BY <2>2, <2>5, <2>6 DEF ArpInv
  <1> QED
    BY <1>4, <1>5

LEMMA ArpQuiet ==
  ASSUME ArpInv, UNCHANGED arpVars
  PROVE  ArpInv'
  BY DEF arpVars, ArpInv, ArpType, ArpHeard, ArpLatest

-----------------------------------------------------------------------------
(* UDP *)

LEMMA PayloadFits ==
  ASSUME NEW len \in Nat
  PROVE  PayloadLen(len) \in 0..RxCapacity
  BY NetAssumption DEF PayloadLen

(* A datagram goes to a socket in use that has the port. *)
LEMMA FoundSocket ==
  ASSUME NEW port, NEW f, f = udp_find_socket(port), f # 0
  PROVE  f \in Fd /\ g_udp_sockets[f].state # "FREE" /\ g_udp_sockets[f].local_port = port
  <1> DEFINE fs == {h \in Fd : g_udp_sockets[h].state # "FREE" /\ g_udp_sockets[h].local_port = port}
  <1>1. f = IF fs = {} THEN 0 ELSE CHOOSE h \in fs : \A k \in fs : h <= k
    BY DEF udp_find_socket
  <1>2. fs \in SUBSET Nat
    BY NetAssumption DEF Fd
  <1>3. fs # {} => \E h \in fs : \A k \in fs : h <= k
    BY <1>2, FirstExists, Zenon
  <1>4. f \in fs
    BY <1>1, <1>3
  <1> QED
    BY <1>4

(* A step replaces one control block. *)
LEMMA SetSocketStep ==
  ASSUME UdpInv, NEW f \in Fd,
         NEW s \in Socket,
         NEW b \in SUBSET (Ports \cup {0}),
         SetSocket(f, s), bound' = [bound EXCEPT ![f] = b],
         s.state # "FREE" => s.local_port \in b /\ (s.rx_pending => Content(s, b))
  PROVE  UdpInv'
  <1>1. g_udp_sockets' = [g_udp_sockets EXCEPT ![f] = s]
    BY DEF SetSocket
  <1>2. UdpType'
    BY <1>1 DEF UdpInv, UdpType
  <1>3. \A h \in Fd : Own(h)'
    BY <1>1 DEF UdpInv, UdpType, Own
  <1> QED
    BY <1>2, <1>3 DEF UdpInv

LEMMA UdpPacketStep ==
  ASSUME UdpInv, NEW dst, NEW d \in Datagram, d.length \in Nat, d.received \in Nat, NEW src \in PeerPorts,
         NEW wraps, udp_handle_packet(dst, d, src, wraps)
  PROVE  UdpInv'
  <1> DEFINE f == udp_find_socket(d.port)
             o == g_udp_sockets[f]
             s == [o EXCEPT !.rx_data = d, !.rx_len = PayloadLen(d.length), !.rx_pending = TRUE, !.remote_port = src]
  <1>1. f \in Fd /\ o.state # "FREE" /\ o.local_port = d.port
    BY FoundSocket DEF udp_handle_packet
  <1>2. PayloadLen(d.length) \in 0..RxCapacity
    BY PayloadFits
  <1>3. /\ g_udp_sockets' = [g_udp_sockets EXCEPT ![f].rx_data = d, ![f].rx_len = PayloadLen(d.length),
                                                  ![f].rx_pending = TRUE, ![f].remote_port = src]
        /\ bound' = bound
        /\ UNCHANGED <<g_arp_cache, g_arp_cache_next, g_tcp_sockets, heard>>
    BY DEF udp_handle_packet
  <1> HIDE DEF f
  <1>4. /\ o \in Socket /\ bound[f] \in SUBSET (Ports \cup {0}) /\ bound = [bound EXCEPT ![f] = bound[f]]
        /\ d.port \in bound[f]
    BY <1>1 DEF UdpInv, UdpType, Own
  <1>5. SetSocket(f, s)
    BY <1>1, <1>3, <1>4, Zenon DEF SetSocket, Socket, UdpInv, UdpType
  <1>6. s \in Socket
    BY <1>2, <1>4, Zenon DEF Socket
  <1>7. s.local_port = d.port /\ s.rx_data = d /\ s.rx_len = PayloadLen(d.length)
    BY <1>1, <1>4 DEF Socket
  <1>8. d.length \in HeaderLen..d.received => PayloadLen(d.length) <= d.received - HeaderLen
    BY NetAssumption DEF PayloadLen
  <1> HIDE DEF s
  <1>9. Content(s, bound[f])
    BY <1>4, <1>7, <1>8, Zenon DEF Content
  <1> QED
    BY <1>1, <1>3, <1>4, <1>5, <1>6, <1>7, <1>9, SetSocketStep

LEMMA UdpCallStep ==
  ASSUME UdpInv, NEW f \in Fd, NEW p \in Peers \cup {0}, NEW port \in Ports \cup {0}, NEW there \in PeerPorts \cup {0},
         \/ sys_socket_bind(f, port) \/ sys_socket_connect(f, p, there)
         \/ sys_socket_recv(f) \/ sys_socket_close(f)
  PROVE  UdpInv'
  <1> DEFINE o == g_udp_sockets[f]
  <1>1. /\ o \in Socket
        /\ bound[f] \in SUBSET (Ports \cup {0})
        /\ bound = [bound EXCEPT ![f] = bound[f]]
        /\ o.state # "FREE" => o.local_port \in bound[f] /\ (o.rx_pending => Content(o, bound[f]))
    BY DEF UdpInv, UdpType, Own
  <1>2. 0 \in 0..RxCapacity
    BY NetAssumption
  <1>3. CASE sys_socket_bind(f, port)
    <2> DEFINE s == [o EXCEPT !.local_port = port, !.state = "BOUND"]
               b == bound[f] \cup {port}
    <2>1. SetSocket(f, s) /\ bound' = [bound EXCEPT ![f] = b] /\ o.state # "FREE"
      BY <1>3 DEF sys_socket_bind
    <2>2. s \in Socket
      BY <1>1, Zenon DEF Socket
    <2>3. s.local_port \in b /\ (s.rx_pending => Content(s, b)) /\ b \in SUBSET (Ports \cup {0})
      BY <1>1, <2>1 DEF Content, Socket
    <2> HIDE DEF s, b
    <2> QED
      BY <2>1, <2>2, <2>3, SetSocketStep, Zenon
  <1>4. CASE sys_socket_connect(f, p, there)
    <2> DEFINE s == [o EXCEPT !.remote_ip = p, !.remote_port = there, !.state = "CONNECTED"]
    <2>1. SetSocket(f, s) /\ bound' = bound /\ o.state # "FREE"
      BY <1>4 DEF sys_socket_connect
    <2>2. s \in Socket
      BY <1>1, Zenon DEF Socket
    <2>3. s.local_port \in bound[f] /\ (s.rx_pending => Content(s, bound[f]))
      BY <1>1, <2>1 DEF Content, Socket
    <2> HIDE DEF s
    <2> QED
      BY <1>1, <2>1, <2>2, <2>3, SetSocketStep
  <1>5. CASE sys_socket_recv(f)
    <2> DEFINE s == [o EXCEPT !.rx_pending = FALSE, !.rx_len = 0]
    <2>1. SetSocket(f, s) /\ bound' = bound
      BY <1>5 DEF sys_socket_recv
    <2>2. s \in Socket
      BY <1>1, <1>2, Zenon DEF Socket
    <2>3. s.state # "FREE" => s.local_port \in bound[f] /\ (s.rx_pending => Content(s, bound[f]))
      BY <1>1 DEF Socket
    <2> HIDE DEF s
    <2> QED
      BY <1>1, <2>1, <2>2, <2>3, SetSocketStep
  <1>6. CASE sys_socket_close(f)
    <2> DEFINE s == [o EXCEPT !.state = "FREE"]
    <2>1. SetSocket(f, s) /\ bound' = bound
      BY <1>6 DEF sys_socket_close
    <2>2. s \in Socket
      BY <1>1 DEF Socket
    <2>3. s.state = "FREE"
      BY <1>1
    <2> HIDE DEF s
    <2> QED
      BY <1>1, <2>1, <2>2, <2>3, SetSocketStep
  <1> QED
    BY <1>3, <1>4, <1>5, <1>6

LEMMA UdpCreateStep ==
  ASSUME UdpInv, sys_socket_create
  PROVE  UdpInv'
  <1>1. PICK f \in Fd : SetSocket(f, NewSocket(g_udp_sockets[f])) /\ bound' = [bound EXCEPT ![f] = {0}]
    BY Zenon DEF sys_socket_create
  <1> DEFINE s == NewSocket(g_udp_sockets[f])
  <1>2. 0 \in 0..RxCapacity
    BY NetAssumption
  <1>3. s \in Socket
    BY <1>2, ZenonT(30) DEF NewSocket, UdpInv, UdpType, Socket
  <1>4. s.local_port = 0 /\ s.rx_pending = FALSE
    BY DEF NewSocket, UdpInv, UdpType, Socket
  <1>5. SetSocket(f, s) /\ {0} \in SUBSET (Ports \cup {0})
    BY <1>1
  <1> HIDE DEF s
  <1> QED
    BY <1>1, <1>3, <1>4, <1>5, SetSocketStep, Zenon

LEMMA UdpQuiet ==
  ASSUME UdpInv, UNCHANGED udpVars
  PROVE  UdpInv'
  BY DEF udpVars, UdpInv, UdpType, Own

-----------------------------------------------------------------------------
(* TCP *)

LEMMA TcpStep ==
  ASSUME TcpInv, NEW port \in Ports, NEW flags, tcp_handle_packet(g_our_ip, port, flags)
  PROVE  TcpInv'
  <1> DEFINE f == tcp_find_or_alloc_socket(port)
  <1>1. g_tcp_sockets' = [g_tcp_sockets EXCEPT ![f] =
           [state |-> TcpTransition(@.state, flags), local_port |-> IF @.state = "CLOSED" THEN port ELSE @.local_port]]
    BY DEF tcp_handle_packet
  <1> HIDE DEF f
  <1>2. f \in TcpFd => TcpTransition(g_tcp_sockets[f].state, flags) = "CLOSED"
    BY DEF TcpInv, TcpNeverOpens, TcpTransition
  <1> QED
    BY <1>1, <1>2, Zenon DEF TcpInv, TcpType, TcpNeverOpens

LEMMA TcpListen ==
  ASSUME TcpInv, NEW f \in TcpFd, sys_socket_listen(f)
  PROVE  TcpInv'
  BY DEF sys_socket_listen, TcpInv, TcpType, TcpNeverOpens

LEMMA TcpQuiet ==
  ASSUME TcpInv, UNCHANGED g_tcp_sockets
  PROVE  TcpInv'
  BY DEF TcpInv, TcpType, TcpNeverOpens

-----------------------------------------------------------------------------
LEMMA NetStarts == NetInit => NetInv
  <1> SUFFICES ASSUME NetInit PROVE NetInv
    OBVIOUS
  <1>1. ArpInv
    BY NetAssumption DEF NetInit, ArpInv, ArpType, ArpHeard, ArpLatest, Slot
  <1>2. UdpInv
    <2>1. FreshSocket \in Socket /\ FreshSocket.state = "FREE"
      BY NetAssumption DEF FreshSocket, Socket, Datagram
    <2> QED
      BY <2>1, Zenon DEF NetInit, UdpInv, UdpType, Own
  <1>3. TcpInv
    BY DEF NetInit, TcpInv, TcpType, TcpNeverOpens
  <1> QED
    BY <1>1, <1>2, <1>3, Parts

LEMMA NetStep == NetInv /\ [NetNext]_netVars => NetInv'
  <1> SUFFICES ASSUME NetInv, [NetNext]_netVars PROVE NetInv'
    OBVIOUS
  <1> USE DEF arpVars, udpVars
  <1>0. ArpInv /\ UdpInv /\ TcpInv
    BY Parts
  <1> SUFFICES ArpInv' /\ UdpInv' /\ TcpInv'
    BY Parts, PTL
  <1>1. ASSUME NEW p \in Peers, Arp(p) PROVE ArpInv' /\ UdpInv' /\ TcpInv'
    <2>1. PICK mac \in MacsOf[p], r \in BOOLEAN, t \in {g_our_ip, BroadcastIp} : arp_handle_packet(p, mac, r, t)
      BY <1>1 DEF Arp
    <2>2. UNCHANGED udpVars /\ UNCHANGED g_tcp_sockets
      BY <2>1 DEF arp_handle_packet
    <2> QED
      BY <1>0, <2>1, <2>2, ArpStep, UdpQuiet, TcpQuiet, Zenon
  <1>2. CASE Udp
    <2>1. PICK dst \in {g_our_ip, BroadcastIp}, port \in Ports \cup {0}, src \in PeerPorts,
               received, length \in Lengths, wraps \in BOOLEAN :
            udp_handle_packet(dst, [port |-> port, received |-> received, length |-> length], src, wraps)
      BY <1>2 DEF Udp
    <2>2. UNCHANGED arpVars /\ UNCHANGED g_tcp_sockets
      BY <2>1, Zenon DEF udp_handle_packet
    <2> DEFINE d == [port |-> port, received |-> received, length |-> length]
    <2>3. d \in Datagram /\ d.length \in Nat /\ d.received \in Nat
      BY NetAssumption DEF Datagram
    <2>4. udp_handle_packet(dst, d, src, wraps)
      BY <2>1
    <2> HIDE DEF d
    <2> QED
      BY <1>0, <2>2, <2>3, <2>4, ArpQuiet, UdpPacketStep, TcpQuiet, Zenon
  <1>3. CASE Tcp
    <2>1. PICK port \in Ports, flags \in TcpFlags : tcp_handle_packet(g_our_ip, port, flags)
      BY <1>3 DEF Tcp
    <2>2. UNCHANGED arpVars /\ UNCHANGED udpVars
      BY <2>1 DEF tcp_handle_packet
    <2> QED
      BY <1>0, <2>1, <2>2, ArpQuiet, UdpQuiet, TcpStep
  <1>4. CASE sys_socket_create
    <2>1. UNCHANGED arpVars /\ UNCHANGED g_tcp_sockets
      BY <1>4 DEF sys_socket_create, SetSocket
    <2> QED
      BY <1>0, <1>4, <2>1, ArpQuiet, UdpCreateStep, TcpQuiet
  <1>5. ASSUME NEW f \in Fd, NEW p \in Peers \cup {0}, NEW port \in Ports \cup {0},
               NEW there \in PeerPorts \cup {0},
               \/ sys_socket_bind(f, port) \/ sys_socket_connect(f, p, there)
               \/ sys_socket_recv(f) \/ sys_socket_close(f)
        PROVE  ArpInv' /\ UdpInv' /\ TcpInv'
    <2>1. UNCHANGED arpVars /\ UNCHANGED g_tcp_sockets
      BY <1>5 DEF sys_socket_bind, sys_socket_connect, sys_socket_recv, sys_socket_close, SetSocket
    <2> QED
      BY <1>0, <1>5, <2>1, ArpQuiet, UdpCallStep, TcpQuiet
  <1>6. ASSUME NEW f \in TcpFd, sys_socket_listen(f) PROVE ArpInv' /\ UdpInv' /\ TcpInv'
    <2>1. UNCHANGED arpVars /\ UNCHANGED udpVars
      BY <1>6 DEF sys_socket_listen
    <2> QED
      BY <1>0, <1>6, <2>1, ArpQuiet, UdpQuiet, TcpListen
  <1>7. ASSUME UNCHANGED arpVars, UNCHANGED udpVars, UNCHANGED g_tcp_sockets PROVE ArpInv' /\ UdpInv' /\ TcpInv'
    BY <1>0, <1>7, ArpQuiet, UdpQuiet, TcpQuiet
  <1>8. CASE \/ \E p \in Peers : icmp_handle_echo(p, g_our_ip)
             \/ \E f \in Fd, sent \in SendSizes : sys_socket_send(f, sent)
             \/ \E sent \in SendSizes : net_send(sent)
             \/ UNCHANGED netVars
    <2>1. UNCHANGED arpVars /\ UNCHANGED udpVars /\ UNCHANGED g_tcp_sockets
      BY <1>8 DEF icmp_handle_echo, sys_socket_send, net_send, netVars
    <2> QED
      BY <1>7, <2>1
  <1>9. CASE \E f \in Fd : sys_socket_recv(f) \/ sys_socket_close(f)
    BY <1>5, <1>9, Zenon
  <1>10. CASE \E f \in Fd, port \in Ports : sys_socket_bind(f, port)
    BY <1>5, <1>10, Zenon
  <1>11. CASE \E f \in Fd, p \in Servers, there \in PeerPorts : sys_socket_connect(f, p, there)
    BY <1>5, <1>11, NetAssumption, Zenon
  <1> QED
    BY <1>1, <1>2, <1>3, <1>4, <1>6, <1>8, <1>9, <1>10, <1>11 DEF NetNext

-----------------------------------------------------------------------------
(* A frame from ipv4_send is a broadcast or goes to the MAC address that   *)
(* the owner of the IP address announced last.                             *)
LEMMA SentToOwner ==
  ASSUME ArpInv, NEW ip, NEW kind, NEW port, NEW sent, NEW w, w = ipv4_send(ip, kind, port, sent), w # wire,
         w.mac # BroadcastMac
  PROVE  w.mac = heard[w.ip]
  <1>1. ip # BroadcastIp
    BY DEF ipv4_send, Frame
  <1>2. arp_resolve(ip) # {}
    BY <1>1 DEF ipv4_send, Frame, arp_send_request
  <1> DEFINE i == CHOOSE j \in arp_resolve(ip) : TRUE
  <1>3. w.mac = g_arp_cache[i].mac /\ w.ip = ip
    BY <1>1, <1>2 DEF ipv4_send, Frame
  <1>4. i \in arp_resolve(ip)
    BY <1>2
  <1> HIDE DEF i
  <1>5. i \in Slot /\ g_arp_cache[i].valid /\ g_arp_cache[i].ip = ip
    BY <1>4 DEF arp_resolve, arp_cache_find
  <1> QED
    BY <1>3, <1>5 DEF ArpInv, ArpLatest

LEMMA WireStep ==
  ASSUME NetInv, [NetNext]_netVars, wire' # wire, wire'.mac # BroadcastMac
  PROVE  wire'.mac = heard'[wire'.ip]
  <1>0. ArpInv
    BY Parts
  <1>1. ASSUME NEW p \in Peers, Arp(p) PROVE wire'.mac = heard'[wire'.ip]
    <2>1. PICK mac \in MacsOf[p], r \in BOOLEAN, t \in {g_our_ip, BroadcastIp} : arp_handle_packet(p, mac, r, t)
      BY <1>1 DEF Arp
    <2>2. wire' = Frame(mac, "arp", p, 0) /\ heard' = [heard EXCEPT ![p] = mac]
      BY <2>1 DEF arp_handle_packet
    <2> QED
      BY <1>0, <2>2 DEF Frame, ArpInv, ArpType
  <1>2. ASSUME NEW ip, NEW kind, NEW port, NEW sent, wire' = ipv4_send(ip, kind, port, sent), heard' = heard
        PROVE  wire'.mac = heard'[wire'.ip]
    BY <1>0, <1>2, SentToOwner
  <1>3. ASSUME NEW p \in Peers, icmp_handle_echo(p, g_our_ip) PROVE wire'.mac = heard'[wire'.ip]
    BY <1>2, <1>3 DEF icmp_handle_echo
  <1>4. ASSUME NEW f \in Fd, NEW sent \in SendSizes, sys_socket_send(f, sent) PROVE wire'.mac = heard'[wire'.ip]
    BY <1>2, <1>4 DEF sys_socket_send
  <1>5. ASSUME NEW sent \in SendSizes, net_send(sent) PROVE wire'.mac = heard'[wire'.ip]
    BY <1>2, <1>5 DEF net_send
  <1>6. Udp => wire' = wire
    <2>1. ASSUME NEW dst, NEW d, NEW src, NEW wraps, udp_handle_packet(dst, d, src, wraps) PROVE wire' = wire
      BY <2>1, Zenon DEF udp_handle_packet
    <2> QED
      BY <2>1, Zenon DEF Udp
  <1>7. Tcp => wire' = wire
    BY Zenon DEF Tcp, tcp_handle_packet
  <1> QED
    BY <1>1, <1>3, <1>4, <1>5, <1>6, <1>7, Zenon
    DEF NetNext, netVars, sys_socket_create, sys_socket_bind,
        sys_socket_connect, sys_socket_recv, sys_socket_close, sys_socket_listen

(* The tables of net.cpp keep their shape, what sys_socket_recv hands out  *)
(* was sent to the socket since it was created, and its bytes were         *)
(* received if its header announces no more than came, with any number of  *)
(* sockets and ports and lengths of any size.                              *)
THEOREM DatagramsAreOwn == NetSpec => []DatagramIsOwn
  <1>1. NetInv => DatagramIsOwn
    BY DEF NetInv, Own, Content, DatagramIsOwn
  <1> QED
    BY <1>1, NetStarts, NetStep, PTL DEF NetSpec

(* The cache of net.cpp never holds an old address and frames to one host  *)
(* go to its owner's, with a cache of any size and any number of hosts.    *)
THEOREM FramesGoToOwner == NetSpec => FramesReachOwner
  <1>1. NetInv /\ [NetNext]_netVars =>
          [ArpLatest /\ (wire' # wire /\ wire'.mac # BroadcastMac => wire'.mac = heard'[wire'.ip])]_netVars
    BY WireStep DEF NetInv
  <1> QED
    BY <1>1, NetStarts, NetStep, PTL DEF NetSpec, FramesReachOwner

(* No TCP control block ever leaves CLOSED, with any number of them.       *)
THEOREM TcpStaysClosed == NetSpec => []TcpNeverOpens
  <1>1. NetInv => TcpNeverOpens
    BY DEF NetInv
  <1> QED
    BY <1>1, NetStarts, NetStep, PTL DEF NetSpec
=============================================================================

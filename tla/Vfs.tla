-------------------------------- MODULE Vfs --------------------------------
(***************************************************************************)
(* The name space of src/kernel/vfs.cpp: the tmpfs root, the devfs that    *)
(* vfs_init mounts at /dev, vfs_mkdir, and path resolution across the      *)
(* mount.  Nodes are numbered in the order kmalloc hands them out; 0 is    *)
(* nullptr.  A name is any string that callers pass: longer than a node    *)
(* has room for, empty or with slashes in it, too.  One device stands for  *)
(* the four.                                                               *)
(***************************************************************************)
EXTENDS Integers, Sequences

CONSTANTS
  MaxNodes,    \* nodes there is memory for
  Names,       \* strings that are passed as names
  str_cpy,     \* what create_node keeps of each: its first 255 characters
  Components   \* what resolve_path takes each for when it stands in a path

(* Names that the code has in it, and the dot names, are short. *)
Short == {"/", "dev", "null", ".", ".."}

ASSUME VfsAssumption ==
  /\ MaxNodes \in Nat /\ MaxNodes >= 4
  /\ Short \subseteq Names /\ str_cpy \in [Names -> Names] /\ Components \in [Names -> Seq(Names)]
  /\ \A nm \in Names : str_cpy[str_cpy[nm]] = str_cpy[nm]
  /\ \A nm \in Names : nm \in Short \/ str_cpy[nm] \in Short => str_cpy[nm] = nm
  /\ \A nm \in {"dev", "null"} : Components[nm] = <<nm>>

Node == 1..MaxNodes
Root == 1
DevMountPoint == 2
DevRoot == 3
NullDev == 4

VARIABLES
  live,        \* nodes that were allocated
  name, type, parent, children,   \* their fields; children newest first
  opens,       \* the node has an open operation: kTmpDirOps or kDevDirOps
  kMountList   \* sequence of <<mount point, mounted root>>

vfsVars == <<live, name, type, parent, children, opens, kMountList>>

-----------------------------------------------------------------------------
(* Lookup *)

mount_resolve_Off(n) == n

mount_resolve(n) ==
  IF \E i \in DOMAIN kMountList : kMountList[i][1] = n
  THEN kMountList[CHOOSE i \in DOMAIN kMountList :
         kMountList[i][1] = n /\ \A j \in 1..(i - 1) : kMountList[j][1] # n][2]
  ELSE n

(* tmpfs_dir_open and devfs_dir_open are the same function. *)
dir_open(d, nm) ==
  CASE nm = "." -> d
    [] nm = ".." -> IF parent[d] # 0 THEN parent[d] ELSE d
    [] OTHER -> LET hits == {i \in DOMAIN children[d] : name[children[d][i]] = nm}
                IN  IF hits = {} THEN 0 ELSE children[d][CHOOSE i \in hits : \A j \in hits : i <= j]

(* One round of resolve_path's loop; 0 once a component was not found. *)
ResolveStep(current, nm) ==
  CASE current = 0 -> 0
    [] current # 0 /\ nm = "." -> current
    [] current # 0 /\ nm = ".." -> IF parent[current] # 0 THEN parent[current] ELSE current
    [] OTHER -> IF ~opens[current] THEN 0
                ELSE LET n == dir_open(current, nm) IN IF n = 0 THEN 0 ELSE mount_resolve(n)

(* Where resolve_path is after each component of a path from the root. *)
resolve_path(path) ==
  LET current[i \in 0..Len(path)] == IF i = 0 THEN Root ELSE ResolveStep(current[i - 1], path[i])
  IN  current

(* vfs_open: a path is the sequence of its components. *)
vfs_open(path) == IF Root \in live THEN resolve_path(path)[Len(path)] ELSE 0

-----------------------------------------------------------------------------
(* vfs_init: it returns at the first of root, mount point and devfs root   *)
(* that it gets no memory for; a device or the mount entry may be missing  *)
(* without notice.  The fields of a node that is not live mean nothing.    *)
Boots == {b \in SUBSET (1..4) : /\ \A n \in {DevMountPoint, DevRoot} : n \in b => n - 1 \in b
                                /\ NullDev \in b => DevRoot \in b}

vfs_init(b, mounts) ==
  /\ live = b
  /\ name = [n \in Node |-> CASE n = Root -> "/" [] n = NullDev -> "null" [] OTHER -> "dev"]
  /\ type = [n \in Node |-> IF n = NullDev THEN "CHAR_DEVICE" ELSE "DIRECTORY"]
  /\ parent = [n \in Node |-> CASE n \in b \cap {Root, DevMountPoint} -> Root
                                [] n \in b \cap {NullDev} -> DevRoot
                                [] n = DevRoot /\ mounts -> DevMountPoint
                                [] OTHER -> 0]
  /\ children = [n \in Node |-> CASE n = Root /\ DevMountPoint \in b -> <<DevMountPoint>>
                                  [] n = DevRoot /\ NullDev \in b -> <<NullDev>>
                                  [] OTHER -> <<>>]
  /\ opens = [n \in Node |-> n \in b \ {NullDev}]
  /\ kMountList = IF mounts THEN <<<<DevMountPoint, DevRoot>>>> ELSE <<>>

VfsInit == \E b \in Boots : \E mounts \in BOOLEAN : (mounts => DevRoot \in b) /\ vfs_init(b, mounts)

(* kmalloc gives any node that is not in use: the least, as all are alike. *)
Unused == {n \in 5..MaxNodes : n \notin live /\ \A m \in 5..(n - 1) : m \in live}

AddChild_NoParent(d, new, nm, ty, op) ==
  /\ new \in Unused /\ live' = live \cup {new}
  /\ name' = [name EXCEPT ![new] = str_cpy[nm]]
  /\ type' = [type EXCEPT ![new] = ty]
  /\ opens' = [opens EXCEPT ![new] = op]
  /\ children' = [children EXCEPT ![d] = <<new>> \o @]
  /\ UNCHANGED <<parent, kMountList>>

(* create_node, which cuts the name off, and dir_add_child *)
AddChild(d, new, nm, ty, op) ==
  /\ new \in Unused /\ live' = live \cup {new}
  /\ name' = [name EXCEPT ![new] = str_cpy[nm]]
  /\ type' = [type EXCEPT ![new] = ty]
  /\ opens' = [opens EXCEPT ![new] = op]
  /\ parent' = [parent EXCEPT ![new] = d]
  /\ children' = [children EXCEPT ![d] = <<new>> \o @]
  /\ UNCHANGED kMountList

Existing(d, nm) == opens[d] /\ dir_open(d, nm) # 0

(* vfs_mkdir returns nullptr, and changes nothing, for a node that is no   *)
(* directory, for a name that is taken, and without memory.  It looks for  *)
(* the name as it was passed, not for what create_node keeps of it.        *)
vfs_mkdir(d, nm) ==
  /\ type[d] = "DIRECTORY"
  /\ ~Existing(d, nm)
  /\ \E new \in Unused : AddChild(d, new, nm, "DIRECTORY", opens[d])

(* A file is added with create_node and dir_add_child, by a caller that    *)
(* has looked the name up.                                                 *)
AddFile(d, nm) ==
  /\ type[d] = "DIRECTORY"
  /\ dir_open(d, nm) = 0
  /\ \E new \in Unused : AddChild(d, new, nm, "FILE", FALSE)

(* A devfs root that was not mounted is known to nobody. *)
Known == IF kMountList = <<>> THEN live \ {DevRoot, NullDev} ELSE live

(* Callers pass nodes they were given. *)
VfsNext ==
  \/ \E d \in Known, nm \in Names : vfs_mkdir(d, nm)
  \/ \E d \in Known, nm \in Names : AddFile(d, nm)

VfsSpec == VfsInit /\ [][VfsNext]_vfsVars

-----------------------------------------------------------------------------
(* Properties. *)

(* Every variable has its type. *)
VfsTypeOK ==
  /\ live \subseteq Node
  /\ name \in [Node -> Names]
  /\ type \in [Node -> {"FILE", "DIRECTORY", "CHAR_DEVICE"}]
  /\ parent \in [Node -> {0} \cup live]
  /\ children \in [Node -> Seq(live)]
  /\ opens \in [Node -> BOOLEAN]
  /\ kMountList \in Seq(live \X live)

(* What is left of the names that do not fit. *)
CutNames == {str_cpy[nm] : nm \in {long \in Names : str_cpy[long] # long}}

(* The links form a tree: a node is in the child list of its parent, once, *)
(* and in no other; the root of a mounted file system is in none.  A name  *)
(* that a directory lists twice is what create_node left of a longer one;  *)
(* any other is what vfs_mkdir would have found.                           *)
TreeLinked ==
  /\ VfsTypeOK
  /\ \A d \in live, n \in live :
       LET places == {i \in DOMAIN children[d] : children[d][i] = n}
       IN  IF d = parent[n] /\ n \notin {Root, DevRoot} THEN \E i \in places : places = {i} ELSE places = {}
  /\ \A d \in live : \A i, j \in DOMAIN children[d] :
       name[children[d][i]] = name[children[d][j]] => i = j \/ name[children[d][i]] \in CutNames

(* The components of the string that spells the way to a node. *)
PathOf[n \in Known] ==
  IF n = Root THEN <<>> ELSE IF n = DevRoot THEN PathOf[DevMountPoint] ELSE PathOf[parent[n]] \o Components[name[n]]

(* A newer node of the same name comes first in a lookup. *)
Shadowed(n) ==
  \E i, j \in DOMAIN children[parent[n]] :
    i < j /\ children[parent[n]][j] = n /\ name[children[parent[n]][i]] = name[n]

(* Nodes that have no path of their own: what the mount covers, what a     *)
(* newer node hides, what has a name that is no component, and all below.  *)
Hidden[n \in Known] ==
  /\ n \notin {Root, DevRoot}
  /\ \/ n = DevMountPoint /\ kMountList # <<>>
     \/ Components[name[n]] # <<name[n]>>
     \/ Shadowed(n)
     \/ Hidden[parent[n]]

(* Any other node is what vfs_open finds under its path, whatever was      *)
(* created before and after it, and however far vfs_init came; and within  *)
(* each of the two file systems, going up with ".." and down again by its  *)
(* name is a round trip in resolve_path.                                   *)
PathsResolve ==
  \A n \in Known : ~Hidden[n] =>
    /\ vfs_open(PathOf[n]) = n
    /\ n \notin {Root, DevRoot} => vfs_open(PathOf[n] \o <<"..", name[n]>>) = n

(* test_vfs.cpp: "duplicate mkdir returns nullptr". *)
NamesUnique ==
  \A d \in live : \A i, j \in DOMAIN children[d] : name[children[d][i]] = name[children[d][j]] => i = j

(* test_vfs.cpp: "reopened node matches mkdir result", for what is not     *)
(* below the mount point.                                                  *)
MkdirIsReopened == \A n \in Known : parent[n] = Root /\ n > NullDev => vfs_open(PathOf[n]) = n

(* test_vfs.cpp: "/dev/.. is root". *)
DevDotDotIsRoot == vfs_open(<<"dev">>) # 0 => vfs_open(<<"dev", "..">>) = Root
=============================================================================

---------------------------- MODULE AddressSpaces ----------------------------
(***************************************************************************)
(* Page tables, copy-on-write and processes: vmm.cpp, pf.cpp, process.cpp, *)
(* elf.cpp and the fork and execve paths of syscall.cpp.  A table has      *)
(* ENTRIES entries, the upper half of the top one belongs to the kernel; a *)
(* virtual page is the sequence of its indexes, one for each level.  A     *)
(* data frame holds one value.  Frames are handed out in order and never   *)
(* come back: vmm_destroy_address_space is empty.                          *)
(***************************************************************************)
EXTENDS Integers, Sequences, SequencesExt

CONSTANTS
  NumFrames, LEVELS, ENTRIES, MaxProcs,
  Mapped,       \* pages of the first process
  Segment,      \* pages of the program that execve loads
  StackPages,   \* pages that execve maps for the stack, in order
  Values,       \* what user code writes
  BootTable,    \* what memory holds that nobody has written, seen as a table
  Tlb           \* the processor keeps translations until they are flushed

ASSUME AddressSpacesAssumption ==
  /\ NumFrames \in Nat /\ LEVELS \in Nat /\ ENTRIES \in Nat /\ MaxProcs \in Nat
  /\ LEVELS >= 2 /\ ENTRIES >= 2
  /\ 0 \notin Values /\ Tlb \in BOOLEAN

VARIABLES
  mem,          \* [tab, data, used]: each frame as a table and as data; frames 1..used are out
  cr3,          \* top table in use
  addr_space,   \* top table of each process, 0 for none
  started,      \* processes whose thread has run
  current,      \* process whose thread runs
  kNextPid,
  execed,       \* processes whose last execve succeeded
  tlb, panicked,
  view          \* what user code last stored, by top table and page

vars == <<mem, cr3, addr_space, started, current, kNextPid, execed, tlb, panicked, view>>

Frame == 0..NumFrames
Index == 0..(ENTRIES - 1)
Proc == 1..MaxProcs
Program == 0                          \* the value of a loaded page
Pages == Mapped \cup Segment \cup Range(StackPages)

Entry(f, w) == [p |-> TRUE, f |-> f, w |-> w]
NoEntry == [p |-> FALSE, f |-> 0, w |-> FALSE]
ZeroTable == [i \in Index |-> NoEntry]
KernelEntry == Entry(0, TRUE)         \* never walked here

-----------------------------------------------------------------------------
(* Page tables *)

(* acc.t is the table reached so far, 0 once memory has run out. *)
get_or_create_next_level(acc, idx) ==
  LET e == acc.m.tab[acc.t][idx]
      new == acc.m.used + 1
  IN  IF acc.t = 0 THEN acc
      ELSE IF e.p THEN [acc EXCEPT !.t = e.f]
      ELSE IF acc.m.used = NumFrames THEN [acc EXCEPT !.t = 0]
      ELSE [t |-> new, m |-> [acc.m EXCEPT !.used = new, !.tab[acc.t][idx] = Entry(new, TRUE),
                                           !.tab[new] = ZeroTable]]

WalkTo(m, root, v) ==
  FoldLeft(get_or_create_next_level, [m |-> m, t |-> root], SubSeq(v, 1, LEVELS - 1))

vmm_map_page(m, root, v, f, w) ==
  LET a == WalkTo(m, root, v)
  IN  IF a.t = 0 THEN a.m ELSE [a.m EXCEPT !.tab[a.t][v[LEVELS]] = Entry(f, w)]

(* The top table is zeroed and gets the kernel half of the current one. *)
vmm_create_address_space(m) ==
  [m EXCEPT !.used = @ + 1,
            !.tab[m.used + 1] = [i \in Index |-> IF i < ENTRIES \div 2 THEN NoEntry ELSE m.tab[cr3][i]]]

(* Entries that are copied as they are: the kernel half, and, since the    *)
(* test does not look at the level, the upper half of every other table.   *)
CopiedAsIs_LastTable(i, level) == i >= ENTRIES \div 2 \/ level = LEVELS - 1
CopiedAsIs(i, level) == i >= ENTRIES \div 2

(* A user page is shared and loses its write permission on both sides. *)
ShareFrame_ParentKeeps(m, src, dst, i) ==
  [m EXCEPT !.tab[dst][i] = [m.tab[src][i] EXCEPT !.w = FALSE]]

ShareFrame(m, src, dst, i) ==
  LET ro == [m.tab[src][i] EXCEPT !.w = FALSE]
  IN  [m EXCEPT !.tab[dst][i] = ro, !.tab[src][i] = ro]

(* A table for a lower level is not zeroed before it is filled. *)
RECURSIVE copy_page_table_level(_, _, _, _)
copy_page_table_level(m, src, dst, level) ==
  LET Copy(acc, i) ==
        LET e == acc.m.tab[src][i]
            new == acc.m.used + 1
        IN  IF ~acc.ok \/ ~e.p THEN acc
            ELSE IF CopiedAsIs(i, level) THEN [acc EXCEPT !.m.tab[dst][i] = e]
            ELSE IF level = LEVELS THEN [acc EXCEPT !.m = ShareFrame(acc.m, src, dst, i)]
            ELSE IF acc.m.used = NumFrames THEN [acc EXCEPT !.ok = FALSE]
            ELSE LET r == copy_page_table_level([acc.m EXCEPT !.used = new], e.f, new, level + 1)
                 IN  IF r.ok THEN [r EXCEPT !.m.tab[dst][i] = [e EXCEPT !.f = new]] ELSE r
  IN  FoldLeft(Copy, [m |-> m, ok |-> TRUE], [n \in 1..ENTRIES |-> n - 1])

(* What the processor finds for a page. *)
Translation(m, root, v) ==
  FoldLeft(LAMBDA e, idx : IF e.p THEN [m.tab[e.f][idx] EXCEPT !.w = @ /\ e.w] ELSE e, Entry(root, TRUE), v)

LoadCr3(root) == cr3' = root /\ tlb' = [v \in Pages |-> NoEntry]

-----------------------------------------------------------------------------
(* The first process, as its loader left it: which pages are writable      *)
(* varies.                                                                 *)
Boot(w) ==
  LET m0 == [tab |-> [f \in Frame |-> IF f = 1 THEN [i \in Index |-> IF i < ENTRIES \div 2 THEN NoEntry ELSE KernelEntry]
                                      ELSE BootTable],
             data |-> [f \in Frame |-> Program], used |-> 1]
  IN  FoldLeft(LAMBDA m, v : vmm_map_page([m EXCEPT !.used = @ + 1], 1, v, m.used + 1, w[v]),
               m0, SetToSeq(Mapped))

Init ==
  /\ \E w \in [Mapped -> BOOLEAN] : mem = Boot(w)
  /\ cr3 = 1
  /\ addr_space = [p \in Proc |-> IF p = 1 THEN 1 ELSE 0]
  /\ started = {1} /\ current = 1 /\ kNextPid = 2 /\ execed = {}
  /\ tlb = [v \in Pages |-> NoEntry]
  /\ panicked = FALSE
  /\ view = [f \in Frame |-> [v \in Pages |-> Program]]

(* User code stores to a page. *)
Seen(v) == IF tlb[v].p THEN tlb[v] ELSE Translation(mem, cr3, v)

UserWrite(v, x) ==
  LET e == Seen(v)
  IN  /\ e.p /\ e.w
      /\ mem' = [mem EXCEPT !.data[e.f] = x]
      /\ view' = [view EXCEPT ![cr3][v] = x]
      /\ tlb' = IF Tlb THEN [tlb EXCEPT ![v] = e] ELSE tlb
      /\ UNCHANGED <<cr3, addr_space, started, current, kNextPid, execed, panicked>>

(* page_fault_handler for a store of user code that may not be made.  When *)
(* memory has run out pmm_alloc_page returns frame 0, which is not checked.*)
CowFrame_InPlace(m, old) == [m |-> m, f |-> old]
CowFrame(m, old) ==
  LET f == IF m.used = NumFrames THEN 0 ELSE m.used + 1
  IN  [f |-> f, m |-> [m EXCEPT !.used = IF f = 0 THEN @ ELSE f, !.data[f] = m.data[old]]]

page_fault_handler(v) ==
  LET e == Seen(v)
      a == WalkTo(mem, cr3, v)
      old == a.m.tab[a.t][v[LEVELS]].f
      c == CowFrame(a.m, old)
  IN  /\ ~(e.p /\ e.w)
      /\ IF e.p /\ old # 0
         THEN /\ mem' = vmm_map_page(c.m, cr3, v, c.f, TRUE)
              /\ tlb' = [tlb EXCEPT ![v] = NoEntry]
              /\ UNCHANGED panicked
         ELSE panicked' = TRUE /\ UNCHANGED <<mem, tlb>>
      /\ UNCHANGED <<cr3, addr_space, started, current, kNextPid, execed, view>>

(* sys_fork, which got of the kernel heap what it needs for the address    *)
(* space or for the thread too, or for neither.  A child that could not be *)
(* given a thread is destroyed, which leaves its tables behind and the     *)
(* parent's pages read-only.                                               *)
sys_fork(got) ==
  LET made == mem.used < NumFrames
      top == vmm_create_address_space(mem)
      r == copy_page_table_level(top, addr_space[current], mem.used + 1, 1)
      done == made /\ r.ok /\ got = "thread"
  IN  /\ kNextPid <= MaxProcs
      /\ kNextPid' = kNextPid + 1
      /\ mem' = IF ~made THEN mem ELSE IF got = "nothing" THEN top ELSE r.m
      /\ addr_space' = IF done THEN [addr_space EXCEPT ![kNextPid] = mem.used + 1] ELSE addr_space
      /\ view' = IF done THEN [view EXCEPT ![mem.used + 1] = view[addr_space[current]]] ELSE view
      /\ UNCHANGED <<cr3, started, current, execed, tlb, panicked>>

(* The scheduler runs the thread of a forked process for the first time:   *)
(* fork_child_entry loads its address space.                               *)
fork_child_entry(p) ==
  /\ p \notin started /\ addr_space[p] # 0
  /\ current' = p /\ started' = started \cup {p}
  /\ LoadCr3(addr_space[p])
  /\ UNCHANGED <<mem, addr_space, kNextPid, execed, panicked, view>>

(* The scheduler goes back to a thread that has run: schedule and          *)
(* context_switch do not touch CR3.                                        *)
SwitchBack(p) ==
  /\ p \in started /\ p # current
  /\ current' = p
  /\ UNCHANGED <<mem, cr3, addr_space, started, kNextPid, execed, tlb, panicked, view>>

(* A page gets a fresh frame; when there is none the loop is left.  That   *)
(* vmm_map_page had no table for it is not noticed.                        *)
MapFresh(acc, root, v, w) ==
  IF ~acc.ok \/ acc.m.used = NumFrames THEN [acc EXCEPT !.ok = FALSE]
  ELSE LET f == acc.m.used + 1
       IN  [acc EXCEPT !.m = vmm_map_page([acc.m EXCEPT !.used = f, !.data[f] = Program], root, v, f, w)]

(* elf_load maps the program in the address space the process has: the old *)
(* one, while execve is still going on.  The file says which pages are     *)
(* writable.  It fails at once on a file that is no program, and at the    *)
(* end on one whose entry point is 0.                                      *)
elf_load(m, root, elf) ==
  LET Load(acc, v) == MapFresh(acc, root, v, elf.writable[v])
      l == FoldLeft(Load, [m |-> m, ok |-> TRUE], SetToSeq(Segment))
  IN  IF elf.kind = "invalid" THEN [m |-> m, ok |-> FALSE]
      ELSE [l EXCEPT !.ok = @ /\ elf.kind # "no_entry"]

Files == [kind : {"program", "invalid", "no_entry"}, writable : [Segment -> BOOLEAN]]

(* sys_execve_impl, once the file was read: without a top table nothing    *)
(* has happened; after a failed load the new, empty address space stays    *)
(* loaded.                                                                 *)
sys_execve(elf) ==
  LET old == addr_space[current]
      new == mem.used + 1
      l == elf_load(vmm_create_address_space(mem), old, elf)
      Remapped(v) == Translation(l.m, old, v).f # Translation(mem, old, v).f
      StackPage(acc, v) == MapFresh(acc, new, v, TRUE)
      s == FoldLeft(StackPage, [m |-> l.m, ok |-> TRUE], StackPages)
  IN  /\ mem.used < NumFrames
      /\ LoadCr3(new)
      /\ view' = [view EXCEPT ![old] = [v \in Pages |-> IF Remapped(v) THEN Program ELSE @[v]]]
      /\ IF l.ok
         THEN /\ mem' = s.m
              /\ addr_space' = [addr_space EXCEPT ![current] = new]
              /\ execed' = IF s.ok THEN execed \cup {current} ELSE execed
         ELSE mem' = l.m /\ UNCHANGED <<addr_space, execed>>
      /\ UNCHANGED <<started, current, kNextPid, panicked>>

(* The kernel heap has no room for the AddressSpace object: the top table  *)
(* stays behind.                                                           *)
sys_execve_NoSpace ==
  /\ mem.used < NumFrames
  /\ mem' = vmm_create_address_space(mem)
  /\ UNCHANGED <<cr3, addr_space, started, current, kNextPid, execed, tlb, panicked, view>>

Next ==
  /\ ~panicked
  /\ \/ \E v \in Pages, x \in Values : UserWrite(v, x)
     \/ \E v \in Pages : page_fault_handler(v)
     \/ \E got \in {"nothing", "space", "thread"} : sys_fork(got)
     \/ \E p \in Proc : fork_child_entry(p) \/ SwitchBack(p)
     \/ \E elf \in Files : sys_execve(elf)
     \/ sys_execve_NoSpace

Spec == Init /\ [][Next]_vars

-----------------------------------------------------------------------------
(* Properties. *)

Spaces == {cr3} \cup {addr_space[p] : p \in {q \in Proc : addr_space[q] # 0}}

(* Every variable has its type. *)
TypeOK ==
  /\ mem.used \in Frame
  /\ mem.data \in [Frame -> {Program} \cup Values]
  /\ \A f \in Frame : mem.tab[f] \in [Index -> [p : BOOLEAN, f : Frame, w : BOOLEAN]]
  /\ cr3 \in 1..mem.used /\ addr_space \in [Proc -> 0..mem.used]
  /\ started \subseteq Proc /\ execed \subseteq started /\ current \in started
  /\ kNextPid \in 2..(MaxProcs + 1)
  /\ tlb \in [Pages -> [p : BOOLEAN, f : Frame, w : BOOLEAN]]
  /\ panicked \in BOOLEAN

(* The indexes of each table that lead to tables of an address space: of   *)
(* the top one those of the lower half, the others belong to the kernel.   *)
Reached(root, LowOnly(_)) ==
  LET at[l \in 1..LEVELS] ==
        IF l = 1 THEN {root}
        ELSE {mem.tab[t][i].f : t \in at[l - 1], i \in {j \in Index : LowOnly(l - 1) => j < ENTRIES \div 2}} \ {0}
  IN  UNION {at[l] : l \in 1..LEVELS}

Tables(root) == Reached(root, LAMBDA level : level = 1)

(* Those that a fork copies, since no entry on the way is in an upper half. *)
CopiedTables(root) == Reached(root, LAMBDA level : TRUE)

(* The pages that a fork makes copy-on-write, likewise.  The stack that    *)
(* execve maps is not one of them.                                         *)
CowPages == {v \in Pages : \A k \in 1..LEVELS : v[k] < ENTRIES \div 2}

DataFrames(root) == {Translation(mem, root, v).f : v \in {u \in Pages : Translation(mem, root, u).p}}

(* vmm.cpp: "Allocate new table for lower levels"; so address spaces share *)
(* a table only below an entry that copy_page_table_level takes for one of *)
(* the kernel, in the upper half of a lower table, and no frame is mapped  *)
(* as data in one and serves as a table in another, or in the same.        *)
TablesApart ==
  \A s, t \in Spaces : /\ s # t => CopiedTables(s) \cap Tables(t) = {}
                        /\ DataFrames(s) \cap Tables(t) = {}

(* The tables are apart where memory is zero before it is handed out:      *)
(* nothing clears the tables that a fork makes.                            *)
TablesOwned == TypeOK /\ (BootTable = ZeroTable => TablesApart)

(* A frame that is writable in one address space and mapped in another is  *)
(* at no copy-on-write page of either: copy_page_table_level takes the     *)
(* write permission from both sides and only a fresh frame gets it back,   *)
(* whatever faults, forks, execves and failures of them come in between.   *)
(* Frame 0 is what the fault handler maps when memory has run out.         *)
WriteExclusive ==
  \A s, t \in Spaces : \A u, v \in Pages :
    LET e == Translation(mem, s, u)
        d == Translation(mem, t, v)
    IN  (s # t /\ e.p /\ d.p /\ e.w /\ e.f # 0 /\ e.f = d.f) => {u, v} \cap CowPages = {}

(* Copy-on-write: each address space reads back what was stored under it   *)
(* in a copy-on-write page, and no store under another one shows, as long  *)
(* as no fault was served without memory.                                  *)
SpacesPrivate ==
  \A s \in Spaces, v \in CowPages :
    LET e == Translation(mem, s, v)
    IN  (e.p /\ e.f # 0) => mem.data[e.f] = view[s][v]

(* The processor remembers a translation to a frame that the loaded tables *)
(* no longer give.                                                         *)
Stale(f) == \E v \in Pages : tlb[v].p /\ tlb[v].f = f /\ tlb[v] # Translation(mem, cr3, v)

(* Whatever runs, a page of another process changes in three cases only:   *)
(* the store went through a translation from before a fork, or a switch of *)
(* threads has left that process's own tables loaded, or the page is one   *)
(* that forks share.  Frame 0, which faults are given once memory has run  *)
(* out, is nobody's page.                                                  *)
StoresStayInProcess ==
  [][\A p \in Proc \ {current}, v \in Pages :
       LET e == Translation(mem, addr_space[p], v)
       IN  (addr_space[p] # 0 /\ e.p /\ e.f # 0 /\ mem'.data[e.f] # mem.data[e.f]) =>
             Stale(e.f) \/ cr3 = addr_space[p] \/ v \notin CowPages]_vars

(* vmm.cpp: "User mappings: COW (Mark Read-Only)"; no frame of a user page *)
(* is writable in two address spaces.                                      *)
UserMappingsCow ==
  \A s, t \in Spaces : \A v \in Pages :
    LET e == Translation(mem, s, v)
        d == Translation(mem, t, v)
    IN  (s # t /\ e.p /\ d.p /\ e.w /\ d.w /\ e.f # 0) => e.f # d.f

(* README.md: "Each process has its own PML4 table"; a thread of a process *)
(* runs under the table of that process.                                   *)
RunsInOwnSpace == execed = {} => cr3 = addr_space[current]

(* syscall.cpp: "Load the ELF binary", into the "new address space for     *)
(* this process".                                                          *)
ProgramIsMapped == \A p \in execed, v \in Segment : Translation(mem, addr_space[p], v).p

(* pf.cpp: "Allocate new physical frame"; a page that a fault was served   *)
(* for has a frame of its own, never the 0 that stands for failure.        *)
FaultGotFrame == \A s \in Spaces, v \in Pages : Translation(mem, s, v).p => Translation(mem, s, v).f # 0
=============================================================================

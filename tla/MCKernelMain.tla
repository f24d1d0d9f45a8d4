---------------------------- MODULE MCKernelMain ----------------------------
(* Machines for TLC: a plain one, and variants of it in one respect each.  *)
EXTENDS KernelMain, TLC

Entry(id, e) == [id |-> id, enabled |-> e]
OneCpu == <<Entry(0, TRUE)>>

(* Every table of the BSP and up to three APs, some disabled, the BSP      *)
(* first or last.                                                          *)
Tables == UNION {{<<Entry(0, TRUE), Entry(1, a), Entry(2, b), Entry(3, c)>>,
                  <<Entry(2, b), Entry(1, a), Entry(0, TRUE)>>} : a, b, c \in BOOLEAN} \cup {OneCpu, <<>>}

Function(bridge, multi, secondary) ==
  [bridge |-> bridge, multi |-> multi, secondary |-> secondary, nic |-> FALSE, bar0 |-> "mem", bar1 |-> "mem"]
Plain == Function(FALSE, FALSE, 0)
Multi == Function(FALSE, TRUE, 0)
To(bus) == Function(TRUE, FALSE, bus)
MultiTo(bus) == Function(TRUE, TRUE, bus)
Nic(a, b) == [Plain EXCEPT !.nic = TRUE, !.bar0 = a, !.bar1 = b]
Absent == Function(FALSE, FALSE, 99)

FlatBus == (<<0, 0, 0>> :> Plain)
Restricted(f) == [p \in {q \in DOMAIN f : f[q] # Absent} |-> f[p]]

(* Three buses: bridges in function 0 and 1, to the own bus, to one bus    *)
(* twice, back to bus 0, with and without the multi-function bit.          *)
Topologies ==
  {Restricted((<<0, 0, 0>> :> a) @@ (<<0, 0, 1>> :> b) @@ (<<0, 1, 0>> :> c) @@ (<<1, 0, 0>> :> d)
                @@ (<<1, 0, 1>> :> e) @@ (<<2, 0, 0>> :> Plain)) :
     a \in {Plain, Multi}, b \in {Absent, Plain, To(1)}, c \in {Absent, To(0), To(1), To(2), MultiTo(1)},
     d \in {Absent, Plain, Multi, To(2), To(0)}, e \in {Absent, Plain}}

NoHpet == [table |-> FALSE, word |-> "zero", period |-> 0, counterMod |-> 1]
Hpets ==
  {NoHpet, [NoHpet EXCEPT !.table = TRUE], [table |-> TRUE, word |-> "other", period |-> 0, counterMod |-> 1],
   [table |-> TRUE, word |-> "other", period |-> 1, counterMod |-> 1]}
    \cup {[table |-> TRUE, word |-> "mmio", period |-> p, counterMod |-> c] : p \in Periods, c \in {8, WordMod}}

Standard ==
  [loader |-> "complete", rsdp |-> "physical", low |-> TRUE, heap |-> TRUE, madt |-> OneCpu,
   sized |-> TRUE, patched |-> TRUE, stacks |-> MAX_CPUS, functions |-> FlatBus, acpi |-> NoHpet, use |-> "card"]

AllMachines ==
  {[Standard EXCEPT !.use = "devices"]}
  \cup {[Standard EXCEPT !.loader = l, !.rsdp = r, !.low = w, !.heap = h] :
     l \in {"complete", "no_serial", "no_hhdm", "no_memmap"}, r \in {"none", "physical", "virtual"},
     w \in BOOLEAN, h \in BOOLEAN}
  \cup {[Standard EXCEPT !.madt = t, !.low = w, !.patched = p] : t \in Tables, w \in BOOLEAN, p \in BOOLEAN}
  \cup {[Standard EXCEPT !.madt = t, !.stacks = n] : t \in Tables, n \in 0..1}
  \cup {[Standard EXCEPT !.madt = t, !.sized = FALSE] : t \in Tables \ {<<>>}}
  \cup {[Standard EXCEPT !.functions = f] : f \in Topologies}
  \cup {[Standard EXCEPT !.functions = (<<0, 0, 0>> :> Nic(a, b)) @@ (<<0, 1, 0>> :> Nic("io", "mem"))] :
          a \in {"mem", "unassigned"}, b \in {"io", "mem"}}
  \cup {[Standard EXCEPT !.use = "screen"]}
  \cup {[Standard EXCEPT !.acpi = a, !.use = "clock"] : a \in Hpets}

SomeSleeps == 0..3 \cup {WordMod - 1}
SomePeriods == {1, 3}

(* Two lines of text with and without a spare row, one line with one, and  *)
(* a line whose last cell, which a tab leads to, is cut off.               *)
SomeScreens ==
  {[width |-> 3, height |-> 5], [width |-> 3, height |-> 4], [width |-> 4, height |-> 3], [width |-> 9, height |-> 2]}

(* A rectangle that leaves the screen, and one that wraps around. *)
SomeRects == {[x |-> 1, y |-> 1, w |-> 1, h |-> 9], [x |-> 3, y |-> 0, w |-> WordMod - 1, h |-> 1]}
=============================================================================

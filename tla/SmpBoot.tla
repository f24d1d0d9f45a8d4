------------------------------ MODULE SmpBoot -------------------------------
(***************************************************************************)
(* smp.cpp, trampoline.asm and the timer calibration of apic.cpp: the boot *)
(* processor (BSP) reads the MADT, and for each application processor (AP) *)
(* puts a stack pointer into the one slot of the trampoline page and sends *)
(* INIT and two startup IPIs; the AP runs the trampoline at its own pace,  *)
(* calibrates its timer against the one PIT and counts itself.  The delay  *)
(* loops of the BSP bound nothing: an AP may be slower.                    *)
(*                                                                         *)
(* The BSP patches the GDT, PML4, stack and entry point into the copied    *)
(* trampoline at fixed offsets that must match the layout of its data.  In *)
(* this source they do not: they hit the code before the data, and no AP   *)
(* gets through the trampoline.  machine.patched says whether they match:  *)
(* what is checked of the start of APs is for the build where they do, and *)
(* the one where they do not is a machine too.  An AP turns paging on      *)
(* while it executes at physical 0x8000, with the tables the loader made:  *)
(* without a mapping of that page to itself it shuts down there.           *)
(***************************************************************************)
EXTENDS Naturals, Sequences, FiniteSets, BootMachine

CONSTANTS
  Madts,                   \* the tables the firmware may hand over: sequences of [id, enabled]
  MAX_CPUS,                \* length of kLapicIds
  CALIBRATE_MS,            \* what the PIT is programmed for
  TicksPerMs               \* the rate of every APIC timer

(* A processor has one entry in the MADT. *)
ASSUME SmpAssumption ==
  /\ MAX_CPUS \in Nat \ {0} /\ CALIBRATE_MS \in Nat \ {0} /\ TicksPerMs \in Nat
  /\ \A m \in Madts : m \in Seq([id : Nat, enabled : BOOLEAN])
  /\ \A m \in Madts : \A j, k \in DOMAIN m : m[j].id = m[k].id => j = k

BspId == 0
Id == {BspId} \cup UNION {{m[k].id : k \in DOMAIN m} : m \in Madts}

VARIABLES
  bsp,                     \* where smp_init is
  kLapicIds,               \* the APs found; kCpuCount is one more
  i,                       \* the loop variable
  kCpusStarted,
  ap_stack,                \* the slot in the trampoline page; a stack is a number
  ap,                      \* where each processor is
  rsp,                     \* the stack each one took
  pit,                     \* milliseconds left on PIT channel 2
  count,                   \* what each APIC timer counted, in milliseconds
  kTicksPerMs,
  mishaps                  \* history: what a processor took while another still needed it, or did not get

smpVars == <<bsp, kLapicIds, i, kCpusStarted, ap_stack, ap, rsp, pit, count, kTicksPerMs, mishaps>>

madt == machine.madt
low == machine.low         \* whether the loader maps low memory one to one
patched == machine.patched \* whether the patched offsets are those of the trampoline's data

kCpuCount == Len(kLapicIds) + 1

(* The BSP has calibrated its own timer before (apic_init). *)
SmpInit ==
  /\ bsp = "parse" /\ kLapicIds = <<>> /\ i = 1 /\ kCpusStarted = 1 /\ ap_stack = 0
  /\ ap = [c \in Id |-> "off"] /\ rsp = [c \in Id |-> 0]
  /\ pit = 0 /\ count = [c \in Id |-> 0] /\ kTicksPerMs = TicksPerMs
  /\ mishaps = {}

-----------------------------------------------------------------------------
(* The boot processor *)

Counted(entry) == entry.enabled /\ entry.id # BspId

(* The loop over the table: the APs found in its first k entries, as many  *)
(* as find room beside the BSP.                                            *)
Parsed[k \in 0..Len(madt)] ==
  IF k = 0 THEN <<>>
  ELSE IF Counted(madt[k]) /\ Len(Parsed[k - 1]) + 1 < MAX_CPUS THEN Append(Parsed[k - 1], madt[k].id)
  ELSE Parsed[k - 1]

(* An entry of length 0 is parsed over and over.  Without a MADT smp_init  *)
(* returns; that is a table with no entries.                               *)
smp_init_Parse ==
  /\ bsp = "parse"
  /\ machine.sized
  /\ kLapicIds' = Parsed[Len(madt)]
  /\ bsp' = "loop"
  /\ UNCHANGED <<mishaps, i, kCpusStarted, ap_stack, ap, rsp, pit, count, kTicksPerMs>>

StackLeft == i <= machine.stacks

(* pmm_alloc_pages returns address 0 when it has no four pages, and nobody *)
(* looks: the stack is then the one above physical address 0, whichever AP *)
(* it is for.                                                              *)
StackAtZero == MAX_CPUS

StackFor_Shared == 1
StackFor == IF StackLeft THEN i ELSE StackAtZero

(* An AP that was sent off has not read its stack pointer yet. *)
SlotInUse == \E c \in Id : ap[c] \in {"reset", "trampoline"}

(* A stack for AP i, and INIT. *)
smp_init_Stack ==
  /\ bsp = "loop" /\ i < kCpuCount
  /\ ap_stack' = StackFor
  /\ mishaps' = mishaps \cup (IF SlotInUse THEN {"slot"} ELSE {}) \cup (IF StackLeft THEN {} ELSE {"memory"})
  /\ ap' = [ap EXCEPT ![kLapicIds[i]] = "reset"]
  /\ bsp' = "sipi"
  /\ UNCHANGED <<kLapicIds, i, kCpusStarted, rsp, pit, count, kTicksPerMs>>

(* The first startup IPI may go unnoticed. *)
smp_init_Sipi ==
  /\ bsp = "sipi"
  /\ \E arrives \in BOOLEAN : ap' = IF arrives THEN [ap EXCEPT ![kLapicIds[i]] = "trampoline"] ELSE ap
  /\ bsp' = "sipi2"
  /\ UNCHANGED <<mishaps, kLapicIds, i, kCpusStarted, ap_stack, rsp, pit, count, kTicksPerMs>>

(* A processor that runs ignores the second one. *)
SecondSipi(c) == IF ap[c] = "reset" THEN [ap EXCEPT ![c] = "trampoline"] ELSE ap

smp_init_Sipi2 ==
  /\ bsp = "sipi2"
  /\ ap' = SecondSipi(kLapicIds[i])
  /\ i' = i + 1
  /\ bsp' = "loop"
  /\ UNCHANGED <<mishaps, kLapicIds, kCpusStarted, ap_stack, rsp, pit, count, kTicksPerMs>>

AllStarted_OneLess == kCpusStarted + 1 >= kCpuCount
AllStarted == kCpusStarted >= kCpuCount

smp_init_Done ==
  /\ bsp = "loop" /\ i = kCpuCount
  /\ AllStarted
  /\ bsp' = "done"
  /\ UNCHANGED <<mishaps, kLapicIds, i, kCpusStarted, ap_stack, ap, rsp, pit, count, kTicksPerMs>>

-----------------------------------------------------------------------------
(* An application processor *)

ApGoto(c, from, to) == ap[c] = from /\ ap' = [ap EXCEPT ![c] = to]

(* From real mode to long mode, where the stack pointer is loaded from the *)
(* slot: mov rsp, [ap_stack].                                              *)
trampoline_lm(c) ==
  /\ low /\ patched
  /\ ApGoto(c, "trampoline", "entry")
  /\ rsp' = [rsp EXCEPT ![c] = ap_stack]
  /\ UNCHANGED <<mishaps, bsp, kLapicIds, i, kCpusStarted, ap_stack, pit, count, kTicksPerMs>>

(* Paging turned on where nothing is mapped, or instructions overwritten:  *)
(* the AP is lost.                                                         *)
trampoline_pm_Fault(c) ==
  /\ ~ (low /\ patched)
  /\ ApGoto(c, "trampoline", "shutdown")
  /\ UNCHANGED <<mishaps, bsp, kLapicIds, i, kCpusStarted, ap_stack, rsp, pit, count, kTicksPerMs>>

(* apic_init, calibrate_timer: program the PIT and start the APIC timer. *)
calibrate_timer_Start(c) ==
  /\ ApGoto(c, "entry", "calibrating")
  /\ pit' = CALIBRATE_MS
  /\ count' = [count EXCEPT ![c] = 0]
  /\ mishaps' = mishaps \cup IF \E d \in Id : ap[d] = "calibrating" THEN {"pit"} ELSE {}
  /\ UNCHANGED <<bsp, kLapicIds, i, kCpusStarted, ap_stack, rsp, kTicksPerMs>>

(* The poll loop sees the PIT's output high. *)
PitExpired == pit = 0

calibrate_timer_End(c) ==
  /\ PitExpired
  /\ ApGoto(c, "calibrating", "calibrated")
  /\ kTicksPerMs' = (count[c] * TicksPerMs) \div CALIBRATE_MS
  /\ UNCHANGED <<mishaps, bsp, kLapicIds, i, kCpusStarted, ap_stack, rsp, pit, count>>

CountIn == kCpusStarted + 1

ap_kernel_entry(c) ==
  /\ ApGoto(c, "calibrated", "halted")
  /\ kCpusStarted' = CountIn
  /\ UNCHANGED <<mishaps, bsp, kLapicIds, i, ap_stack, rsp, pit, count, kTicksPerMs>>

(* A millisecond: the PIT counts down, the timers that run count up.  The  *)
(* poll loops are fast: none misses the end.                               *)
PitTick ==
  /\ pit > 0
  /\ pit' = pit - 1
  /\ count' = [c \in Id |-> IF ap[c] = "calibrating" THEN count[c] + 1 ELSE count[c]]
  /\ UNCHANGED <<mishaps, bsp, kLapicIds, i, kCpusStarted, ap_stack, ap, rsp, kTicksPerMs>>

Bsp == smp_init_Parse \/ smp_init_Stack \/ smp_init_Sipi \/ smp_init_Sipi2 \/ smp_init_Done
Ap(c) ==
  trampoline_lm(c) \/ trampoline_pm_Fault(c) \/ calibrate_timer_Start(c) \/ calibrate_timer_End(c) \/ ap_kernel_entry(c)

-----------------------------------------------------------------------------
(* Every variable has its type; no processor counts itself twice.          *)
TypeOK ==
  /\ bsp \in {"parse", "loop", "sipi", "sipi2", "done"}
  /\ kLapicIds \in Seq(Id) /\ i \in 1..kCpuCount /\ kCpusStarted \in 1..kCpuCount
  /\ ap_stack \in 0..StackAtZero /\ rsp \in [Id -> 0..StackAtZero]
  /\ ap \in [Id -> {"off", "reset", "trampoline", "entry", "calibrating", "calibrated", "halted", "shutdown"}]
  /\ pit \in 0..CALIBRATE_MS /\ count \in [Id -> Nat] /\ kTicksPerMs \in Nat
  /\ mishaps \subseteq {"slot", "memory", "pit"}

Startable == {k \in DOMAIN madt : Counted(madt[k])}

(* When smp_init reports that all cores are active, every enabled AP of    *)
(* the MADT that kLapicIds has room for has counted itself, and no other   *)
(* processor was started, whatever order the APs came up in.               *)
AllCoresActive ==
  /\ TypeOK
  /\ bsp = "done" => \A k \in Startable : Cardinality({j \in Startable : j < k}) < MAX_CPUS - 1 => ap[madt[k].id] = "halted"
  /\ \A k \in DOMAIN madt \ Startable : ap[madt[k].id] = "off"

(* calibrate_timer: "ticks per millisecond = elapsed /                     *)
(* calibration_period_ms"; so kTicksPerMs is the rate of the timers.       *)
TicksAreTrue == kTicksPerMs = TicksPerMs

(* smp_init allocates a stack for each AP: no two run on the same one.     *)
StacksApart == \A c, d \in Id : rsp[c] # 0 /\ rsp[c] = rsp[d] => c = d

(* Three things only can go wrong while the APs come up on their own: the  *)
(* slot of the trampoline is overwritten before its AP has read it, there  *)
(* is no memory for a stack, and two processors calibrate against the one  *)
(* PIT at a time.  As long as neither of the first two happens every AP    *)
(* has a stack of its own, and as long as the last does not the shared     *)
(* kTicksPerMs is the true rate whoever stored it last.                    *)
QuietStartIsSound ==
  /\ "slot" \notin mishaps /\ "memory" \notin mishaps => StacksApart
  /\ "pit" \notin mishaps => TicksAreTrue
=============================================================================

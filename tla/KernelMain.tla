----------------------------- MODULE KernelMain -----------------------------
(***************************************************************************)
(* entry.cpp: kernel_main brings the components up one after the other on  *)
(* the boot processor, while application processors that smp_init started  *)
(* run on their own, and ends in the idle loop.  What the firmware and the *)
(* boot loader hand over is a machine, a constant of the behaviour.  The   *)
(* allocators, the scheduler and the file system have modules of their     *)
(* own; of them kernel_main sees here only whether vfs_init got a root.    *)
(* Kernel code uses a driver when the boot is over: the drivers share no   *)
(* state, so an instance exercises one of them, machine.use.               *)
(***************************************************************************)
EXTENDS SmpBoot, Pci, Hpet, VirtioNet, DeviceRegistry, Framebuffer

ASSUME MachineAssumption ==
  \A m \in Machines :
    /\ m.loader \in {"complete", "no_serial", "no_hhdm", "no_memmap"}
    /\ m.rsdp \in {"none", "physical", "virtual"} /\ m.low \in BOOLEAN /\ m.heap \in BOOLEAN
    /\ m.madt \in Madts /\ m.sized \in BOOLEAN /\ m.patched \in BOOLEAN /\ m.stacks \in Nat
    /\ m.acpi.period \in Periods \cup {0} /\ m.acpi.counterMod \in 1..WordMod
    /\ m.use \in {"clock", "card", "devices", "screen"}

VARIABLE phase     \* where kernel_main is

vars == <<machine, phase, smpVars, pciVars, clockVars, cardVars, registryVars, screenVars>>

Init ==
  /\ machine \in Machines /\ phase = "entry"
  /\ SmpInit /\ PciInit /\ HpetInit /\ VirtioInit /\ RegistryInit /\ ScreenInit

-----------------------------------------------------------------------------
(* kernel_main *)

Goto(from, to) == phase = from /\ phase' = to /\ UNCHANGED machine

(* Serial port, HHDM and memory map, or a halt; then the GDT, IDT, PMM,    *)
(* heap, threads and the timer of the boot processor.                      *)
kernel_main_Requests ==
  /\ Goto("entry", IF machine.loader = "complete" THEN "smp" ELSE "halted")
  /\ UNCHANGED <<smpVars, pciVars, clockVars, cardVars, registryVars, screenVars>>

(* smp_init adds the HHDM offset to the RSDP address; an address that is   *)
(* virtual already faults.  Without an RSDP smp_init is not called.        *)
kernel_main_SmpSkipped ==
  /\ machine.rsdp # "physical"
  /\ Goto("smp", IF machine.rsdp = "none" THEN "vfs" ELSE "panicked")
  /\ UNCHANGED <<smpVars, pciVars, clockVars, cardVars, registryVars, screenVars>>

kernel_main_Smp ==
  /\ machine.rsdp = "physical" /\ phase = "smp"
  /\ UNCHANGED machine
  /\ Bsp
  /\ phase' = IF bsp' = "done" THEN "vfs" ELSE phase
  /\ UNCHANGED <<pciVars, clockVars, cardVars, registryVars, screenVars>>

(* scheduler_init and vfs_init; vfs_root()->name is read in any case. *)
kernel_main_Vfs ==
  /\ Goto("vfs", IF machine.heap THEN "devices" ELSE "panicked")
  /\ UNCHANGED <<smpVars, pciVars, clockVars, cardVars, registryVars, screenVars>>

kernel_main_Devices ==
  /\ Goto("devices", "pci")
  /\ device_manager_init
  /\ ScanBegins
  /\ UNCHANGED <<smpVars, clockVars, cardVars, screenVars>>

kernel_main_Pci ==
  /\ phase = "pci"
  /\ UNCHANGED machine
  /\ Scan
  /\ phase' = IF calls' = <<>> THEN "hpet" ELSE phase
  /\ UNCHANGED <<smpVars, clockVars, cardVars, registryVars, screenVars>>

(* The calls use up the boot stack. *)
kernel_main_PciOverflow ==
  /\ StackOverflow
  /\ Goto("pci", "panicked")
  /\ UNCHANGED <<smpVars, pciVars, clockVars, cardVars, registryVars, screenVars>>

(* hpet_init reads the RSDP at its address as it is: a page fault for a    *)
(* physical address, unless low memory is mapped one to one.               *)
HpetFaults == machine.rsdp = "physical" /\ (~machine.low \/ DividesByZero)

kernel_main_HpetFault ==
  /\ HpetFaults
  /\ Goto("hpet", "panicked")
  /\ UNCHANGED <<smpVars, pciVars, clockVars, cardVars, registryVars, screenVars>>

kernel_main_Hpet ==
  /\ ~HpetFaults
  /\ Goto("hpet", "net")
  /\ IF machine.rsdp = "none" THEN UNCHANGED clockVars ELSE hpet_init
  /\ UNCHANGED <<smpVars, pciVars, cardVars, registryVars, screenVars>>

(* net_init takes the card's address; scheduler_start; the idle loop. *)
kernel_main_Net ==
  /\ Goto("net", "idle")
  /\ eth_get_mac
  /\ UNCHANGED <<smpVars, pciVars, clockVars, registryVars, screenVars>>

kernel_main ==
  \/ kernel_main_Requests \/ kernel_main_SmpSkipped \/ kernel_main_Smp \/ kernel_main_Vfs
  \/ kernel_main_Devices \/ kernel_main_Pci \/ kernel_main_PciOverflow
  \/ kernel_main_HpetFault \/ kernel_main_Hpet \/ kernel_main_Net

-----------------------------------------------------------------------------
(* The other processors, and the kernel's use of its drivers. *)

ApStep(c) ==
  /\ UNCHANGED <<machine, phase>>
  /\ Ap(c)
  /\ UNCHANGED <<pciVars, clockVars, cardVars, registryVars, screenVars>>

Millisecond ==
  /\ UNCHANGED <<machine, phase>>
  /\ PitTick
  /\ UNCHANGED <<pciVars, clockVars, cardVars, registryVars, screenVars>>

Using(driver) == phase = "idle" /\ machine.use = driver /\ UNCHANGED <<machine, phase>>

UseClock ==
  /\ Using("clock")
  /\ Sleep
  /\ UNCHANGED <<smpVars, pciVars, cardVars, registryVars, screenVars>>

KeepPolling ==
  /\ Using("clock")
  /\ Wait
  /\ UNCHANGED <<smpVars, pciVars, cardVars, registryVars, screenVars>>

UseCard ==
  /\ Using("card")
  /\ UseNic
  /\ UNCHANGED <<smpVars, pciVars, clockVars, registryVars, screenVars>>

UseDevices ==
  /\ Using("devices")
  /\ RegistryNext
  /\ UNCHANGED <<smpVars, pciVars, clockVars, cardVars, screenVars>>

UseScreen ==
  /\ Using("screen")
  /\ ScreenNext
  /\ UNCHANGED <<smpVars, pciVars, clockVars, cardVars, registryVars>>

Next ==
  \/ kernel_main
  \/ \E c \in Id : ApStep(c)
  \/ Millisecond
  \/ UseClock \/ UseCard \/ UseDevices \/ UseScreen

(* Every processor runs, time passes, and a thread that waits keeps        *)
(* polling.                                                                *)
Spec ==
  /\ Init /\ [][Next]_vars
  /\ WF_vars(kernel_main) /\ WF_vars(Millisecond) /\ WF_vars(KeepPolling)
  /\ \A c \in Id : WF_vars(ApStep(c))

-----------------------------------------------------------------------------
(* Properties. *)

(* smp_init does not return from a table with an entry of length 0, and it *)
(* waits for ever for an AP that cannot get through the trampoline.        *)
SmpHangs ==
  /\ machine.loader = "complete" /\ machine.rsdp = "physical"
  /\ ~machine.sized \/ (Startable # {} /\ ~ (low /\ patched) /\ MAX_CPUS > 1)

(* What the code needs of a machine to get to the idle loop. *)
Bootable ==
  /\ machine.loader = "complete" /\ machine.heap
  /\ machine.rsdp # "virtual" /\ ~HpetFaults
  /\ NumberedUpward /\ ~SmpHangs


(* The recursive scan is over exactly when every function that is visible  *)
(* from bus 0 has been reported, each once if no bus is behind two         *)
(* bridges; the card that eth_probe finds with its own scan is one of      *)
(* them.                                                                   *)
ScanExact ==
  phase \in {"hpet", "net", "idle"} =>
    /\ {p \in DOMAIN functions : reported[p] > 0} = Visible
    /\ OneBridgeEach => \A p \in Visible : reported[p] = 1
    /\ g_device_found => <<0, g_io_base, 0>> \in Visible

(* Readings of the clock wrap around at the end of the counter, and at the *)
(* end of the word that holds its product with the period.                 *)
EndsBeforeWrap ==
  \E end \in {sleeper.end}, period \in {kPeriodFs} :
    end * FsPerUs + MaxGap * period <= machine.acpi.counterMod * period
      /\ end * FsPerUs + MaxGap * period <= WordMod

(* A sleep on a real HPET whose end comes before the readings wrap around  *)
(* returns, however unevenly the counter is polled.                        *)
SleepEnds == (sleeper.at = "polling" /\ machine.acpi.word = "mmio" /\ EndsBeforeWrap) ~> (sleeper.at = "returned")
=============================================================================

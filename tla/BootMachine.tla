---------------------------- MODULE BootMachine -----------------------------
(* What firmware, boot loader and hardware hand over to the kernel: a      *)
(* constant of every behaviour, which each driver reads its part of.       *)

CONSTANTS
  Machines,        \* [loader, rsdp, low, heap, madt, sized, patched, stacks, functions, acpi, use]
  MaxDev,          \* devices of a PCI bus
  NULL

VARIABLE machine
=============================================================================

-------------------------------- MODULE Pci ---------------------------------
(***************************************************************************)
(* pci.cpp, the scan that kernel_main starts on bus 0: every device of a   *)
(* bus, every function of a multi-function device, and recursively the bus *)
(* behind a bridge.  The recursion is a stack of positions; one step scans *)
(* one function.  The configuration space answers as a constant of the     *)
(* machine: functions that are absent read as vendor 0xFFFF.               *)
(***************************************************************************)
EXTENDS Naturals, Sequences, BootMachine

CONSTANTS
  MaxFunc,           \* functions of a device
  MaxDepth           \* the calls that the boot stack has room for

ASSUME PciAssumption ==
  /\ MaxDev \in Nat /\ MaxFunc \in Nat \ {0}
  /\ \A m \in Machines : DOMAIN m.functions \subseteq Nat \X (0..(MaxDev - 1)) \X (0..(MaxFunc - 1))

VARIABLES
  calls,             \* the pci_scan_bus calls under way, the innermost last
  reported           \* how many lines of the boot log each function has

pciVars == <<calls, reported>>

(* [<<bus, dev, func>> -> [bridge, multi, secondary]], of the functions    *)
(* present.                                                                *)
functions == machine.functions

PciInit == calls = <<>> /\ reported = [p \in DOMAIN functions |-> 0]

Top == calls[Len(calls)]
Position == <<Top.bus, Top.dev, Top.func>>
CallAt(bus) == [bus |-> bus, dev |-> 0, func |-> 0]

(* pci_scan_bus(0) is called. *)
ScanBegins == calls' = <<CallAt(0)>> /\ UNCHANGED reported

-----------------------------------------------------------------------------
Present(p) == p \in DOMAIN functions
MultiFunction(bus, dev) == functions[<<bus, dev, 0>>].multi

Advanced_FirstOnly(c) == [c EXCEPT !.dev = @ + 1]

(* The loops of pci_scan_bus and pci_scan_device: functions 1 to 7 follow  *)
(* only a function 0 that is there and has bit 7 of its header type set.   *)
Advanced(c) ==
  IF Present(<<c.bus, c.dev, 0>>) /\ MultiFunction(c.bus, c.dev) /\ c.func + 1 < MaxFunc
  THEN [c EXCEPT !.func = @ + 1]
  ELSE [c EXCEPT !.dev = @ + 1, !.func = 0]


(* header_type == 0x01: a bridge whose multi-function bit is clear. *)
BridgeFollowed(p) == functions[p].bridge /\ ~functions[p].multi /\ functions[p].secondary # p[1]

(* The innermost call goes on with its next position. *)
Passed == [calls EXCEPT ![Len(calls)] = Advanced(Top)]

Scanning == calls # <<>> /\ Top.dev < MaxDev

pci_scan_function_Absent ==
  /\ Scanning /\ ~Present(Position)
  /\ calls' = Passed
  /\ UNCHANGED reported

(* The function is logged; the position after it is where the call goes on *)
(* when the bus behind a bridge has been scanned.                          *)
pci_scan_function ==
  /\ Scanning /\ Present(Position)
  /\ Len(calls) <= MaxDepth
  /\ reported' = [reported EXCEPT ![Position] = @ + 1]
  /\ calls' = Passed
                \o IF BridgeFollowed(Position) THEN <<CallAt(functions[Position].secondary)>> ELSE <<>>

pci_scan_bus_Return ==
  /\ calls # <<>> /\ Top.dev = MaxDev
  /\ calls' = SubSeq(calls, 1, Len(calls) - 1)
  /\ UNCHANGED reported

Scan == pci_scan_function_Absent \/ pci_scan_function \/ pci_scan_bus_Return

(* The boot stack is used up. *)
StackOverflow == Scanning /\ Len(calls) > MaxDepth

-----------------------------------------------------------------------------
(* What the scan should find, without its order. *)

Buses == {p[1] : p \in DOMAIN functions} \cup {functions[p].secondary : p \in DOMAIN functions} \cup {0}
Probed(p) == p[3] = 0 \/ (Present(<<p[1], p[2], 0>>) /\ MultiFunction(p[1], p[2]))
Bridges ==
  {p \in DOMAIN functions : Probed(p) /\ functions[p].bridge /\ ~functions[p].multi /\ functions[p].secondary # p[1]}

(* The buses that every set with bus 0 and with what is behind its bridges *)
(* contains.                                                               *)
Closed(B) == 0 \in B /\ \A p \in Bridges : p[1] \in B => functions[p].secondary \in B
ReachableBuses == {b \in Buses : \A B \in SUBSET Buses : Closed(B) => b \in B}
Visible == {p \in DOMAIN functions : Probed(p) /\ p[1] \in ReachableBuses}

(* Firmware that numbers buses as the PCI specification asks: behind a     *)
(* bridge comes a higher bus, and no bus is behind two bridges.            *)
NumberedUpward == \A p \in Bridges : functions[p].secondary > p[1]
OneBridgeEach == \A p, q \in Bridges : functions[p].secondary = functions[q].secondary => p = q
=============================================================================

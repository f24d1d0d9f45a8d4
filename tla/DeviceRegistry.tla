--------------------------- MODULE DeviceRegistry ---------------------------
(***************************************************************************)
(* The device manager, device.cpp: a list of drivers' Device records that  *)
(* is linked through the records' own private_data field.  A driver names  *)
(* its record before it registers it and may rename it while it is not     *)
(* registered.  The check for a name covers the check for the record.      *)
(***************************************************************************)
EXTENDS Naturals, FiniteSets, Sequences, BootMachine

CONSTANTS Device, Names, MAX_DEVICES

ASSUME RegistryAssumption == IsFiniteSet(Device) /\ NULL \notin Device /\ Names # {} /\ MAX_DEVICES \in Nat

VARIABLES
  kDeviceList, kDeviceCount,
  name, private_data, ops,     \* fields of the records
  registered                   \* history: the drivers whose last call succeeded in registering

registryVars == <<kDeviceList, kDeviceCount, name, private_data, ops, registered>>

(* The record that a walk from the head is at after k links.               *)
Node[k \in Nat] ==
  IF k = 0 THEN kDeviceList ELSE IF Node[k - 1] = NULL THEN NULL ELSE private_data[Node[k - 1]]

(* The records on the list, from the head; the bound stops at a cycle. *)
Chain ==
  LET length == Cardinality({k \in 0..(Cardinality(Device) - 1) : Node[k] # NULL})
  IN  [k \in 1..length |-> Node[k - 1]]

Listed == {Chain[k] : k \in DOMAIN Chain}

(* Static storage; what drivers keep in their records is theirs. *)
RegistryInit ==
  /\ kDeviceList = NULL /\ kDeviceCount = 0
  /\ name = [d \in Device |-> CHOOSE n \in Names : TRUE]
  /\ private_data = [d \in Device |-> NULL] /\ ops = [d \in Device |-> "driver"]
  /\ registered = {}

device_manager_init ==
  /\ kDeviceList' = NULL /\ kDeviceCount' = 0
  /\ UNCHANGED <<name, private_data, ops, registered>>

device_find(n) ==
  LET found == {k \in DOMAIN Chain : name[Chain[k]] = n}
  IN  IF found = {} THEN NULL ELSE Chain[CHOOSE k \in found : \A j \in found : k <= j]

HasRoom == kDeviceCount < MAX_DEVICES

device_register(d) ==
  /\ HasRoom /\ device_find(name[d]) = NULL
  /\ kDeviceList' = d
  /\ private_data' = [private_data EXCEPT ![d] = kDeviceList]
  /\ ops' = [ops EXCEPT ![d] = NULL]
  /\ kDeviceCount' = kDeviceCount + 1
  /\ registered' = registered \cup {d}
  /\ UNCHANGED name

Unlinked_FromHead(d) == kDeviceList' = private_data[d] /\ UNCHANGED private_data

(* prev is the head or the private_data field of the record before. *)
Unlinked(d) ==
  LET k == CHOOSE j \in DOMAIN Chain : Chain[j] = d
  IN  IF k = 1 THEN kDeviceList' = private_data[d] /\ UNCHANGED private_data
      ELSE private_data' = [private_data EXCEPT ![Chain[k - 1]] = private_data[d]] /\ UNCHANGED kDeviceList

device_unregister(d) ==
  /\ d \in Listed
  /\ Unlinked(d)
  /\ kDeviceCount' = kDeviceCount - 1
  /\ registered' = registered \ {d}
  /\ UNCHANGED <<name, ops>>

(* A driver prepares its record for a new registration. *)
Prepare(d) ==
  /\ d \notin registered
  /\ \E n \in Names : name' = [name EXCEPT ![d] = n]
  /\ ops' = [ops EXCEPT ![d] = "driver"]
  /\ UNCHANGED <<kDeviceList, kDeviceCount, private_data, registered>>

RegistryNext == \E d \in Device : device_register(d) \/ device_unregister(d) \/ Prepare(d)

-----------------------------------------------------------------------------
(* However registrations and removals alternate, the list holds exactly    *)
(* the registered records, each once and with no cycle although removed    *)
(* records keep their old link; kDeviceCount is its length, within         *)
(* MAX_DEVICES; and device_find returns, for the name of a registered      *)
(* device, that device.                                                    *)
RegistryExact ==
  /\ Listed = registered /\ Len(Chain) = Cardinality(registered)
  /\ kDeviceCount = Len(Chain) /\ kDeviceCount <= MAX_DEVICES
  /\ \A d \in registered : device_find(name[d]) = d
=============================================================================

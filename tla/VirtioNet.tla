----------------------------- MODULE VirtioNet ------------------------------
(***************************************************************************)
(* eth.cpp, the virtio-net driver as far as it goes: it finds a card,      *)
(* resets it and goes through the status handshake, but sets up no queue,  *)
(* so eth_transmit reports success and sends nothing and eth_poll_receive  *)
(* never has a frame.  A MAC address is a model value.                     *)
(***************************************************************************)
EXTENDS Naturals, BootMachine

CONSTANTS
  MacValues,         \* the addresses that eth_set_mac is called with
  ZeroMac,           \* six zero bytes
  FeatureBytes       \* the first six bytes of the I/O BAR: features, not an address

VARIABLES
  g_io_base,         \* the card whose I/O BAR is in use
  g_device_found,
  g_mac_addr,
  g_our_mac,         \* net.cpp's copy
  status,            \* DEVICE_STATUS of each card
  guest              \* what GUEST_FEATURES of each card holds

cardVars == <<g_io_base, g_device_found, g_mac_addr, g_our_mac, status, guest>>

(* The virtio-net cards, the functions 0 of bus 0 that answer as one, with *)
(* their BARs: "io", "mem" or "unassigned".                                *)
cards ==
  LET at(d) == <<0, d, 0>>
      nics  == {d \in 0..(MaxDev - 1) : at(d) \in DOMAIN machine.functions /\ machine.functions[at(d)].nic}
  IN  [d \in nics |-> [bar0 |-> machine.functions[at(d)].bar0, bar1 |-> machine.functions[at(d)].bar1]]

(* Static storage, and cards as they come out of reset. *)
VirtioInit ==
  /\ g_io_base = NULL /\ g_device_found = FALSE
  /\ g_mac_addr = ZeroMac /\ g_our_mac = ZeroMac
  /\ status = [d \in DOMAIN cards |-> {}] /\ guest = [d \in DOMAIN cards |-> "none"]

-----------------------------------------------------------------------------
(* net_init: eth_get_mac(g_our_mac.addr). *)
eth_get_mac ==
  /\ g_our_mac' = g_mac_addr
  /\ UNCHANGED <<g_io_base, g_device_found, g_mac_addr, status, guest>>

(* The first virtio-net card of bus 0; there is one. *)
pci_find_virtio_net == CHOOSE d \in DOMAIN cards : \A e \in DOMAIN cards : d <= e

(* get_io_bar_base: BAR0, or BAR1 when BAR0 is no I/O BAR at all; one that *)
(* the firmware gave no address hides BAR1.                                *)
HasIoBar(d) == cards[d].bar0 = "io" \/ (cards[d].bar0 = "mem" /\ cards[d].bar1 = "io")

(* Steps 1 to 7 of virtio_net_init, with the MAC read at offset 0 of the   *)
(* I/O BAR, where the features are.                                        *)
virtio_net_init(d) ==
  /\ g_io_base' = d
  /\ status' = [status EXCEPT ![d] = {"ACK", "DRIVER", "FEATURES_OK", "DRIVER_OK"}]
  /\ guest' = [guest EXCEPT ![d] = "features"]
  /\ g_mac_addr' = FeatureBytes
  /\ g_device_found' = TRUE
  /\ UNCHANGED g_our_mac

(* Without a card, or with one that has no I/O BAR, nothing changes. *)
eth_probe ==
  /\ DOMAIN cards # {}
  /\ HasIoBar(pci_find_virtio_net)
  /\ virtio_net_init(pci_find_virtio_net)

(* The six bytes go to offset 0 as well: the last two end in the guest     *)
(* features.                                                               *)
eth_set_mac(m) ==
  /\ g_device_found
  /\ g_mac_addr' = m
  /\ guest' = [guest EXCEPT ![g_io_base] = "address"]
  /\ UNCHANGED <<g_io_base, g_device_found, g_our_mac, status>>

UseNic == eth_probe \/ \E m \in MacValues : eth_set_mac(m)

-----------------------------------------------------------------------------
(* net.cpp accepts and sends frames with the address that the driver has.  *)
StackHasDriverMac == g_our_mac = g_mac_addr
=============================================================================

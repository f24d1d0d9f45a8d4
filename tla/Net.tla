-------------------------------- MODULE Net --------------------------------
(***************************************************************************)
(* The network stack of net.cpp: the ARP cache, IPv4 input and output, the *)
(* UDP socket table with its one-datagram buffers and the TCP table.       *)
(* Frames come from a NIC driver in any order; eth_transmit (eth.cpp)      *)
(* accepts every frame it is given and so far only logs it.  Addresses are *)
(* numbers.  Ours is 0, as it is until a DHCP lease sets it; no function   *)
(* calls dhcp_dispatch, so no lease ever does, the netmask and the gateway *)
(* stay 0 too and every destination counts as local.  Of a datagram there  *)
(* are the port it was sent to, the bytes received of it and the length in *)
(* its header.                                                             *)
(***************************************************************************)
EXTENDS Integers, FiniteSets

CONSTANTS
  Peers,                   \* IP addresses of other hosts (positive)
  Servers,                 \* those that programs connect to
  MacsOf,                  \* the MAC addresses each of them may announce
  ARP_CACHE_SIZE, MAX_UDP_SOCKETS, MAX_TCP_SOCKETS,
  Ports,                   \* UDP ports in use, besides 0
  PeerPorts,               \* those of other hosts
  Lengths,                 \* of UDP datagrams, as received and as in the header
  HeaderLen, RxCapacity,   \* sizes of that header and of a receive buffer
  SendSizes, MaxPayload    \* what programs send; what ipv4_send has room for

ASSUME NetAssumption ==
  /\ Peers \subseteq Nat \ {0} /\ Servers \subseteq Peers /\ Ports \subseteq Nat \ {0}
  /\ PeerPorts \subseteq Nat \ {0} /\ Lengths \subseteq Nat /\ SendSizes \subseteq Nat
  /\ ARP_CACHE_SIZE \in Nat \ {0} /\ MAX_UDP_SOCKETS \in Nat \ {0}
  /\ MAX_TCP_SOCKETS \in Nat \ {0}
  /\ HeaderLen \in Nat /\ RxCapacity \in Nat /\ MaxPayload \in Nat
  /\ \A p \in Peers : 0 \notin MacsOf[p]

g_our_ip == 0
BroadcastIp == 255
BroadcastMac == 0
Macs == UNION {MacsOf[p] : p \in Peers}
Fd == 1..MAX_UDP_SOCKETS
TcpFd == 1..MAX_TCP_SOCKETS
TcpFlags == {{"SYN"}, {"ACK"}, {"FIN"}, {"SYN", "ACK"}}
Slot == 0..(ARP_CACHE_SIZE - 1)

VARIABLES
  g_arp_cache, g_arp_cache_next,
  g_udp_sockets,           \* the control blocks
  g_tcp_sockets,           \* state and local_port of each TCP control block
  wire,                    \* the frame given to eth_transmit last
  heard,                   \* history: the MAC address each peer announced last, 0 for none
  bound                    \* history: the ports each socket had since it was created

netVars == <<g_arp_cache, g_arp_cache_next, g_udp_sockets, g_tcp_sockets, wire, heard, bound>>

Datagram == [port : Ports \cup {0}, received : Lengths \cup {0}, length : Lengths \cup {0}]

FreshSocket == [state |-> "FREE", local_port |-> 0, remote_ip |-> 0, remote_port |-> 0,
                rx_data |-> [port |-> 0, received |-> 0, length |-> 0], rx_len |-> 0, rx_pending |-> FALSE]

Frame(mac, kind, ip, port) == [mac |-> mac, kind |-> kind, ip |-> ip, port |-> port]

dhcp_send_discover == Frame(BroadcastMac, "udp", BroadcastIp, 67)

(* net_init: empty tables, and a DISCOVER as broadcast. *)
NetInit ==
  /\ g_arp_cache = [i \in Slot |-> [ip |-> 0, mac |-> 0, valid |-> FALSE]] /\ g_arp_cache_next = 0
  /\ g_udp_sockets = [f \in Fd |-> FreshSocket]
  /\ g_tcp_sockets = [f \in TcpFd |-> [state |-> "CLOSED", local_port |-> 0]]
  /\ wire = dhcp_send_discover
  /\ heard = [p \in Peers |-> 0]
  /\ bound = [f \in Fd |-> {}]

-----------------------------------------------------------------------------
(* ARP *)

arp_cache_find(ip) == {i \in Slot : g_arp_cache[i].valid /\ g_arp_cache[i].ip = ip}

(* An address that is known gets the new MAC; otherwise the slots are      *)
(* taken in turn.                                                          *)
arp_cache_insert(ip, mac) ==
  IF arp_cache_find(ip) # {}
  THEN LET i == CHOOSE j \in arp_cache_find(ip) : \A k \in arp_cache_find(ip) : j <= k
       IN  g_arp_cache' = [g_arp_cache EXCEPT ![i].mac = mac] /\ UNCHANGED g_arp_cache_next
  ELSE /\ g_arp_cache' = [g_arp_cache EXCEPT ![g_arp_cache_next] = [ip |-> ip, mac |-> mac, valid |-> TRUE]]
       /\ g_arp_cache_next' = (g_arp_cache_next + 1) % ARP_CACHE_SIZE

(* arp_handle_packet: every packet is cached; a request for our address is *)
(* answered to the sender.                                                 *)
arp_handle_packet(sender, mac, isRequest, target) ==
  /\ arp_cache_insert(sender, mac)
  /\ heard' = [heard EXCEPT ![sender] = mac]
  /\ wire' = IF isRequest /\ target = g_our_ip THEN Frame(mac, "arp", sender, 0) ELSE wire
  /\ UNCHANGED <<g_udp_sockets, g_tcp_sockets, bound>>

-----------------------------------------------------------------------------
(* IPv4 *)

arp_send_request(ip) == Frame(BroadcastMac, "arp", ip, 0)

arp_resolve_Anyone(ip) == {i \in Slot : g_arp_cache[i].valid}

(* The entry arp_cache_lookup finds; arp_resolve does not wait for an      *)
(* answer when there is none.                                              *)
arp_resolve(ip) == {i \in arp_cache_find(ip) : \A k \in arp_cache_find(ip) : i <= k}

(* What ipv4_send transmits: nothing when the payload is too large, the    *)
(* packet when it is a broadcast or the MAC address is known, otherwise a  *)
(* request for that address.                                               *)
ipv4_send(ip, kind, port, size) ==
  IF size > MaxPayload THEN wire
  ELSE IF ip = BroadcastIp THEN Frame(BroadcastMac, kind, ip, port)
  ELSE IF arp_resolve(ip) = {} THEN arp_send_request(ip)
  ELSE LET i == CHOOSE j \in arp_resolve(ip) : TRUE
       IN  Frame(g_arp_cache[i].mac, kind, ip, port)

(* ipv4_handle_packet drops what is not for our address or a broadcast. *)
ForUs(dst) == dst \in {g_our_ip, BroadcastIp}

icmp_handle_echo(src, dst) ==
  /\ ForUs(dst)
  /\ wire' = ipv4_send(src, "icmp", 0, 0)
  /\ UNCHANGED <<g_arp_cache, g_arp_cache_next, g_udp_sockets, g_tcp_sockets, heard, bound>>

-----------------------------------------------------------------------------
(* UDP sockets *)

udp_find_socket(port) ==
  LET fs == {f \in Fd : g_udp_sockets[f].state # "FREE" /\ g_udp_sockets[f].local_port = port}
  IN  IF fs = {} THEN 0 ELSE CHOOSE f \in fs : \A h \in fs : f <= h

(* size_t: a length field below the header's size wraps around. *)
PayloadLen(len) == IF len < HeaderLen \/ len - HeaderLen > RxCapacity THEN RxCapacity ELSE len - HeaderLen

(* udp_handle_packet: the buffer holds one datagram, the newest; how much  *)
(* of it counts is up to its header, which is not compared with what was   *)
(* received.  The sender's port becomes the port the socket sends to.  A   *)
(* datagram below the size of the header is dropped, unless the IP header  *)
(* gives a total length below its own: then the length that                *)
(* ipv4_handle_packet passes on wraps around.                              *)
udp_handle_packet(dst, d, src_port, wraps) ==
  LET f == udp_find_socket(d.port)
  IN  /\ ForUs(dst) /\ (d.received >= HeaderLen \/ wraps) /\ f # 0
      /\ g_udp_sockets' = [g_udp_sockets EXCEPT ![f].rx_data = d, ![f].rx_len = PayloadLen(d.length),
                                                ![f].rx_pending = TRUE, ![f].remote_port = src_port]
      /\ UNCHANGED <<g_arp_cache, g_arp_cache_next, g_tcp_sockets, wire, heard, bound>>

SetSocket(f, s) ==
  /\ g_udp_sockets' = [g_udp_sockets EXCEPT ![f] = s]
  /\ UNCHANGED <<g_arp_cache, g_arp_cache_next, g_tcp_sockets, heard>>

NewSocket_KeepRx(s) == [s EXCEPT !.state = "BOUND", !.local_port = 0]
NewSocket(s) == [s EXCEPT !.state = "BOUND", !.local_port = 0, !.rx_pending = FALSE, !.rx_len = 0]

sys_socket_create ==
  \E f \in Fd : /\ g_udp_sockets[f].state = "FREE" /\ \A h \in 1..(f - 1) : g_udp_sockets[h].state # "FREE"
                /\ SetSocket(f, NewSocket(g_udp_sockets[f]))
                /\ bound' = [bound EXCEPT ![f] = {0}]
                /\ UNCHANGED wire

sys_socket_bind(f, port) ==
  /\ g_udp_sockets[f].state # "FREE"
  /\ SetSocket(f, [g_udp_sockets[f] EXCEPT !.local_port = port, !.state = "BOUND"])
  /\ bound' = [bound EXCEPT ![f] = @ \cup {port}]
  /\ UNCHANGED wire

sys_socket_connect(f, ip, port) ==
  /\ g_udp_sockets[f].state # "FREE"
  /\ SetSocket(f, [g_udp_sockets[f] EXCEPT !.remote_ip = ip, !.remote_port = port, !.state = "CONNECTED"])
  /\ UNCHANGED <<wire, bound>>

(* The buffer of the call is larger than what ipv4_send takes. *)
sys_socket_send(f, size) ==
  /\ g_udp_sockets[f].state = "CONNECTED"
  /\ size <= RxCapacity
  /\ wire' = ipv4_send(g_udp_sockets[f].remote_ip, "udp", g_udp_sockets[f].remote_port, HeaderLen + size)
  /\ UNCHANGED <<g_arp_cache, g_arp_cache_next, g_udp_sockets, g_tcp_sockets, heard, bound>>

(* The state of the socket is not looked at. *)
sys_socket_recv(f) ==
  /\ g_udp_sockets[f].rx_pending
  /\ SetSocket(f, [g_udp_sockets[f] EXCEPT !.rx_pending = FALSE, !.rx_len = 0])
  /\ UNCHANGED <<wire, bound>>

sys_socket_close(f) ==
  /\ SetSocket(f, [g_udp_sockets[f] EXCEPT !.state = "FREE"])
  /\ UNCHANGED <<wire, bound>>

(* net_send: a broadcast to port 69, there being no gateway. *)
net_send(size) ==
  /\ size \in 1..RxCapacity
  /\ wire' = ipv4_send(BroadcastIp, "udp", 69, HeaderLen + size)
  /\ UNCHANGED <<g_arp_cache, g_arp_cache_next, g_udp_sockets, g_tcp_sockets, heard, bound>>

-----------------------------------------------------------------------------
(* The TCP table: segments move the state of a control block,              *)
(* sys_socket_listen opens one.  There is no call for an active open.      *)

FirstOf(S) == CHOOSE f \in S : \A h \in S : f <= h

(* The open block of the port, else the first closed one, else none (0);   *)
(* a block that is given out stays CLOSED.                                 *)
tcp_find_or_alloc_socket(port) ==
  LET open == {f \in TcpFd : g_tcp_sockets[f].state # "CLOSED" /\ g_tcp_sockets[f].local_port = port}
      closed == {f \in TcpFd : g_tcp_sockets[f].state = "CLOSED"}
  IN  IF open # {} THEN FirstOf(open) ELSE IF closed # {} THEN FirstOf(closed) ELSE 0

TcpTransition_ClosedOpens(state, flags) == IF state = "CLOSED" /\ "SYN" \in flags THEN "SYN_RECEIVED" ELSE state

TcpTransition(state, flags) ==
  CASE state = "LISTEN" /\ "SYN" \in flags -> "SYN_RECEIVED"
    [] state = "SYN_SENT" /\ flags \cap {"SYN", "ACK"} # {} -> "ESTABLISHED"
    [] state = "ESTABLISHED" /\ "FIN" \in flags -> "CLOSE_WAIT"
    [] OTHER -> state

tcp_handle_packet(dst, port, flags) ==
  LET f == tcp_find_or_alloc_socket(port)
  IN  /\ ForUs(dst) /\ f # 0
      /\ g_tcp_sockets' = [g_tcp_sockets EXCEPT ![f] =
           [state |-> TcpTransition(@.state, flags), local_port |-> IF @.state = "CLOSED" THEN port ELSE @.local_port]]
      /\ UNCHANGED <<g_arp_cache, g_arp_cache_next, g_udp_sockets, wire, heard, bound>>

(* Fails on a closed block. *)
sys_socket_listen(f) ==
  /\ g_tcp_sockets' = IF g_tcp_sockets[f].state = "CLOSED" THEN g_tcp_sockets
                      ELSE [g_tcp_sockets EXCEPT ![f].state = "LISTEN"]
  /\ UNCHANGED <<g_arp_cache, g_arp_cache_next, g_udp_sockets, wire, heard, bound>>

-----------------------------------------------------------------------------
(* Frames that net_receive passes on, and the calls of programs *)

Arp(p) == \E mac \in MacsOf[p], r \in BOOLEAN, t \in {g_our_ip, BroadcastIp} : arp_handle_packet(p, mac, r, t)
Udp == \E dst \in {g_our_ip, BroadcastIp}, port \in Ports \cup {0}, src \in PeerPorts,
          received, length \in Lengths, wraps \in BOOLEAN :
         udp_handle_packet(dst, [port |-> port, received |-> received, length |-> length], src, wraps)
Tcp == \E port \in Ports, flags \in TcpFlags : tcp_handle_packet(g_our_ip, port, flags)

NetNext ==
  \/ \E p \in Peers : Arp(p) \/ icmp_handle_echo(p, g_our_ip)
  \/ Udp \/ Tcp
  \/ sys_socket_create
  \/ \E f \in Fd, port \in Ports : sys_socket_bind(f, port)
  \/ \E f \in Fd, p \in Servers, port \in PeerPorts : sys_socket_connect(f, p, port)
  \/ \E f \in Fd, size \in SendSizes : sys_socket_send(f, size)
  \/ \E f \in Fd : sys_socket_recv(f) \/ sys_socket_close(f)
  \/ \E f \in TcpFd : sys_socket_listen(f)
  \/ \E size \in SendSizes : net_send(size)

NetSpec == NetInit /\ [][NetNext]_netVars

-----------------------------------------------------------------------------
(* The tables keep their shape, whatever the length field of a datagram    *)
(* says: a receive buffer is never filled beyond its end.                  *)
NetTypeOK ==
  /\ g_arp_cache \in [Slot -> [ip : Peers \cup {0}, mac : Macs \cup {0}, valid : BOOLEAN]]
  /\ g_arp_cache_next \in Slot
  /\ g_udp_sockets \in [Fd -> [state : {"FREE", "BOUND", "CONNECTED"}, local_port : Ports \cup {0},
                              remote_ip : Peers \cup {0}, remote_port : PeerPorts \cup {0},
                              rx_data : Datagram, rx_len : 0..RxCapacity, rx_pending : BOOLEAN]]
  /\ g_tcp_sockets \in [TcpFd -> [state : {"CLOSED", "LISTEN", "SYN_SENT", "SYN_RECEIVED", "ESTABLISHED", "CLOSE_WAIT"},
                                 local_port : Ports \cup {0}]]
  /\ heard \in [Peers -> Macs \cup {0}] /\ bound \in [Fd -> SUBSET (Ports \cup {0})]

(* The ARP cache (arp_cache_insert) never holds two entries for a peer,    *)
(* and an entry, however often its slot changed hands, has the MAC address *)
(* the peer announced last.                                                *)
ArpLatest ==
  \A i \in Slot : g_arp_cache[i].valid =>
    /\ g_arp_cache[i].mac = heard[g_arp_cache[i].ip]
    /\ \A j \in Slot : g_arp_cache[j].valid /\ g_arp_cache[j].ip = g_arp_cache[i].ip => i = j

(* A frame that ipv4_send or an ARP reply addresses to one host goes to    *)
(* the MAC address that the owner of the IP address announced last, also   *)
(* when the cache evicted and relearned it; the cache itself never holds   *)
(* anything older.                                                         *)
FramesReachOwner ==
  [][ArpLatest /\ (wire' # wire /\ wire'.mac # BroadcastMac => wire'.mac = heard'[wire'.ip])]_netVars

(* What sys_socket_recv hands to the owner of a socket was sent to a port  *)
(* the socket had since sys_socket_create, never to another socket or to   *)
(* an earlier user of the same descriptor.  It fits the buffer whatever    *)
(* the header says, and was received whenever the header announces no more *)
(* than came.                                                              *)
DatagramIsOwn ==
  NetTypeOK /\ \A f \in Fd : LET s == g_udp_sockets[f]
                                d == s.rx_data
                            IN  s.state # "FREE" /\ s.rx_pending =>
                                  /\ d.port \in bound[f]
                                  /\ d.length \in HeaderLen..d.received => s.rx_len <= d.received - HeaderLen

(* No segment and no call, in any order, gets a TCP control block out of   *)
(* CLOSED: tcp_find_or_alloc_socket hands a block out as CLOSED, the       *)
(* switch ignores segments for it and sys_socket_listen refuses it, so the *)
(* other cases of the switch are never taken.                              *)
TcpNeverOpens == \A f \in TcpFd : g_tcp_sockets[f].state = "CLOSED"

-----------------------------------------------------------------------------
(* Disagreements *)

(* net.cpp, of struct UdpControlBlock: "single-packet buffer": what counts *)
(* as its contents was received in that packet.                            *)
RecvGivesReceived ==
  \A f \in Fd : LET s == g_udp_sockets[f] IN s.rx_pending => HeaderLen + s.rx_len <= s.rx_data.received
=============================================================================

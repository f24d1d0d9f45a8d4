------------------------------- MODULE MCNet -------------------------------
(* Net for TLC: three hosts and a cache of two entries, so that entries    *)
(* are replaced; the first host may change its network card.  Two sockets  *)
(* and two ports, so that a datagram could go to the wrong socket.         *)
EXTENDS Net

CardsOf == <<{7, 8}, {9}, {10}>>

(* The ARP cache, the UDP receive buffers and the TCP table do not touch   *)
(* each other: hosts other than the server are heard of only while nothing *)
(* has been received, and with two sockets in use there is only traffic to *)
(* them.                                                                   *)
HostsHeard == {p \in Peers : heard[p] # 0}
Connected == \E f \in Fd : g_udp_sockets[f].remote_ip # 0
Received == \E f \in Fd : g_udp_sockets[f].rx_data # FreshSocket.rx_data
TwoSockets == \A f \in Fd : bound[f] # {}
TcpUsed == \E f \in TcpFd : g_tcp_sockets[f].local_port # 0

Focus ==
  /\ HostsHeard \subseteq Servers \/ ~(Received \/ TcpUsed)
  /\ TwoSockets => HostsHeard = {} /\ ~Connected /\ ~TcpUsed
  /\ TcpUsed => ~Received

MCSpec == NetInit /\ [][NetNext /\ Focus']_netVars
=============================================================================

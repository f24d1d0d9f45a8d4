SPECIFICATION MCSpec
CONSTANTS
  Peers = {1, 2, 3}
  Servers = {1}
  MacsOf <- CardsOf
  ARP_CACHE_SIZE = 2
  MAX_UDP_SOCKETS = 2
  MAX_TCP_SOCKETS = 1
  Ports = {5, 6}
  PeerPorts = {9}
  Lengths = {1, 4}
  HeaderLen = 2
  RxCapacity = 1
  SendSizes = {0, 1}
  MaxPayload = 2
INVARIANTS DatagramIsOwn TcpNeverOpens
PROPERTY FramesReachOwner
CHECK_DEADLOCK FALSE

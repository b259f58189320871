SPECIFICATION Spec
CONSTANTS
  Options <- DefaultIpv6
  Packets = {1}
  Ingoing = {}
  Datagram <- Ipv4
  Datagram6 <- Ipv6
  ExtIp = "router"
  IntHost = "host"
  NatPort = 6000
  Losses <- SomeLoss
INVARIANTS
  LoopsForEver
CHECK_DEADLOCK FALSE

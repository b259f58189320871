SPECIFICATION Spec
CONSTANTS
  Options <- TokenBucketOnly
  Packets = {1, 2}
  Ingoing = {}
  Datagram <- Ipv4
  Datagram6 <- Ipv6
  ExtIp = "router"
  IntHost = "host"
  NatPort = 6000
  Losses <- SomeLoss
INVARIANTS
  VerdictOnDrop
CHECK_DEADLOCK FALSE

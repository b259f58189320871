SPECIFICATION FairSpec
CONSTANTS
  Options <- AllOptions
  Packets = {1, 2, 3}
  Ingoing = {2}
  Datagram <- Ipv4
  Datagram6 <- Ipv6
  ExtIp = "router"
  IntHost = "host"
  NatPort = 6000
  Losses <- SomeLoss
INVARIANTS
  TypeOK
  Shaped
  OneVerdict
  OrderKept
  Configured
  Intact
PROPERTIES
  Settled
CHECK_DEADLOCK FALSE

SPECIFICATION FairSpec
CONSTANTS
  Packets = {1, 2, 3, 5}
  PacketLen <- Lengths
  MaxTokens = 4
  MaxPackets = 2
  RedStart = 1
  Rates = {1, 6}
  PerToken = 4
  Interval = 2
  TokenSpace = 16
  Feeder = feeder
  Runner = runner
  None = None
  MaxElapsed = 3
INVARIANTS
  TypeOK
  RateConformance
  NoMissedSend
PROPERTIES
  StuckForEver
  EventuallySent
CHECK_DEADLOCK FALSE

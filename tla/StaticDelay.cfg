SPECIFICATION FairSpec
CONSTANTS
  Packets = {1, 2, 3}
  Delay = 2
  Shifts <- OneUnit
  LastArrival = 1
  MaxTime = 4
INVARIANTS
  TypeOK
  NoReordering
  NotEarly
  DelaysDoNotAddUp
PROPERTIES
  Outlined
CHECK_DEADLOCK FALSE

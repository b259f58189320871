SPECIFICATION FairSpec
CONSTANTS
  Packets = {1, 2}
  Options <- Curves
  Interval = 2
  LastArrival = 1
  MaxTime = 4
INVARIANTS
  TypeOK
  InTurn
  OnSchedule
  DelayOfTheMoment
  NotEarly
  NearPattern
PROPERTIES
  Outlined
CHECK_DEADLOCK FALSE

SPECIFICATION Spec
CONSTANTS
  Packets = {1}
  Options <- Slope31
  Interval = 1
  LastArrival = 0
  MaxTime = 1
INVARIANTS
  FixPointsKept
CHECK_DEADLOCK FALSE

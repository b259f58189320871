SPECIFICATION FairSpec
CONSTANTS
  Packets = {p1, p2, p3}
  Callers = {c1, c2}
  BurstDur = 1
  SleepDur = 1
  MaxAge = 3
  None = None
INVARIANTS
  TypeOK
  Conservation
  HeldOnePeriod
PROPERTIES
  Outlined
CHECK_DEADLOCK FALSE

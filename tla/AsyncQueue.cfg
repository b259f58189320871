SPECIFICATION FairSpec
CONSTANTS
  Data = {a, b}
  Main = main
  Producers = {main, w1}
  Workers = {w1, w2}
  Closers = {c}
  MaxPushes = 3
  Stopped = stopped
INVARIANTS
  TypeOK
  OneCallback
  Conservation
  NoLostWakeup
  EndsDrained
PROPERTIES
  Refinement
CHECK_DEADLOCK FALSE

SPECIFICATION Spec
CONSTANTS
  NatOptions <- Fullcone
  Callers = {c1}
  PortSpace = 2
  IntPorts = {0}
  Remotes <- OneRemote
  DnatRules <- NoRules
  MapIds = {m1, m2}
  FilterIds = {f1}
  None = None
INVARIANTS
  Found
CHECK_DEADLOCK FALSE

SPECIFICATION Spec
CONSTANTS
  NatOptions <- Portr
  Callers = {c1}
  PortSpace = 2
  IntPorts = {0, 1}
  Remotes <- OneRemote
  DnatRules <- OneToZero
  MapIds = {m1}
  FilterIds = {f1}
  None = None
INVARIANTS
  ForwardedPortAnswers
CHECK_DEADLOCK FALSE

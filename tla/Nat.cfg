SPECIFICATION Spec
CONSTANTS
  NatOptions <- AllTypes
  Callers = {c1}
  PortSpace = 2
  IntPorts = {0, 1}
  Remotes <- TwoPorts
  DnatRules <- ZeroToOne
  MapIds = {m1, m2}
  FilterIds = {f1}
  None = None
SYMMETRY Symmetry
INVARIANTS
  TypeOK
  NoStaleSlot
  Solicited
  OwnsExternalPort
  LostOnlyIfFull
  NoSelfDeadlock
CHECK_DEADLOCK FALSE

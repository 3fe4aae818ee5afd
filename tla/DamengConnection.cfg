SPECIFICATION Spec
CONSTANTS
  Conns = {c1, c2}
  Names = {n1, n2, n3}
  None = None
  MaxDials = 2
  MaxCalls = 1
INVARIANTS
  NoSocketLeft
  OwnDial
  NamesBounded
PROPERTIES
  IdleStaysValid
  CanceledReturns
CHECK_DEADLOCK FALSE

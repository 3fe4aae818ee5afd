SPECIFICATION Spec
CONSTANTS
  Clients = {c1, c2}
  Sources <- MCSources
  Kinds <- MCKinds
  Old = {1, 2}
  OldLinks <- MCOldLinks
  Values <- MCValues
  MaxCalls = 2
PROPERTIES
  DeleteIsOwn
CHECK_DEADLOCK FALSE

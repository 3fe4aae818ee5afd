SPECIFICATION Spec
CONSTANTS
  Clients = {c1, c2}
  Sources <- MCSources
  Kinds <- MCKinds
  Old = {1, 2}
  OldLinks <- MCOldLinks
  Values <- MCValues
  MaxCalls = 2
SYMMETRY MCSymmetry
INVARIANTS
  AskedIsDone
  ErrorTold
  LinksHaveRows
PROPERTIES
  OthersKeepLinks
CHECK_DEADLOCK FALSE

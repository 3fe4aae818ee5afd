SPECIFICATION Spec
CONSTANTS
  Clients = {c1}
  MaxOpen = 1
  MaxUnits = 2
  MaxDepth = 3
  MaxFrames = 3
  Ops = {"create", "update", "save", "delete"}
  Quirks = {}
INVARIANTS
  AllOrNothing
  WritesInTx
PROPERTIES
  ErrorsReachCaller
  StarterEnds
  ImplementsAtomicStore
CHECK_DEADLOCK FALSE

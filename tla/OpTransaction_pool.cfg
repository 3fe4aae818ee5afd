SPECIFICATION Spec
CONSTANTS
  Clients = {c1, c2}
  MaxOpen = 1
  MaxUnits = 1
  MaxDepth = 2
  MaxFrames = 1
  Ops = {"update", "delete"}
  Quirks = {"skip", "addError"}
INVARIANTS
  NoLeak
PROPERTIES
  EveryUnitEnds
CHECK_DEADLOCK FALSE

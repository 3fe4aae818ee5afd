SPECIFICATION RegistrySpec
CONSTANTS
  Base <- MCBase
  Spare = 1
  Handles = 1
  Writers = {1}
  Requests <- MCOneSided
  MaxAsked = 4
  MaxClones = 1
INVARIANTS
  SimplePlaced
  PackageOrder
CHECK_DEADLOCK FALSE

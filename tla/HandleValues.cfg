SPECIFICATION Spec
CONSTANTS
  Conds = {c1, c2}
  Clauses = {upsert}
  None = None
  Addrs = {a1, a2}
  MaxHandles = 4
  MaxStatements = 3
INVARIANTS
  FlagIsOwn
PROPERTIES
  HandlesAreValues
SYMMETRY MCSymmetry
CHECK_DEADLOCK FALSE

SPECIFICATION QuerySpec
CONSTANTS
  Users = {u1, u2}
  Rows = {r1, r2}
  Leaves = {l1}
  None = None
  Reads <- MCReads
  MaxCalls = 2
  MaxWrites = 2
INVARIANTS
  NothingWrong
  NothingMissing
  OnceEach
SYMMETRY MCSymmetry
CHECK_DEADLOCK FALSE

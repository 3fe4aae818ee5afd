SPECIFICATION Spec
CONSTANTS
  Procs = {"p1", "p2"}
  Models <- MCModels
  Extra <- MCExtra
  Hides <- MCHides
  Dialects = {"mysql", "sqlite"}
  MaxStarts <- MCStarts
  RowTable = "users"
  UniqueIndex = "uix_users_first_name"
  Names = {"n1", "n2"}
  Given = {1}
  MaxCalls = 2
  OldRows <- MCOldRows
  OldColumns = {"first_name"}
INVARIANTS
  MigratedIsComplete
  RerunRepairs
  CallLands
  AgreeOnRow
CHECK_DEADLOCK FALSE

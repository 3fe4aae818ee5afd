SPECIFICATION Spec
CONSTANTS
  Calls <- MCCalls
  Inputs <- MCInputs
  Old <- MCOld
  LastOldId = 2
  MaxVars = 7
  OtherKeys = {4}
  MaxOthers = 1
INVARIANTS
  AllOrNothing
  OwnTxEnds
  AnswerTrue
  EveryElementWritten
  KeysMatch
  StaleKeysHarmless
CHECK_DEADLOCK FALSE

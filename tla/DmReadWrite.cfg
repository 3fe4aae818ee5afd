SPECIFICATION Spec
CONSTANTS
  c1 = c1
  c2 = c2
  Conns <- MCConns
  s1 = s1
  s2 = s2
  Servers <- MCServers
  Sockets = {1, 2, 3, 4}
  None = None
  Listed <- MCListed
  Modes <- MCModes
  Confs <- MCConfs
  SwitchTimes = 1
  MaxFaults = 1
INVARIANTS
  PreferredFound
  AtMostOnce
  SocketsHeld
PROPERTIES
  ReadsOwnWrites
  CommitTrue
CHECK_DEADLOCK FALSE

CONSTANTS
  a = a
  b = b
  c1 = c1
  c2 = c2
  c3 = c3
  c4 = c4
  NoConfig = NoConfig
  Torn = Torn
  None = None
  Configs <- MCConfigs
  Clients <- TwoClients
  Asks <- TwoAsks
  MaxConnected = 2
  Faults <- AllFaults
  MaxRestarts = 1

SPECIFICATION Spec

INVARIANTS
  TypeOK
  EveryRootAccounted
  CleanShutdown

\* Every client connects once, and the app may be left stopped.
CHECK_DEADLOCK FALSE

CONSTANTS
  a = a
  b = b
  c1 = c1
  c2 = c2
  c3 = c3
  c4 = c4
  NoConfig = NoConfig
  Torn = Torn
  None = None
  Configs <- MCConfigs
  Clients <- FourClients
  Asks <- MixedAsks
  MaxConnected = 1
  Faults <- SureStart
  MaxRestarts = 2

SPECIFICATION Spec

INVARIANTS
  NeverTwoLive
  PromiseKept

\* Every client connects once, and the app may be left stopped.
CHECK_DEADLOCK FALSE

CONSTANTS
  a = a
  b = b
  c1 = c1
  c2 = c2
  c3 = c3
  c4 = c4
  NoRequest = NoRequest
  None = None
  Requests <- MCRequests
  Clients <- MCClients
  Asks <- MCAsks
  Faults <- AllFaults
  MaxRestarts = 1

SPECIFICATION FairSpec

INVARIANTS
  TypeOK
  ServedIsCurrent
  OneLive
  InArrivalOrder

PROPERTIES
  AckedIsServed
  EveryoneServed
  Recovers

\* Every client sends one message, and a failed job leaves the others waiting.
CHECK_DEADLOCK FALSE

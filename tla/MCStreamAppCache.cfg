CONSTANTS
  k1 = k1
  k2 = k2
  c1 = c1
  c2 = c2
  c3 = c3
  NoKey = NoKey
  Keys <- MCKeys
  Clients <- MCClients
  Wanted <- MCWanted
  Faults <- AllFaults
  MaxAttempts = 3

SPECIFICATION Spec

INVARIANTS
  TypeOK
  OneWriter
  ConfirmedIsWhole
  RejectedOnce

PROPERTY LoadsWhole

SYMMETRY Symmetry

\* Every client connects a few times and may not get through.
CHECK_DEADLOCK FALSE

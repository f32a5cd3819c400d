CONSTANTS
  c1 = c1
  c2 = c2
  d1 = d1
  d2 = d2
  Missing = Missing
  Callers <- MCCallers
  Data <- MCData
  KeyCount = 4
  Faults <- AllFaults
  MaxPuts = 5
  MaxRestarts = 2

SPECIFICATION Spec

INVARIANTS
  TypeOK
  AckedIsStored

PROPERTY RowsKept

SYMMETRY Symmetry

\* The log is bounded.
CHECK_DEADLOCK FALSE

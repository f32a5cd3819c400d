CONSTANTS
  NItems = 5
  BufferSize = 3
  Faults <- AllFaults

SPECIFICATION FairSpec

INVARIANTS
  TypeOK
  PollDiscipline
  WindowBound

PROPERTIES
  ImplementsTransfer
  Settles

\* A transfer ends, and a lost message leaves both actors waiting.
CHECK_DEADLOCK FALSE

---------------------------- MODULE MCLevelDBTable ----------------------------
EXTENDS LevelDBTable, TLC

CONSTANTS c1, c2, d1, d2

MCCallers == {c1, c2}
MCData    == {d1, d2}
AllFaults == FaultKinds

Symmetry == Permutations(MCCallers) \cup Permutations(MCData)
=============================================================================

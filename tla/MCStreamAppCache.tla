--------------------------- MODULE MCStreamAppCache ---------------------------
EXTENDS StreamAppCache, TLC

CONSTANTS k1, k2, c1, c2, c3

MCKeys == {k1, k2}
MCClients == {c1, c2, c3}

\* Two clients want the same jars, and a third one of them.
MCWanted == c1 :> {k1, k2} @@ c2 :> {k1, k2} @@ c3 :> {k2}

AllFaults == FaultKinds

Symmetry == Permutations({c1, c2})
=============================================================================

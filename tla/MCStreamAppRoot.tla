--------------------------- MODULE MCStreamAppRoot ---------------------------
EXTENDS StreamAppRoot, TLC

CONSTANTS a, b, c1, c2, c3, c4

MCConfigs == {a, b}

Put(kind, config) == [kind |-> kind, config |-> config]

\* Two clients at once that plug the new root first: enough for one to be
\* waited for by the hook and the other not.
TwoClients == {c1, c2}
TwoAsks == c1 :> Put("replaceFirst", a) @@ c2 :> Put("replaceFirst", b)

\* One client after the other, in any order, two of each kind.
FourClients == {c1, c2, c3, c4}
MixedAsks ==
    c1 :> Put("replaceFirst", a) @@ c2 :> Put("replaceFirst", b)
    @@ c3 :> Put("stopFirst", a) @@ c4 :> Put("stopFirst", b)

AllFaults == FaultKinds
SureStart == FaultKinds \ {"startFails"}
=============================================================================

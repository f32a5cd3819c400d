------------------------------ MODULE MCJarCache ------------------------------
EXTENDS JarCache, TLC

CONSTANTS k1, k2, k3, u1, u2

MCKeys      == {k1, k2, k3}
MCUploaders == {u1, u2}

\* The first uploader has more keys than two slots, the second wants one of them.
MCWanted == u1 :> {k1, k2, k3} @@ u2 :> {k1}

\* A restarted uploader does not know of the uploads of its last instance.
NoSecondUpload == FaultKinds \ {"resourceError"}
\* Every transfer that is begun and not torn down completes its file.
RestartsOnly   == {"crash", "resourceError"}

KeySymmetry == Permutations({k2, k3})
=============================================================================

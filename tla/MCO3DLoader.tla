----------------------------- MODULE MCO3DLoader -----------------------------
(* Two loaders, of which one may be made from the other, and two items.     *)
EXTENDS O3DLoader

CONSTANTS l1, l2, i1, i2, f1, f2

MCLoaders == {l1, l2}
MCItems == {i1, i2}
MCFiles == {f1, f2}
=============================================================================

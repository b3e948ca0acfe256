---------------------------- MODULE MCTrackedKey ----------------------------
(* Model values and constant sets for checking TrackedKey with TLC.        *)
EXTENDS TrackedKey, TLC

CONSTANTS w1, w2, w3, o

MCWorkers == {w1, w2, w3}
MCNone == {}
MCSymmetry == Permutations(MCWorkers)
=============================================================================

---------------------------- MODULE MCWaitSync ----------------------------
(* Instantiation of WaitSync for TLC.                                      *)
EXTENDS WaitSync, TLC

CONSTANTS w1, w2, w3, a1

MCWaiters2 == {w1, w2}
MCWaiters3 == {w1, w2, w3}
MCAborters == {a1}
ERR == 1
MCOpStatusErr == {0, ERR}
MCWakeErr == {ERR}
MCSymmetry2 == Permutations(MCWaiters2)
=============================================================================

----------------------------- MODULE MCCondition -----------------------------
(* Model values and constant sets for checking Condition with TLC.         *)
EXTENDS Condition, TLC

CONSTANTS w1, w2, w3, s1

MCWaiters == {w1, w2, w3}
MCSignallers == {s1}
MCAllWaitOps == {"wait", "timedwait"}
MCAllSignalOps == {"signal", "broadcast"}
MCWaitOnly == {"wait"}
MCTimedOnly == {"timedwait"}
MCSignalOnly == {"signal"}
MCSymmetry == Permutations(MCWaiters)
=============================================================================

--------------------------- MODULE MCThreadHandoff ---------------------------
(* Model values and constant sets for checking ThreadHandoff with TLC.     *)
EXTENDS ThreadHandoff, TLC

CONSTANTS w1, a1, a2, a3, s1, k1

MCWaiters == {w1, a1, a2, a3}
MCAcquirers == {a1, a2, a3}
MCSignallers == {s1}
MCWakers == {k1}
MCWaitOnly == {"wait"}
MCAllSignalOps == {"signal", "broadcast"}
=============================================================================

---------------------------- MODULE MCThreadUsage ----------------------------
(* The Main thread and two workers. *)
EXTENDS ThreadUsage

CONSTANTS m, w1, w2

MCWorkers == {w1, w2}
=============================================================================

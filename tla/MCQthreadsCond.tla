---------------------------- MODULE MCQthreadsCond ----------------------------
(* Three waiters on one qthreads condition variable. *)
EXTENDS QthreadsCond

CONSTANTS w1, w2, w3

MCWaiters == {w1, w2, w3}
=============================================================================

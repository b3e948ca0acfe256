------------------------------- MODULE FifoCond -------------------------------
(***************************************************************************)
(* What a condition variable of the qthreads backend promises its callers *)
(* (threads_qthreads_mutex.h, "Awaken one of threads in a FIFO manner"):  *)
(* waiting threads form a queue in arrival order; a signal wakes the      *)
(* oldest of them, a broadcast wakes them all, and only a woken thread    *)
(* returns from the wait.  Nothing here says how the queue is stored:     *)
(* QthreadsCond keeps it as a list of stack frames and is shown to        *)
(* implement this module.                                                  *)
(***************************************************************************)
EXTENDS Naturals, Sequences

CONSTANT Waiters

VARIABLES
  waiting, \* threads inside the wait, woken or not
  queue    \* threads waiting and not yet woken, oldest first

Init == waiting = {} /\ queue = << >>

Queued == {queue[i] : i \in 1..Len(queue)}

(* A thread starts to wait: it joins the end of the queue. *)
Wait(t) ==
  /\ t \notin waiting
  /\ waiting' = waiting \cup {t}
  /\ queue' = Append(queue, t)

(* A signal wakes the thread that has waited longest; with no waiter it   *)
(* does nothing, which is a stuttering step.                               *)
Signal ==
  /\ queue # << >>
  /\ queue' = Tail(queue)
  /\ UNCHANGED waiting

(* A broadcast wakes every waiting thread. *)
Broadcast ==
  /\ queue' = << >>
  /\ UNCHANGED waiting

(* A woken thread, one no longer queued, returns from the wait. *)
Return(t) ==
  /\ t \in waiting \ Queued
  /\ waiting' = waiting \ {t}
  /\ UNCHANGED queue

Next == Signal \/ Broadcast \/ \E t \in Waiters : Wait(t) \/ Return(t)

Spec == Init /\ [][Next]_<<waiting, queue>>
=============================================================================

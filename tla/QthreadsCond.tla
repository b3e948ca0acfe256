------------------------------ MODULE QthreadsCond ------------------------------
(***************************************************************************)
(* The condition variable of the qthreads backend,                        *)
(* src/src/impl/qthreads/threads_qthreads_mutex.h, used with the backend's *)
(* mutex, a qthread spinlock whose unlock yields.                          *)
(*                                                                         *)
(* A waiter's thread_cond_waiter_t {m_signaled, m_prev} lives in its own   *)
(* stack frame; it is named here by the waiting thread.  The condition     *)
(* keeps m_waiter_head (newest) and m_waiter_tail (oldest); every link     *)
(* m_prev points from an older waiter to the next newer one.  Every        *)
(* access to the list and to m_signaled happens under the condition's      *)
(* spinlock m_lock, so each such section is one atomic action and m_lock   *)
(* itself is not a variable.                                               *)
(*                                                                         *)
(* Waiters lock the mutex, call cond_wait and, once it returns, unlock    *)
(* the mutex; each makes at most MaxWaits calls.  Signallers call         *)
(* cond_signal or cond_broadcast, MaxSignals calls between them, without  *)
(* holding the mutex, which the backend allows.                            *)
(***************************************************************************)
EXTENDS Integers, Sequences, SequencesExt, FiniteSets

CONSTANTS
  Waiters,      \* threads that call thread_internal_cond_wait
  NULL,
  MaxWaits,     \* bound: cond_wait calls per waiter
  MaxSignals    \* bound: signal and broadcast calls in all

ASSUME NULL \notin Waiters /\ MaxWaits \in Nat /\ MaxSignals \in Nat

VARIABLES
  pc,          \* position of each waiter
  owner,       \* the waiter holding the mutex (qthread spinlock), or NULL
  head,        \* p_cond->m_waiter_head
  tail,        \* p_cond->m_waiter_tail
  m_signaled,  \* m_signaled of each waiter's frame
  m_prev,      \* m_prev of each waiter's frame
  calls,       \* cond_wait calls made by each waiter
  signals      \* signal and broadcast calls made

vars == << pc, owner, head, tail, m_signaled, m_prev, calls, signals >>

(* Positions of a waiter inside the loop of cond_wait, frame on the list  *)
(* or signalled.                                                           *)
InLoop == {"w_unlock", "w_relock", "w_check"}

(* The waiter list read from the tail along m_prev, oldest first.  The    *)
(* walk stops after one more step than there are waiters, so a cycle      *)
(* shows up as a repeated element instead of an endless walk.             *)
RECURSIVE ChainFrom(_, _)
ChainFrom(n, k) ==
  IF n = NULL \/ k = 0 THEN << >> ELSE << n >> \o ChainFrom(m_prev[n], k - 1)

WaitList == ChainFrom(tail, Cardinality(Waiters) + 1)

(* THREAD_INTERNAL_COND_INITIALIZER: empty list; every frame zeroed. *)
Init ==
  /\ pc = [t \in Waiters |-> "idle"]
  /\ owner = NULL
  /\ head = NULL /\ tail = NULL
  /\ m_signaled = [t \in Waiters |-> 0]
  /\ m_prev = [t \in Waiters |-> NULL]
  /\ calls = [t \in Waiters |-> 0]
  /\ signals = 0

(* The caller's thread_internal_mutex_lock before cond_wait: spins until  *)
(* the spinlock is free.                                                   *)
MutexLock(t) ==
  /\ pc[t] = "idle" /\ calls[t] < MaxWaits
  /\ owner = NULL
  /\ owner' = t
  /\ calls' = [calls EXCEPT ![t] = @ + 1]
  /\ pc' = [pc EXCEPT ![t] = "w_enqueue"]
  /\ UNCHANGED << head, tail, m_signaled, m_prev, signals >>

(* cond_wait, under m_lock: a fresh frame {0, NULL} becomes the head; if  *)
(* the list was empty it is the tail too, else the old head links to it.  *)
Enqueue(t) ==
  /\ pc[t] = "w_enqueue"
  /\ m_signaled' = [m_signaled EXCEPT ![t] = 0]
  /\ IF head = NULL
     THEN /\ tail' = t
          /\ m_prev' = [m_prev EXCEPT ![t] = NULL]
     ELSE /\ m_prev' = [m_prev EXCEPT ![t] = NULL, ![head] = t]
          /\ UNCHANGED tail
  /\ head' = t
  /\ pc' = [pc EXCEPT ![t] = "w_unlock"]
  /\ UNCHANGED << owner, calls, signals >>

(* Mutant: the loop keeps the mutex instead of unlocking it. *)
WaitUnlock_keeps_mutex(t) ==
  /\ pc[t] = "w_unlock"
  /\ pc' = [pc EXCEPT ![t] = "w_relock"]
  /\ UNCHANGED << owner, head, tail, m_signaled, m_prev, calls, signals >>

(* Loop: thread_internal_mutex_unlock(p_mutex) (spinlock unlock, yield),  *)
(* then qthread_yield.                                                     *)
WaitUnlock(t) ==
  /\ pc[t] = "w_unlock"
  /\ owner' = NULL
  /\ pc' = [pc EXCEPT ![t] = "w_relock"]
  /\ UNCHANGED << head, tail, m_signaled, m_prev, calls, signals >>

(* Loop: thread_internal_mutex_lock(p_mutex). *)
WaitRelock(t) ==
  /\ pc[t] = "w_relock" /\ owner = NULL
  /\ owner' = t
  /\ pc' = [pc EXCEPT ![t] = "w_check"]
  /\ UNCHANGED << head, tail, m_signaled, m_prev, calls, signals >>

(* Mutant: the loop leaves after its first wakeup, signalled or not. *)
WaitCheck_no_test(t) ==
  /\ pc[t] = "w_check"
  /\ pc' = [pc EXCEPT ![t] = "w_return"]
  /\ UNCHANGED << owner, head, tail, m_signaled, m_prev, calls, signals >>

(* Loop: read waiter.m_signaled under m_lock; leave the loop, and         *)
(* cond_wait, holding the mutex if it is 1, else go round again.          *)
WaitCheck(t) ==
  /\ pc[t] = "w_check"
  /\ pc' = [pc EXCEPT ![t] = IF m_signaled[t] = 1 THEN "w_return" ELSE "w_unlock"]
  /\ UNCHANGED << owner, head, tail, m_signaled, m_prev, calls, signals >>

(* The caller's thread_internal_mutex_unlock after cond_wait returned. *)
MutexUnlock(t) ==
  /\ pc[t] = "w_return"
  /\ owner' = NULL
  /\ pc' = [pc EXCEPT ![t] = "idle"]
  /\ UNCHANGED << head, tail, m_signaled, m_prev, calls, signals >>

(* Mutant: cond_signal pops the last waiter but leaves m_waiter_head. *)
Signal_keep_head ==
  /\ signals < MaxSignals
  /\ signals' = signals + 1
  /\ IF tail # NULL
     THEN /\ tail' = m_prev[tail]
          /\ m_signaled' = [m_signaled EXCEPT ![tail] = 1]
     ELSE UNCHANGED << tail, m_signaled >>
  /\ UNCHANGED << pc, owner, head, m_prev, calls >>

(* cond_signal, under m_lock: if there is a waiter, pop the tail (the     *)
(* oldest), set its m_signaled, and empty the head if the list is empty.  *)
Signal ==
  /\ signals < MaxSignals
  /\ signals' = signals + 1
  /\ IF tail # NULL
     THEN /\ tail' = m_prev[tail]
          /\ m_signaled' = [m_signaled EXCEPT ![tail] = 1]
          /\ head' = IF m_prev[tail] = NULL THEN NULL ELSE head
     ELSE UNCHANGED << tail, head, m_signaled >>
  /\ UNCHANGED << pc, owner, m_prev, calls >>

(* Mutant: cond_broadcast pops every waiter but leaves m_waiter_head. *)
Broadcast_keep_head ==
  /\ signals < MaxSignals
  /\ signals' = signals + 1
  /\ LET popped == ToSet(WaitList) IN
       m_signaled' = [t \in Waiters |-> IF t \in popped THEN 1 ELSE m_signaled[t]]
  /\ tail' = NULL
  /\ UNCHANGED << pc, owner, head, m_prev, calls >>

(* cond_broadcast, under m_lock: pop from the tail along m_prev until the *)
(* list is empty, setting each m_signaled, then empty the head.           *)
Broadcast ==
  /\ signals < MaxSignals
  /\ signals' = signals + 1
  /\ LET popped == ToSet(WaitList) IN
       m_signaled' = [t \in Waiters |-> IF t \in popped THEN 1 ELSE m_signaled[t]]
  /\ tail' = NULL
  /\ head' = NULL
  /\ UNCHANGED << pc, owner, m_prev, calls >>

WaiterStep(t) ==
  MutexLock(t) \/ Enqueue(t) \/ WaitUnlock(t) \/ WaitRelock(t)
    \/ WaitCheck(t) \/ MutexUnlock(t)

Next == (\E t \in Waiters : WaiterStep(t)) \/ Signal \/ Broadcast

Spec == Init /\ [][Next]_vars

(* A waiter inside cond_wait keeps running: it holds the mutex or has     *)
(* just dropped it, so nothing but the mutex stops it, and the caller     *)
(* unlocks after the call.  The relock competes with the other waiters    *)
(* for the spinlock, which every holder keeps for a few steps and whose   *)
(* unlock yields "for fairness of locking": strong fairness.  Nothing     *)
(* forces a thread to start a wait or a signaller to signal.              *)
Fairness ==
  \A t \in Waiters :
    /\ WF_vars(Enqueue(t)) /\ WF_vars(WaitUnlock(t))
    /\ SF_vars(WaitRelock(t)) /\ WF_vars(WaitCheck(t))
    /\ WF_vars(MutexUnlock(t))

FairSpec == Spec /\ Fairness
-----------------------------------------------------------------------------
(* Types, and the two ends of the list are empty together. *)
TypeOK ==
  /\ pc \in [Waiters -> {"idle", "w_enqueue", "w_return"} \cup InLoop]
  /\ owner \in Waiters \cup {NULL}
  /\ head \in Waiters \cup {NULL} /\ tail \in Waiters \cup {NULL}
  /\ (head = NULL) = (tail = NULL)
  /\ m_signaled \in [Waiters -> {0, 1}]
  /\ m_prev \in [Waiters -> Waiters \cup {NULL}]
  /\ calls \in [Waiters -> 0..MaxWaits] /\ signals \in 0..MaxSignals

(* The frames reached from m_waiter_tail along m_prev are exactly the     *)
(* frames of the waiters still looping in cond_wait and not yet           *)
(* signalled, each once, and m_waiter_head is the last of them: no link   *)
(* of the list leads to the stack frame of a waiter that has returned     *)
(* from cond_wait, and no waiting frame is lost from the list.            *)
NoStaleWaiter ==
  /\ IsInjective(WaitList)
  /\ ToSet(WaitList) = {t \in Waiters : pc[t] \in InLoop /\ m_signaled[t] = 0}
  /\ WaitList # << >> => Last(WaitList) = head

(* The list of frames implements the FIFO queue of FifoCond: the threads  *)
(* in the wait are those looping in cond_wait, the queue is the list read *)
(* from the tail.                                                          *)
Fifo == INSTANCE FifoCond WITH
          waiting <- {t \in Waiters : pc[t] \in InLoop},
          queue <- WaitList

(* Every cond_wait call joins the queue, cond_signal and cond_broadcast   *)
(* wake waiters oldest first, and a waiter returns from cond_wait only    *)
(* after it was woken.                                                     *)
FifoImplemented == Fifo!Spec

(* A waiter whose frame has been signalled gets the mutex back and        *)
(* returns from cond_wait.                                                 *)
SignaledReturns ==
  \A t \in Waiters :
    (pc[t] \in InLoop /\ m_signaled[t] = 1) ~> pc[t] = "w_return"
=============================================================================

---------------------------- MODULE ThreadHandoff ----------------------------
(***************************************************************************)
(* The hand-off macros of src/src/threads.h, ACQUIRE_THREAD, RELEASE_THREAD *)
(* and WAKEUP_THREAD, composed with the condition_t of Condition they wait  *)
(* and broadcast on, in multi-threaded mode.                                *)
(*                                                                         *)
(* One mutex lck, one condition cnd and one flag act are shared.  An       *)
(* Acquirer runs ACQUIRE_THREAD: THREAD_LOCK(lck), condition_wait while    *)
(* act is set, then sets act and keeps lck; later RELEASE_THREAD clears    *)
(* act, broadcasts and unlocks.  A Waker completes a request that was      *)
(* pending from the start (act initially set): it locks lck, runs          *)
(* WAKEUP_THREAD and unlocks.  Plain Waiters and Signallers of Condition   *)
(* may use the same cnd under lck.                                         *)
(*                                                                         *)
(* Unlike in Condition, lck is a variable, `holder`: an Acquirer keeps it  *)
(* from ACQUIRE_THREAD to RELEASE_THREAD, so every step of Condition that *)
(* runs under the mutex now also needs it free.  Only condition_wait is    *)
(* used on cnd here, never condition_timedwait, whose clock step runs      *)
(* outside the mutex.                                                      *)
(***************************************************************************)
EXTENDS Condition

CONSTANTS
  Acquirers,   \* Waiters that call condition_wait only from ACQUIRE_THREAD
  Wakers,      \* threads that complete the pending request with WAKEUP_THREAD
  MaxRounds    \* bound: ACQUIRE_THREAD/RELEASE_THREAD rounds per Acquirer

ASSUME /\ Acquirers \subseteq Waiters /\ MaxRounds \in Nat
       /\ Wakers \cap Threads = {}
       /\ "timedwait" \notin WaitOps /\ ThreadModes = {TRUE}

VARIABLES
  holder,   \* {} while lck is free, else {the thread holding it}
  act,      \* *act, the flag the macros hand over
  pending,  \* the request a Waker completes is still outstanding
  apc,      \* position of each Acquirer in the macros
  rounds    \* ACQUIRE_THREAD calls made by each Acquirer

hvars == << vars, holder, act, pending, apc, rounds >>

(* Waiters that call condition_wait directly and unlock after it. *)
Plain == Waiters \ Acquirers

HInit ==
  /\ Init
  /\ holder = {}
  /\ pending = (Wakers # {})
  /\ act = pending
  /\ apc = [a \in Acquirers |-> "out"]
  /\ rounds = [a \in Acquirers |-> 0]

(* A step of Condition that takes and drops lck within itself. *)
UnderFreeLock(A) ==
  holder = {} /\ A /\ UNCHANGED << holder, act, pending, apc, rounds >>

-----------------------------------------------------------------------------
(* ACQUIRE_THREAD: THREAD_LOCK(lck), which using_threads() makes a real    *)
(* pthread_mutex_lock.                                                      *)
AcquireLock(a) ==
  /\ apc[a] = "out" /\ rounds[a] < MaxRounds
  /\ holder = {}
  /\ holder' = {a}
  /\ apc' = [apc EXCEPT ![a] = "test"]
  /\ rounds' = [rounds EXCEPT ![a] = @ + 1]
  /\ UNCHANGED << vars, act, pending >>

(* ACQUIRE_THREAD, the test of the while loop on act, holding lck: if set *)
(* the Acquirer goes on to call condition_wait; if clear, it sets act and *)
(* leaves the macro still holding lck.                                     *)
AcquireTest(a) ==
  /\ apc[a] = "test" /\ pc[a] = "idle"
  /\ apc' = [apc EXCEPT ![a] = IF act THEN "enter" ELSE "held"]
  /\ act' = TRUE
  /\ UNCHANGED << vars, holder, pending, rounds >>

(* The call condition_wait(cnd, lck) in the loop body: its entry counts    *)
(* the Acquirer in c_waiting and unlocks lck.  It is a step of its own,    *)
(* after the test of act, as in the code.                                  *)
AcquireEnter(a) ==
  /\ apc[a] = "enter"
  /\ WaitEnter(a)
  /\ holder' = {}
  /\ apc' = [apc EXCEPT ![a] = "test"]
  /\ UNCHANGED << waits, act, pending, rounds >>

(* Inside condition_wait: mutex_lock(lck) after progress(); when the call  *)
(* returns the Acquirer holds lck again and goes back to the act test.    *)
AcquireInWait(a) ==
  /\ holder = {}
  /\ WaitEarlyReturn(a) \/ WaitLoop(a)
  /\ holder' = IF pc'[a] = "idle" THEN {a} ELSE {}
  /\ UNCHANGED << released, act, pending, apc, rounds >>

(* Mutant: RELEASE_THREAD leaves act set. *)
RELEASE_THREAD_keep_act(a) ==
  /\ apc[a] = "held"
  /\ Broadcast(a)
  /\ holder' = {}
  /\ apc' = [apc EXCEPT ![a] = "out"]
  /\ UNCHANGED << issued, waits, act, pending, rounds >>

(* RELEASE_THREAD(lck, cnd, act), by the Acquirer holding lck: *act =     *)
(* false; condition_broadcast(cnd); THREAD_UNLOCK(lck).                    *)
RELEASE_THREAD(a) ==
  /\ apc[a] = "held"
  /\ act' = FALSE
  /\ Broadcast(a)
  /\ holder' = {}
  /\ apc' = [apc EXCEPT ![a] = "out"]
  /\ UNCHANGED << issued, waits, pending, rounds >>

(* Mutant: WAKEUP_THREAD called by a Waker that does not hold lck. *)
WAKEUP_THREAD_unlocked(k) ==
  /\ pending
  /\ pending' = FALSE
  /\ act' = FALSE
  /\ Broadcast(k)
  /\ UNCHANGED << issued, waits, holder, apc, rounds >>

(* THREAD_LOCK(lck); WAKEUP_THREAD(cnd, act): *act = false;               *)
(* condition_broadcast(cnd); THREAD_UNLOCK(lck): the completion of the    *)
(* pending request.                                                        *)
WAKEUP_THREAD(k) ==
  /\ holder = {} /\ pending
  /\ pending' = FALSE
  /\ act' = FALSE
  /\ Broadcast(k)
  /\ UNCHANGED << issued, waits, holder, apc, rounds >>

-----------------------------------------------------------------------------
AcquirerStep(a) ==
  \/ AcquireLock(a) \/ AcquireTest(a) \/ AcquireEnter(a)
  \/ AcquireInWait(a) \/ RELEASE_THREAD(a)

HNext ==
  \/ \E t \in Plain : UnderFreeLock(WaiterStep(t))
  \/ \E t \in Signallers : UnderFreeLock(SignallerStep(t))
  \/ \E a \in Acquirers : AcquirerStep(a)
  \/ \E k \in Wakers : WAKEUP_THREAD(k)

HSpec == HInit /\ [][HNext]_hvars

(* Threads inside the macros or inside condition_wait are scheduled and    *)
(* get lck when it is free infinitely often (strong fairness, as in       *)
(* Condition); the pending request completes, so a Waker runs.  Nothing    *)
(* forces an Acquirer to start a round or a plain thread to call.         *)
HFairness ==
  /\ \A a \in Acquirers :
       /\ SF_hvars(\/ AcquireTest(a) \/ AcquireEnter(a)
                  \/ AcquireInWait(a) \/ RELEASE_THREAD(a))
  /\ \A t \in Plain :
       SF_hvars(UnderFreeLock(WaitReturn(t)))
  /\ \A k \in Wakers : SF_hvars(WAKEUP_THREAD(k))

HFairSpec == HSpec /\ HFairness

-----------------------------------------------------------------------------
(* No lost wakeup: while act is clear, every Acquirer still in the        *)
(* polling loop of condition_wait has a permit left in c_signaled to take. *)
(* A permit taken by a late condition_wait, or a hand-off that does not    *)
(* wake every Acquirer, leaves one polling with act clear and nobody left *)
(* to broadcast.                                                           *)
NoLostWakeup ==
  ~act /\ (\E a \in Acquirers : pc[a] = "w_loop") => c_signaled > 0

(* Every ACQUIRE_THREAD that has taken lck eventually gets act: no         *)
(* Acquirer waits forever for a hand-off.                                  *)
AcquireReturns ==
  \A a \in Acquirers : apc[a] = "test" ~> apc[a] = "held"
=============================================================================

------------------------------ MODULE Condition ------------------------------
(***************************************************************************)
(* The hybrid condition variable condition_t of src/src/condition.h, in    *)
(* multi-threaded mode (using_threads() true) and, where ThreadModes      *)
(* allows it, single-threaded mode: then one thread makes every call, a   *)
(* wait loops on progress() without a mutex, and the signals come from    *)
(* that thread between its waits or from callbacks run by its progress(). *)
(*                                                                         *)
(* Callers hold the mutex m around every operation, as ACQUIRE_THREAD and  *)
(* RELEASE_THREAD of src/src/threads.h do.  A waiter calls condition_wait  *)
(* or condition_timedwait and unlocks m when it returns; a signaller locks *)
(* m, calls condition_signal or condition_broadcast and unlocks it.  The   *)
(* waiting loops release m around progress(), which is a no-op here: the   *)
(* wakeups come from the signallers.  Steps that run entirely under m are  *)
(* one action, so the mutex itself needs no variable: no step can find it *)
(* held.                                                                   *)
(*                                                                         *)
(* Time is a tick counter `clock`; a tick is 1/TicksPerSec second and      *)
(* gettimeofday returns it as (tv_sec, tv_usec) = (clock \div TicksPerSec, *)
(* clock % TicksPerSec).  A deadline is given in ticks the same way.       *)
(***************************************************************************)
EXTENDS Integers, FiniteSets

CONSTANTS
  Waiters,      \* threads calling condition_wait / condition_timedwait
  Signallers,   \* threads calling condition_signal / condition_broadcast
  WaitOps,      \* subset of {"wait", "timedwait"} the waiters call
  SignalOps,    \* subset of {"signal", "broadcast"} the signallers call
  TicksPerSec,  \* clock resolution
  MaxClock,     \* bound: last tick of the clock
  MaxTimeout,   \* bound: largest timeout, in ticks, of a timedwait
  MaxCalls,     \* bound: number of calls of each kind (waits, signals)
  ThreadModes   \* the using_threads() values a behaviour may run with

ASSUME /\ WaitOps \subseteq {"wait", "timedwait"}
       /\ SignalOps \subseteq {"signal", "broadcast"}
       /\ TicksPerSec \in Nat \ {0} /\ MaxClock \in Nat
       /\ MaxTimeout \in Nat /\ MaxCalls \in Nat
       /\ Waiters \cap Signallers = {}
       /\ ThreadModes \subseteq BOOLEAN

Threads == Waiters \cup Signallers

VARIABLES
  pc,          \* position of each thread
  c_waiting,   \* c->c_waiting
  c_signaled,  \* c->c_signaled
  clock,       \* wall-clock ticks
  abstime,     \* deadline of a timed waiter, in ticks
  tv,          \* last gettimeofday of a timed waiter, in ticks
  issued,      \* ghost: signal and broadcast calls made
  released,    \* ghost: condition_wait calls that returned
  waits,       \* ghost: wait calls started (bounded by MaxCalls)
  bwoken,      \* ghost: waiters in the loop when a broadcast happened
  uses_threads \* using_threads(), fixed for a behaviour

vars == << pc, c_waiting, c_signaled, clock, abstime, tv, issued,
           released, waits, bwoken, uses_threads >>

Sec(t)  == t \div TicksPerSec
USec(t) == t % TicksPerSec

(* The loop condition of condition_timedwait on the clock reading now.     *)
BeforeDeadline(now, dl) ==
  \/ Sec(now) <= Sec(dl)
  \/ Sec(now) = Sec(dl) /\ USec(now) < USec(dl)

Init ==
  /\ pc = [t \in Threads |-> "idle"]
  /\ c_waiting = 0 /\ c_signaled = 0
  /\ clock = 0
  /\ abstime = [t \in Waiters |-> 0]
  /\ tv = [t \in Waiters |-> 0]
  /\ issued = 0 /\ released = 0 /\ waits = 0
  /\ bwoken = {}
  /\ uses_threads \in ThreadModes

Goto(t, to) == pc' = [pc EXCEPT ![t] = to]

-----------------------------------------------------------------------------
(* Mutant: the early return takes the pending permit, as spec 4.1 words it. *)
WaitEnter_consumes(t) ==
  /\ pc[t] = "idle" /\ uses_threads
  /\ IF c_signaled # 0
     THEN /\ Goto(t, "w_early") /\ UNCHANGED c_waiting
          /\ c_signaled' = c_signaled - 1
     ELSE /\ Goto(t, "w_loop") /\ c_waiting' = c_waiting + 1
          /\ UNCHANGED c_signaled
  /\ UNCHANGED << clock, abstime, tv, issued, released, bwoken, uses_threads >>

(* Mutant: the early return forgets c_waiting--.                           *)
WaitEnter_no_decrement(t) ==
  /\ pc[t] = "idle" /\ uses_threads
  /\ c_waiting' = c_waiting + 1
  /\ Goto(t, IF c_signaled # 0 THEN "w_early" ELSE "w_loop")
  /\ UNCHANGED << c_signaled, clock, abstime, tv, issued, released, bwoken,
                  uses_threads >>

(* Caller: mutex_lock(m); condition_wait(c, m): c_waiting++; if a permit  *)
(* is pending, c_waiting-- and take the early return; else enter the loop, *)
(* whose first test fails, and unlock m for progress().                    *)
WaitEnter(t) ==
  /\ pc[t] = "idle" /\ uses_threads
  /\ IF c_signaled # 0
     THEN /\ Goto(t, "w_early") /\ UNCHANGED c_waiting
     ELSE /\ Goto(t, "w_loop") /\ c_waiting' = c_waiting + 1
  /\ UNCHANGED << c_signaled, clock, abstime, tv, issued, released, bwoken,
                  uses_threads >>

(* Mutant: the single-threaded entry leaves a pending permit in place.    *)
WaitEnterST_keeps_permit(t) ==
  /\ pc[t] = "idle" /\ ~uses_threads
  /\ IF c_signaled # 0
     THEN /\ released' = released + 1
          /\ UNCHANGED << pc, c_waiting, c_signaled >>
     ELSE /\ Goto(t, "w_loop") /\ c_waiting' = c_waiting + 1
          /\ UNCHANGED << c_signaled, released >>
  /\ UNCHANGED << clock, abstime, tv, issued, bwoken, uses_threads >>

(* condition_wait with using_threads() false: c_waiting++; with a permit  *)
(* pending the loop `while (0 == c->c_signaled) progress()` is skipped and *)
(* c_signaled--, c_waiting-- return at once; else the loop runs, the      *)
(* mutex untouched, and WaitLoop is its test after each progress().       *)
WaitEnterST(t) ==
  /\ pc[t] = "idle" /\ ~uses_threads
  /\ IF c_signaled # 0
     THEN /\ c_signaled' = c_signaled - 1
          /\ released' = released + 1
          /\ UNCHANGED << pc, c_waiting >>
     ELSE /\ Goto(t, "w_loop") /\ c_waiting' = c_waiting + 1
          /\ UNCHANGED << c_signaled, released >>
  /\ UNCHANGED << clock, abstime, tv, issued, bwoken, uses_threads >>

(* Early return: progress(); mutex_lock(m); return; the caller unlocks.    *)
WaitEarlyReturn(t) ==
  /\ pc[t] = "w_early"
  /\ Goto(t, "idle")
  /\ UNCHANGED << c_waiting, c_signaled, clock, abstime, tv, issued,
                  waits, bwoken, uses_threads >>

(* After progress(): mutex_lock(m) and test `0 == c->c_signaled`; either   *)
(* unlock again, or c_signaled--, c_waiting--, return and the caller       *)
(* unlocks.                                                                *)
WaitLoop(t) ==
  /\ pc[t] = "w_loop"
  /\ IF c_signaled = 0
     THEN UNCHANGED << pc, c_waiting, c_signaled, bwoken >>
     ELSE /\ Goto(t, "idle")
          /\ c_signaled' = c_signaled - 1
          /\ c_waiting' = c_waiting - 1
          /\ bwoken' = bwoken \ {t}
  /\ UNCHANGED << clock, abstime, tv, issued, waits, uses_threads >>

(* condition_timedwait: c_waiting++, gettimeofday; without a permit enter  *)
(* the do-while loop (unlocking for progress() when using threads); with  *)
(* one, take it.  Single-threaded mode runs the same steps.  The          *)
(* caller passes a deadline no more than MaxTimeout ticks ahead.           *)
TimedWaitEnter(t, dl) ==
  /\ pc[t] = "idle"
  /\ abstime' = [abstime EXCEPT ![t] = dl]
  /\ tv' = [tv EXCEPT ![t] = clock]
  /\ IF c_signaled = 0
     THEN /\ Goto(t, "t_progress") /\ c_waiting' = c_waiting + 1
          /\ UNCHANGED c_signaled
     ELSE /\ Goto(t, "idle") /\ c_signaled' = c_signaled - 1
          /\ UNCHANGED c_waiting
  /\ UNCHANGED << clock, issued, released, bwoken, uses_threads >>

(* Inside the do-while loop, after progress(): gettimeofday(&tv).          *)
TimedWaitClock(t) ==
  /\ pc[t] = "t_progress"
  /\ Goto(t, "t_lock")
  /\ tv' = [tv EXCEPT ![t] = clock]
  /\ UNCHANGED << c_waiting, c_signaled, clock, abstime, issued,
                  released, waits, bwoken, uses_threads >>

(* Mutant: the permit is taken without the `0 != c->c_signaled` test.     *)
TimedWaitLoop_unguarded(t) ==
  /\ pc[t] = "t_lock"
  /\ IF c_signaled = 0 /\ BeforeDeadline(tv[t], abstime[t])
     THEN /\ Goto(t, "t_progress")
          /\ UNCHANGED << c_waiting, c_signaled, bwoken >>
     ELSE /\ Goto(t, "idle")
          /\ c_signaled' = c_signaled - 1
          /\ c_waiting' = c_waiting - 1
          /\ bwoken' = bwoken \ {t}
  /\ UNCHANGED << clock, abstime, tv, issued, released, waits, uses_threads >>

(* mutex_lock(m) and the loop test; leaving the loop takes a permit if     *)
(* there is one, c_waiting--, return, and the caller unlocks.              *)
TimedWaitLoop(t) ==
  /\ pc[t] = "t_lock"
  /\ IF c_signaled = 0 /\ BeforeDeadline(tv[t], abstime[t])
     THEN /\ Goto(t, "t_progress")
          /\ UNCHANGED << c_waiting, c_signaled, bwoken >>
     ELSE /\ Goto(t, "idle")
          /\ c_signaled' = IF c_signaled # 0 THEN c_signaled - 1 ELSE 0
          /\ c_waiting' = c_waiting - 1
          /\ bwoken' = bwoken \ {t}
  /\ UNCHANGED << clock, abstime, tv, issued, released, waits, uses_threads >>

(* mutex_lock(m); condition_signal(c): a permit only if someone waits.     *)
Signal(t) ==
  /\ c_waiting # 0
  /\ c_signaled' = c_signaled + 1
  /\ UNCHANGED << pc, c_waiting, clock, abstime, tv, released, waits, bwoken,
                  uses_threads >>

(* mutex_lock(m); condition_broadcast(c): c_signaled = c_waiting.          *)
Broadcast(t) ==
  /\ c_signaled' = c_waiting
  /\ bwoken' = bwoken \cup {w \in Waiters : pc[w] \in {"w_loop", "t_progress", "t_lock"}}
  /\ UNCHANGED << pc, c_waiting, clock, abstime, tv, released, waits,
                  uses_threads >>

Tick ==
  /\ clock < MaxClock
  /\ clock' = clock + 1
  /\ UNCHANGED << pc, c_waiting, c_signaled, abstime, tv, issued,
                  released, waits, bwoken, uses_threads >>

-----------------------------------------------------------------------------
(* The callers' bounds: MaxCalls wait calls and MaxCalls signal calls.    *)
CountWait == waits < MaxCalls /\ waits' = waits + 1

CountSignal == issued < MaxCalls /\ issued' = issued + 1

(* Ghost: a condition_wait call that returns. *)
CountReturn(t) == released' = IF pc'[t] = "idle" THEN released + 1 ELSE released

(* A step of condition_wait after its entry, counted when it returns. *)
WaitReturn(t) == (WaitEarlyReturn(t) \/ WaitLoop(t)) /\ CountReturn(t)

(* With using_threads() false there is one thread, so a wait starts only  *)
(* when no other is under way.                                             *)
OneThread == uses_threads \/ \A u \in Waiters : pc[u] = "idle"

WaiterStep(t) ==
  \/ "wait" \in WaitOps /\ CountWait /\ WaitEnter(t)
  \/ "wait" \in WaitOps /\ CountWait /\ OneThread /\ WaitEnterST(t)
  \/ WaitReturn(t)
  \/ /\ "timedwait" \in WaitOps /\ CountWait /\ OneThread
     /\ \E dl \in clock..clock + MaxTimeout : TimedWaitEnter(t, dl)
  \/ TimedWaitClock(t) \/ TimedWaitLoop(t)

SignallerStep(t) ==
  \/ "signal" \in SignalOps /\ CountSignal /\ Signal(t)
  \/ "broadcast" \in SignalOps /\ CountSignal /\ Broadcast(t)

Next ==
  \/ \E t \in Waiters : WaiterStep(t)
  \/ \E t \in Signallers : SignallerStep(t)
  \/ Tick

(* Waiters are scheduled fairly and get the free mutex; the clock runs.    *)
(* Signallers are never forced to signal.                                  *)
Fairness ==
  /\ \A t \in Waiters : SF_vars(WaitReturn(t) \/ TimedWaitClock(t) \/ TimedWaitLoop(t))
  /\ WF_vars(Tick)

Spec == Init /\ [][Next]_vars
FairSpec == Spec /\ Fairness

-----------------------------------------------------------------------------
TypeOK ==
  /\ pc \in [Threads -> {"idle", "w_early", "w_loop", "t_progress", "t_lock"}]
  /\ c_waiting \in 0..Cardinality(Waiters)
  /\ c_signaled \in Nat
  /\ clock \in 0..MaxClock
  /\ bwoken \subseteq Waiters

(* c_waiting counts exactly the threads inside condition_wait or           *)
(* condition_timedwait between their increment and decrement.              *)
WaitingCounts ==
  c_waiting = Cardinality({t \in Waiters : pc[t] \in {"w_loop", "t_progress", "t_lock"}})

(* Spec section 8: without broadcasts, each condition_wait consumes one    *)
(* condition_signal; no signal releases two waits.                         *)
SignalReleasesOne == released <= issued

(* With using_threads() false condition_wait has no early return: a wait  *)
(* that finds a permit pending takes it, so even with broadcasts, no      *)
(* signal or broadcast releases more than one condition_wait.  This is    *)
(* the guarantee the multi-threaded early return loses.                   *)
SingleThreadSignalReleasesOne == ~uses_threads => released <= issued

(* Spec section 4.1: condition_timedwait leaves its loop once the clock    *)
(* has passed the deadline: it never goes back to progress() after a      *)
(* reading later than abstime.                                             *)
TimedWaitByDeadline ==
  \A t \in Waiters : pc[t] = "t_progress" => tv[t] <= abstime[t]

(* Every waiter that was in its loop at a condition_broadcast eventually   *)
(* returns.                                                                *)
BroadcastWakesAll ==
  \A t \in Waiters : t \in bwoken ~> t \notin bwoken
=============================================================================

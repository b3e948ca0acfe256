------------------------------ MODULE WaitSync ------------------------------
(***************************************************************************)
(* The multi-threaded wait/complete protocol of src/src/impl/base/         *)
(* wait_sync.c and src/src/wait_sync.h.                                    *)
(*                                                                         *)
(* Every waiter thread w owns one synchronisation object (sync w).  It     *)
(* initialises it with WAIT_SYNC_INIT, blocks in ompi_sync_wait_mt and     *)
(* destroys it with WAIT_SYNC_RELEASE, forever.  While blocked it is       *)
(* linked into the global ring threads_base_wait_sync_list; the head of    *)
(* the ring, and any other waiter while fewer than max_thread_in_progress  *)
(* threads are progressing, calls progress(); the others park on their     *)
(* sync's condition variable.  progress() completes posted operations and *)
(* each completion runs wait_sync_update on the progressing thread.        *)
(* Aborter threads call threads_base_wait_sync_global_wakeup_mt.           *)
(*                                                                         *)
(* The ring is a sequence in insertion order: Head is the list pointer,    *)
(* Append is insertion before the head (at the tail), removal of the head  *)
(* makes its successor the head.  Both ring operations run entirely under  *)
(* wait_sync_lock, so each is one step.  A native lock followed by a       *)
(* signal and an unlock of the same lock is one step (nobody observes the  *)
(* state in between without that lock).  pthread_cond_wait may wake       *)
(* spuriously, which the code handles (goto check_status).                 *)
(*                                                                         *)
(* using_threads() is set once at startup, before any wait.  When it is    *)
(* false there is one thread: SYNC_WAIT runs sync_wait_st, which installs  *)
(* the sync as the only entry of the list and calls progress() until the  *)
(* count drops to 0; the lock, the condition and WAIT_SYNC_SIGNAL are not  *)
(* used, and the global wakeup is the NULL-terminated walk of             *)
(* threads_base_wait_sync_global_wakeup_st, called from within progress(). *)
(* The Waiters are then the syncs this one thread waits on in turn.        *)
(***************************************************************************)
EXTENDS Integers, Sequences, SequencesExt, FiniteSets

CONSTANTS
  Waiters,             \* threads calling ompi_sync_wait_mt; w owns sync w
  Aborters,            \* threads calling the global wakeup
  MaxThreadInProgress, \* max_thread_in_progress
  MaxCount,            \* largest count a sync is initialised with
  MaxPending,          \* bound: operations posted and not completed, per sync
  OpStatus,            \* statuses progress() completes an operation with
  WakeStatus,          \* statuses passed to the global wakeup
  ThreadModes,         \* values using_threads() may be set to at startup
  NoThread             \* NULL: no holder, no sync

ASSUME /\ MaxThreadInProgress \in Nat \ {0}
       /\ MaxCount \in Nat /\ MaxPending \in Nat
       /\ OpStatus \subseteq Int /\ 0 \in OpStatus
       /\ WakeStatus \subseteq Int
       /\ ThreadModes \subseteq BOOLEAN /\ ThreadModes # {}
       /\ Waiters \cap Aborters = {}
       /\ NoThread \notin Waiters \cup Aborters

SUCCESS == 0
Syncs   == Waiters
Threads == Waiters \cup Aborters

VARIABLES
  pc,                     \* program counter of every thread
  count,                  \* sync->count
  status,                 \* sync->status
  signaling,              \* sync->signaling
  alive,                  \* sync->lock and sync->condition are initialised
  pending,                \* operations posted on the sync, not yet completed
  slock,                  \* holder of sync->lock
  cwait,                  \* syncs whose owner is parked in sync->condition
  wait_sync_lock,         \* holder of the global wait_sync_lock
  wait_sync_list,         \* the ring, head first
  num_thread_in_progress, \* the atomic counter of progressing threads
  upd,                    \* the wait_sync_update call a thread is running
  wakeup,                 \* the global wakeup's frame: ring position, status
  ret,                    \* what the last ompi_sync_wait_mt returned
  erred,                  \* ghost: an error update hit the sync this round
  uses_threads            \* using_threads()

vars == << pc, count, status, signaling, alive, pending, slock, cwait,
           wait_sync_lock, wait_sync_list, num_thread_in_progress, upd,
           wakeup, ret, erred, uses_threads >>

ListHead == IF wait_sync_list = << >> THEN NoThread ELSE Head(wait_sync_list)

NoUpdate == [sync |-> NoThread, st |-> SUCCESS, back |-> "idle"]

WaiterPCs == {"idle", "fast", "lock", "recheck", "insert", "check_head",
              "check_num", "parked", "woke", "progress_inc", "progress",
              "progress_dec", "unlink", "pass", "ret", "release", "st_loop"}
UpdatePCs == {"u_swap", "u_signal", "u_flag"}
AborterPCs == {"idle", "a_visit", "a_next"}

Init ==
  /\ pc = [t \in Threads |-> "idle"]
  /\ count = [s \in Syncs |-> 0]
  /\ status = [s \in Syncs |-> SUCCESS]
  /\ signaling = [s \in Syncs |-> FALSE]
  /\ alive = [s \in Syncs |-> FALSE]
  /\ pending = [s \in Syncs |-> 0]
  /\ slock = [s \in Syncs |-> NoThread]
  /\ cwait = {}
  /\ wait_sync_lock = NoThread
  /\ wait_sync_list = << >>
  /\ num_thread_in_progress = 0
  /\ upd = [t \in Threads |-> NoUpdate]
  /\ wakeup = [a \in Aborters |-> [at |-> 1, st |-> SUCCESS]]
  /\ ret = [w \in Waiters |-> "none"]
  /\ erred = [s \in Syncs |-> FALSE]
  /\ uses_threads \in ThreadModes

(* WAIT_SYNC_SIGNAL(sync) is `if (using_threads()) {...}`: where an update *)
(* that completes the sync goes next.                                      *)
Signaller(back) == IF uses_threads THEN "u_signal" ELSE back

Goto(t, from, to) == pc[t] = from /\ pc' = [pc EXCEPT ![t] = to]

(* thread_internal_cond_signal(&sync->condition): pthread_cond_signal     *)
(* wakes the one thread that can wait on it, the sync's owner.            *)
thread_internal_cond_signal(s) == cwait' = cwait \ {s}
-----------------------------------------------------------------------------
(* wait_sync_update(sync, updates, status), run by thread t, which goes    *)
(* back to pc `back` when it returns.  The first step is the atomic        *)
(* decrement, or the status write of the error path.                      *)
wait_sync_update(t, s, d, st, back) ==
  /\ upd' = [upd EXCEPT ![t] = [sync |-> s, st |-> st, back |-> back]]
  /\ \/ /\ st = SUCCESS
        /\ count' = [count EXCEPT ![s] = @ - d]
        /\ pc' = [pc EXCEPT ![t] = IF count[s] - d # 0 THEN back ELSE Signaller(back)]
        /\ UNCHANGED << status, erred >>
     \/ /\ st # SUCCESS
        /\ status' = [status EXCEPT ![s] = st]
        /\ erred' = [erred EXCEPT ![s] = TRUE]
        /\ pc' = [pc EXCEPT ![t] = "u_swap"]
        /\ UNCHANGED count

(* Error path, after atomic_wmb: atomic_swap_32(&sync->count, 0).          *)
UpdateSwap(t) ==
  /\ Goto(t, "u_swap", Signaller(upd[t].back))
  /\ count' = [count EXCEPT ![upd[t].sync] = 0]
  /\ UNCHANGED << status, signaling, alive, pending, slock, cwait,
                  wait_sync_lock, wait_sync_list, num_thread_in_progress,
                  upd, wakeup, ret, erred >>

(* WAIT_SYNC_SIGNAL: lock sync->lock, signal sync->condition, unlock.      *)
UpdateSignal(t) ==
  LET s == upd[t].sync IN
  /\ Goto(t, "u_signal", "u_flag")
  /\ slock[s] = NoThread
  /\ thread_internal_cond_signal(s)
  /\ UNCHANGED << count, status, signaling, alive, pending, slock,
                  wait_sync_lock, wait_sync_list, num_thread_in_progress,
                  upd, wakeup, ret, erred >>

(* WAIT_SYNC_SIGNAL, last statement: sync->signaling = false.              *)
UpdateFlag(t) ==
  /\ pc[t] = "u_flag"
  /\ signaling' = [signaling EXCEPT ![upd[t].sync] = FALSE]
  /\ pc' = [pc EXCEPT ![t] = upd[t].back]
  /\ upd' = [upd EXCEPT ![t] = NoUpdate]
  /\ UNCHANGED << count, status, alive, pending, slock, cwait,
                  wait_sync_lock, wait_sync_list, num_thread_in_progress,
                  wakeup, ret, erred >>

UpdateStep(t) == UpdateSwap(t) \/ UpdateSignal(t) \/ UpdateFlag(t)
-----------------------------------------------------------------------------
(* WAIT_SYNC_INIT(sync, c) by the owner, after posting c operations that   *)
(* will complete on this sync.                                             *)
WAIT_SYNC_INIT(w, c) ==
  /\ Goto(w, "idle", "fast")
  /\ pending[w] + c <= MaxPending
  /\ uses_threads \/ \A v \in Waiters : pc[v] = "idle"
  /\ count' = [count EXCEPT ![w] = c]
  /\ status' = [status EXCEPT ![w] = SUCCESS]
  /\ signaling' = [signaling EXCEPT ![w] = (c # 0)]
  /\ alive' = IF uses_threads THEN [alive EXCEPT ![w] = TRUE] ELSE alive
  /\ pending' = [pending EXCEPT ![w] = @ + c]
  /\ ret' = [ret EXCEPT ![w] = "none"]
  /\ erred' = [erred EXCEPT ![w] = FALSE]
  /\ UNCHANGED << slock, cwait, wait_sync_lock, wait_sync_list,
                  num_thread_in_progress, upd, wakeup >>

WaitUnchanged == UNCHANGED << count, status, signaling, alive, pending,
                              upd, wakeup, ret, erred >>

(* Mutant: the fast path tests `sync->count <= 1`.                        *)
SyncWaitFastPath_off_by_one(w) ==
  /\ uses_threads
  /\ Goto(w, "fast", IF count[w] <= 1 THEN "ret" ELSE "lock")
  /\ WaitUnchanged
  /\ UNCHANGED << slock, cwait, wait_sync_lock, wait_sync_list,
                  num_thread_in_progress >>

(* SYNC_WAIT with using_threads() true, ompi_sync_wait_mt: the unlocked    *)
(* fast path.                                                              *)
SyncWaitFastPath(w) ==
  /\ uses_threads
  /\ Goto(w, "fast", IF count[w] <= 0 THEN "ret" ELSE "lock")
  /\ WaitUnchanged
  /\ UNCHANGED << slock, cwait, wait_sync_lock, wait_sync_list,
                  num_thread_in_progress >>

(* SYNC_WAIT with using_threads() false, sync_wait_st: after asserting    *)
(* that the list is empty, threads_base_wait_sync_list = sync (whose next *)
(* is NULL from WAIT_SYNC_INIT), then the progress loop.                   *)
SyncWaitST(w) ==
  /\ ~uses_threads
  /\ Goto(w, "fast", "st_loop")
  /\ wait_sync_list' = << w >>
  /\ WaitUnchanged
  /\ UNCHANGED << slock, cwait, wait_sync_lock, num_thread_in_progress >>

(* sync_wait_st: once sync->count > 0 fails, threads_base_wait_sync_list  *)
(* = NULL and return sync->status.                                         *)
STLoopExit(w) ==
  /\ Goto(w, "st_loop", "ret")
  /\ count[w] <= 0
  /\ wait_sync_list' = << >>
  /\ WaitUnchanged
  /\ UNCHANGED << slock, cwait, wait_sync_lock, num_thread_in_progress >>

SyncWaitLock(w) ==
  /\ Goto(w, "lock", "recheck")
  /\ slock[w] = NoThread
  /\ slock' = [slock EXCEPT ![w] = w]
  /\ WaitUnchanged
  /\ UNCHANGED << cwait, wait_sync_lock, wait_sync_list,
                  num_thread_in_progress >>

(* Re-check under sync->lock; unlock and return if already completed.      *)
SyncWaitRecheck(w) ==
  /\ Goto(w, "recheck", IF count[w] <= 0 THEN "ret" ELSE "insert")
  /\ slock' = IF count[w] <= 0 THEN [slock EXCEPT ![w] = NoThread] ELSE slock
  /\ WaitUnchanged
  /\ UNCHANGED << cwait, wait_sync_lock, wait_sync_list,
                  num_thread_in_progress >>

(* Insert the sync at the tail of the ring under wait_sync_lock.           *)
SyncWaitInsert(w) ==
  /\ Goto(w, "insert", "check_head")
  /\ wait_sync_lock = NoThread
  /\ wait_sync_list' = Append(wait_sync_list, w)
  /\ WaitUnchanged
  /\ UNCHANGED << slock, cwait, wait_sync_lock, num_thread_in_progress >>

(* check_status, first operand: sync != threads_base_wait_sync_list.       *)
SyncWaitCheckHead(w) ==
  /\ Goto(w, "check_head", IF w = ListHead THEN "progress_inc" ELSE "check_num")
  /\ slock' = IF w = ListHead THEN [slock EXCEPT ![w] = NoThread] ELSE slock
  /\ WaitUnchanged
  /\ UNCHANGED << cwait, wait_sync_lock, wait_sync_list,
                  num_thread_in_progress >>

(* check_status, second operand: park on the condition (releasing          *)
(* sync->lock) while the progressing threads are at the bound, else unlock *)
(* and progress.                                                           *)
SyncWaitCheckNum(w) ==
  LET park == num_thread_in_progress >= MaxThreadInProgress IN
  /\ Goto(w, "check_num", IF park THEN "parked" ELSE "progress_inc")
  /\ slock' = [slock EXCEPT ![w] = NoThread]
  /\ cwait' = IF park THEN cwait \cup {w} ELSE cwait
  /\ WaitUnchanged
  /\ UNCHANGED << wait_sync_lock, wait_sync_list, num_thread_in_progress >>

(* pthread_cond_wait returns once signalled, re-acquiring sync->lock.      *)
CondWaitReturn(w) ==
  /\ Goto(w, "parked", "woke")
  /\ w \notin cwait
  /\ slock[w] = NoThread
  /\ slock' = [slock EXCEPT ![w] = w]
  /\ WaitUnchanged
  /\ UNCHANGED << cwait, wait_sync_lock, wait_sync_list,
                  num_thread_in_progress >>

(* A spurious wakeup of pthread_cond_wait.                                 *)
SpuriousWakeup(w) ==
  /\ pc[w] = "parked"
  /\ w \in cwait
  /\ cwait' = cwait \ {w}
  /\ WaitUnchanged
  /\ UNCHANGED << pc, slock, wait_sync_lock, wait_sync_list,
                  num_thread_in_progress >>

(* After the wait: completed -> unlock and go to i_am_done; otherwise      *)
(* promoted or spurious -> goto check_status.                              *)
SyncWaitWoke(w) ==
  /\ Goto(w, "woke", IF count[w] <= 0 THEN "unlink" ELSE "check_head")
  /\ slock' = IF count[w] <= 0 THEN [slock EXCEPT ![w] = NoThread] ELSE slock
  /\ WaitUnchanged
  /\ UNCHANGED << cwait, wait_sync_lock, wait_sync_list,
                  num_thread_in_progress >>

ProgressInc(w) ==
  /\ Goto(w, "progress_inc", "progress")
  /\ num_thread_in_progress' = num_thread_in_progress + 1
  /\ WaitUnchanged
  /\ UNCHANGED << slock, cwait, wait_sync_lock, wait_sync_list >>

(* One call of progress() in `while (sync->count > 0) progress();` of      *)
(* ompi_sync_wait_mt or of sync_wait_st: it completes one posted operation *)
(* of sync s with status st, whose completion callback runs                *)
(* wait_sync_update(s, 1, st) on this thread.                              *)
ProgressCall(w, s, st) ==
  /\ pc[w] \in {"progress", "st_loop"}
  /\ count[w] > 0
  /\ pending[s] > 0
  /\ pending' = [pending EXCEPT ![s] = @ - 1]
  /\ wait_sync_update(w, s, 1, st, pc[w])
  /\ UNCHANGED << signaling, alive, slock, cwait, wait_sync_lock,
                  wait_sync_list, num_thread_in_progress, wakeup, ret >>

ProgressLoopExit(w) ==
  /\ Goto(w, "progress", "progress_dec")
  /\ count[w] <= 0
  /\ WaitUnchanged
  /\ UNCHANGED << slock, cwait, wait_sync_lock, wait_sync_list,
                  num_thread_in_progress >>

(* Mutant: the decrement adds +1 instead of -1.                           *)
ProgressDec_wrong_sign(w) ==
  /\ Goto(w, "progress_dec", "unlink")
  /\ num_thread_in_progress' = num_thread_in_progress + 1
  /\ WaitUnchanged
  /\ UNCHANGED << slock, cwait, wait_sync_lock, wait_sync_list >>

ProgressDec(w) ==
  /\ Goto(w, "progress_dec", "unlink")
  /\ num_thread_in_progress' = num_thread_in_progress - 1
  /\ WaitUnchanged
  /\ UNCHANGED << slock, cwait, wait_sync_lock, wait_sync_list >>

(* Mutant: i_am_done moves the head but never passes ownership.          *)
SyncWaitUnlink_no_pass(w) ==
  /\ Goto(w, "unlink", "ret")
  /\ wait_sync_lock = NoThread
  /\ wait_sync_list' = Remove(wait_sync_list, w)
  /\ WaitUnchanged
  /\ UNCHANGED << slock, cwait, wait_sync_lock, num_thread_in_progress >>

(* i_am_done: under wait_sync_lock remove self; if self was the head and   *)
(* the ring is not empty, the successor becomes the head and the lock is   *)
(* kept to pass ownership.                                                 *)
SyncWaitUnlink(w) ==
  LET promote == w = ListHead /\ Len(wait_sync_list) > 1 IN
  /\ Goto(w, "unlink", IF promote THEN "pass" ELSE "ret")
  /\ wait_sync_lock = NoThread
  /\ wait_sync_list' = Remove(wait_sync_list, w)
  /\ wait_sync_lock' = IF promote THEN w ELSE NoThread
  /\ WaitUnchanged
  /\ UNCHANGED << slock, cwait, num_thread_in_progress >>

(* WAIT_SYNC_PASS_OWNERSHIP(new head), then unlock wait_sync_lock.         *)
WAIT_SYNC_PASS_OWNERSHIP(w) ==
  /\ Goto(w, "pass", "ret")
  /\ slock[ListHead] = NoThread
  /\ thread_internal_cond_signal(ListHead)
  /\ wait_sync_lock' = NoThread
  /\ WaitUnchanged
  /\ UNCHANGED << slock, wait_sync_list, num_thread_in_progress >>

(* return (0 == sync->status) ? SUCCESS : ERROR;                           *)
SyncWaitReturn(w) ==
  /\ Goto(w, "ret", "release")
  /\ ret' = [ret EXCEPT ![w] = IF status[w] = SUCCESS THEN "SUCCESS" ELSE "ERROR"]
  /\ UNCHANGED << count, status, signaling, alive, pending, slock, cwait,
                  wait_sync_lock, wait_sync_list, num_thread_in_progress,
                  upd, wakeup, erred >>

(* WAIT_SYNC_RELEASE_NOWAIT: destroy without waiting for the signaller;  *)
(* used as the mutant of WAIT_SYNC_RELEASE.                                *)
WAIT_SYNC_RELEASE_NOWAIT(w) ==
  /\ Goto(w, "release", "idle")
  /\ alive' = IF uses_threads THEN [alive EXCEPT ![w] = FALSE] ELSE alive
  /\ UNCHANGED << count, status, signaling, pending, slock, cwait,
                  wait_sync_lock, wait_sync_list, num_thread_in_progress,
                  upd, wakeup, ret, erred >>

(* WAIT_SYNC_RELEASE: if using_threads(), spin until signaling is false,  *)
(* then destroy the condition and the lock; otherwise nothing (signaling  *)
(* stays true, WAIT_SYNC_SIGNAL having done nothing either).              *)
WAIT_SYNC_RELEASE(w) ==
  /\ Goto(w, "release", "idle")
  /\ uses_threads => ~signaling[w]
  /\ alive' = IF uses_threads THEN [alive EXCEPT ![w] = FALSE] ELSE alive
  /\ UNCHANGED << count, status, signaling, pending, slock, cwait,
                  wait_sync_lock, wait_sync_list, num_thread_in_progress,
                  upd, wakeup, ret, erred >>

-----------------------------------------------------------------------------
(* threads_base_wait_sync_global_wakeup_mt(st): lock wait_sync_lock and    *)
(* start at the head (an empty ring is a no-op).                           *)
GlobalWakeupStart(a, st) ==
  /\ Goto(a, "idle", "a_visit")
  /\ wait_sync_lock = NoThread
  /\ wait_sync_list # << >>
  /\ wait_sync_lock' = a
  /\ wakeup' = [wakeup EXCEPT ![a] = [at |-> 1, st |-> st]]
  /\ UNCHANGED << count, status, signaling, alive, pending, slock, cwait,
                  wait_sync_list, num_thread_in_progress, upd, ret, erred >>

GlobalWakeupVisit(a) ==
  /\ pc[a] = "a_visit"
  /\ wait_sync_update(a, wait_sync_list[wakeup[a].at], 0, wakeup[a].st, "a_next")
  /\ UNCHANGED << signaling, alive, pending, slock, cwait, wait_sync_lock,
                  wait_sync_list, num_thread_in_progress, wakeup, ret >>

(* Mutant: the ring test compares the current sync with the head          *)
(* (`sync == threads_base_wait_sync_list`) and breaks after the head.      *)
GlobalWakeupNext_head_only(a) ==
  LET last == wakeup[a].at = 1 IN
  /\ Goto(a, "a_next", IF last THEN "idle" ELSE "a_visit")
  /\ wait_sync_lock' = IF last THEN NoThread ELSE a
  /\ wakeup' = IF last THEN wakeup ELSE [wakeup EXCEPT ![a].at = @ + 1]
  /\ UNCHANGED << count, status, signaling, alive, pending, slock, cwait,
                  wait_sync_list, num_thread_in_progress, upd, ret, erred >>

(* if (sync->next == threads_base_wait_sync_list) break; then unlock.      *)
GlobalWakeupNext(a) ==
  LET last == wakeup[a].at = Len(wait_sync_list) IN
  /\ Goto(a, "a_next", IF last THEN "idle" ELSE "a_visit")
  /\ wait_sync_lock' = IF last THEN NoThread ELSE a
  /\ wakeup' = IF last THEN wakeup ELSE [wakeup EXCEPT ![a].at = @ + 1]
  /\ UNCHANGED << count, status, signaling, alive, pending, slock, cwait,
                  wait_sync_list, num_thread_in_progress, upd, ret, erred >>

(* threads_base_wait_sync_global_wakeup_st(st), called from within        *)
(* progress() by the one thread: wait_sync_update(sync, 0, st) on each sync *)
(* of the NULL-terminated list, which holds only the sync being waited on. *)
STGlobalWakeup(w, st) ==
  /\ pc[w] = "st_loop" /\ count[w] > 0
  /\ wait_sync_list # << >>
  /\ wait_sync_update(w, Head(wait_sync_list), 0, st, "st_loop")
  /\ UNCHANGED << signaling, alive, pending, slock, cwait, wait_sync_lock,
                  wait_sync_list, num_thread_in_progress, wakeup, ret >>

-----------------------------------------------------------------------------
WaiterStep(w) ==
  \/ \E c \in 0..MaxCount : WAIT_SYNC_INIT(w, c)
  \/ SyncWaitST(w) \/ STLoopExit(w)
  \/ SyncWaitFastPath(w) \/ SyncWaitLock(w) \/ SyncWaitRecheck(w)
  \/ SyncWaitInsert(w) \/ SyncWaitCheckHead(w) \/ SyncWaitCheckNum(w)
  \/ CondWaitReturn(w) \/ SyncWaitWoke(w)
  \/ ProgressInc(w) \/ ProgressLoopExit(w) \/ ProgressDec(w)
  \/ SyncWaitUnlink(w) \/ WAIT_SYNC_PASS_OWNERSHIP(w)
  \/ SyncWaitReturn(w) \/ WAIT_SYNC_RELEASE(w)
  \/ UpdateStep(w)

AborterStep(a) ==
  \/ \E st \in WakeStatus : GlobalWakeupStart(a, st)
  \/ GlobalWakeupVisit(a) \/ GlobalWakeupNext(a) \/ UpdateStep(a)

(* progress() completes some posted operation of sync s.                   *)
Completes(s) ==
  \E w \in Waiters, st \in OpStatus :
    ProgressCall(w, s, st) /\ UNCHANGED uses_threads

(* Aborter threads exist only when using_threads() is true; otherwise the  *)
(* one thread calls the single-threaded wakeup from progress().  No step   *)
(* changes using_threads().                                                *)
Next ==
  /\ \/ \E w \in Waiters : WaiterStep(w) \/ SpuriousWakeup(w)
     \/ \E w \in Waiters, s \in Syncs, st \in OpStatus : ProgressCall(w, s, st)
     \/ \E a \in Aborters : uses_threads /\ AborterStep(a)
     \/ \E w \in Waiters, st \in WakeStatus : STGlobalWakeup(w, st)
  /\ UNCHANGED uses_threads

(* Threads are scheduled fairly, and a thread blocked on a mutex gets it   *)
(* when the mutex is free infinitely often.  The progress engine          *)
(* completes every posted operation while somebody keeps calling          *)
(* progress().  Spurious wakeups and aborts are never forced.              *)
Fairness ==
  /\ \A w \in Waiters : SF_vars(WaiterStep(w) /\ UNCHANGED uses_threads)
  /\ \A s \in Syncs : SF_vars(Completes(s))

Spec == Init /\ [][Next]_vars
FairSpec == Spec /\ Fairness
-----------------------------------------------------------------------------
TypeOK ==
  /\ pc \in [Threads -> WaiterPCs \cup UpdatePCs \cup AborterPCs]
  /\ count \in [Syncs -> -MaxPending..MaxCount]
  /\ status \in [Syncs -> OpStatus \cup WakeStatus]
  /\ signaling \in [Syncs -> BOOLEAN] /\ alive \in [Syncs -> BOOLEAN]
  /\ pending \in [Syncs -> 0..MaxPending]
  /\ slock \in [Syncs -> Threads \cup {NoThread}]
  /\ cwait \subseteq Syncs
  /\ wait_sync_lock \in Threads \cup {NoThread}
  /\ wait_sync_list \in Seq(Syncs)
  /\ num_thread_in_progress \in 0..Cardinality(Waiters)
  /\ ret \in [Waiters -> {"none", "SUCCESS", "ERROR"}]
  /\ erred \in [Syncs -> BOOLEAN]
  /\ wakeup \in [Aborters -> [at : 1..Cardinality(Waiters), st : WakeStatus \cup {SUCCESS}]]
  /\ uses_threads \in BOOLEAN

(* Destruction handshake (WAIT_SYNC_RELEASE against WAIT_SYNC_SIGNAL): no  *)
(* thread is about to lock, signal or write the flag of a sync whose owner *)
(* has already destroyed its lock and condition.                           *)
NoUseAfterDestroy ==
  \A t \in Threads : pc[t] \in {"u_signal", "u_flag"} => alive[upd[t].sync]

(* threads_base_wait_sync_global_wakeup_mt(status) reaches every sync in  *)
(* the ring: when it unlocks wait_sync_lock, each member (none can leave   *)
(* while the lock is held) carries the wakeup's error status and has its   *)
(* count swapped to 0 or below, so its owner returns instead of waiting    *)
(* for operations that will not complete.                                 *)
WakeupReachesRing ==
  [][\A a \in Aborters :
       pc[a] = "a_next" /\ pc'[a] = "idle" /\ wakeup[a].st # SUCCESS =>
         \A i \in 1..Len(wait_sync_list) :
           LET s == wait_sync_list[i] IN status'[s] # SUCCESS /\ count'[s] <= 0]_vars

(* Spec section 3: the threads between the increment and the decrement of  *)
(* num_thread_in_progress never exceed max_thread_in_progress, except one  *)
(* extra head during the hand-off of progress duty.                        *)
ProgressorBound ==
  Cardinality({w \in Waiters : pc[w] \in {"progress", "progress_dec"}
                                \/ upd[w].back = "progress"})
    <= MaxThreadInProgress + 1

(* Every call of ompi_sync_wait_mt returns and its WAIT_SYNC_RELEASE       *)
(* finishes: no lost promotion, no lost signal, no waiting cycle.          *)
WaitTerminates ==
  \A w \in Waiters : pc[w] = "fast" ~> pc[w] = "idle"

(* The waiter's place in the abstract wait: returned from the time         *)
(* SYNC_WAIT has returned until WAIT_SYNC_RELEASE has finished.            *)
Phase(w) ==
  CASE pc[w] = "idle"    -> "idle"
    [] pc[w] = "release" -> "returned"
    [] OTHER             -> "waiting"

Abs == INSTANCE WaitSyncAbstract WITH
         phase <- [w \in Waiters |-> Phase(w)],
         outstanding <- pending,
         failed <- erred,
         result <- ret,
         Statuses <- OpStatus,
         MaxPost <- MaxCount

(* WaitSync implements the safety part of WaitSyncAbstract: SYNC_WAIT      *)
(* returns only when every operation posted on its sync has completed or  *)
(* an error update or a global wakeup has hit it, and reports ERROR        *)
(* exactly in the second case; a sync is re-initialised only after its     *)
(* WAIT_SYNC_RELEASE.  The ring, the parking and the progress duty are     *)
(* invisible.  That every wait returns is WaitTerminates.                  *)
WaitSyncRefined == Abs!SafetySpec
=============================================================================

# TLA+ models of libult's threading core

This directory holds TLA+ models of the synchronisation core of libult
(`src/src`). They are checked with TLC. The file `PROJECT.json` lists:
- every component,
- every run and its expected outcome,
- the mutants that show each property can fail,
- the source lines each definition models,
- the findings,
- the hazards the properties are aimed at.

## 1. Inventory

### Components, their state and operations

| Component | Source | State | Operations |
|---|---|---|---|
| ProgressRing | `impl/base/wait_sync.c` | global `threads_base_wait_sync_list` (circular doubly-linked ring, head = progress manager), `wait_sync_lock`, atomic `num_thread_in_progress`, constant `max_thread_in_progress` | `ompi_sync_wait_mt`, `WAIT_SYNC_PASS_OWNERSHIP` |
| SyncHandle / CompletionUpdater | `wait_sync.h` | per sync: `count`, `status`, `condition`, `lock`, `next`/`prev`, `signaling` | `WAIT_SYNC_INIT`, `wait_sync_update`, `WAIT_SYNC_SIGNAL`, `WAIT_SYNC_RELEASE`, `WAIT_SYNC_RELEASE_NOWAIT`, `sync_wait_st` |
| Global wakeup | `impl/base/wait_sync.c` | the ring | `..._global_wakeup_mt` (ring walk under `wait_sync_lock`), `..._global_wakeup_st` (NULL-terminated walk) |
| HybridCondition | `condition.h` | `c_waiting`, `c_signaled` | `condition_wait`, `condition_timedwait`, `condition_signal`, `condition_broadcast` |
| Thread hand-off | `threads.h` | a boolean `*act`, a mutex `lck`, a `condition_t` `cnd` | `ACQUIRE_THREAD`, `RELEASE_THREAD`, `WAKEUP_THREAD` |
| Mutex and thread-usage switch | `mutex.h`, `impl/base/mutex.c`, `thread_usage.h` | `uses_threads`, `mutex_t` | `THREAD_LOCK`/`UNLOCK`/`TRYLOCK`, `set_using_threads`, atomic-or-plain add-fetch, CAS and pointer swap |
| Backends | `impl/pthreads`, `impl/qthreads`, `impl/argobots` | native mutex and condition; the qthreads condition keeps a waiter list of stack entries | `thread_internal_mutex_*`, `thread_internal_cond_*` |
| Tracked TSD keys | `impl/base/tsd.c`, `tsd.h` | `key->tsd_list` under `key->mutex`, per-thread item | `tsd_tracked_key_set/get`, `_tracked_destructor` (thread exit), `tsd_tracked_key_destructor` |
| Plumbing | `create_join.c`, `*_module.c`, `*_component.c`, `*_yield.c` | thread handle, MCA variables | `thread_start`, `thread_join`, yield strategy |

### How the components interact

A waiter thread does the following:
1. It posts operations and initialises a sync with their number (`WAIT_SYNC_INIT`).
2. It calls `ompi_sync_wait_mt`, which links the sync into the global ring under `wait_sync_lock`.
3. It either calls `progress()` or parks on the sync's native condition:
   - The head of the ring always calls `progress()`.
   - Any other waiter calls it while `num_thread_in_progress < max_thread_in_progress`.
   - Everyone else parks.

`progress()` completes operations. Each completion calls `wait_sync_update` on the progressing thread. The update decrements the count. When the count reaches 0, or on an error, the update:
1. locks the sync's lock;
2. signals its condition;
3. unlocks;
4. clears `signaling`.

The waiter then unlinks its sync. If the sync was the head, the waiter passes progress duty to the successor by signalling that successor's condition while it holds `wait_sync_lock`. On return, the owner spins in `WAIT_SYNC_RELEASE` until `signaling` is false, then destroys the lock and the condition.

The global wakeup walks the ring under `wait_sync_lock` and calls `wait_sync_update(sync, 0, status)` on every member.

The sync's lock and condition are the backend's `thread_internal_mutex_t` and `thread_internal_cond_t`. On pthreads these are the native primitives. On qthreads the condition is the backend's own waiter list. Every `SYNC_WAIT`, `THREAD_LOCK`, `THREAD_UNLOCK` and counter update first reads `using_threads()`. That flag selects between the multi-threaded code above and a single-threaded path without locks or atomics.

### What is hard

- **Threads run concurrently.**
  - The fast-path check in `ompi_sync_wait_mt` is unlocked, and so is `check_status`.
  - Updates take only the sync's own lock.
  - The global wakeup nests a sync lock inside the ring lock.
- **Promotion is a hand-off between two threads** through a signal that must not be lost.
- **Destruction races the last signaller.** The only protection is the `signaling` flag.
- **The error path** writes the status and swaps the count. The write must be visible first (`atomic_wmb`).
- **Spurious wakeups of `pthread_cond_wait`.**
- **The hybrid condition is not POSIX.** It uses counting permits, polls `progress()`, and its timeout uses a clock comparison.

### What makes each component correct

- **ProgressRing:**
  - every wait returns;
  - a waiter returns only after its operations completed;
  - at most `max_thread_in_progress` threads progress, plus the head during hand-off;
  - the head is never left parked.
- **CompletionUpdater:**
  - exactly the terminal update signals;
  - nobody touches a destroyed sync;
  - an error is reported to the waiter.
- **Global wakeup:** every ring member is visited once, and each returns the error.
- **HybridCondition:**
  - one `signal` releases at most one `wait`;
  - `broadcast` does not release waiters that arrive after it;
  - `timedwait` returns by the deadline.
- **qthreads condition:** the waiter list holds exactly the waiting, unsignalled entries, with no link into a returned frame; wakeups are FIFO; a signalled waiter returns.
- **Thread-usage switch:** no increment is lost in either mode, and no pointer is lost or duplicated by a swap.
- **Tracked keys:** every item is released exactly once, whatever the order of thread exit and key destruction, and none is leaked.

## 2. Plan

Modules, in order of importance:

1. `WaitSync` (done). Covers `ompi_sync_wait_mt`, `wait_sync_update`, the `WAIT_SYNC_*` macros and the global wakeup. `MCWaitSync` instantiates it.
2. `Condition` (done, both modes). Covers `condition.h` with threads holding the mutex except around `progress()`. `ThreadHandoff` (done) composes it with `ACQUIRE_THREAD`, `RELEASE_THREAD` and `WAKEUP_THREAD`.
3. `WaitSyncAbstract` (done). It states what a wait promises: a wait returns after its operations complete, or after an error, with the matching result. `WaitSync` refines its safety part (`WaitSyncRefined`).
4. `WaitSyncRing`. A pointer-level model of the `next`/`prev` ring, shown to refine the sequence used by `WaitSync` (refinement mapping from pointers to the sequence).
5. `sync_wait_st` and the single-threaded global wakeup (done, as the `using_threads()` false branch of `WaitSync`).
6. `QthreadsCond` (done). Covers the qthreads waiter-list condition, and refines the abstract FIFO condition variable `FifoCond`.
7. `TrackedKey` (done). Covers `tsd.c`: thread-exit destructor against key destruction.
8. `ThreadUsage` (done). Covers the `using_threads` switch: `THREAD_LOCK`/`THREAD_TRYLOCK`/`THREAD_UNLOCK`, and the plain fallbacks of add-fetch, CAS and pointer swap against the atomic ones. Not done: `THREAD_SCOPED_LOCK`, and callers that break the switch contract (see below).

## 3. Modules and runs

### WaitSync (`WaitSync.tla`, `MCWaitSync.tla`)

**State.** Every waiter `w` owns sync `w`. The function variables `count`, `status`, `signaling`, `pending` and `slock` are indexed by sync, and `alive` says whether the sync's lock and condition are initialised. Two variables are not fields of the C struct:
- `pending` is the number of operations posted and not yet completed.
- `erred` is a ghost recording that an error update reached the sync.
- `wakeup[a]` is the frame of Aborter `a`'s `threads_base_wait_sync_global_wakeup_mt` call: the ring position of its loop variable `sync`, and the `status` argument it passes to every member.

`cwait` is the set of syncs whose owner is parked in `pthread_cond_wait`. `wait_sync_list` is the ring as a sequence, head first. `pc` is each thread's position in the code, and `upd` is the `wait_sync_update` call a thread is in.

**Actions.** There is one action per step of `ompi_sync_wait_mt` between which another thread can interleave. Its name is on the source line it models (see the `map` in `PROJECT.json`). A lock, signal and unlock of one native lock is one step, and so is a ring operation under `wait_sync_lock`, because nobody can observe the intermediate states. `progress()` is an action `ProgressCall` that completes one posted operation of any sync, with a status from `OpStatus`, and runs `wait_sync_update` on the calling thread. A spurious wakeup is its own action.

**Single-threaded mode.** `uses_threads` is chosen in `Init` from `ThreadModes` and never changes, as `set_using_threads` is called at startup. When it is false:
- `SYNC_WAIT` runs `sync_wait_st` (`SyncWaitST`, `ProgressCall`, `STLoopExit`): the list becomes the one sync, `progress()` is called while the count is positive, the list is cleared and the status returned.
- `WAIT_SYNC_INIT` initialises no lock or condition, `WAIT_SYNC_SIGNAL` does nothing (`Signaller`), so `signaling` stays true, and `WAIT_SYNC_RELEASE` does nothing either.
- There is one thread: a sync is initialised only when every other is idle, Aborter threads do not run, and `STGlobalWakeup` is `threads_base_wait_sync_global_wakeup_st` called from within `progress()`.

`wait_sync_safety` and `wait_sync_error` run both modes; the two violation cfgs set `ThreadModes = {TRUE}`. So `WaitTerminates` and `WaitSyncRefined` also hold for `sync_wait_st`. A release that spun on `signaling` in single-threaded mode shows as a deadlock of both runs.

**Fairness** (`FairSpec`):
- Each waiter is strongly fair, because the mutexes are eventually granted when repeatedly free.
- The progress engine eventually completes every posted operation while someone keeps calling `progress()` (strong fairness of `Completes(s)`).
- Spurious wakeups and the global wakeup are never forced.

| Run | cfg | Expect | Shows |
|---|---|---|---|
| wait_sync_safety | `WaitSync.cfg` | pass | 3 waiters, 1 slot, ≤2 operations per sync, one posted at a time, both threading modes, under `FairSpec`: no use of a destroyed sync, every wait returns and is released, and the protocol refines `WaitSyncAbstract` (58,039 states, about 2 minutes) |
| wait_sync_error | `WaitSyncError.cfg` | pass | 2 waiters with up to 2 operations each that may fail, plus the global wakeup with an error, in both modes of `using_threads()`: `WakeupReachesRing`, when the ring walk unlocks `wait_sync_lock`, every ring member carries the error status and a count of 0 or below; and no deadlock between the wakeup (sync lock inside `wait_sync_lock`) and inserting waiters (the reverse) (629,217 states) |
| wait_sync_two_errors | `WaitSyncTwoErrors.cfg` | violation | two failing operations on one sync: use after destroy |
| wait_sync_progressor_bound | `WaitSyncBound.cfg` | violation | more threads progress than `max_thread_in_progress` + 1 |

**Abstract specification.** `WaitSyncAbstract` is the wait without ring, locks or progress duty: per sync a `phase` (idle, waiting, returned), the `outstanding` operations, whether an error has `failed` it, and the `result`; its actions are `Post`, `Complete`, `Fail` (an abort), `Return` (only when nothing is outstanding or the sync failed, reporting ERROR exactly when it failed) and `Release`. `WaitSync` maps onto it with `Phase(w)` (idle at `idle`, returned at `release`, waiting otherwise), `pending`, `erred` and `ret`. `WaitSyncRefined` checks the safety part in `wait_sync_safety`; its liveness part follows from `WaitTerminates`. The mapping counts operations across rounds, so it is not checked with aborts: an aborted operation still pending makes a later round of zero operations look early.

`WakeupReachesRing` is an action property of the step that ends the ring walk. The ring is circular, so only the `sync->next == head` test ends the loop (`wait_sync.c:25`), and every member must receive the caller's `status`. Members cannot leave the ring during the walk, because unlinking needs `wait_sync_lock`. The mutant that breaks after the head (testing the current sync instead of its successor) leaves the second member waiting, and TLC reports it. So does a walk that passes a status other than the caller's to later members.

**What these runs do not reach.**
- `wait_sync_safety` has no Aborter and only successful completions. `NoUseAfterDestroy` and `WaitTerminates` are therefore not checked against the global wakeup. The findings below record what happens when they are.
- `MaxPending = 1` in `wait_sync_safety`, so every sync is initialised with a count of 0 or 1 and no error occurs. `WaitSyncRefined` never sees a non-terminal update or a count below 0; the refinement is not checked with errors (see the stale-round hazard at `wait_sync.h:111`).
- The error path writes `status` and then swaps the count, in the code's order. No property checks that order (`wait_sync.h:117`): no mutant of one definition can move the status write after the swap.

**Bounds.** Three waiters are enough for a head, a parked successor and a third thread that either progresses as a non-head or parks behind the successor. One progressor slot makes parking happen. In `wait_sync_safety` at most one operation is posted at a time (`MaxPending = 1`), so counts are 0 or 1: completions by other threads happen, but non-terminal updates do not. `wait_sync_error` has `MaxPending = 2`, so there a count of 2 is decremented to 1, and an error swap can drive it below 0. The waiters loop forever, re-initialising their sync, so stale state from a previous round is reached. `wait_sync_safety` checks the liveness property too, so it uses no symmetry; `wait_sync_error` does.

### Condition (`Condition.tla`, `MCCondition.tla`)

**State.**
- `c_waiting` and `c_signaled` are the two fields of `condition_t`.
- `pc` is each thread's position.
- `clock` is the wall clock in ticks of `1/TicksPerSec` second. A reading is split into `(tv_sec, tv_usec)` by `Sec` and `USec`.
- `abstime` and `tv` are a timed waiter's deadline and its last `gettimeofday` reading.
- Ghosts:
  - `issued`: permits added by `condition_signal`.
  - `released`: `condition_wait` returns.
  - `waits`: calls started.
  - `bwoken`: waiters that were in their loop at a broadcast.

**Actions.** Callers hold the mutex around every call, and the loops drop it only around `progress()`. So every stretch that runs under the mutex is one action, and the mutex needs no variable. `progress()` is a no-op; the wakeups come from signaller threads.

| Action | Code |
|---|---|
| `WaitEnter` | `c_waiting++` and the early-return test (multi-threaded) |
| `WaitEnterST` | `c_waiting++` with `using_threads()` false: a pending permit is taken at once (`c_signaled--`, `c_waiting--`), else the `progress()` loop starts |
| `WaitEarlyReturn` | the early return |
| `WaitLoop` | one polling round of `condition_wait` |
| `TimedWaitEnter`, `TimedWaitClock`, `TimedWaitLoop` | the `do`/`while` of `condition_timedwait` |
| `Signal`, `Broadcast` | `condition_signal`, `condition_broadcast` |
| `Tick` | the clock |

**Single-threaded mode.** `uses_threads` is chosen in `Init` from `ThreadModes` and never changes. With it false there is one thread: a wait starts only when no other is under way (`OneThread`), the signals come from that thread between waits or from callbacks inside its `progress()`, and the loops are the same steps without the mutex. `condition_timedwait` runs the same steps in both modes; `condition_wait` differs, because the single-threaded branch has no early return. `condition_safety` runs both modes; the other cfgs run the multi-threaded one.

The call bounds and the `waits`, `issued` and `released` ghosts are kept by the callers' steps (`CountWait`, `CountSignal`, `CountReturn` in `WaiterStep` and `SignallerStep`), not by the operations, so `ThreadHandoff` can reuse the operations inside its own bounded loop.

**Fairness.** Waiters are strongly fair: a polling thread repeatedly finds the mutex free. The clock is weakly fair. Signallers are never forced to signal.

**Bounds.**
- Three waiters and one signaller: two waiters to share a permit and a third that arrives late.
- `MaxCalls` waits and signals: every behaviour ends.
- Two ticks per second and a clock of up to four ticks: a reading inside the deadline's second, one exactly at it and one past it.

Deadlock checking is off in these cfgs. The threads stop after `MaxCalls` calls, and a waiter with no permit keeps polling, so a stuck waiter is never a TLC deadlock. `BroadcastWakesAll` is the property that catches stuck waiters.

| Run | cfg | Expect | Shows |
|---|---|---|---|
| condition_safety | `ConditionSafety.cfg` | pass | both modes: `c_waiting` always equals the number of threads inside a wait, and no counter goes negative; `SingleThreadSignalReleasesOne`: with `using_threads()` false no signal or broadcast releases two `condition_wait` calls, the guarantee the multi-threaded early return loses (323,807 states) |
| condition_signal_once | `ConditionSignalOnce.cfg` | violation | one signal releases two waits |
| condition_timedwait_deadline | `ConditionDeadline.cfg` | violation | `timedwait` polls again after its deadline |

The early return's not consuming a permit cuts both ways:
- It breaks "one signal, one wait".
- It is what keeps `BroadcastWakesAll` true for `condition_wait` callers (checked in `thread_handoff`, below). The mutant that consumes the permit, as spec §4.1 words it, lets a late waiter steal a broadcast permit.

The single-threaded branch has no early return, so it keeps "one signal, one wait": the mutant whose entry leaves a pending permit in place breaks `SingleThreadSignalReleasesOne`.

### ThreadHandoff (`ThreadHandoff.tla`, `MCThreadHandoff.tla`)

The macros of `threads.h` hand a flag `*act` between threads with one mutex `lck` and one `condition_t cnd`:
- `ACQUIRE_THREAD` takes `lck`, calls `condition_wait(cnd, lck)` while `*act` is set, then sets `*act` and returns still holding `lck`.
- `RELEASE_THREAD` clears `*act`, broadcasts `cnd` and unlocks `lck`.
- `WAKEUP_THREAD` clears `*act` and broadcasts, and takes no lock itself; the model's Waker calls it under `lck`.

`ThreadHandoff` EXTENDS `Condition` and reuses its `WaitEnter`, `WaitEarlyReturn`, `WaitLoop` and `Broadcast`. Because an Acquirer keeps `lck` across the whole section, the mutex is now a variable, `holder`, and every `Condition` step of the plain waiter and signaller also needs it free (`UnderFreeLock`).

**State.** `holder`; `act`; `pending`, true until the Waker has completed the request that had `act` set at the start; `apc`, each Acquirer's place in the macros (`out`, `test`, `enter`, `held`); `rounds`, its `ACQUIRE_THREAD` calls.

**Actions.**

| Action | Code |
|---|---|
| `AcquireLock` | `THREAD_LOCK(lck)` in `ACQUIRE_THREAD` |
| `AcquireTest` | the `while (*act)` test: go on to call `condition_wait`, or set `*act` |
| `AcquireEnter` | the entry of that `condition_wait` call: `c_waiting++` and unlock `lck`, a step after the test as in the code |
| `AcquireInWait` | the early return or a polling round of `condition_wait`, re-taking `lck` on return |
| `RELEASE_THREAD` | the whole macro |
| `WAKEUP_THREAD` | the whole macro, with the caller's lock and unlock |

An Acquirer holds `lck` from `ACQUIRE_THREAD` to `RELEASE_THREAD`, so nobody can set or clear `act` while a hand-off is under way except by that holder. Polling loops on `cnd` therefore form only while the initial request is pending, and the Waker's broadcast is what must release them.

**Fairness.** An Acquirer inside the macros or inside `condition_wait` is strongly fair: it polls and re-takes `lck`, which is free infinitely often. The plain waiter's return is strongly fair for the same reason. The pending request completes, so the Waker is strongly fair. Nothing forces a new round or a new call.

**Bounds.** Three Acquirers (two to loop on the pending request and one to arrive after it is completed), one plain waiter and one signaller on the same `cnd`, three calls each (the Acquirers' own `condition_wait` calls are bounded by their rounds), and two rounds per Acquirer. A second plain waiter makes the run several minutes long without reaching a new kind of interleaving. Deadlock checking is off: every thread stops after its bounded calls and rounds.

| Run | cfg | Expect | Shows |
|---|---|---|---|
| thread_handoff | `ThreadHandoff.cfg` | pass | `NoLostWakeup`: while `act` is clear, an Acquirer in the polling loop always has a permit. `BroadcastWakesAll`: every waiter present at a broadcast returns. `AcquireReturns`: every Acquirer that has taken `lck` gets `act` (48,269 states, about a minute) |

Only `condition_wait` is called on `cnd` here, as `ACQUIRE_THREAD` does, so `BroadcastWakesAll` says nothing about `condition_timedwait` callers. With them it fails (see Findings, `condition.h:88`).

The mutants: a `WAKEUP_THREAD` run by a Waker that does not hold `lck` slips between an Acquirer's test of `act` and its `c_waiting++`, so its broadcast misses that Acquirer, which then polls with `act` clear and no permit; a `RELEASE_THREAD` that leaves `act` set makes the next Acquirer wait for ever; a `condition_wait` whose early return consumes the permit lets a late waiter steal a broadcast permit.

### TrackedKey (`TrackedKey.tla`, `MCTrackedKey.tla`)

**State.**
- `tsd_list` is the key's list of items, in list order. An item is named by the thread that made it.
- `slot` is each thread's pthread value for the key.
- `holder` is the holder of `key->mutex`.
- `key_live` and `mutex_live` say whether the pthread key and the mutex/list still exist.
- `releases` counts the `OBJ_RELEASE` calls on each item.

**Actions.**
- `tsd_tracked_key_set` is the first `set` of a thread: a new item is appended under the mutex.
- `ThreadExit` is the pthread runtime's exit handling: if the key exists and the slot is set, it clears the slot and calls `_tracked_destructor`.
- `DestructorLock`, `DestructorRemove` and `DestructorRelease` are the three steps of `_tracked_destructor`.
- `KeyDelete` and `KeyWalk` are `tsd_tracked_key_destructor`. Its walk does not take the mutex.
- The `Owner` thread destroys the key, may own an item itself, and has first joined the workers in `Joined`.

**Bounds.** Three workers plus the owner. Each thread makes at most one item, as the code does: `tsd_tracked_key_set` reuses the item in the slot. Deadlock checking is off: every behaviour ends with all threads exited.

| Run | cfg | Expect | Shows |
|---|---|---|---|
| tracked_key_joined | `TrackedKey.cfg` | pass | with every worker joined before the destroy, every item is released exactly once and none is leaked (386 states) |
| tracked_key_exit_race | `TrackedKeyRace.cfg` | violation | a worker exiting during the destroy has its item released twice |

### QthreadsCond and FifoCond (`QthreadsCond.tla`, `FifoCond.tla`, `MCQthreadsCond.tla`)

The qthreads backend implements its condition variable itself
(`impl/qthreads/threads_qthreads_mutex.h`). `cond_wait` puts a
`thread_cond_waiter_t {m_signaled, m_prev}` on its own stack. Under the
condition's spinlock it pushes that entry at `m_waiter_head`. It then polls:
unlock the user's mutex, yield, lock it, and read `m_signaled` under the spinlock.
`cond_signal` pops the entry at `m_waiter_tail` (the oldest) along `m_prev` and
sets its flag. It empties the head when the list becomes empty. `cond_broadcast` pops every entry.

**State.**
- `head` and `tail` are the two pointers. `m_signaled[t]` and `m_prev[t]` are the fields of waiter `t`'s stack entry; a thread's entry is the same frame on each call.
- `owner` is the holder of the user's mutex (a qthread spinlock).
- `pc` is each waiter's position; `calls` and `signals` are the call bounds.
- `WaitList` reads the list from the tail along `m_prev` with the recursive `ChainFrom`. The walk is cut after one more step than there are waiters, so a cycle shows as a repeated entry.

**Actions.** Every section under the condition's spinlock is one action:
- `Enqueue`;
- `WaitCheck`;
- `Signal`;
- `Broadcast`.

The user's mutex steps are actions of their own: `MutexLock`, `WaitUnlock`, `WaitRelock` and `MutexUnlock`.

**Abstract specification.** `FifoCond` is what the backend promises ("awaken one of threads in a FIFO manner"):
- the threads inside the wait;
- the queue of those not yet woken, oldest first;
- `Wait`, `Signal`, `Broadcast` and `Return`.

`QthreadsCond` implements it under the mapping:

| FifoCond variable | QthreadsCond expression |
|---|---|
| `waiting` | the waiters inside the polling loop |
| `queue` | `WaitList` |

`FifoImplemented` is `Fifo!Spec`. `waiting` is needed as well as `queue`: a waiter lost from the list would otherwise be a stuttering step.

**Fairness.** A waiter inside `cond_wait` keeps running, so its steps are weakly fair. The relock competes for the spinlock with the other waiters, and is assumed strongly fair. The code does not guarantee this: `SignaledReturns` holds under this assumption, and the hazard that a signalled waiter keeps losing the spinlock (`threads_qthreads_mutex.h:120`) is assumed away, not checked. `thread_internal_mutex_unlock` yields "for fairness of locking", and every holder keeps the lock for a few steps. Nothing forces a thread to wait or a signaller to signal.

**Bounds.** Three waiters, two calls each, and three signal/broadcast calls. These give lists of zero to three entries, pops that empty the list and pops that do not, and frames reused by a second call. Deadlock checking is off: once the calls are spent, the threads stop.

| Run | cfg | Expect | Shows |
|---|---|---|---|
| qthreads_cond | `QthreadsCond.cfg` | pass | `NoStaleWaiter`: the list holds exactly the unsignalled waiters still in `cond_wait`, each once, ending at `head`, so no link leads into a returned frame. `FifoImplemented`: the list refines a FIFO queue. `SignaledReturns`: a signalled waiter returns (26,037 states) |

The mutants show what each property catches:
- **Signal or broadcast without the head reset.** `TypeOK` and `FifoImplemented` fail: the next waiter's push writes into a dead frame and the waiter is lost.
- **A loop that returns without testing `m_signaled`.** `NoStaleWaiter` fails.
- **A loop that does not drop the mutex.** `SignaledReturns` fails.

### ThreadUsage (`ThreadUsage.tla`, `MCThreadUsage.tla`)

`uses_threads` (`impl/base/mutex.c`) starts false, and `set_using_threads` changes it. `THREAD_LOCK`, `THREAD_TRYLOCK`, `THREAD_UNLOCK` (`mutex.h`) and the operations of `thread_usage.h` read it afresh on every call:
- When it is true, they use the pthread mutex or the atomic.
- When it is false, they do nothing, or a plain load and store.

**The calling program.** It follows the contract of `thread_usage.h`, as callers do:
- Main sets the flag before `thread_start` and clears it only after `thread_join` of every worker.
- Main never switches inside one of its own sections.

No caller of `set_using_threads` exists under `src/`, so this order is the documented contract, not code. The run therefore does not reach three hazards: a switch inside an open section (`mutex.h:175`); a worker running across a switch (`create_join.c:28`); and a plain add-fetch, CAS or swap racing a second thread (`thread_usage.h:69`, `:109`). The plain paths run only while Main is alone. `NoLostUpdate` and `PointersConserved` catch a plain path taken while workers run, through the mutants that ignore the flag.
- Each thread makes up to `MaxOps` calls. Each call is one of:
  - a locked section (`THREAD_LOCK` or a successful `THREAD_TRYLOCK`, then a plain increment of `shared`, then `THREAD_UNLOCK`);
  - `thread_add_fetch_32(&counter, 1)`;
  - a compare-exchange increment loop on `counter`;
  - `THREAD_SWAP_PTR(&slot, held)`: the thread swaps the pointer it holds (`held`, initially the thread itself) with the shared `slot` (initially `NULL`) and keeps the old one.

**Integers.** The counters are `int32_t` and start at `INT32_MAX - 1`. `AddWrap32` adds in two's complement without leaving TLC's 32-bit integers. `NoLostUpdate` applies `AddWrap32` to both sides, so the wrap past `INT32_MAX` is computed but the property would compare equally without it; the start value only keeps the arithmetic within TLC's range.

**Bounds.** Main and two workers, two calls each, and two switches (on, then off). Every operation runs in both modes, and two workers contend for the mutex and the counter. Deadlock checking is off: the program ends when its calls are made.

| Run | cfg | Expect | Shows |
|---|---|---|---|
| thread_usage | `ThreadUsage.cfg` | pass | `NoLostUpdate`: both counters equal their start plus the increments stored, modulo 2^32. `PointersConserved`: the held pointers and `slot` are always the initial pointers, each once. |

The mutant that takes the plain fallback in multi-threaded mode loses increments; the swap that takes it returns one pointer to two threads.

### Findings

- **Two failing operations on one sync.** Each runs the error path of `wait_sync_update` (`wait_sync.h:116`), and both signal. The first clears `signaling`, the owner destroys the sync, and the second locks the destroyed lock.
- **Global wakeup racing the last completion.** This is a hazard; no run is kept for it. The global wakeup (`wait_sync.c:24`), racing the last successful completion of a ring member, clears `signaling` before that completion has locked the sync. TLC found the same use after destroy when `NoUseAfterDestroy` was checked with an aborter. The `signaling` handshake is sound only for exactly one terminal update per sync.
- **Progressor bound.** `check_status` (`wait_sync.c:82`) reads `num_thread_in_progress` before anyone increments it. With `max_thread_in_progress = 1`, three threads progressed at once.

- **Condition early return** (`condition.h:30`). It leaves the pending permit in place, so one `condition_signal` releases two `condition_wait` calls (spec §4.1, §8).
- **Condition timed waiters and broadcast** (`condition.h:88`). This is a hazard; no run is kept for it. With `timedwait` callers added to a condition-only configuration, TLC finds `BroadcastWakesAll` violated: a timed waiter takes a broadcast permit meant for a waiter that was already waiting, and that waiter then depends on a later signal (spec §8, bounded wake).
- **Condition timed waiters and the deadline** (`condition.h:70`). The test `tv_sec <= absolute.tv_sec` makes the microsecond comparison dead code, so a timed waiter polls up to one second past its deadline.
- **Tracked key destroyed while a thread exits** (`tsd.c:37`). `tsd_key_delete` does not stop a destructor that the exit of a thread has already started. The key destructor then walks the list without the mutex, and it and `_tracked_destructor` both release the same item.

## 4. Not modelled

- **`WAKEUP_THREAD` without `lck`.** The macro takes no lock; no caller in `src/` exists. Called without `lck` it can run between an Acquirer's read of `*act` and its `c_waiting++`, and the wakeup is lost. The model runs it under `lck`; the mutant `WAKEUP_THREAD_unlocked` shows `NoLostWakeup` catches the unlocked call.
- **Argobots backend and cooperative scheduling.** The wrappers forward to `ABT_mutex_*` and `ABT_cond_*`, which are outside this repository, and map their error codes; as a mutex and a condition they behave like the pthreads primitives already in `WaitSync` and `ThreadUsage`. Their one behaviour of their own is the `ABT_thread_yield` after every unlock, which matters only when user-level threads share one execution stream. No module models that scheduling: every module lets any thread step whenever its action is enabled. The hazard it leaves open is recorded at `wait_sync.h:34`: the signaller yields in the unlock of `WAIT_SYNC_SIGNAL` before clearing `signaling`, and an owner spinning in `WAIT_SYNC_RELEASE` without a yield would then never let it run. Whether the release spin yields depends on `progress_yield_when_idle`, set outside `src/`.
- **MCA registration, the pthread yield strategy, `thread_get_self` and `thread_self_compare`.** Configuration and I/O with no shared state. `thread_start` and `thread_join` are steps of `ThreadUsage`.
- **`THREAD_SCOPED_LOCK`, `mutex_atomic_*`, recursive mutexes, `thread_swap_32`/`_64` and the and/or/xor/sub and 64-bit instantiations of `thread_usage.h`.** They change values the properties do not tell apart, or are not used by the modelled components. `THREAD_SCOPED_LOCK` reads the flag once for lock and unlock, so it is immune to the switch hazard.
- **`thread_internal_mutex_init` error paths (pthreads).** No caller checks the result.
- **The content of `progress()`.** It is abstracted as "completes some posted operation".

\* Two waiters with up to two operations each, which may fail, and one
\* thread calling the global wakeup with an error: the error path of
\* wait_sync_update, the ring walk, and what each waiter returns; with
\* using_threads() true, and false (one thread, sync_wait_st and the
\* single-threaded wakeup).
CONSTANTS
  w1 = w1  w2 = w2  w3 = w3  a1 = a1  NoThread = NoThread
  Waiters <- MCWaiters2
  Aborters <- MCAborters
  MaxThreadInProgress = 1
  MaxCount = 2
  MaxPending = 2
  OpStatus <- MCOpStatusErr
  WakeStatus <- MCWakeErr
  ThreadModes = {TRUE, FALSE}
SPECIFICATION Spec
SYMMETRY MCSymmetry2
PROPERTY WakeupReachesRing

\* Two operations on one sync that may both fail: two terminal updates.
CONSTANTS
  w1 = w1  w2 = w2  w3 = w3  a1 = a1  NoThread = NoThread
  Waiters <- MCWaiters2
  Aborters = {}
  MaxThreadInProgress = 1
  MaxCount = 2
  MaxPending = 2
  OpStatus <- MCOpStatusErr
  WakeStatus = {}
  ThreadModes = {TRUE}
SPECIFICATION Spec
INVARIANT NoUseAfterDestroy

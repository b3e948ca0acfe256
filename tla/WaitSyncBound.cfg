\* Three waiters and one progressor slot: how many threads progress at once.
CONSTANTS
  w1 = w1  w2 = w2  w3 = w3  a1 = a1  NoThread = NoThread
  Waiters <- MCWaiters3
  Aborters = {}
  MaxThreadInProgress = 1
  MaxCount = 1
  MaxPending = 1
  OpStatus = {0}
  WakeStatus = {}
  ThreadModes = {TRUE}
SPECIFICATION Spec
INVARIANT ProgressorBound

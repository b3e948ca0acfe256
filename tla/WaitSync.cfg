\* Three waiters, one progressor slot, syncs of up to two operations with one
\* posted at a time, only successful completions, under the fairness of
\* FairSpec: promotion, parking, the destruction handshake, and every wait
\* returning, with and without using_threads() (sync_wait_st).  No symmetry: it is not sound for the liveness property.
CONSTANTS
  w1 = w1  w2 = w2  w3 = w3  a1 = a1  NoThread = NoThread
  Waiters <- MCWaiters3
  Aborters = {}
  MaxThreadInProgress = 1
  MaxCount = 2
  MaxPending = 1
  OpStatus = {0}
  WakeStatus = {}
  ThreadModes = {TRUE, FALSE}
SPECIFICATION FairSpec
INVARIANT TypeOK NoUseAfterDestroy
PROPERTY WaitTerminates WaitSyncRefined

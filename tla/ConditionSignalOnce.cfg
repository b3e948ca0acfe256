\* condition_wait against condition_signal only, no broadcast.
CONSTANTS
  w1 = w1
  w2 = w2
  w3 = w3
  s1 = s1
  Waiters <- MCWaiters
  Signallers <- MCSignallers
  WaitOps <- MCWaitOnly
  SignalOps <- MCSignalOnly
  TicksPerSec = 2
  MaxClock = 0
  MaxTimeout = 0
  MaxCalls = 3
  ThreadModes = {TRUE}
SPECIFICATION Spec
INVARIANT SignalReleasesOne
\* Every thread stops after MaxCalls calls; a waiter left without a permit
\* keeps polling, so it is never a TLC deadlock.
CHECK_DEADLOCK FALSE

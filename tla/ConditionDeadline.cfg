\* condition_timedwait with a sub-second clock and no signal.
CONSTANTS
  w1 = w1
  w2 = w2
  w3 = w3
  s1 = s1
  Waiters <- MCWaiters
  Signallers <- MCSignallers
  WaitOps <- MCTimedOnly
  SignalOps <- MCSignalOnly
  TicksPerSec = 2
  MaxClock = 4
  MaxTimeout = 2
  MaxCalls = 1
  ThreadModes = {TRUE}
SPECIFICATION Spec
INVARIANT TimedWaitByDeadline
\* Every thread stops after MaxCalls calls; a waiter left without a permit
\* keeps polling, so it is never a TLC deadlock.
CHECK_DEADLOCK FALSE

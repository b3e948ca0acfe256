\* All four operations on one condition by three waiters and one signaller.
CONSTANTS
  w1 = w1
  w2 = w2
  w3 = w3
  s1 = s1
  Waiters <- MCWaiters
  Signallers <- MCSignallers
  WaitOps <- MCAllWaitOps
  SignalOps <- MCAllSignalOps
  TicksPerSec = 2
  MaxClock = 3
  MaxTimeout = 1
  MaxCalls = 3
  ThreadModes = {TRUE, FALSE}
SPECIFICATION Spec
SYMMETRY MCSymmetry
INVARIANT TypeOK
INVARIANT WaitingCounts
INVARIANT SingleThreadSignalReleasesOne
\* Every thread stops after MaxCalls calls; a waiter left without a permit
\* keeps polling, so it is never a TLC deadlock.
CHECK_DEADLOCK FALSE

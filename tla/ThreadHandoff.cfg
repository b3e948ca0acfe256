\* Three threads handing act over with ACQUIRE_THREAD/RELEASE_THREAD, a request
\* pending from the start that a Waker completes with WAKEUP_THREAD, and a
\* plain condition_wait caller and a signaller on the same condition, three
\* calls each; two rounds per acquirer.
CONSTANTS
  w1 = w1
  a1 = a1
  a2 = a2
  a3 = a3
  s1 = s1
  k1 = k1
  Waiters <- MCWaiters
  Acquirers <- MCAcquirers
  Signallers <- MCSignallers
  Wakers <- MCWakers
  WaitOps <- MCWaitOnly
  SignalOps <- MCAllSignalOps
  TicksPerSec = 2
  MaxClock = 0
  MaxTimeout = 0
  MaxCalls = 3
  ThreadModes = {TRUE}
  MaxRounds = 2
SPECIFICATION HFairSpec
INVARIANT NoLostWakeup
PROPERTY BroadcastWakesAll AcquireReturns
\* Every thread stops after its bounded calls and rounds.
CHECK_DEADLOCK FALSE

\* Three waiters, each waiting twice, against three signal or broadcast
\* calls: the waiter list is empty, one, two and three frames long, and
\* frames are reused by a waiter's second call.  Once the calls are spent
\* the threads stop (a waiter left on the list loops forever), so the end
\* states are not deadlocks of the code.
SPECIFICATION FairSpec
CONSTANTS
  Waiters <- MCWaiters
  w1 = w1  w2 = w2  w3 = w3
  NULL = NULL
  MaxWaits = 2
  MaxSignals = 3
INVARIANT TypeOK NoStaleWaiter
PROPERTY FifoImplemented SignaledReturns
CHECK_DEADLOCK FALSE

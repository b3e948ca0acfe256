\* The Owner destroys the key while workers may be exiting.
CONSTANTS
  w1 = w1
  w2 = w2
  w3 = w3
  o = o
  Workers <- MCWorkers
  Owner = o
  Joined <- MCNone
  NoThread = NoThread
SPECIFICATION Spec
\* Every behaviour ends with all threads exited and the key destroyed.
CHECK_DEADLOCK FALSE
INVARIANT ReleasedOnce

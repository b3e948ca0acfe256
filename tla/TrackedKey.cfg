\* The Owner joins every worker before destroying the key.
CONSTANTS
  w1 = w1
  w2 = w2
  w3 = w3
  o = o
  Workers <- MCWorkers
  Owner = o
  Joined <- MCWorkers
  NoThread = NoThread
SPECIFICATION Spec
\* Every behaviour ends with all threads exited and the key destroyed.
CHECK_DEADLOCK FALSE
SYMMETRY MCSymmetry
INVARIANT TypeOK
INVARIANT ReleasedOnce
INVARIANT NoLeak

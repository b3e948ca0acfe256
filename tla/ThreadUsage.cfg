\* Main and two workers, two calls each, the mode switched on and off: every
\* call runs in both modes; Init0 starts the counters at INT32_MAX - 1.
\* The program ends when every call is made, so the final states are not deadlocks.
SPECIFICATION Spec
CONSTANTS
  Main = m
  m = m  w1 = w1  w2 = w2
  Workers <- MCWorkers
  NULL = NULL
  Init0 = 2147483646
  MaxOps = 2
  MaxFlips = 2
INVARIANT NoLostUpdate PointersConserved
CHECK_DEADLOCK FALSE

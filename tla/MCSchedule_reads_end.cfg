SPECIFICATION Spec
CONSTANTS
  Timeout = {t1, t2}
  Node = {n1, n2}
  NoNode = NoNode
  Delay <- StrictDelay
  MaxTime = 3
  Monotonic = TRUE
INVARIANT CancelStaysInQueue

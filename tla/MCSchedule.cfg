\* The clock does not step back and tasks are scheduled in the future.
SPECIFICATION FairSpec
CONSTANTS
  Timeout = {t1, t2, t3}
  Node = {n1, n2, n3}
  NoNode = NoNode
  Delay <- StrictDelay
  MaxTime = 4
  Monotonic = TRUE
INVARIANTS TypeOK HeapOK CancelHitsOwn NoOrphan StaleIdsPrecede
PROPERTIES RunReturns DeadlineMet ImplementsTimers

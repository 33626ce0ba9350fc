\* Two callers compete for two workers, and the pool may be dropped.
SPECIFICATION Spec
CONSTANTS
  Callers = {c1, c2}
  Workers = {w1, w2}
  Owner = owner
  NoThread = NoThread
  MaxCalls = 2
  MaxSamples = 4
  Droppable = TRUE
SYMMETRY Symmetry
\* A caller whose wakeup is lost waits for ever, a dropped pool stops, and the
\* bound on calls stops the others.
CHECK_DEADLOCK FALSE
INVARIANTS
  BorrowsLive
  ReturnComplete
  ExclusivePairs
  NoLostJobWakeup
PROPERTIES
  ReturnedBufferStable
  ServiceSpec

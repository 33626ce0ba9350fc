\* The caller misses the signal of the worker that finished its job.
SPECIFICATION FairSpec
CONSTANTS
  Callers = {c1}
  Workers = {w1, w2}
  Owner = owner
  NoThread = NoThread
  MaxCalls = 1
  MaxSamples = 2
  Droppable = FALSE
\* A caller whose wakeup is lost waits for ever, and the bound on calls stops
\* the others.
CHECK_DEADLOCK FALSE
PROPERTIES
  RunReturns

\* Three jobs: every one is finished and every worker catches up.
SPECIFICATION FairSpec
CONSTANTS
  Callers = {c1}
  Workers = {w1, w2}
  Owner = owner
  NoThread = NoThread
  MaxCalls = 3
  MaxSamples = 3
  Droppable = FALSE
\* A caller whose wakeup is lost waits for ever, and the bound on calls stops
\* the others.
CHECK_DEADLOCK FALSE
INVARIANTS
  IInv
PROPERTIES
  JobsFinish
  WorkersCatchUp

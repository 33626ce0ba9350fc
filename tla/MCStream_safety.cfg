SPECIFICATION Spec
CONSTANTS
  Producers = {p1, p2}
  Consumers = {c1}
  Owner = owner
  NoThread = NoThread
  Batch = 3
  MaxSamples = 11
  Fallible = FALSE
SYMMETRY Symmetry
\* A dropped stream takes no more steps.
CHECK_DEADLOCK FALSE
INVARIANTS
  NothingLost
  BoundedLag
  EndMeansConsumed
PROPERTIES
  FinishSeals
  OrderedSpec

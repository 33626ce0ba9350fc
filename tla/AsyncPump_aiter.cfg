\* A slow application, a queue of one place and chunks of two.
SPECIFICATION FairSpec
CONSTANTS
  Readers = {pump}
  Pump = pump
  Lengths = {0, 1, 3}
  StartRoom = 2
  MaxSamples = 7
  MaxQ = 1
  Chunk = 2
\* The pump of an iteration that was left waits for ever.
CHECK_DEADLOCK FALSE
INVARIANTS
  NeverQueueFull
  HandedOverInOrder
  IterationComplete
  ReadAheadBounded
PROPERTIES
  IterationEnds

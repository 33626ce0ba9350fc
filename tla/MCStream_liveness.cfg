SPECIFICATION FairSpec
CONSTANTS
  Producers = {p1, p2}
  Consumers = {c1}
  Owner = owner
  NoThread = NoThread
  Batch = 2
  MaxSamples = 5
  Fallible = TRUE
\* A dropped stream takes no more steps.
CHECK_DEADLOCK FALSE
PROPERTIES
  CallsReturn
  AllDecrypted
  NextReturns
  DropReturns

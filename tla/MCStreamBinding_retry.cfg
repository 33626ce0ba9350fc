\* The retry of a long sample gets the next one.
SPECIFICATION BindingSpec
CONSTANTS
  Readers = {r1}
  Lengths = {1, 3}
  StartRoom = 2
  MaxSamples = 2
INVARIANTS
  RetryGetsIt

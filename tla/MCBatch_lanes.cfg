\* Two threads, up to three pairs, samples of up to two blocks and a tail.
SPECIFICATION Spec
CONSTANTS
  Workers = {w1, w2}
  Caller = caller
  Block = 2
  MaxSamples = 5
  MaxLen = 5
SYMMETRY Symmetry
INVARIANTS
  ChainsSeparate
  NothingMisplaced
  EachAsAlone
CHECK_DEADLOCK FALSE

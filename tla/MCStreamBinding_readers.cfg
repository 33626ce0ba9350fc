\* Two readers share a stream.
SPECIFICATION BindingSpec
CONSTANTS
  Readers = {r1, r2}
  Lengths = {0, 1, 2, 5}
  StartRoom = 2
  MaxSamples = 4
SYMMETRY Symmetry
INVARIANTS
  WholePlaintexts
  ShortOnesArrive
  EndIsExplained

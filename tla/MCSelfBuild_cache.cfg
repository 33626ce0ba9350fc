\* Two processes of either binding, one of which may be stopped; two sources.
SPECIFICATION Spec
CONSTANTS
  Go = {g1, g2}
  Py = {y1, y2}
  NoProc = NoProc
  NFiles = 2
  MaxCrashes = 1
SYMMETRY Symmetry
INVARIANTS
  HalfOnlyFromCopy
  LoneBuildSucceeds

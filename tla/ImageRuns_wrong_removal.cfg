SPECIFICATION Spec
CONSTANTS
  Threads = {t1, t2}
  IsoNames = {a}
  MaxUploads = 2
  MaxQueued = 0
  MayRestart = FALSE
SYMMETRY Symmetry
CHECK_DEADLOCK FALSE
PROPERTY FinishRemovesItsImage

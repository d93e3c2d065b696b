\* One image, Reprocess and Delete by two threads, restarts and lost volumes.
SPECIFICATION Spec
CONSTANTS
  Threads = {t1, t2, t3}
  IsoNames = {a}
  MaxUploads = 1
  MaxQueued = 1
  MayRestart = TRUE
SYMMETRY Symmetry
CHECK_DEADLOCK FALSE
INVARIANTS OneRunPerImage ReadyIsBuilt FilesAreOwned 
PROPERTIES LockSpec

\* Two uploads, so that an id and a file name come back, and restarts.
SPECIFICATION Spec
CONSTANTS
  Threads = {t1, t2}
  IsoNames = {a}
  MaxUploads = 2
  MaxQueued = 0
  MayRestart = TRUE
SYMMETRY Symmetry
CHECK_DEADLOCK FALSE
INVARIANTS TypeOK ReadyIsBuilt FoldersAreItsOwn FilesAreOwned NamesAreUnique

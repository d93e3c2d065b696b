\* One image, Reprocess and Delete pressed by several threads, no restart.
SPECIFICATION FairSpec
CONSTANTS
  Threads = {t1, t2, t3}
  IsoNames = {a}
  MaxUploads = 1
  MaxQueued = 1
  MayRestart = FALSE
CHECK_DEADLOCK FALSE
PROPERTIES StoppedRunRemoves BuildEnds

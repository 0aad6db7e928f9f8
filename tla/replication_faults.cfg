SPECIFICATION ReplSpec
CONSTANTS
  Nodes = {1, 2}
  MaxTerm = 3
  Functions = {f}
  Datasets = {}
  Buckets = {b}
  MaxVersion = 1
  Contents = {c1}
  None = None
  Tombstone = Tombstone
  MaxDirtyCount = 2
  InOrder = FALSE
  Relaunch = TRUE
  MaxWrites = 2
  MaxCrashes = 1
  MaxLosses = 1
  MaxSilences = 0
INVARIANTS
  NoInvention
PROPERTIES
  VersionNeverFallsBack
  OnlyDeletedDisappear
  FlushesOwnWrites

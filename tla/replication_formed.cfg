SPECIFICATION FormedFairSpec
CONSTANTS
  Nodes = {1, 2, 3}
  MaxTerm = 6
  Functions = {f}
  Datasets = {d}
  Buckets = {b}
  MaxVersion = 1
  Contents = {c1, c2}
  None = None
  Tombstone = Tombstone
  MaxDirtyCount = 2
  InOrder = TRUE
  Relaunch = FALSE
  MaxWrites = 3
  MaxCrashes = 0
  MaxLosses = 0
  MaxSilences = 0
PROPERTIES
  PushCatchesUp
  Replicates

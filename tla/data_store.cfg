SPECIFICATION DataSpec
CONSTANTS
  Leader = ld
  Follower = fo
  Items = {d1}
  Contents <- MCContents
  Streamed = {"short"}
  Lengths <- MCLengths
  ChunkBytes = 2
  Quotas = {2, 3}
  Unset = Unset
  MaxWriters = 2
  MaxDeletes = 1
  MaxFaults = 1
INVARIANTS
  
  ReplicaIsFaithful

  
CHECK_DEADLOCK FALSE

SPECIFICATION ChoreoSpec
CONSTANTS
  Runs = {r1}
  Nodes <- MCNodes
  Edges <- MCEdges
  Buckets = {"k"}
  Items <- MCItems
  Parallelism = 2
  MaxConcurrency = 2
  MaxRetries <- MCRetries
  MaxLost = 1
  MaxCrashes = 1
INVARIANTS
  DependenciesFirst
  
  OutcomeIsTrue
PROPERTIES
  PurgedComesBackOnlyAtWork
  RunEnds
CHECK_DEADLOCK FALSE

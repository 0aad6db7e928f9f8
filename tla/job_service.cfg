SPECIFICATION JobSpec
CONSTANTS
  Endpoints = {e1, e2}
  Leader = e1
  Jobs = {j1}
  MaxTries = 1
  ChunkSize = 1
  MaxForwards = 2
  MaxRivals = 1
  MaxChecks = 1
  MaxQueue = 1
  Nobody = Nobody
INVARIANTS
  
  ActiveIsExplained
PROPERTIES
  RoutersReturn
  ResultsConverge
CHECK_DEADLOCK FALSE

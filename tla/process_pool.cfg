SPECIFICATION ProcessSpec
CONSTANTS
  Jobs = {j1, j2}
  Workers = {w1, w2}
  MaxConcurrency = 1
  MaxInvocations = 1
  MaxDeaths = 1
  MaxSweeps = 1
  MaxCancels = 1
  Stop = Stop
  Nobody = Nobody

  
PROPERTIES
  ImplementsBoard
  
CHECK_DEADLOCK FALSE

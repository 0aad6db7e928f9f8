SPECIFICATION ContainerSpec
CONSTANTS
  Jobs = {j1, j2}
  Handles = {h1, h2}
  Cap = 1
  MaxRetries = 1
  MaxInvocations = 1
  MaxDeaths = 1
  MaxSweeps = 1
  MaxCancels = 1
  MaxStopFailures = 1
  MaxFaults = 2
  Nobody = Nobody

  
PROPERTIES
  
  ImplementsBoard
  
CHECK_DEADLOCK FALSE

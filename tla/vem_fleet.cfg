SPECIFICATION VemFairSpec
CONSTANTS
  e1 = e1
  e2 = e2
  v1 = v1
  Endpoints = {e1, e2}
  Envs = {v1}
  NoEnv = NoEnv
  Nobody = Nobody
  Jobs = {j1}
  MaxVersion = 1
  MaxWire = 3
  MaxLog = 2
  MaxTrouble = 2
  Leader = e1
  Launch <- MCLaunch
INVARIANTS
  
  RegisteredIsShown
  UnwatchedIsExplained
  LeaderShownRight

  
  
CHECK_DEADLOCK FALSE

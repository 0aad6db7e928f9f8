SPECIFICATION LedgerSpec
CONSTANTS
  Endpoints = {e1, e2}
  Leader = e1
  Cap = 2
  None = None
  Relaunch = TRUE
  MaxGrants = 3
  MaxLosses = 1
  MaxCrashes = 1
  MaxSilences = 1
  MaxFailedStops = 1
  MaxRepeats = 2
PROPERTIES
  TakenOnlyByOwner
CHECK_DEADLOCK FALSE

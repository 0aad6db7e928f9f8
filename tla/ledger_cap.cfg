SPECIFICATION LedgerFairSpec
CONSTANTS
  Endpoints = {e1, e2, e3}
  Leader = e1
  Cap = 2
  None = None
  Relaunch = FALSE
  MaxGrants = 5
  MaxLosses = 0
  MaxCrashes = 2
  MaxSilences = 0
  MaxRepeats = 0
  MaxFailedStops = 0
INVARIANTS
  SlotExclusive
  HeldIsGranted
PROPERTIES
  LeaksHeal
CHECK_DEADLOCK FALSE

SPECIFICATION HbSpec
CONSTANTS
  Nodes = {1, 2, 3}
  MaxTerm = 12
  Seeds <- LaunchedUpwards
  MaxHbCrashes = 1
  MaxHbLosses = 1
  QuickRestart = FALSE
INVARIANTS
  DiscoveryIsMutual
PROPERTIES
  Converges
  MemberSpec

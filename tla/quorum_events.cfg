SPECIFICATION LaunchedSpec
CONSTANTS
  Nodes = {1, 2, 3}
  MaxTerm = 2
INVARIANTS
  AlarmIsTruthful
  RivalIsUnseen

SPECIFICATION FairSpec
CONSTANTS
  MasqRules = {"all", "cidr"}
  Configs <- MCConfigs
  OtherRules = {"other1", "other2"}
  MaxStarts = 3
  MaxEdits = 3
  MaxFaults = 1
INVARIANTS
  NoDuplicateMasq
  CleanupExact
PROPERTIES
  MasqConverges
CHECK_DEADLOCK FALSE

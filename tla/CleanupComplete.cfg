SPECIFICATION Spec
CONSTANTS
  MasqRules = {"all", "cidr"}
  Configs <- MCConfigs
  OtherRules = {"other1", "other2"}
  MaxStarts = 3
  MaxEdits = 0
  MaxFaults = 0
INVARIANTS
  CleanupComplete
CHECK_DEADLOCK FALSE

SPECIFICATION Spec
CONSTANTS
  Nil = Nil
  Kinds = {"service", "endpoints"}
  Names = {"a"}
  Objs <- MCObjs
  MaxChanges = 2
  MaxRepeats = 1
  MaxSignals = 1
INVARIANTS
  ChainedEvents
  SyncedImpliesCached
  NoSyncCut
PROPERTIES
  ShutdownEnds
  HandlersConverge
CHECK_DEADLOCK FALSE

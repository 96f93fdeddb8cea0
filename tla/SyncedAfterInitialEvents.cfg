SPECIFICATION Spec
CONSTANTS
  Nil = Nil
  Kinds = {"service", "endpoints"}
  Names = {"a"}
  Objs <- MCObjs
  MaxChanges = 2
  MaxRepeats = 1
  MaxSignals = 1
INVARIANTS
  SyncedAfterInitialEvents
CHECK_DEADLOCK FALSE

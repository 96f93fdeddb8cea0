SPECIFICATION FairSpec
CONSTANTS
  MinInterval = 2
  MaxInterval = 3
  Burst = 2
  loopFuncs = {"f", "g"}
  NilChan = NilChan
  MaxChans = 3
  Services = {"a", "b"}
  HealthPorts = {1, 2}
  NoService = NoService
  Listeners = {"l1", "l2"}
  Contents = {"x", "y"}
  NoObject = NoObject
  Unseen = Unseen
  MaxEvents = 3
  Callers = {"c1", "c2"}
  IptRules = {"r1", "r2", "r3"}
  NoRule = NoRule
  Args <- MCArgs
  SavedAs <- MCSavedAs
  NoChain = NoChain
  Nobody = Nobody
  MaxCopies = 2
  MaxForeign = 1
  Restores = {"restore1", "restore2"}
  BestEfforts = {"besteff1", "besteff2"}
  News = {"new"}
  Olds = {"old"}
  NobodyLocks = NobodyLocks
  MaxLost = 2
  SignalCap = 3
  Texts <- MCTexts
  Identifiers <- MCIdentifiers
  MaxUint = 99
  Illegal = Illegal
  MaxBytes = 5
  MaxLines = 4
INVARIANTS
  RequestRemembered
  TimerArmed
  BurstBounded
  LoopsStoppable
  ListenersMatchServices
  OnlyOldConnectionsBlock
  QuietListenersCurrent
  RuleAtMostOnce
  RestoreIsExclusive
  LocksReleased
  RulesRestored
  CompareFollowsSemver
  CapabilitiesAgree
  LinesReadExact
  ChainsOfTable
PROPERTIES
  RunnerKeepsPromise
  EnsuredRuleIsThere
  DeletedRuleIsGone
CHECK_DEADLOCK FALSE

SPECIFICATION Spec
CHECK_DEADLOCK FALSE
CONSTANTS
  FrameMod = 6
  Period = 4
  FramePeriod = 5
  LateLocked = 1
  MaxRecovery = 1
  MaxSkipped = 1
  Delays <- MCDelays
  BeforeWarn = 1
  BeforeClear = 1
  MaxFrame = 6
  MaxGap = 2
  MaxMissing = 2
  MaxDropped = 1
  MaxRuns = 2
  MaxSilence = 2
  INF = 1000000
INVARIANTS
  TypeOK
  StampsInWindow
  LateRunBounded
  StatisticsTruthful
PROPERTIES
  StampsAdvance
  AlternateFollowsEof
  WarningsApart

SPECIFICATION FairSpec
CONSTANTS
  Tenths = 2
  Seconds = 3
  Minutes = 2
  PoolSize = 3
INVARIANTS
  TypeOK
  CameraOnlyInFront
  MarkedIsSeen
  RollersShowCount
PROPERTIES
  TimerStepsByTenths
  CodeIsShown

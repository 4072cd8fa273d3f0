SPECIFICATION FairSpec
CONSTANTS
  Size = 3
  FifoFull = 2
  MaxBytes = 3
  TickLimit = 2
  MaxResults = 5
INVARIANTS
  TypeOK
  NothingLeftBehind
  OpenResultIsPrivate
  AckMatchesRegister
  AckAtRest
  PeripheralFollows
PROPERTIES
  ImplementsLog
  PageCatchesUp

SPECIFICATION FairSpec
CONSTANTS
  PageMod = 4
  MaxContent = 2
  DataLens <- MCDataLens
  TimeoutLimit = 2
  Cycles <- MCCycles
INVARIANTS
  TypeOK
  StillMissing
  BlockHoldsFile
  ClientToldTheTruth
PROPERTIES
  ImplementsTransfer
  ReceivingEnds

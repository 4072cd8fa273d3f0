SPECIFICATION CFairSpec
CONSTANTS
  PageMod = 4
  MaxContent = 2
  BodyLen = 2
  Files <- MCFiles
  MaxPolls = 6
  MaxRestarts = 2
  TimeoutLimit = 2
  Cycles <- MCCycles
  DataLens <- MCLens
INVARIANTS
  BothSidesAgree
  PagesAccepted
  SizeFollowsBlock
PROPERTY
  ClientFinishes

SPECIFICATION CSpec
CONSTANTS
  PageMod = 4
  MaxContent = 2
  BodyLen = 2
  Files <- MCFiles
  MaxPolls = 0
  MaxRestarts = 0
  TimeoutLimit = 2
  Cycles <- MCCycles
  DataLens <- MCLens
PROPERTY
  TakenIsReceived

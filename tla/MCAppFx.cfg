SPECIFICATION Spec
CONSTANTS
  MenuPopup = MenuPopup
  AppMain = AppMain
  AppDrawCanvas = AppDrawCanvas
  AppTestEPDiy = AppTestEPDiy
  AppBLE = AppBLE
  AppSignage = AppSignage
  MenuTargets <- MCMenuTargets
  InitialQueue = 10
INVARIANTS
  TypeOK
  MenuAboveApp
  ShownIsActive
  CycleFollowsPage
  MenuIsKnown

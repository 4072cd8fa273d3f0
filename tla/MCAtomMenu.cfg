SPECIFICATION Spec
CONSTANTS
  Root = "root"
  Menus <- MCMenus
  Items <- MCItems
  Level <- MCLevel
  MaxPopups = 3
INVARIANTS
  TypeOK
  SelectionInRange
  StackIsPath
  RowsOfFront
PROPERTIES
  BackFindsSelection
CHECK_DEADLOCK FALSE

SPECIFICATION Spec
CONSTANTS
  Size = 3
  FifoFull = 2
  MaxBytes = 3
  TickLimit = 2
  MaxResults = 5
PROPERTY
  HandlerFindsItsSlot

SPECIFICATION FairSpec
CONSTANTS
  Pages = 2
  TimeoutLimit = 2
INVARIANTS
  InProgressMisses
PROPERTY
  ReceivingEnds

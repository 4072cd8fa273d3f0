SPECIFICATION Spec
CONSTANTS
  Pages = 2
  TimeoutLimit = 2
INVARIANT
  CompletionReported

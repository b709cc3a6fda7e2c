SPECIFICATION Spec
CONSTANTS
  MaxCalls = 2
  MaxFailures = 0
INVARIANT
  FailurePreservesPrevious
CHECK_DEADLOCK FALSE

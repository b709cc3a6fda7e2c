SPECIFICATION Spec
CONSTANTS
  WindowSize = 2
  MAX_MESSAGE_SEQUENCE = 4
  Threads = {t1, t2, t3}
  NoThread = NoThread
  MaxCalls = 5
  Arguments <- MCArguments
SYMMETRY MCSymmetry
INVARIANTS
  TypeOK
  AtMostOnce
  WindowMatchesHistory
  SeenBounded
  CheckStillHolds
PROPERTIES
  JudgesByHistory
  ImplementsOracle
CHECK_DEADLOCK FALSE

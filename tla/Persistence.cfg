SPECIFICATION FairSpec
CONSTANTS
  MaxCalls = 2
  MaxFailures = 2
INVARIANTS
  TypeOK
  NeverTorn
  ReturnedSurvives
  NoLitter
PROPERTIES
  ImplementsRegister
  CallsEnd
CHECK_DEADLOCK FALSE

SPECIFICATION FairSpec
CONSTANTS
  WindowSize = 2
  MAX_MESSAGE_SEQUENCE = 2
  Threads = {t1, t2, t3}
  NoThread = NoThread
  MaxCalls = 4
  Arguments <- MCArguments
PROPERTIES
  CallsReturn
CHECK_DEADLOCK FALSE

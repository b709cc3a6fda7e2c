SPECIFICATION FairSpec
CONSTANTS
  WindowSize = 2
  MAX_MESSAGE_SEQUENCE = 2
  Endpoints <- OneEndpoints
  Peer <- OnePeer
  local_name <- MCName
  suite <- MCSuite
  root_key <- MCRoot
  ephemeral <- MCEphemeral
  Threads = {t1, t2}
  NoThread = NoThread
  Plaintexts = {m1}
  Oversized = {}
  MaxCalls = 6
PROPERTIES
  NoFalseReject
  CallsReturn
CHECK_DEADLOCK FALSE

SPECIFICATION Spec
CONSTANTS
  WindowSize = 1
  MAX_MESSAGE_SEQUENCE = 1
  Endpoints <- MCEndpoints
  Peer <- MCPeer
  local_name <- MCName
  suite <- MCSuite
  root_key <- MCRoot
  ephemeral <- MCEphemeral
  Threads = {t1, t2}
  NoThread = NoThread
  Plaintexts = {m1, m2, big}
  Oversized = {big}
  MaxCalls = 4
SYMMETRY MCSymmetry
INVARIANTS
  TypeOK
  KeyUsedOnce
  NoSequenceGap
  ReceivedWasSent
  ReceivedOnce
  WindowFollowsPeer
  GenuineOpens
PROPERTIES
  ImplementsChannel
CHECK_DEADLOCK FALSE

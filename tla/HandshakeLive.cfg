SPECIFICATION FairSpec
CONSTANTS
  Identities <- MCIdentities
  Invitations <- OneInvitation
  Acceptances <- TwoAcceptances
  Callers = {c1, c2}
  Confined = FALSE
  MaxKeys = 4
INVARIANTS
  SharedRoots
PROPERTIES
  HandshakeCompletes
CHECK_DEADLOCK FALSE

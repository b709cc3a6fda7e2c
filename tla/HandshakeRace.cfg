SPECIFICATION Spec
CONSTANTS
  Identities <- MCIdentities
  Invitations <- OneInvitation
  Acceptances <- OneAcceptance
  Callers = {c1, c2}
  Confined = FALSE
  MaxKeys = 2
INVARIANTS
  CompletedOnce
CHECK_DEADLOCK FALSE

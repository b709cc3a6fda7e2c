SPECIFICATION Spec
CONSTANTS
  Identities <- MCIdentities
  Invitations <- MCInvitations
  Acceptances <- MCAcceptances
  Callers = {c1, c2}
  Confined = TRUE
  MaxKeys = 4
INVARIANTS
  TypeOK
  InitiatorAgreement
  ResponderAgreement
  CompletedOnce
  SessionsFit
  OffersAreGenuine
CHECK_DEADLOCK FALSE

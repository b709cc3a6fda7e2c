SPECIFICATION Spec
CONSTANTS
  Messages <- MCMessages
  Alternatives <- MCAlternatives
  MAX_MESSAGE_SEQUENCE = 3
  MaxDamages = 2
INVARIANTS
  TypeOK
  RoundTrip
  AuthenticIsSent
CHECK_DEADLOCK FALSE

SPECIFICATION Spec
CONSTANTS
  MAX_STORE_PLAINTEXT_BYTES = 3
  TextRank <- MCTextRank
  Names <- MCNames
  Identities <- MCIdentities
  Passphrases <- MCPassphrases
  Objects <- MCObjects
  Texts <- MCTexts
  MaxWrites = 2
  MaxMishaps = 1
INVARIANTS
  TypeOK
  LoadedWasSaved
  SavedIdentityLoads
  SavedObjectLoads
CHECK_DEADLOCK FALSE

SPECIFICATION FairSpec
CONSTANTS
  Phones = {"phone"}
  THRESHOLD = 2
  None = None
INVARIANTS
  TypeOK
PROPERTIES
  BondsOutliveSessions
  PairingCloses
  ConnectionSettles

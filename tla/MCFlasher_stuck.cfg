SPECIFICATION FairSpec
CONSTANTS
  CHUNKS = 2
  MaxSessions = 1
  Faults = {}
PROPERTIES
  StalledUploadRestarts
CHECK_DEADLOCK FALSE

SPECIFICATION FairSpec
CONSTANTS
  CHUNKS = 3
  MaxSessions = 2
  Faults = {"flash", "malformed", "battery", "power"}
INVARIANTS
  TypeOK
  ChunksInSequence
  UploadCanGoOn
  WholeImage
PROPERTIES
  UploadEnds
CHECK_DEADLOCK FALSE

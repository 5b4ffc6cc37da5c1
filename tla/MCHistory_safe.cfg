SPECIFICATION Spec
CONSTANTS
  BUFFER_SIZE = 3
  NVS_FLUSH_THRESHOLD = 2
  STORAGE_QUEUE_DEPTH = 1
  MaxEventId = 3
  MaxBootCount = 2
  StackGarbage <- MCStackGarbage
  FailingKeys = {}
  Faults = {}
INVARIANTS
  TypeOK
  BackupRestorable
PROPERTIES
  ColdBootKeepsBackup
  SleepSyncsBackup
  LossIsFlagged

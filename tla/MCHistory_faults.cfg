SPECIFICATION Spec
CONSTANTS
  BUFFER_SIZE = 3
  NVS_FLUSH_THRESHOLD = 3
  STORAGE_QUEUE_DEPTH = 1
  MaxEventId = 2
  MaxBootCount = 2
  StackGarbage <- MCStackGarbage
  FailingKeys = {"events"}
  Faults = {"power_cut", "overlap", "put_fails", "rtc_corrupt", "sleep_abort"}
INVARIANTS
  FlushPendingOwned
PROPERTIES
  OnlyTornBackupBreaksOrder

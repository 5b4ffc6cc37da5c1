SPECIFICATION Spec
CONSTANTS
  MAX_PENDING_MESSAGES = 2
  MAX_PENDING_BEFORE_BACKOFF = 2
  MAX_RETRY_COUNT = 1
  MAX_DETECTIONS_PER_WINDOW = 1
  SYNC_BATCH = 1
  CAPACITY = 2
  SEQ_SPACE = 2
  MaxDetections = 2
  Faults = {"stale_ack"}
INVARIANTS
  NoFalseSync

SPECIFICATION FairSpec
CONSTANTS
  MAX_PENDING_MESSAGES = 1
  MAX_PENDING_BEFORE_BACKOFF = 1
  MAX_RETRY_COUNT = 1
  MAX_DETECTIONS_PER_WINDOW = 1
  SYNC_BATCH = 0
  CAPACITY = 1
  SEQ_SPACE = 2
  MaxDetections = 2
  Faults = {"cold_boot"}
PROPERTIES
  EventuallySynced

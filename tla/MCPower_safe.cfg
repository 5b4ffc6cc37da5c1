SPECIFICATION FairSpec
CONSTANTS
  MAX_SLEEP_CANCEL_COUNT = 2
  Faults = {"noise", "abort"}
INVARIANTS
  TypeOK
  NoStuckDeepSleep
  Connectable
PROPERTIES
  AwakeOnlyForActivity
  NoiseIsBounded

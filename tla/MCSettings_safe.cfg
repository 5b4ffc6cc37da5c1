SPECIFICATION ProtocolSpec
CONSTANTS
  Keys = {"sensitivity"}
  Sensitivities = {0, 1}
  SENSITIVITY = 0
  Brightnesses = {0}
  LED_BRIGHTNESS = 0
  MaxEpoch = 1
  Unusable = Unusable
  Faults = {"write_fails", "power_loss"}
  TooHigh = 2
  SEQ_SPACE = 5
  MaxGap = 1
  MaxFrames = 1
  None = None
INVARIANTS
  CleanMeansSaved
  DirtyIsScheduled
  SleepSaves
  AckedIsApplied

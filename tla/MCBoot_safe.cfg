SPECIFICATION FairSpec
CONSTANTS
  CRASH_RECOVERY_THRESHOLD = 3
  RECOVERY_TRIGGER_COUNT = 3
  MaxCounter = 4
  Faults = {"nvs_corrupt", "nvs_dead", "erase_fails", "write_fails", "power_loss_written",
            "hardware"}
INVARIANTS
  TypeOK
  RestartsAreCounted
PROPERTIES
  EraseOnlyAfterCrashes
  FlasherOnlyWhenAsked
  HangIsRepaired

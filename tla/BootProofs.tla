----------------------------- MODULE BootProofs -----------------------------
(***************************************************************************)
(* What the boot sequence guarantees for all thresholds and all faults,    *)
(* although RTC memory holds anything after a loss of power and a reset    *)
(* may strike between any two phases: data is erased only with cause, and  *)
(* quick restarts, and nothing else, lead into the flasher.                *)
(***************************************************************************)
EXTENDS BootRecovery, TLAPS

-----------------------------------------------------------------------------
(* The invariants *)

\* Once it has been cleared after a loss of power, the counter of crashes counts no
\* crash that did not happen.  A crash is counted by the check that follows it.
CrashInv ==
  ~unchecked /\ crashRun < CRASH_RECOVERY_THRESHOLD =>
    rtc.crashes + (IF pc = "crash_check" /\ reason = "CRASH" THEN 1 ELSE 0) <= crashRun

\* The boot is past the tracker, or past the decision on the boot mode.
TrackerReady == pc \notin {"crash_check", "tracker"}
ModeDecided == pc \notin {"crash_check", "tracker", "hung", "boot_mode"}

\* The counter of quick restarts has three homes, NVS, the tracker and RTC memory, and
\* none of them ever holds a count that should have led into the flasher.
StabilityInv ==
  /\ nvs.counter < RECOVERY_TRIGGER_COUNT /\ tracker.counter < RECOVERY_TRIGGER_COUNT
  /\ rtc.magic => rtc.stability < RECOVERY_TRIGGER_COUNT
  /\ ModeDecided => rtc.magic

\* While NVS takes every write, the tracker has the count of NVS and the count is the
\* one of the restarts, but for an erase of NVS.
CountInv ==
  counted =>
    /\ nvs.health = "ok"
    /\ TrackerReady => tracker.available /\ tracker.counter = nvs.counter
    /\ nvs.counter <= quick
    /\ nvs.data => quick <= nvs.counter

BootInv == TypeOK /\ CrashInv /\ StabilityInv /\ CountInv

-----------------------------------------------------------------------------
(* Operators *)

LEMMA AtMostFacts ==
  ASSUME NEW n \in Nat, NEW bound \in Nat
  PROVE  /\ AtMost(n, bound) \in 0 .. bound /\ AtMost(n, bound) <= n
         /\ AtMost(n, bound) < bound => AtMost(n, bound) = n
  BY DEF AtMost

LEMMA CrashesAfterFacts ==
  /\ reason \in {"POWERON", "BROWNOUT"} => CrashesAfter = 0
  /\ reason = "CRASH" => CrashesAfter = rtc.crashes + 1
  /\ reason \notin {"POWERON", "BROWNOUT", "CRASH"} => CrashesAfter = rtc.crashes
  BY Zenon DEF CrashesAfter, InitialCrashes

LEMMA BootLoaderType ==
  ASSUME NEW i \in Image PROVE BootLoader(i) \in Image
  <1>1. CASE i.state = "written"
    <2>1. BootLoader(i) = [i EXCEPT !.state = "pending"]
      BY <1>1, Zenon DEF BootLoader
    <2> QED
      BY <2>1 DEF Image
  <1>2. CASE i.state = "pending"
    <2>1. BootLoader(i) = [running |-> "old", state |-> "valid"]
      BY <1>2, Zenon DEF BootLoader
    <2> QED
      BY <2>1 DEF Image
  <1>3. CASE i.state # "written" /\ i.state # "pending"
    <2>1. BootLoader(i) = i
      BY <1>3, Zenon DEF BootLoader
    <2> QED
      BY <2>1
  <1> QED
    BY <1>1, <1>2, <1>3

LEMMA GarbageType ==
  ASSUME NEW r \in Garbage PROVE r \in Rtc /\ ~r.magic
  <1>1. {0, CRASH_RECOVERY_THRESHOLD - 1, MaxCounter} \subseteq Counter
    BY BootAssumption DEF Counter
  <1>2. {0, RECOVERY_TRIGGER_COUNT} \subseteq Nat
    BY BootAssumption
  <1> QED
    BY <1>1, <1>2 DEF Garbage, Rtc

LEMMA ErasedType == Erased \in Nvs /\ Erased.counter = 0 /\ ~Erased.data
  BY DEF Erased, Nvs

LEMMA NoTrackerType == NoTracker \in Tracker /\ NoTracker.counter = 0
  BY DEF NoTracker, Tracker

\* What a write of the counter, or its reset, leaves in NVS.
LEMMA PersistedType ==
  ASSUME NEW n \in Nvs, NEW c \in Nat, NEW ok \in BOOLEAN
  PROVE  /\ Persisted(n, c, ok) \in Nvs
         /\ Persisted(n, c, ok).counter = IF ok THEN c ELSE n.counter
         /\ Persisted(n, c, ok).health = n.health /\ Persisted(n, c, ok).data = n.data
  <1>1. CASE ok
    BY <1>1 DEF Persisted, Nvs
  <1>2. CASE ~ok
    BY <1>2 DEF Persisted
  <1> QED
    BY <1>1, <1>2

LEMMA ResetCounterType ==
  ASSUME NEW n \in Nvs, NEW t \in Tracker, NEW ok \in BOOLEAN
  PROVE  /\ resetCounter(n, t, ok) \in Nvs
         /\ resetCounter(n, t, ok).counter \in {0, n.counter}
         /\ t.available /\ ok /\ (t.counter = 0 => n.counter = 0)
              => resetCounter(n, t, ok).counter = 0
         /\ resetCounter(n, t, ok).health = n.health
         /\ resetCounter(n, t, ok).data = n.data
  <1>1. CASE t.available /\ t.counter # 0
    BY <1>1, PersistedType DEF resetCounter
  <1>2. CASE ~(t.available /\ t.counter # 0)
    BY <1>2 DEF resetCounter
  <1> QED
    BY <1>1, <1>2

\* What the boot makes of the state in RTC memory, and of the count.
LEMMA ValidatedFacts ==
  ASSUME BootInv
  PROVE  /\ Validated(rtc) \in Rtc /\ Validated(rtc).magic
         /\ Validated(rtc).stability < RECOVERY_TRIGGER_COUNT
         /\ Validated(rtc).crashes = rtc.crashes
         /\ Validated(rtc).mode = "FLASHER" => rtc.magic /\ rtc.mode = "FLASHER"
  <1> USE DEF BootInv, TypeOK, StabilityInv
  <1>1. CASE rtc.magic
    BY <1>1 DEF Validated
  <1>2. CASE ~rtc.magic
    <2> DEFINE s == IF tracker.available THEN tracker.counter ELSE 0
    <2>1. s \in Nat /\ s < RECOVERY_TRIGGER_COUNT
      BY BootAssumption DEF Tracker
    <2>2. Validated(rtc) = [rtc EXCEPT !.magic = TRUE, !.mode = "NORMAL", !.stability = s]
      BY <1>2 DEF Validated
    <2> HIDE DEF s
    <2> QED
      BY <2>1, <2>2 DEF Rtc
  <1> QED
    BY <1>1, <1>2

LEMMA StabilityFacts ==
  ASSUME BootInv, pc = "boot_mode"
  PROVE  /\ StabilityAfter(Validated(rtc)) \in Nat
         /\ tracker.available /\ Eligible =>
              StabilityAfter(Validated(rtc)) = tracker.counter + 1
         /\ counted /\ Eligible => StabilityAfter(Validated(rtc)) = nvs.counter + 1
         /\ ~Eligible => StabilityAfter(Validated(rtc)) < RECOVERY_TRIGGER_COUNT
  <1>1. Validated(rtc).stability \in Nat /\ tracker.counter \in Nat
    BY ValidatedFacts DEF BootInv, TypeOK, Rtc, Tracker
  <1>2. counted => tracker.available /\ tracker.counter = nvs.counter
    BY DEF BootInv, CountInv, TrackerReady
  <1> QED
    BY <1>1, <1>2, ValidatedFacts DEF StabilityAfter

-----------------------------------------------------------------------------
(* Types *)

LEMMA InitInv == Init => BootInv
  <1> SUFFICES ASSUME Init PROVE BootInv
    OBVIOUS
  <1>1. rtc \in Rtc /\ ~rtc.magic
    BY GarbageType DEF Init
  <1>2. nvs \in Nvs /\ nvs.counter = 0 /\ nvs.health = "ok"
    BY DEF Init, Nvs
  <1>3. image \in Image
    BY DEF Init, Image
  <1>4. 0 \in 0 .. CRASH_RECOVERY_THRESHOLD /\ 0 \in 0 .. RECOVERY_TRIGGER_COUNT
    BY BootAssumption
  <1>5. TypeOK
    BY <1>1, <1>2, <1>3, <1>4, NoTrackerType DEF Init, TypeOK, Reason, Phase
  <1>6. CrashInv
    BY DEF Init, CrashInv
  <1>7. StabilityInv
    BY <1>1, <1>2, NoTrackerType, BootAssumption DEF Init, StabilityInv, ModeDecided
  <1>8. CountInv
    BY <1>2 DEF Init, CountInv, TrackerReady
  <1> QED
    BY <1>5, <1>6, <1>7, <1>8 DEF BootInv

\* A reset keeps the types of what it sets.
LEMMA ResetType ==
  ASSUME TypeOK, NEW why \in Reason, NEW i \in Image, Reset(why, i)
  PROVE  /\ reason' \in Reason /\ pc' \in Phase /\ pc' = "crash_check"
         /\ image' \in Image /\ tracker' \in Tracker /\ tracker' = NoTracker
  BY BootLoaderType, NoTrackerType DEF Reset, Phase

LEMMA Reasons ==
  "POWERON" \in Reason /\ "BROWNOUT" \in Reason /\ "CRASH" \in Reason /\ "SW" \in Reason
    /\ "DEEPSLEEP" \in Reason
  BY DEF Reason

LEMMA PowerLossType ==
  ASSUME TypeOK, NEW why \in Reason, PowerLoss(why)
  PROVE  TypeOK'
  <1>1. rtc' \in Rtc
    BY GarbageType DEF PowerLoss, AfterPowerLoss, TypeOK
  <1>2. nvs' \in Nvs
    BY DEF PowerLoss, TypeOK, Nvs
  <1>3. counted' \in BOOLEAN
    BY DEF PowerLoss, TypeOK
  <1>4. crashRun' \in 0 .. CRASH_RECOVERY_THRESHOLD
    BY BootAssumption DEF PowerLoss
  <1>5. Reset(why, image) /\ image \in Image /\ quick' = quick /\ unchecked' = TRUE
    BY DEF PowerLoss, TypeOK
  <1> QED
    BY <1>1, <1>2, <1>3, <1>4, <1>5, ResetType DEF TypeOK

LEMMA CrashType ==
  ASSUME TypeOK, CrashReset PROVE TypeOK'
  <1>1. crashRun' \in 0 .. CRASH_RECOVERY_THRESHOLD
    <2>1. crashRun + 1 \in Nat /\ CRASH_RECOVERY_THRESHOLD \in Nat
      BY BootAssumption DEF TypeOK
    <2> QED
      BY <2>1, AtMostFacts DEF CrashReset
  <1>2. Reset("CRASH", image) /\ image \in Image
    BY DEF CrashReset, TypeOK
  <1> QED
    BY <1>1, <1>2, ResetType, Reasons DEF CrashReset, TypeOK

LEMMA SoftwareResetType ==
  ASSUME TypeOK, SoftwareReset(image), rtc' \in Rtc PROVE TypeOK'
  <1>1. Reset("SW", image) /\ image \in Image
    BY DEF SoftwareReset, TypeOK
  <1> QED
    BY <1>1, ResetType, Reasons DEF SoftwareReset, TypeOK

\* The counter of crashes that the check leaves.
LEMMA CheckType ==
  ASSUME TypeOK, NEW c \in Counter, PastCrashCheck(c), nvs' \in Nvs PROVE TypeOK'
  <1>1. rtc' \in Rtc
    BY DEF PastCrashCheck, TypeOK, Rtc
  <1>2. unchecked' \in BOOLEAN
    BY DEF PastCrashCheck, TypeOK
  <1>3. pc' \in Phase
    BY DEF PastCrashCheck, Phase
  <1> QED
    BY <1>1, <1>2, <1>3 DEF PastCrashCheck, TypeOK

LEMMA CountCrashType ==
  ASSUME TypeOK, CountCrash PROVE CrashesAfter \in Counter
  <1>1. rtc.crashes \in Counter
    BY DEF TypeOK, Rtc
  <1>2. CASE reason \in {"POWERON", "BROWNOUT"}
    BY <1>2, CrashesAfterFacts, BootAssumption DEF Counter
  <1>3. CASE reason = "CRASH"
    <2>1. CrashesAfter = rtc.crashes + 1 /\ ~(CrashesAfter >= CRASH_RECOVERY_THRESHOLD)
      BY <1>3, CrashesAfterFacts DEF CountCrash, BootLoop
    <2> QED
      BY <1>1, <2>1, BootAssumption DEF Counter
  <1>4. CASE reason \notin {"POWERON", "BROWNOUT", "CRASH"}
    BY <1>1, <1>4, CrashesAfterFacts
  <1> QED
    BY <1>2, <1>3, <1>4

LEMMA CrashesAfterNat ==
  ASSUME TypeOK PROVE CrashesAfter \in Nat
  <1>1. rtc.crashes \in Nat
    BY DEF TypeOK, Rtc, Counter
  <1> QED
    BY <1>1, CrashesAfterFacts

\* What ToFlasher and ToNormalBoot make of the count.
LEMMA ModeType ==
  ASSUME BootInv, ToFlasher \/ ToNormalBoot PROVE TypeOK'
  <1> DEFINE r == Validated(rtc)
             s == StabilityAfter(r)
  <1>0. TypeOK /\ pc = "boot_mode"
    BY DEF BootInv, ToFlasher, ToNormalBoot
  <1>1. r \in Rtc /\ s \in Nat
    BY <1>0, ValidatedFacts, StabilityFacts
  <1>2. WriteOutcomes \subseteq BOOLEAN
    BY DEF WriteOutcomes
  <1> HIDE DEF r, s
  <1>3. CASE ToFlasher
    <2> DEFINE t == IF tracker.available /\ Eligible
                    THEN [tracker EXCEPT !.counter = s] ELSE tracker
               x == IF s >= RECOVERY_TRIGGER_COUNT THEN 0 ELSE s
    <2>1. t \in Tracker /\ x \in Nat
      BY <1>0, <1>1 DEF TypeOK, Tracker
    <2>2. /\ rtc' = [r EXCEPT !.mode = "NORMAL", !.stability = x]
          /\ tracker' = [t EXCEPT !.counter = 0]
          /\ \E ok \in WriteOutcomes :
               nvs' = resetCounter(nvs, t, ok) /\ counted' = (counted /\ ok)
      BY <1>3 DEF ToFlasher, r, s
    <2> HIDE DEF t, x
    <2>3. rtc' \in Rtc /\ tracker' \in Tracker
      BY <1>1, <2>1, <2>2 DEF Rtc, Tracker
    <2>4. nvs' \in Nvs
      BY <1>0, <1>2, <2>1, <2>2, ResetCounterType DEF TypeOK
    <2>5. counted' \in BOOLEAN
      BY <1>0, <1>2, <2>2 DEF TypeOK
    <2>6. pc' \in Phase /\ quick' \in 0 .. RECOVERY_TRIGGER_COUNT
      BY <1>3, BootAssumption DEF ToFlasher, Phase
    <2> QED
      BY <1>0, <1>3, <2>3, <2>4, <2>5, <2>6 DEF ToFlasher, TypeOK
  <1>4. CASE ToNormalBoot
    <2>1. rtc' = [r EXCEPT !.stability = s]
      BY <1>4 DEF ToNormalBoot, r, s
    <2>2. rtc' \in Rtc
      BY <1>1, <2>1 DEF Rtc
    <2>3. tracker' \in Tracker /\ nvs' \in Nvs /\ counted' \in BOOLEAN
      <3>1. CASE tracker.available /\ Eligible
        <4>1. /\ tracker' = [tracker EXCEPT !.counter = s]
              /\ \E ok \in WriteOutcomes :
                   nvs' = Persisted(nvs, s, ok) /\ counted' = (counted /\ ok)
          BY <1>4, <3>1 DEF ToNormalBoot, r, s
        <4>2. tracker' \in Tracker
          BY <1>0, <1>1, <4>1 DEF TypeOK, Tracker
        <4>3. nvs' \in Nvs
          BY <1>0, <1>1, <1>2, <4>1, PersistedType DEF TypeOK
        <4>4. counted' \in BOOLEAN
          BY <1>0, <1>2, <4>1 DEF TypeOK
        <4> QED
          BY <4>2, <4>3, <4>4
      <3>2. CASE ~(tracker.available /\ Eligible)
        BY <1>0, <1>4, <3>2 DEF ToNormalBoot, TypeOK
      <3> QED
        BY <3>1, <3>2
    <2>4. quick' \in 0 .. RECOVERY_TRIGGER_COUNT
      <3>1. quick \in 0 .. RECOVERY_TRIGGER_COUNT /\ quick + 1 \in Nat
              /\ RECOVERY_TRIGGER_COUNT \in Nat
        BY <1>0, BootAssumption DEF TypeOK
      <3> QED
        BY <1>4, <3>1, AtMostFacts DEF ToNormalBoot
    <2>5. pc' \in Phase
      BY <1>4 DEF ToNormalBoot, Phase
    <2> QED
      BY <1>0, <1>4, <2>2, <2>3, <2>4, <2>5 DEF ToNormalBoot, TypeOK
  <1> QED
    BY <1>3, <1>4

LEMMA TypeStep ==
  ASSUME BootInv, Next PROVE TypeOK'
  <1>0. TypeOK
    BY DEF BootInv
  <1>1. CASE PendingImage
    BY <1>0, <1>1 DEF PendingImage, TypeOK, Phase
  <1>2. CASE CountCrash
    <2>1. PastCrashCheck(CrashesAfter) /\ nvs' \in Nvs
      BY <1>0, <1>2 DEF CountCrash, TypeOK
    <2> QED
      BY <1>0, <1>2, <2>1, CountCrashType, CheckType
  <1>3. CASE EmergencyErase
    <2>1. PastCrashCheck(0) /\ nvs' \in Nvs /\ 0 \in Counter
      BY <1>3, ErasedType, BootAssumption DEF EmergencyErase, Counter
    <2> QED
      BY <1>0, <2>1, CheckType
  <1>4. CASE EmergencyEraseFails
    <2>1. PastCrashCheck(AtMost(CrashesAfter, MaxCounter)) /\ nvs' \in Nvs
      BY <1>0, <1>4 DEF EmergencyEraseFails, TypeOK
    <2>2. AtMost(CrashesAfter, MaxCounter) \in 0 .. MaxCounter
      BY <1>0, CrashesAfterNat, AtMostFacts, BootAssumption
    <2>3. AtMost(CrashesAfter, MaxCounter) \in Counter
      BY <2>2, BootAssumption DEF Counter
    <2> QED
      BY <1>0, <2>1, <2>3, CheckType
  <1>5. CASE TrackerInit
    <2>1. tracker' \in Tracker
      BY <1>0, <1>5, NoTrackerType DEF TrackerInit, TypeOK, Tracker, Nvs
    <2>2. pc' \in Phase
      BY <1>5 DEF TrackerInit, Phase
    <2> QED
      BY <1>0, <1>5, <2>1, <2>2 DEF TrackerInit, TypeOK
  <1>6. CASE BrownoutRecovery \/ SystemPanic
    BY <1>0, <1>6 DEF BrownoutRecovery, SystemPanic, TypeOK, Phase
  <1>7. CASE StorageInit
    <2>1. nvs' \in Nvs /\ pc' \in {"validate", "panic"}
      BY <1>0, <1>7, ErasedType DEF StorageInit, TypeOK
    <2> QED
      BY <1>0, <1>7, <2>1 DEF StorageInit, TypeOK, Phase
  <1>8. CASE ValidateImage
    <2>1. image' \in Image
      BY <1>0, <1>8 DEF ValidateImage, TypeOK, Image
    <2> QED
      BY <1>0, <1>8, <2>1 DEF ValidateImage, TypeOK, Phase
  <1>9. CASE Rollback \/ FlasherDone \/ Reboot
    BY <1>0, <1>9, SoftwareResetType DEF Rollback, FlasherDone, Reboot, TypeOK
  <1>10. CASE SetupComplete
    <2>1. rtc' \in Rtc /\ crashRun' \in 0 .. CRASH_RECOVERY_THRESHOLD
      <3>1. 0 \in Counter /\ 0 \in 0 .. CRASH_RECOVERY_THRESHOLD
        BY BootAssumption DEF Counter
      <3> QED
        BY <1>0, <1>10, <3>1 DEF SetupComplete, TypeOK, Rtc
    <2> QED
      BY <1>0, <1>10, <2>1 DEF SetupComplete, TypeOK, Phase
  <1>11. CASE Stable
    <2>1. rtc' \in Rtc /\ tracker' \in Tracker
      BY <1>0, <1>11 DEF Stable, TypeOK, Rtc, Tracker
    <2>2. WriteOutcomes \subseteq BOOLEAN
      BY DEF WriteOutcomes
    <2>3. PICK ok \in WriteOutcomes :
            nvs' = resetCounter(nvs, tracker, ok) /\ counted' = (counted /\ ok)
      BY <1>11 DEF Stable
    <2>4. nvs' \in Nvs
      BY <1>0, <2>2, <2>3, ResetCounterType DEF TypeOK
    <2>5. counted' \in BOOLEAN
      BY <1>0, <2>2, <2>3 DEF TypeOK
    <2>6. quick' \in 0 .. RECOVERY_TRIGGER_COUNT
      BY <1>11, BootAssumption DEF Stable
    <2> QED
      BY <1>0, <1>11, <2>1, <2>4, <2>5, <2>6 DEF Stable, TypeOK
  <1>12. CASE EnterOtaMode
    <2>1. rtc' \in Rtc
      BY <1>0, <1>12 DEF EnterOtaMode, TypeOK, Rtc
    <2> QED
      BY <1>0, <1>12, <2>1, SoftwareResetType DEF EnterOtaMode
  <1>13. CASE CommitImage
    BY <1>0, <1>13 DEF CommitImage, TypeOK, Image, Phase
  <1>14. CASE DeepSleep
    BY <1>0, <1>14 DEF DeepSleep, TypeOK, Phase
  <1>15. CASE Wake
    <2>1. Reset("DEEPSLEEP", image) /\ image \in Image
      BY <1>0, <1>15 DEF Wake, TypeOK
    <2> QED
      BY <1>0, <1>15, <2>1, ResetType, Reasons DEF Wake, TypeOK
  <1>16. CASE Resets
    BY <1>0, <1>16, PowerLossType, CrashType, Reasons
    DEF Resets, PowerCycle, Brownout, Crash, WatchdogReset
  <1> QED
    BY <1>1, <1>2, <1>3, <1>4, <1>5, <1>6, <1>7, <1>8, <1>9, <1>10, <1>11, <1>12, <1>13,
       <1>14, <1>15, <1>16, ModeType DEF Next, Setup, Running

-----------------------------------------------------------------------------
(* The counter of crashes *)

\* The check counts the crash that led to it, or clears the counter.
LEMMA CheckCrashes ==
  ASSUME BootInv, NEW c \in Nat, c <= CrashesAfter, PastCrashCheck(c), pc = "crash_check"
  PROVE  CrashInv'
  <1> SUFFICES ASSUME ~unchecked', crashRun < CRASH_RECOVERY_THRESHOLD
               PROVE  c <= crashRun
    BY DEF CrashInv, PastCrashCheck, BootInv, TypeOK, Rtc
  <1>1. crashRun \in Nat /\ rtc.crashes \in Nat
    BY BootAssumption DEF BootInv, TypeOK, Rtc, Counter
  <1>2. CASE c = 0
    BY <1>1, <1>2
  <1>3. CASE reason \in {"POWERON", "BROWNOUT"}
    BY <1>1, <1>3, CrashesAfterFacts
  <1>4. CASE ~unchecked /\ reason = "CRASH"
    <2>1. rtc.crashes + 1 <= crashRun
      BY <1>4 DEF BootInv, CrashInv
    <2> QED
      BY <1>1, <1>4, <2>1, CrashesAfterFacts
  <1>5. CASE ~unchecked /\ reason \notin {"POWERON", "BROWNOUT", "CRASH"}
    <2>1. rtc.crashes <= crashRun
      BY <1>1, <1>5 DEF BootInv, CrashInv
    <2> QED
      BY <1>1, <1>5, <2>1, CrashesAfterFacts
  <1>6. c = 0 \/ reason \in {"POWERON", "BROWNOUT"} \/ ~unchecked
    BY DEF PastCrashCheck, BootInv, TypeOK
  <1> QED
    BY <1>2, <1>3, <1>4, <1>5, <1>6

LEMMA CrashStep ==
  ASSUME BootInv, Next PROVE CrashInv'
  <1>0. /\ TypeOK /\ crashRun \in Nat /\ rtc.crashes \in Nat /\ CrashesAfter \in Nat
        /\ rtc \in Rtc
    BY CrashesAfterNat, BootAssumption DEF BootInv, TypeOK, Rtc, Counter
  <1>1. CASE CountCrash
    BY <1>0, <1>1, CheckCrashes DEF CountCrash
  <1>2. CASE EmergencyErase
    BY <1>0, <1>2, CheckCrashes DEF EmergencyErase
  <1>3. CASE EmergencyEraseFails
    <2>1. AtMost(CrashesAfter, MaxCounter) \in Nat /\ AtMost(CrashesAfter, MaxCounter) <= CrashesAfter
      BY <1>0, AtMostFacts, BootAssumption
    <2> QED
      BY <1>3, <2>1, CheckCrashes DEF EmergencyEraseFails
  <1>4. CASE SetupComplete
    BY <1>0, <1>4 DEF SetupComplete, CrashInv, Rtc
  <1>5. CASE CrashReset /\ pc # "crash_check"
    <2>1. /\ crashRun' = AtMost(crashRun + 1, CRASH_RECOVERY_THRESHOLD) /\ rtc' = rtc
          /\ unchecked' = unchecked /\ CRASH_RECOVERY_THRESHOLD \in Nat
          /\ pc' = "crash_check" /\ reason' = "CRASH"
      BY <1>5, BootAssumption DEF CrashReset, Reset
    <2> SUFFICES ASSUME ~unchecked, crashRun' < CRASH_RECOVERY_THRESHOLD
                 PROVE  rtc.crashes + 1 <= crashRun'
      BY <1>0, <2>1 DEF CrashInv
    <2>2. crashRun' = crashRun + 1
      BY <1>0, <2>1, AtMostFacts
    <2>3. rtc.crashes <= crashRun
      BY <1>0, <1>5, <2>1, <2>2 DEF BootInv, CrashInv
    <2> QED
      BY <1>0, <2>2, <2>3
  <1>6. CASE PowerCycle \/ Brownout
    BY <1>6 DEF PowerCycle, Brownout, PowerLoss, CrashInv
  <1>7. CASE /\ rtc'.crashes = rtc.crashes /\ UNCHANGED <<crashRun, unchecked>>
             /\ pc' # "crash_check" \/ reason' # "CRASH"
    BY <1>0, <1>7 DEF BootInv, CrashInv
  <1>8. CASE ToFlasher
    <2>1. rtc'.crashes = Validated(rtc).crashes
      BY <1>8, ValidatedFacts DEF ToFlasher, Rtc
    <2> QED
      BY <1>7, <1>8, <2>1, ValidatedFacts DEF ToFlasher
  <1>9. CASE ToNormalBoot
    <2>1. rtc'.crashes = Validated(rtc).crashes
      BY <1>9, ValidatedFacts DEF ToNormalBoot, Rtc
    <2> QED
      BY <1>7, <1>9, <2>1, ValidatedFacts DEF ToNormalBoot
  <1>10. CASE Stable \/ EnterOtaMode
    <2>1. rtc'.crashes = rtc.crashes
      BY <1>0, <1>10 DEF Stable, EnterOtaMode, Rtc
    <2> QED
      BY <1>7, <1>10, <2>1 DEF Stable, EnterOtaMode, SoftwareReset, Reset
  <1>11. CASE PendingImage \/ TrackerInit \/ BrownoutRecovery \/ StorageInit \/ ValidateImage
                \/ SystemPanic \/ CommitImage \/ DeepSleep
    BY <1>7, <1>11 DEF PendingImage, TrackerInit, BrownoutRecovery, StorageInit,
      ValidateImage, SystemPanic, CommitImage, DeepSleep
  <1>12. CASE Rollback \/ Reboot \/ FlasherDone \/ Wake
    BY <1>7, <1>12 DEF Rollback, Reboot, FlasherDone, Wake, SoftwareReset, Reset
  <1> QED
    BY <1>1, <1>2, <1>3, <1>4, <1>5, <1>6, <1>8, <1>9, <1>10, <1>11, <1>12
    DEF Next, Setup, Running, Resets, Crash, WatchdogReset

-----------------------------------------------------------------------------
(* The counter of quick restarts *)

\* The decision on the boot mode: the count stays below the threshold, or the flasher
\* is entered and it is cleared.
LEMMA ModeCount ==
  ASSUME BootInv, ToFlasher \/ ToNormalBoot PROVE StabilityInv' /\ CountInv'
  <1> DEFINE r == Validated(rtc)
             s == StabilityAfter(r)
  <1>0. TypeOK /\ pc = "boot_mode" /\ nvs \in Nvs /\ tracker \in Tracker /\ quick \in Nat
          /\ nvs.counter \in Nat /\ tracker.counter \in Nat
    BY BootAssumption DEF BootInv, ToFlasher, ToNormalBoot, TypeOK, Nvs, Tracker
  <1>1. r \in Rtc /\ r.magic /\ s \in Nat
    BY <1>0, ValidatedFacts, StabilityFacts
  <1>2. WriteOutcomes \subseteq BOOLEAN
    BY DEF WriteOutcomes
  <1>3. counted => /\ tracker.available /\ tracker.counter = nvs.counter
                   /\ Eligible => s = nvs.counter + 1
    BY <1>0, StabilityFacts DEF BootInv, CountInv, TrackerReady
  <1>4. tracker.available /\ Eligible => s = tracker.counter + 1
    BY <1>0, StabilityFacts
  <1>5. EnterFlasher <=> r.mode = "FLASHER" \/ s >= RECOVERY_TRIGGER_COUNT
    BY DEF EnterFlasher
  <1> HIDE DEF r, s
  <1>6. CASE ToFlasher
    <2> DEFINE t == IF tracker.available /\ Eligible
                    THEN [tracker EXCEPT !.counter = s] ELSE tracker
               x == IF s >= RECOVERY_TRIGGER_COUNT THEN 0 ELSE s
    <2>1. t \in Tracker /\ t.available = tracker.available /\ x \in Nat
            /\ x < RECOVERY_TRIGGER_COUNT
      BY <1>0, <1>1, BootAssumption DEF Tracker
    <2>2. counted /\ t.counter = 0 => nvs.counter = 0
      BY <1>0, <1>3, <1>4 DEF Tracker
    <2>3. /\ rtc' = [r EXCEPT !.mode = "NORMAL", !.stability = x]
          /\ tracker' = [t EXCEPT !.counter = 0]
      BY <1>6 DEF ToFlasher, r, s
    <2>4. PICK ok \in WriteOutcomes :
               nvs' = resetCounter(nvs, t, ok) /\ counted' = (counted /\ ok)
      BY <1>6 DEF ToFlasher, r, s
    <2> HIDE DEF t, x
    <2>5. rtc'.magic /\ rtc'.stability < RECOVERY_TRIGGER_COUNT
      BY <1>1, <2>1, <2>3 DEF Rtc
    <2>6. tracker'.counter = 0 /\ tracker'.available = tracker.available
      BY <2>1, <2>3 DEF Tracker
    <2>7. ok \in BOOLEAN
      BY <1>2
    <2>8. nvs'.counter \in {0, nvs.counter} /\ nvs'.health = nvs.health
            /\ nvs'.data = nvs.data
      BY <1>0, <2>1, <2>4, <2>7, ResetCounterType
    <2>9. counted' => counted /\ nvs'.counter = 0
      BY <1>0, <1>3, <2>1, <2>2, <2>4, <2>7, ResetCounterType
    <2>10. StabilityInv'
      BY <2>5, <2>6, <2>8, BootAssumption DEF StabilityInv, BootInv
    <2>11. CountInv'
      BY <1>3, <1>6, <2>6, <2>8, <2>9 DEF CountInv, BootInv, ToFlasher
    <2> QED
      BY <2>10, <2>11
  <1>7. CASE ToNormalBoot
    <2>1. s < RECOVERY_TRIGGER_COUNT
      BY <1>1, <1>5, <1>7, BootAssumption DEF ToNormalBoot
    <2>2. rtc'.magic /\ rtc'.stability < RECOVERY_TRIGGER_COUNT
      <3>1. rtc' = [r EXCEPT !.stability = s]
        BY <1>7 DEF ToNormalBoot, r, s
      <3> QED
        BY <1>1, <2>1, <3>1 DEF Rtc
    <2>3. Eligible => quick' = AtMost(quick + 1, RECOVERY_TRIGGER_COUNT)
      BY <1>7 DEF ToNormalBoot
    <2>4. CASE tracker.available /\ Eligible
      <3>1. tracker'.counter = s /\ tracker'.available = tracker.available
        BY <1>0, <1>7, <2>4 DEF ToNormalBoot, Tracker, r, s
      <3>2. PICK ok \in WriteOutcomes :
              nvs' = Persisted(nvs, s, ok) /\ counted' = (counted /\ ok)
        BY <1>7, <2>4 DEF ToNormalBoot, r, s
      <3>3. ok \in BOOLEAN
        BY <1>2
      <3>4. nvs'.counter = (IF ok THEN s ELSE nvs.counter) /\ nvs'.health = nvs.health
              /\ nvs'.data = nvs.data
        BY <1>0, <1>1, <3>2, <3>3, PersistedType
      <3>5. counted' => counted /\ nvs'.counter = s /\ s = nvs.counter + 1
        BY <1>3, <2>4, <3>2, <3>3, <3>4
      <3>6. StabilityInv'
        BY <2>1, <2>2, <3>1, <3>4 DEF StabilityInv, BootInv
      <3>7. quick' <= quick + 1 /\ (s <= quick + 1 => s <= quick')
        BY <1>0, <1>1, <2>1, <2>3, <2>4, BootAssumption DEF AtMost
      <3>8. counted' => s <= quick' /\ (nvs.data => quick' <= s)
        <4>1. counted => nvs.counter <= quick /\ (nvs.data => quick <= nvs.counter)
          BY DEF BootInv, CountInv
        <4>2. quick' \in Nat
          BY <1>0, <2>3, <2>4, BootAssumption DEF AtMost
        <4> QED
          BY <1>0, <3>5, <3>7, <4>1, <4>2
      <3>9. CountInv'
        BY <1>3, <3>1, <3>4, <3>5, <3>8 DEF CountInv, BootInv
      <3> QED
        BY <3>6, <3>9
    <2>5. CASE ~(tracker.available /\ Eligible)
      <3>1. UNCHANGED <<nvs, tracker, counted>>
        BY <1>7, <2>5 DEF ToNormalBoot
      <3>2. counted => quick' = quick
        BY <1>3, <1>7, <2>5 DEF ToNormalBoot
      <3>3. StabilityInv'
        BY <2>2, <3>1 DEF StabilityInv, BootInv
      <3>4. CountInv'
        BY <1>0, <3>1, <3>2 DEF CountInv, BootInv, TrackerReady
      <3> QED
        BY <3>3, <3>4
    <2> QED
      BY <2>4, <2>5
  <1> QED
    BY <1>6, <1>7

\* A reset forgets the tracker, and RTC memory is as before or invalid.
LEMMA ResetCount ==
  ASSUME BootInv, pc' = "crash_check", tracker' = NoTracker,
         ~rtc'.magic \/ rtc' = rtc, nvs'.counter = nvs.counter, nvs'.data = nvs.data,
         counted' => counted /\ nvs'.health = "ok", quick' = quick
  PROVE  StabilityInv' /\ CountInv'
  BY NoTrackerType, BootAssumption
  DEF BootInv, StabilityInv, CountInv, ModeDecided, TrackerReady

LEMMA CountStep ==
  ASSUME BootInv, Next PROVE StabilityInv' /\ CountInv'
  <1>0. /\ TypeOK /\ rtc \in Rtc /\ nvs \in Nvs /\ tracker \in Tracker
        /\ quick \in Nat /\ nvs.counter \in Nat /\ NoTracker.counter = 0
    BY NoTrackerType, BootAssumption DEF BootInv, TypeOK, Nvs
  <1>1. CASE UNCHANGED <<nvs, tracker, counted, quick>> /\ rtc'.magic = rtc.magic
               /\ rtc'.stability = rtc.stability
               /\ (ModeDecided' => ModeDecided) /\ (TrackerReady' => TrackerReady)
    BY <1>1 DEF BootInv, StabilityInv, CountInv
  <1>2. CASE PendingImage
    BY <1>1, <1>2 DEF PendingImage, ModeDecided, TrackerReady
  <1>3. CASE CountCrash \/ EmergencyEraseFails
    <2>1. PICK c : PastCrashCheck(c) /\ UNCHANGED nvs
      BY <1>3 DEF CountCrash, EmergencyEraseFails
    <2>2. rtc'.magic = rtc.magic /\ rtc'.stability = rtc.stability
      BY <1>0, <2>1 DEF PastCrashCheck, Rtc
    <2> QED
      BY <1>1, <2>1, <2>2 DEF PastCrashCheck, ModeDecided, TrackerReady
  <1>4. CASE EmergencyErase
    <2>1. rtc'.magic = rtc.magic /\ rtc'.stability = rtc.stability
      BY <1>0, <1>4 DEF EmergencyErase, PastCrashCheck, Rtc
    <2>2. nvs'.counter = 0 /\ ~nvs'.data /\ nvs'.health = "ok"
      BY <1>4 DEF EmergencyErase, Erased
    <2>3. pc' = "tracker" /\ UNCHANGED <<tracker, counted, quick>>
      BY <1>4 DEF EmergencyErase, PastCrashCheck
    <2> QED
      BY <1>0, <2>1, <2>2, <2>3, BootAssumption
      DEF BootInv, StabilityInv, CountInv, ModeDecided, TrackerReady
  <1>5. CASE TrackerInit
    <2>1. CASE nvs.health = "ok"
      BY <1>5, <2>1 DEF TrackerInit, BootInv, StabilityInv, CountInv, ModeDecided
    <2>2. CASE nvs.health # "ok"
      BY <1>0, <1>5, <2>2, BootAssumption
      DEF TrackerInit, BootInv, StabilityInv, CountInv, ModeDecided
    <2> QED
      BY <2>1, <2>2
  <1>6. CASE BrownoutRecovery \/ ValidateImage \/ SystemPanic \/ CommitImage \/ DeepSleep
               \/ SetupComplete
    <2>1. rtc'.magic = rtc.magic /\ rtc'.stability = rtc.stability
      BY <1>0, <1>6
      DEF BrownoutRecovery, ValidateImage, SystemPanic, CommitImage, DeepSleep,
          SetupComplete, Rtc
    <2> QED
      BY <1>1, <1>6, <2>1
      DEF BrownoutRecovery, ValidateImage, SystemPanic, CommitImage, DeepSleep,
          SetupComplete, ModeDecided, TrackerReady
  <1>7. CASE StorageInit
    <2>1. CASE UNCHANGED nvs
      BY <1>1, <1>7, <2>1 DEF StorageInit, ModeDecided, TrackerReady
    <2>2. CASE nvs.health = "full" /\ nvs' = Erased
      BY <1>0, <1>7, <2>2, BootAssumption
      DEF StorageInit, Erased, BootInv, StabilityInv, CountInv, ModeDecided, TrackerReady
    <2> QED
      BY <1>7, <2>1, <2>2 DEF StorageInit
  <1>8. CASE Stable
    <2>1. rtc'.magic = rtc.magic /\ rtc'.stability = 0
      BY <1>0, <1>8 DEF Stable, Rtc
    <2>2. tracker'.counter = 0 /\ tracker'.available = tracker.available
      BY <1>0, <1>8 DEF Stable, Tracker
    <2>3. PICK ok \in WriteOutcomes :
            nvs' = resetCounter(nvs, tracker, ok) /\ counted' = (counted /\ ok)
      BY <1>8 DEF Stable
    <2>4. ok \in BOOLEAN
      BY DEF WriteOutcomes
    <2>5. counted => tracker.available /\ tracker.counter = nvs.counter
      BY <1>8 DEF Stable, BootInv, CountInv, TrackerReady
    <2>6. nvs'.counter \in {0, nvs.counter} /\ nvs'.health = nvs.health
            /\ nvs'.data = nvs.data
      BY <1>0, <2>3, <2>4, ResetCounterType
    <2>7. counted' => counted /\ nvs'.counter = 0
      BY <1>0, <2>3, <2>4, <2>5, ResetCounterType
    <2>8. StabilityInv'
      BY <1>8, <2>1, <2>2, <2>6, BootAssumption
      DEF Stable, BootInv, StabilityInv, ModeDecided
    <2>9. CountInv'
      BY <1>8, <2>2, <2>5, <2>6, <2>7 DEF Stable, BootInv, CountInv
    <2> QED
      BY <2>8, <2>9
  <1>9. CASE EnterOtaMode
    <2>1. rtc'.magic /\ rtc'.stability = rtc.stability /\ rtc.magic
      BY <1>0, <1>9 DEF EnterOtaMode, Rtc, BootInv, StabilityInv, ModeDecided
    <2>2. /\ pc' = "crash_check" /\ tracker' = NoTracker
          /\ UNCHANGED <<nvs, quick, counted>>
      BY <1>9 DEF EnterOtaMode, SoftwareReset, Reset
    <2> QED
      BY <1>0, <2>1, <2>2, BootAssumption
      DEF BootInv, StabilityInv, CountInv, ModeDecided, TrackerReady
  <1>10. CASE Rollback \/ Reboot \/ FlasherDone \/ Wake \/ CrashReset
    BY <1>10, ResetCount
    DEF Rollback, Reboot, FlasherDone, Wake, CrashReset, SoftwareReset, Reset, BootInv, CountInv
  <1>11. ASSUME NEW why, PowerLoss(why) PROVE StabilityInv' /\ CountInv'
    <2>1. ~rtc'.magic \/ rtc' = rtc
      BY <1>11, GarbageType DEF PowerLoss, AfterPowerLoss
    <2>2. PICK h \in {"ok", "full", "hang", "dead"} :
            nvs' = [nvs EXCEPT !.health = h] /\ counted' = (counted /\ h = "ok")
      BY <1>0, <1>11 DEF PowerLoss, Nvs
    <2>3. nvs'.counter = nvs.counter /\ nvs'.data = nvs.data /\ nvs'.health = h
      BY <1>0, <2>2 DEF Nvs
    <2>4. counted' => counted /\ nvs'.health = "ok"
      BY <2>2, <2>3
    <2> QED
      BY <1>11, <2>1, <2>3, <2>4, ResetCount DEF PowerLoss, Reset
  <1> QED
    BY <1>2, <1>3, <1>4, <1>5, <1>6, <1>7, <1>8, <1>9, <1>10, <1>11, ModeCount
    DEF Next, Setup, Running, Resets, PowerCycle, Brownout, Crash, WatchdogReset

LEMMA BootAlways == Spec => []BootInv
  <1>1. BootInv /\ UNCHANGED vars => BootInv'
    BY DEF BootInv, TypeOK, CrashInv, StabilityInv, CountInv, ModeDecided, TrackerReady, vars
  <1>2. BootInv /\ [Next]_vars => BootInv'
    BY <1>1, TypeStep, CrashStep, CountStep DEF BootInv
  <1> QED
    BY <1>2, InitInv, PTL DEF Spec

-----------------------------------------------------------------------------
(* Theorems *)

\* Every variable keeps its type: no counter that starts from garbage leaves its bounds.
THEOREM TypeCorrect == Spec => []TypeOK
  BY BootAlways, PTL DEF BootInv

\* So many quick restarts lead into the flasher, while NVS is whole.
THEOREM RestartsCorrect == Spec => []RestartsAreCounted
  <1>1. BootInv => RestartsAreCounted
    BY BootAssumption
    DEF BootInv, TypeOK, Nvs, CountInv, StabilityInv, RestartsAreCounted
  <1> QED
    BY <1>1, BootAlways, PTL

\* The user's data is erased only after so many crashes in a row, when the partition
\* cannot be used, or when power was lost before the first boot of a new image.
THEOREM EraseCorrect == Spec => EraseOnlyAfterCrashes
  <1>1. BootInv /\ [Next]_vars =>
          [nvs.data /\ ~nvs'.data =>
             \/ crashRun = CRASH_RECOVERY_THRESHOLD
             \/ nvs.health = "full"
             \/ unchecked /\ reason # "POWERON"]_vars
    <2> SUFFICES ASSUME BootInv, Next, nvs.data, ~nvs'.data
                 PROVE  \/ crashRun = CRASH_RECOVERY_THRESHOLD
                        \/ nvs.health = "full"
                        \/ unchecked /\ reason # "POWERON"
      BY DEF vars
    <2>0. /\ TypeOK /\ nvs \in Nvs /\ tracker \in Tracker /\ crashRun \in Nat
          /\ crashRun <= CRASH_RECOVERY_THRESHOLD
          /\ rtc.crashes \in Nat /\ pc \in Phase /\ CRASH_RECOVERY_THRESHOLD \in Nat
      BY BootAssumption DEF BootInv, TypeOK, Rtc, Counter
    <2>1. CASE EmergencyErase
      <3> SUFFICES ASSUME ~unchecked, crashRun < CRASH_RECOVERY_THRESHOLD PROVE FALSE
        BY <2>0, <2>1 DEF EmergencyErase, BootLoop
      <3>1. CrashesAfter >= CRASH_RECOVERY_THRESHOLD /\ reason \notin {"POWERON", "BROWNOUT"}
              /\ pc = "crash_check"
        BY <2>1 DEF EmergencyErase, BootLoop
      <3>2. CASE reason = "CRASH"
        BY <2>0, <3>1, <3>2, CrashesAfterFacts DEF BootInv, CrashInv
      <3>3. CASE reason # "CRASH"
        BY <2>0, <3>1, <3>3, CrashesAfterFacts DEF BootInv, CrashInv
      <3> QED
        BY <3>2, <3>3
    <2>2. CASE StorageInit
      BY <2>2 DEF StorageInit
    <2>3. CASE PowerCycle \/ Brownout
      BY <2>0, <2>3 DEF PowerCycle, Brownout, PowerLoss, Nvs
    <2>4. CASE ToFlasher
      <3>1. StabilityAfter(Validated(rtc)) \in Nat
        BY <2>4, StabilityFacts DEF ToFlasher
      <3>2. PICK t, ok : t \in Tracker /\ ok \in BOOLEAN /\ nvs' = resetCounter(nvs, t, ok)
        <4> DEFINE t == IF tracker.available /\ Eligible
                        THEN [tracker EXCEPT !.counter = StabilityAfter(Validated(rtc))]
                        ELSE tracker
        <4>1. t \in Tracker
          BY <2>0, <3>1 DEF Tracker
        <4>2. \E ok \in WriteOutcomes : nvs' = resetCounter(nvs, t, ok)
          BY <2>4 DEF ToFlasher
        <4>3. WriteOutcomes \subseteq BOOLEAN
          BY DEF WriteOutcomes
        <4> HIDE DEF t
        <4> QED
          BY <4>1, <4>2, <4>3
      <3> QED
        BY <2>0, <3>2, ResetCounterType
    <2>5. CASE ToNormalBoot
      <3>1. StabilityAfter(Validated(rtc)) \in Nat /\ WriteOutcomes \subseteq BOOLEAN
        BY <2>5, StabilityFacts DEF ToNormalBoot, WriteOutcomes
      <3> QED
        BY <2>0, <2>5, <3>1, PersistedType DEF ToNormalBoot
    <2>6. CASE Stable
      <3>1. WriteOutcomes \subseteq BOOLEAN
        BY DEF WriteOutcomes
      <3> QED
        BY <2>0, <2>6, <3>1, ResetCounterType DEF Stable
    <2> QED
      BY <2>1, <2>2, <2>3, <2>4, <2>5, <2>6
      DEF Next, Setup, Running, Resets, PendingImage, CountCrash, EmergencyEraseFails,
          TrackerInit, BrownoutRecovery, ValidateImage, Rollback, SystemPanic, SetupComplete,
          EnterOtaMode, CommitImage, Reboot, DeepSleep, Wake, FlasherDone, SoftwareReset,
          Crash, WatchdogReset, CrashReset
  <1> QED
    BY <1>1, BootAlways, PTL DEF Spec, EraseOnlyAfterCrashes

\* The flasher is entered only when the app or so many quick restarts ask for it, while
\* NVS takes every write of the counter.
THEOREM FlasherCorrect == Spec => FlasherOnlyWhenAsked
  <1>1. BootInv /\ [Next]_vars =>
          [pc = "boot_mode" /\ pc' = "flasher" =>
             \/ rtc.magic /\ rtc.mode = "FLASHER"
             \/ Eligible /\ quick + 1 >= RECOVERY_TRIGGER_COUNT
             \/ ~counted]_vars
    <2> SUFFICES ASSUME BootInv, Next, pc = "boot_mode", pc' = "flasher"
                 PROVE  \/ rtc.magic /\ rtc.mode = "FLASHER"
                        \/ Eligible /\ quick + 1 >= RECOVERY_TRIGGER_COUNT
                        \/ ~counted
      BY DEF vars
    <2>1. EnterFlasher
      BY DEF Next, Setup, Running, Resets, PendingImage, CountCrash, EmergencyErase,
          EmergencyEraseFails, PastCrashCheck, TrackerInit, ToFlasher, ToNormalBoot,
          BrownoutRecovery, StorageInit, ValidateImage, Rollback, SystemPanic, SetupComplete, Stable,
          EnterOtaMode, CommitImage, Reboot, DeepSleep, Wake, FlasherDone, SoftwareReset,
          PowerCycle, Brownout, PowerLoss, Crash, WatchdogReset, CrashReset, Reset
    <2>2. CASE Validated(rtc).mode = "FLASHER"
      BY <2>2, ValidatedFacts
    <2>3. CASE StabilityAfter(Validated(rtc)) >= RECOVERY_TRIGGER_COUNT
      <3> SUFFICES ASSUME counted
                   PROVE  Eligible /\ quick + 1 >= RECOVERY_TRIGGER_COUNT
        OBVIOUS
      <3>1. Eligible
        BY <2>3, StabilityFacts, BootAssumption
      <3>2. /\ StabilityAfter(Validated(rtc)) = nvs.counter + 1 /\ nvs.counter <= quick
            /\ nvs.counter \in Nat /\ quick \in Nat
        BY <3>1, StabilityFacts, BootAssumption DEF BootInv, TypeOK, Nvs, CountInv
      <3> QED
        BY <2>3, <3>1, <3>2, BootAssumption
    <2> QED
      BY <2>1, <2>2, <2>3 DEF EnterFlasher
  <1> QED
    BY <1>1, BootAlways, PTL DEF Spec, FlasherOnlyWhenAsked
=============================================================================

---------------------------- MODULE BootRecovery ----------------------------
(***************************************************************************)
(* The boot sequence of the firmware (setup in src/src/main.cpp) and what  *)
(* it recovers from: a boot that crashes again and again (the crash        *)
(* counter and the emergency erase of NVS), a firmware that does not come  *)
(* up (the stability counter, its copy in NVS kept by BootRecoveryTracker, *)
(* and the flasher), a new image that fails (self test and rollback), and  *)
(* a brownout.                                                             *)
(*                                                                         *)
(* The counters live in RTC memory that no reset initializes: after a loss *)
(* of power they hold anything.  A reset may strike between any two phases *)
(* of the boot.  Which image runs next is the boot loader's decision,      *)
(* modelled from how the code relies on it.                                *)
(***************************************************************************)
EXTENDS Naturals

CONSTANTS
  CRASH_RECOVERY_THRESHOLD,  \* crashes in a row after which NVS is erased (3)
  RECOVERY_TRIGGER_COUNT,    \* quick restarts after which the flasher is entered (3)
  MaxCounter,                \* bound: garbage in a counter, crashes while erasing fails
  Faults                     \* which of AllFaults this instance lets happen

AllFaults ==
  { "nvs_corrupt",         \* a loss of power may damage NVS
    "nvs_dead",            \* ... so that it can be neither used nor erased
    "erase_fails",         \* nvs_flash_erase may fail
    "write_fails",         \* a write of the counter to NVS may fail
    "power_loss_written",  \* power may fail between the commit of an image and the restart
    "hardware" }           \* partitions or sensor may be wrong, BLE may not start

ASSUME BootAssumption ==
  /\ CRASH_RECOVERY_THRESHOLD \in Nat \ {0}
  /\ RECOVERY_TRIGGER_COUNT \in Nat \ {0}
  /\ MaxCounter \in Nat /\ MaxCounter >= CRASH_RECOVERY_THRESHOLD
  /\ Faults \subseteq AllFaults

VARIABLES
  rtc,      \* g_rtc_magic, g_boot_mode, g_stability_counter, g_crash_counter
  nvs,      \* the NVS partition: its health, the counter and the user's data in it
  tracker,  \* BootRecoveryTracker: _available and _counter
  image,    \* the image that runs, and what the boot loader thinks of it
  reason,   \* esp_reset_reason
  pc,       \* the phase of setup that comes next
  crashRun, \* history: crashes since setup was completed or power was lost
  quick,    \* history: boots by power or software since the system was stable
            \* or the flasher ran
  counted,  \* history: NVS was always usable and took every write of the counter
  unchecked \* history: nobody has cleared the crash counter since power was lost

vars == <<rtc, nvs, tracker, image, reason, pc, crashRun, quick, counted, unchecked>>

-----------------------------------------------------------------------------
(* Data *)

Reason == {"POWERON", "BROWNOUT", "CRASH", "SW", "DEEPSLEEP"}

Counter == 0 .. MaxCounter + 1

Rtc == [magic : BOOLEAN, mode : {"NORMAL", "FLASHER"}, stability : Nat,
        crashes : Counter]

\* ok; full: no free pages or a new version, which an erase repairs;
\* hang: nvs_flash_init does not return; dead: it fails and an erase is no help.
Nvs == [health : {"ok", "full", "hang", "dead"}, counter : Nat, data : BOOLEAN]

Tracker == [available : BOOLEAN, counter : Nat]

\* written: flashed but never booted; pending: PENDING_VERIFY.
Image == [running : {"old", "new"}, state : {"valid", "written", "pending"}]

Phase == {"crash_check", "tracker", "hung", "boot_mode", "flasher", "brownout",
          "storage", "validate", "services", "ready", "rebooting", "asleep", "panic"}

NoTracker == [available |-> FALSE, counter |-> 0]

\* nvs_flash_erase: bonds, settings, history and the counter are gone.
Erased == [health |-> "ok", counter |-> 0, data |-> FALSE]

AtMost(n, bound) == IF n <= bound THEN n ELSE bound

-----------------------------------------------------------------------------
(* Resets.  The boot loader starts an image that was written as pending, and *)
(* goes back to the old one when a pending image was not confirmed.          *)

BootLoader(i) ==
  CASE i.state = "written" -> [i EXCEPT !.state = "pending"]
    [] i.state = "pending" -> [running |-> "old", state |-> "valid"]
    [] OTHER -> i

Reset(why, i) ==
  /\ reason' = why /\ pc' = "crash_check"
  /\ image' = BootLoader(i)
  /\ tracker' = NoTracker

\* RTC memory may come back as it was or with anything in it, but not with
\* the magic number by chance.
Garbage ==
  [magic : {FALSE}, mode : {"NORMAL", "FLASHER"}, stability : {0, RECOVERY_TRIGGER_COUNT},
   crashes : {0, CRASH_RECOVERY_THRESHOLD - 1, MaxCounter}]

AfterPowerLoss == {rtc} \cup Garbage

PowerLoss(why) ==
  /\ image.state = "written" => "power_loss_written" \in Faults
  /\ rtc' \in AfterPowerLoss
  /\ \E h \in {nvs.health} \cup (IF "nvs_corrupt" \in Faults THEN {"full", "hang"} ELSE {})
                \cup (IF "nvs_dead" \in Faults THEN {"dead"} ELSE {}) :
       /\ nvs' = [nvs EXCEPT !.health = h]
       /\ counted' = (counted /\ h = "ok")
  /\ Reset(why, image)
  /\ crashRun' = 0 /\ unchecked' = TRUE
  /\ UNCHANGED quick

PowerCycle == PowerLoss("POWERON")

Brownout == pc # "asleep" /\ PowerLoss("BROWNOUT")

CrashReset ==
  /\ Reset("CRASH", image)
  /\ crashRun' = AtMost(crashRun + 1, CRASH_RECOVERY_THRESHOLD)
  /\ UNCHANGED <<rtc, nvs, quick, counted, unchecked>>

\* A panic or a watchdog, after the check for crashes: before it setup only
\* opens the serial port.
Crash == pc \notin {"crash_check", "hung", "asleep", "panic"} /\ CrashReset

\* The interrupt watchdog ends the hang.
WatchdogReset == pc = "hung" /\ CrashReset

SoftwareReset(i) ==
  /\ Reset("SW", i)
  /\ UNCHANGED <<nvs, crashRun, quick, counted, unchecked>>

-----------------------------------------------------------------------------
(* setup *)

\* Mutant: the counter of crashes is not cleared when power was lost.
InitialCrashes_Kept(r) == r.crashes

\* The counter of crashes after a reset for this reason.
InitialCrashes(r) == 0

\* Mutant: the counter does not survive a reset.
CrashesAfter_Reinitialized == IF reason = "CRASH" THEN 1 ELSE 0

CrashesAfter ==
  CASE reason \in {"POWERON", "BROWNOUT"} -> InitialCrashes(rtc)
    [] reason = "CRASH" -> rtc.crashes + 1
    [] OTHER -> rtc.crashes

PastCrashCheck(crashes) ==
  /\ rtc' = [rtc EXCEPT !.crashes = crashes]
  /\ pc' = "tracker"
  /\ unchecked' = (unchecked /\ crashes # 0 /\ reason \notin {"POWERON", "BROWNOUT"})
  /\ UNCHANGED <<tracker, image, reason, crashRun, quick, counted>>

\* performCrashRecoveryCheck: an unverified image is left to the boot loader ...
PendingImage ==
  /\ pc = "crash_check" /\ image.state = "pending"
  /\ pc' = "tracker"
  /\ UNCHANGED <<rtc, nvs, tracker, image, reason, crashRun, quick, counted, unchecked>>

\* Mutant: the threshold is noticed only when it is met exactly.
BootLoop_Exactly ==
  reason \notin {"POWERON", "BROWNOUT"} /\ CrashesAfter = CRASH_RECOVERY_THRESHOLD

BootLoop ==
  reason \notin {"POWERON", "BROWNOUT"} /\ CrashesAfter >= CRASH_RECOVERY_THRESHOLD

\* ... every other is counted ...
CountCrash ==
  /\ pc = "crash_check" /\ image.state # "pending"
  /\ ~BootLoop
  /\ PastCrashCheck(CrashesAfter)
  /\ UNCHANGED nvs

\* ... and NVS is erased when the threshold is reached,
EmergencyErase ==
  /\ pc = "crash_check" /\ image.state # "pending"
  /\ BootLoop /\ nvs.health # "dead"
  /\ nvs' = Erased
  /\ PastCrashCheck(0)

\* which may fail.
EmergencyEraseFails ==
  /\ pc = "crash_check" /\ image.state # "pending"
  /\ BootLoop
  /\ nvs.health = "dead" \/ ("erase_fails" \in Faults /\ CrashesAfter < MaxCounter)
  /\ PastCrashCheck(AtMost(CrashesAfter, MaxCounter))
  /\ UNCHANGED nvs

\* BootRecoveryTracker::init
TrackerInit ==
  /\ pc = "tracker"
  /\ tracker' = IF nvs.health = "ok" THEN [available |-> TRUE, counter |-> nvs.counter]
                ELSE NoTracker
  /\ pc' = IF nvs.health = "hang" THEN "hung" ELSE "boot_mode"
  /\ UNCHANGED <<rtc, nvs, image, reason, crashRun, quick, counted, unchecked>>

WriteOutcomes == IF "write_fails" \in Faults THEN BOOLEAN ELSE {TRUE}

\* persistCounter: NVS after the counter was written to it, which may fail.
Persisted(n, counter, ok) == IF ok THEN [n EXCEPT !.counter = counter] ELSE n

\* Mutant: the reset of the counter is not persisted.
resetCounter_RamOnly(n, t, ok) == n

resetCounter(n, t, ok) == IF t.available /\ t.counter # 0 THEN Persisted(n, 0, ok) ELSE n

\* The boot state after a loss of power, when the magic number is gone.
Validated(r) ==
  IF r.magic THEN r
  ELSE [r EXCEPT !.magic = TRUE, !.mode = "NORMAL",
                 !.stability = IF tracker.available THEN tracker.counter ELSE 0]

\* shouldIncrement
Eligible == reason \in {"POWERON", "SW"}

\* Mutant: a restart by software is not counted.
StabilityAfter_PowerOnly(r) ==
  IF reason = "POWERON"
  THEN (IF tracker.available THEN tracker.counter ELSE r.stability) + 1
  ELSE r.stability

\* incrementIfEligible, or the counter in RTC memory when there is no tracker.
StabilityAfter(r) ==
  IF Eligible
  THEN (IF tracker.available THEN tracker.counter ELSE r.stability) + 1
  ELSE r.stability

EnterFlasher ==
  LET r == Validated(rtc)
  IN  r.mode = "FLASHER" \/ StabilityAfter(r) >= RECOVERY_TRIGGER_COUNT

\* The mode and the counter decide between the flasher ...  The counter is written and
\* at once reset; a reset of the device between the two writes, after which the next
\* boot enters the flasher as well, is no step of its own.
ToFlasher ==
  /\ pc = "boot_mode" /\ EnterFlasher
  /\ LET r == Validated(rtc)
         s == StabilityAfter(r)
         t == IF tracker.available /\ Eligible
              THEN [tracker EXCEPT !.counter = s] ELSE tracker
     IN  /\ rtc' = [r EXCEPT !.mode = "NORMAL",
                             !.stability = IF s >= RECOVERY_TRIGGER_COUNT THEN 0 ELSE s]
         /\ tracker' = [t EXCEPT !.counter = 0]
         /\ \E ok \in WriteOutcomes :
              nvs' = resetCounter(nvs, t, ok) /\ counted' = (counted /\ ok)
  /\ pc' = "flasher" /\ quick' = 0
  /\ UNCHANGED <<image, reason, crashRun, unchecked>>

\* ... and the normal boot.
ToNormalBoot ==
  /\ pc = "boot_mode" /\ ~EnterFlasher
  /\ LET r == Validated(rtc)
         s == StabilityAfter(r)
     IN  /\ rtc' = [r EXCEPT !.stability = s]
         /\ IF tracker.available /\ Eligible
            THEN /\ tracker' = [tracker EXCEPT !.counter = s]
                 /\ \E ok \in WriteOutcomes :
                      nvs' = Persisted(nvs, s, ok) /\ counted' = (counted /\ ok)
            ELSE UNCHANGED <<nvs, tracker, counted>>
  /\ pc' = "brownout"
  /\ quick' = IF Eligible THEN AtMost(quick + 1, RECOVERY_TRIGGER_COUNT) ELSE quick
  /\ UNCHANGED <<image, reason, crashRun, unchecked>>

\* FlasherService::run always ends with a restart, here without a new image.
FlasherDone ==
  /\ pc = "flasher"
  /\ SoftwareReset(image)
  /\ UNCHANGED rtc

\* handleBrownoutRecovery: save the history and sleep until the button is pressed.
BrownoutRecovery ==
  /\ pc = "brownout"
  /\ pc' = IF reason = "BROWNOUT" THEN "asleep" ELSE "storage"
  /\ UNCHANGED <<rtc, nvs, tracker, image, reason, crashRun, quick, counted, unchecked>>

\* StorageHAL::initNvs: a partition that has no room is erased; any other error
\* is the end (systemPanic, which feeds the watchdog for ever).
StorageInit ==
  /\ pc = "storage"
  /\ \/ nvs.health = "ok" /\ pc' = "validate" /\ UNCHANGED nvs
     \/ nvs.health = "full" /\ pc' = "validate" /\ nvs' = Erased
     \/ /\ (nvs.health = "full" /\ "erase_fails" \in Faults) \/ nvs.health = "dead"
        /\ pc' = "panic" /\ UNCHANGED nvs
  /\ UNCHANGED <<rtc, tracker, image, reason, crashRun, quick, counted, unchecked>>

\* validateBootedFirmware: nothing to do, or the self test passes (and the
\* confirmation may fail), ...
ValidateImage ==
  /\ pc = "validate"
  /\ \E s \in {image.state, "valid"} : image' = [image EXCEPT !.state = s]
  /\ pc' = "services"
  /\ UNCHANGED <<rtc, nvs, tracker, reason, crashRun, quick, counted, unchecked>>

\* ... or it fails.
Rollback ==
  /\ pc = "validate" /\ image.state = "pending"
  /\ SoftwareReset(image)
  /\ UNCHANGED rtc

\* systemPanic, or an endless loop at the same place: wrong partitions, a wrong sensor,
\* or a service of the rest of setup that cannot be started.
SystemPanic ==
  /\ pc \in {"storage", "validate", "services"} /\ "hardware" \in Faults
  /\ pc' = "panic"
  /\ UNCHANGED <<rtc, nvs, tracker, image, reason, crashRun, quick, counted, unchecked>>

\* The rest of setup, at whose end the crash counter is reset.
SetupComplete ==
  /\ pc = "services"
  /\ rtc' = [rtc EXCEPT !.crashes = 0]
  /\ pc' = "ready"
  /\ crashRun' = 0 /\ unchecked' = FALSE
  /\ UNCHANGED <<nvs, tracker, image, reason, quick, counted>>

-----------------------------------------------------------------------------
(* loop *)

\* The system has been up for the stability window.
Stable ==
  /\ pc = "ready" /\ rtc.stability > 0
  /\ rtc' = [rtc EXCEPT !.stability = 0]
  /\ \E ok \in WriteOutcomes :
       nvs' = resetCounter(nvs, tracker, ok) /\ counted' = (counted /\ ok)
  /\ tracker' = [tracker EXCEPT !.counter = 0]
  /\ quick' = 0
  /\ UNCHANGED <<image, reason, pc, crashRun, unchecked>>

\* handleEnterOtaMode
EnterOtaMode ==
  /\ pc = "ready"
  /\ rtc' = [rtc EXCEPT !.magic = TRUE, !.mode = "FLASHER"]
  /\ SoftwareReset(image)

\* The end of an update, by OTAManager::handleCommit or in the flasher: the image
\* is made the next to boot ...
CommitImage ==
  /\ pc \in {"ready", "flasher"}
  /\ image' = [running |-> "new", state |-> "written"]
  /\ pc' = "rebooting"
  /\ UNCHANGED <<rtc, nvs, tracker, reason, crashRun, quick, counted, unchecked>>

\* ... and the device restarts some seconds later.
Reboot ==
  /\ pc = "rebooting"
  /\ SoftwareReset(image)
  /\ UNCHANGED rtc

DeepSleep ==
  /\ pc = "ready"
  /\ pc' = "asleep"
  /\ UNCHANGED <<rtc, nvs, tracker, image, reason, crashRun, quick, counted, unchecked>>

Wake ==
  /\ pc = "asleep"
  /\ Reset("DEEPSLEEP", image)
  /\ UNCHANGED <<rtc, nvs, crashRun, quick, counted, unchecked>>

-----------------------------------------------------------------------------
\* A new device is switched on: its flash is in order and holds the user's data.
Init ==
  /\ rtc \in Garbage
  /\ nvs = [health |-> "ok", counter |-> 0, data |-> TRUE]
  /\ tracker = NoTracker
  /\ image = [running |-> "old", state |-> "valid"]
  /\ reason = "POWERON" /\ pc = "crash_check"
  /\ crashRun = 0 /\ quick = 0 /\ counted = TRUE /\ unchecked = TRUE

Setup ==
  \/ PendingImage \/ CountCrash \/ EmergencyErase \/ EmergencyEraseFails
  \/ TrackerInit \/ ToFlasher \/ ToNormalBoot \/ BrownoutRecovery
  \/ StorageInit \/ ValidateImage \/ Rollback \/ SystemPanic \/ SetupComplete

Running == Stable \/ EnterOtaMode \/ CommitImage \/ Reboot \/ DeepSleep \/ Wake \/ FlasherDone

Resets == PowerCycle \/ Brownout \/ Crash \/ WatchdogReset

Next == Setup \/ Running \/ Resets

Spec == Init /\ [][Next]_vars

\* The boot goes on and a hang ends in the watchdog; an erase that is tried
\* again and again succeeds.
FairSpec == Spec /\ WF_vars(Setup) /\ WF_vars(WatchdogReset) /\ SF_vars(EmergencyErase)

-----------------------------------------------------------------------------
(* Properties *)

\* Every variable has its type; the counters stay within their bounds although
\* they start from garbage.
TypeOK ==
  /\ rtc \in Rtc /\ nvs \in Nvs /\ tracker \in Tracker /\ image \in Image
  /\ reason \in Reason /\ pc \in Phase
  /\ crashRun \in 0 .. CRASH_RECOVERY_THRESHOLD
  /\ quick \in 0 .. RECOVERY_TRIGGER_COUNT /\ counted \in BOOLEAN /\ unchecked \in BOOLEAN

\* performCrashRecoveryCheck erases bonds, settings and history only after so many
\* crashes in a row, whatever RTC memory held after a loss of power; otherwise only a
\* partition that cannot be used is erased.  The exception is a loss of power before
\* the first boot of a new image: the check leaves the garbage in the counter alone
\* as long as the image is pending, and the first boot after a rollback counts on.
EraseOnlyAfterCrashes ==
  [][nvs.data /\ ~nvs'.data =>
       \/ crashRun = CRASH_RECOVERY_THRESHOLD
       \/ nvs.health = "full"
       \/ unchecked /\ reason # "POWERON"]_vars

\* The flasher is entered only at the app's request or after so many quick restarts,
\* although the counter outlives every one of them; only a write of the counter that
\* failed, or a damaged NVS, may leave a count that is too high.
FlasherOnlyWhenAsked ==
  [][pc = "boot_mode" /\ pc' = "flasher" =>
       \/ rtc.magic /\ rtc.mode = "FLASHER"
       \/ Eligible /\ quick + 1 >= RECOVERY_TRIGGER_COUNT
       \/ ~counted]_vars

\* So many quick restarts lead into the flasher, across losses of power: no normal
\* boot comes after them, as long as NVS, with the counter in it, was not erased,
\* damaged or too worn to be written.
RestartsAreCounted == nvs.data /\ counted => quick < RECOVERY_TRIGGER_COUNT

\* A boot that hangs in nvs_flash_init is repaired by itself, unless power is lost
\* again and again.
HangIsRepaired ==
  \/ []<><<PowerCycle \/ Brownout>>_vars
  \/ (pc = "hung" ~> nvs.health # "hang")
=============================================================================

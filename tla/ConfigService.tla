---------------------------- MODULE ConfigService ----------------------------
(***************************************************************************)
(* The user's settings (src/src/Services/ConfigService.cpp).               *)
(*                                                                         *)
(* A change is made in RAM under the mutex, then a one-shot timer of 30 s  *)
(* is started again; when it expires the ConfigWorker is notified and      *)
(* saves the settings.  Deep sleep saves them at once.  Three tasks change *)
(* or save settings: the NimBLE host task (SET_CONFIG, TIME_SYNC), the     *)
(* sensor task (the epoch of a detection) and the loop task (deep sleep).  *)
(* A section of code under the mutex is one step.                          *)
(*                                                                         *)
(* The version, the signature and the CRC of the blob are abstracted to    *)
(* whether the blob is usable.  SettingsProtocol adds the messages.        *)
(***************************************************************************)
EXTENDS Integers

CONSTANTS
  Keys,           \* the settings that the app changes in this instance
  Sensitivities,  \* the ones up to 100
  SENSITIVITY,    \* the default
  Brightnesses,   \* of the LED
  LED_BRIGHTNESS, \* the default
  MaxEpoch,       \* bound: time
  Unusable,       \* a blob in NVS that readFromNvs does not take
  Faults          \* which of AllFaults this instance lets happen

AllFaults ==
  { "write_fails", \* NVS may refuse a write
    "power_loss" } \* power may be lost

ASSUME ConfigAssumption ==
  /\ Keys \subseteq {"sensitivity", "led"}
  /\ SENSITIVITY \in Sensitivities
  /\ LED_BRIGHTNESS \in Brightnesses
  /\ MaxEpoch \in Nat
  /\ Unusable \notin [sensitivity : Sensitivities, led : Brightnesses, epoch : 0 .. MaxEpoch]
  /\ Faults \subseteq AllFaults

VARIABLES
  config,   \* _config
  dirty,    \* _dirty
  timer,    \* _commitTimer is active
  notified, \* NOTIFY_SAVE_CONFIG is set for the worker
  worker,   \* the ConfigWorker: waits, or is about to write
  hal,      \* the sensitivity that Sensor_HAL works with
  nvs,      \* the blob in NVS: settings, or not usable
  task,     \* where the host task and the sensor task are
  loop,     \* where the loop task is in enterDeepSleep
  late,     \* history: a change that deep sleep will not save any more
  failed    \* history: the write of the last change failed

vars == <<config, dirty, timer, notified, worker, hal, nvs, task, loop, late, failed>>

-----------------------------------------------------------------------------
(* Data *)

UserConfig == [sensitivity : Sensitivities, led : Brightnesses, epoch : 0 .. MaxEpoch]

\* What a setting may be.
Values(key) == IF key = "sensitivity" THEN Sensitivities ELSE Brightnesses

initUserConfigDefaults ==
  [sensitivity |-> SENSITIVITY, led |-> LED_BRIGHTNESS, epoch |-> 0]

\* What a boot makes of the blob: readFromNvs, or the defaults if it is not there, of
\* another size or version, or has a wrong CRC.  The size is compared before the
\* version, so that no migration is ever made.
Restored(blob) == IF blob = Unusable THEN initUserConfigDefaults ELSE blob

Tasks == {"host", "sensor"}

\* epoch: updateLastKnownEpoch has compared; sensitivity, led: this setting was
\* changed, and the HAL and the timer are next; timer: the timer is next.
TaskState == [at : {"idle", "epoch", "timer"} \cup Keys, epoch : 0 .. MaxEpoch]

At(step, now) == [at |-> step, epoch |-> now]

Idle == At("idle", 0)

running == loop # "boot"

-----------------------------------------------------------------------------
(* Changes *)

\* Mutant: the timer is only reset where it runs.
TimerAfter_ResetOnly == timer

\* Started again, whether or not it is active.
TimerAfter == TRUE

Changed ==
  /\ dirty' = TRUE
  /\ late' = (late \/ loop = "shutdown")
  /\ failed' = FALSE

\* The section of setSensitivity or setLedBrightness under the mutex; with the value
\* there is, nothing happens ...
ChangeSetting(key, value) ==
  /\ running /\ task["host"].at = "idle"
  /\ config[key] # value
  /\ config' = [config EXCEPT ![key] = value]
  /\ Changed
  /\ task' = [task EXCEPT !["host"] = At(key, 0)]
  /\ UNCHANGED <<timer, notified, worker, hal, nvs, loop>>

applySensitivityToHal(key) == IF key = "sensitivity" THEN config.sensitivity ELSE hal

\* ... and the rest of it.
ApplySetting ==
  /\ running /\ task["host"].at \in Keys
  /\ hal' = applySensitivityToHal(task["host"].at)
  /\ timer' = TimerAfter
  /\ task' = [task EXCEPT !["host"] = Idle]
  /\ UNCHANGED <<config, dirty, notified, worker, nvs, loop, late, failed>>

\* updateLastKnownEpoch compares without the mutex ...
CompareEpoch(t, now) ==
  /\ running /\ task[t].at = "idle"
  /\ now > config.epoch
  /\ task' = [task EXCEPT ![t] = At("epoch", now)]
  /\ UNCHANGED <<config, dirty, timer, notified, worker, hal, nvs, loop, late, failed>>

\* ... sets the epoch under the mutex ...
SetEpoch(t) ==
  /\ running /\ task[t].at = "epoch"
  /\ config' = [config EXCEPT !.epoch = task[t].epoch]
  /\ Changed
  /\ task' = [task EXCEPT ![t] = At("timer", 0)]
  /\ UNCHANGED <<timer, notified, worker, hal, nvs, loop>>

\* ... and starts the timer without it.
StartTimer(t) ==
  /\ running /\ task[t].at = "timer"
  /\ timer' = TimerAfter
  /\ task' = [task EXCEPT ![t] = Idle]
  /\ UNCHANGED <<config, dirty, notified, worker, hal, nvs, loop, late, failed>>

-----------------------------------------------------------------------------
(* Saving *)

commitTimerCallback ==
  /\ running /\ timer
  /\ timer' = FALSE
  /\ notified' = (notified \/ dirty)
  /\ UNCHANGED <<config, dirty, worker, hal, nvs, task, loop, late, failed>>

\* The worker takes the notification; there is something to save, or not.
WorkerWakes ==
  /\ running /\ worker = "wait" /\ notified
  /\ notified' = FALSE
  /\ worker' = IF dirty THEN "saving" ELSE "wait"
  /\ UNCHANGED <<config, dirty, timer, hal, nvs, task, loop, late, failed>>

\* Mutant: the flag is lowered when the write fails, too.
DirtyAfter_Always(ok) == FALSE

DirtyAfter(ok) == dirty /\ ~ok

\* writeToNvs, under the mutex from the checksum to the flag.
writeToNvs ==
  \E ok \in BOOLEAN :
    /\ ok \/ "write_fails" \in Faults
    /\ nvs' = IF ok THEN config ELSE nvs
    /\ dirty' = DirtyAfter(ok)
    /\ failed' = ~ok

\* After 100 ms.
WorkerSaves ==
  /\ running /\ worker = "saving"
  /\ writeToNvs
  /\ worker' = "wait"
  /\ UNCHANGED <<config, timer, notified, hal, task, loop, late>>

-----------------------------------------------------------------------------
(* Deep sleep *)

\* Mutant: the settings are saved only if the timer runs.
MustFlush_TimerRuns == timer

MustFlush == dirty

\* enterDeepSleep asks isDirty ...
BeforeSleep ==
  /\ loop = "run"
  /\ loop' = IF MustFlush THEN "flush" ELSE "shutdown"
  /\ UNCHANGED <<config, dirty, timer, notified, worker, hal, nvs, task, late, failed>>

\* ... and forceFlush stops the timer, ...
StopTimer ==
  /\ loop = "flush"
  /\ timer' = FALSE
  /\ loop' = "check"
  /\ UNCHANGED <<config, dirty, notified, worker, hal, nvs, task, late, failed>>

\* ... looks at the flag again, without the mutex, ...
CheckDirty ==
  /\ loop = "check"
  /\ loop' = IF dirty THEN "write" ELSE "shutdown"
  /\ UNCHANGED <<config, dirty, timer, notified, worker, hal, nvs, task, late, failed>>

\* ... and writes.
FlushWrites ==
  /\ loop = "write"
  /\ writeToNvs
  /\ loop' = "shutdown"
  /\ UNCHANGED <<config, timer, notified, worker, hal, task, late>>

\* A pin that would wake the device at once keeps it from sleeping.
SleepAborted ==
  /\ loop = "shutdown"
  /\ loop' = "run"
  /\ late' = FALSE
  /\ UNCHANGED <<config, dirty, timer, notified, worker, hal, nvs, task, failed>>

\* RAM, timers and tasks are gone.
Reset ==
  /\ loop' = "boot"
  /\ task' = [t \in Tasks |-> Idle]
  /\ timer' = FALSE /\ notified' = FALSE /\ worker' = "wait"
  /\ late' = FALSE /\ failed' = FALSE
  /\ config' = initUserConfigDefaults /\ dirty' = FALSE /\ hal' = SENSITIVITY
  /\ UNCHANGED nvs

DeepSleep == loop = "shutdown" /\ Reset

PowerLoss == "power_loss" \in Faults /\ running /\ Reset

\* init: what NVS holds, or the defaults, which are written at once.
Boot ==
  /\ loop = "boot"
  /\ config' = Restored(nvs)
  /\ nvs' \in IF nvs # Unusable THEN {nvs}
              ELSE {config'} \cup (IF "write_fails" \in Faults THEN {nvs} ELSE {})
  /\ hal' = config'.sensitivity
  /\ dirty' = FALSE
  /\ loop' = "run"
  /\ UNCHANGED <<timer, notified, worker, task, late, failed>>

-----------------------------------------------------------------------------
\* A device that starts with the default settings, with none, or with the ones of an
\* older firmware.
Init ==
  /\ nvs \in {Unusable, initUserConfigDefaults}
  /\ config = initUserConfigDefaults /\ dirty = FALSE /\ hal = SENSITIVITY
  /\ timer = FALSE /\ notified = FALSE /\ worker = "wait"
  /\ task = [t \in Tasks |-> Idle] /\ loop = "boot"
  /\ late = FALSE /\ failed = FALSE

UpdateEpoch(t) ==
  \/ \E now \in 1 .. MaxEpoch : CompareEpoch(t, now)
  \/ SetEpoch(t) \/ StartTimer(t)

Save == commitTimerCallback \/ WorkerWakes \/ WorkerSaves

PrepareSleep == BeforeSleep \/ StopTimer \/ CheckDirty \/ FlushWrites \/ SleepAborted

\* What happens without a setting being changed.
Background == (\E t \in Tasks : UpdateEpoch(t)) \/ Save \/ PrepareSleep \/ Boot

Restart == DeepSleep \/ PowerLoss

Next ==
  \/ \E key \in Keys : \E value \in Values(key) : ChangeSetting(key, value)
  \/ ApplySetting \/ Background \/ Restart

Spec == Init /\ [][Next]_vars

-----------------------------------------------------------------------------
(* Properties *)

\* Every variable has its type.
TypeOK ==
  /\ config \in UserConfig /\ dirty \in BOOLEAN /\ timer \in BOOLEAN
  /\ notified \in BOOLEAN /\ worker \in {"wait", "saving"} /\ hal \in Sensitivities
  /\ nvs \in UserConfig \cup {Unusable} /\ task \in [Tasks -> TaskState]
  /\ loop \in {"boot", "run", "flush", "check", "write", "shutdown"}
  /\ late \in BOOLEAN /\ failed \in BOOLEAN

\* While _dirty is FALSE, which lets forceFlush, the timer and the worker skip the
\* write, a restart would bring back exactly the settings in force: no change of
\* another task slips in between a write and the lowering of the flag.
CleanMeansSaved == running /\ ~dirty => Restored(nvs) = config

\* A change that is not saved yet has somebody who will save it: a timer that is
\* active or about to be started, the notified worker, or deep sleep; the only
\* exception is a write that failed, which nobody repeats.
DirtyIsScheduled ==
  running /\ dirty =>
    \/ timer \/ notified \/ worker = "saving"
    \/ \E t \in Tasks : task[t].at \in {"timer"} \cup Keys
    \/ loop \in {"flush", "check", "write"}
    \/ failed

\* enterDeepSleep has saved every change by the time the device goes to sleep,
\* whatever the worker and the timer were doing; what it loses are changes made
\* after its flush, and the ones NVS refused.
SleepSaves == loop = "shutdown" /\ dirty => late \/ failed
=============================================================================

---------------------------- MODULE PowerManager ----------------------------
(***************************************************************************)
(* The power states of the device (src/src/Services/PowerManager.cpp) and  *)
(* the three tasks that move it between them without a lock: the loop task *)
(* (update, enterDeepSleep), the sensor task (sensorTask in main.cpp) and  *)
(* the NimBLE host task (connections and messages of the app).             *)
(*                                                                         *)
(* A task reads _currentState in one step and acts on what it read in a    *)
(* later one; transitionTo itself is one step.  Time is what the code      *)
(* compares it with: three timeouts, each of which is over or not.         *)
(***************************************************************************)
EXTENDS Naturals

CONSTANTS
  MAX_SLEEP_CANCEL_COUNT,  \* cancelled sleeps after which the next is forced
  Faults                   \* which of AllFaults this instance lets happen

AllFaults ==
  { "noise",    \* the proximity may exceed the cancel threshold
    "abort" }   \* the last checks before deep sleep may fail

ASSUME PowerAssumption ==
  /\ MAX_SLEEP_CANCEL_COUNT \in Nat \ {0}
  /\ Faults \subseteq AllFaults

VARIABLES
  pm,           \* the members of PowerManager
  connected,    \* BLEManager::_deviceConnected
  advertising,  \* BLEManager::isAdvertising
  pendingAcks,  \* ProtocolHandler::getPendingCount > 0
  ota,          \* OTAManager::isInProgress
  flushing,     \* HistoryService::isFlushing
  worker,       \* the storage worker, which ends a flush, is running
  loop,         \* program counter of the loop task
  sensor,       \* the sensor task: where it is and the state it has read
  host          \* program counter of the host task

services == <<pendingAcks, ota, flushing, worker>>
ble == <<connected, advertising>>
vars == <<pm, ble, services, loop, sensor, host>>

-----------------------------------------------------------------------------
(* Data *)

PowerState == {"WAKE_MODE", "ACTIVE", "DETECTION_ACTIVE", "SLEEP_PREP", "DEEP_SLEEP"}

\* state: _currentState; cancels: _sleepCancelCount; idle: the idle timeout since
\* _lastActivityTime is over; prepOver: SLEEP_PREP_TIME_MS since
\* _sleepPrepStartTime is over; overdue: FORCE_SLEEP_TIMEOUT_MS in this state is.
Members == [state : PowerState, cancels : 0 .. MAX_SLEEP_CANCEL_COUNT,
            idle : BOOLEAN, prepOver : BOOLEAN, overdue : BOOLEAN]

\* After setup.
Booted == [state |-> "WAKE_MODE", cancels |-> 0, idle |-> FALSE,
           prepOver |-> FALSE, overdue |-> FALSE]

SensorIdle == [pc |-> "idle", state |-> "WAKE_MODE"]

\* The loop task is inside enterDeepSleep.
Shutdown == {"stopping", "disconnect", "stopAdv", "check"}

LoopPc == {"idle", "request", "prep", "decided", "asleep"} \cup Shutdown
HostPc == {"idle", "connected", "disconnected", "advertise", "sleep", "ota"}

-----------------------------------------------------------------------------
(* Operations of PowerManager, on its members p *)

transitionTo(p, new) ==
  IF p.state = new THEN p
  ELSE [state |-> new,
        cancels |-> IF new \in {"ACTIVE", "DEEP_SLEEP"} THEN 0 ELSE p.cancels,
        idle |-> p.idle /\ new \notin {"WAKE_MODE", "ACTIVE"},
        prepOver |-> p.prepOver /\ new # "SLEEP_PREP",
        overdue |-> FALSE]

requestSleep(p) == transitionTo(p, "SLEEP_PREP")

cancelSleep(p) ==
  IF p.state = "SLEEP_PREP"
  THEN transitionTo(p, IF connected THEN "ACTIVE" ELSE "WAKE_MODE") ELSE p

notifyActivity(p) == cancelSleep([p EXCEPT !.idle = FALSE])

\* Mutant: the number of cancelled sleeps does not count.
shouldForceSleep_ByTimeOnly(p) ==
  p.state \in {"WAKE_MODE", "SLEEP_PREP"} /\ ~connected /\ p.overdue

shouldForceSleep(p) ==
  \/ p.cancels >= MAX_SLEEP_CANCEL_COUNT
  \/ p.state \in {"WAKE_MODE", "SLEEP_PREP"} /\ ~connected /\ p.overdue

canSafelyEnterSleep == ~pendingAcks /\ ~ota

\* getSleepPrepRemaining = 0: also in every state but SLEEP_PREP.
SleepPrepElapsed(p) == p.state = "SLEEP_PREP" => p.prepOver

\* One of the timeouts is over.
TimePasses(flag) ==
  /\ loop # "asleep"
  /\ ~pm[flag] /\ pm' = [pm EXCEPT ![flag] = TRUE]
  /\ UNCHANGED <<ble, services, loop, sensor, host>>

-----------------------------------------------------------------------------
(* Loop task: update *)

\* Mutant: a connected device has no idle timeout.
IdleTimeout_WakeOnly == pm.state = "WAKE_MODE" /\ ~connected /\ pm.idle

\* checkIdleTimeout in WAKE_MODE, or the idle timeout of ACTIVE.
IdleTimeout ==
  \/ pm.state = "WAKE_MODE" /\ ~connected /\ pm.idle
  \/ pm.state = "ACTIVE" /\ ~ota /\ ~flushing /\ pm.idle

IdleExpired ==
  /\ loop = "idle" /\ IdleTimeout
  /\ loop' = "request"
  /\ UNCHANGED <<pm, ble, services, sensor, host>>

\* checkHeartbeatTimeout: nothing came from an app without a bond.
HeartbeatExpired ==
  /\ loop = "idle" /\ pm.state = "ACTIVE" /\ connected
  /\ loop' = "request"
  /\ UNCHANGED <<pm, ble, services, sensor, host>>

RequestSleep ==
  /\ loop = "request"
  /\ pm' = requestSleep(pm)
  /\ loop' = "idle"
  /\ UNCHANGED <<ble, services, sensor, host>>

\* ACTIVE with an update or a flush in progress: the idle timer starts anew.
ProcessLock ==
  /\ loop = "idle"
  /\ pm.state = "ACTIVE" /\ (ota \/ flushing) /\ pm.idle
  /\ pm' = [pm EXCEPT !.idle = FALSE]
  /\ UNCHANGED <<ble, services, loop, sensor, host>>

\* The case SLEEP_PREP of the switch ...
EnterPrepCase ==
  /\ loop = "idle" /\ pm.state = "SLEEP_PREP"
  /\ loop' = "prep"
  /\ UNCHANGED <<pm, ble, services, sensor, host>>

\* ... and what it decides: nothing yet, to sleep, or to restart the timer.
PrepCase ==
  /\ loop = "prep"
  /\ LET force == shouldForceSleep(pm) IN
       IF ~SleepPrepElapsed(pm) /\ ~force
       THEN loop' = "idle" /\ UNCHANGED pm
       ELSE IF canSafelyEnterSleep \/ force
            THEN loop' = "decided" /\ UNCHANGED pm
            ELSE loop' = "idle" /\ pm' = [pm EXCEPT !.prepOver = FALSE]
  /\ UNCHANGED <<ble, services, sensor, host>>

-----------------------------------------------------------------------------
(* Loop task: enterDeepSleep *)

StartShutdown ==
  /\ loop = "decided"
  /\ pm' = transitionTo(pm, "DEEP_SLEEP")
  /\ loop' = "stopping"
  /\ UNCHANGED <<ble, services, sensor, host>>

\* The ML services, the configuration, the storage worker, the last sync.
StopServices ==
  /\ loop = "stopping"
  /\ worker' = FALSE /\ flushing' = FALSE
  /\ loop' = "disconnect"
  /\ UNCHANGED <<pm, ble, pendingAcks, ota, sensor, host>>

\* disconnect, and 200 ms in which the host task may handle it.
DropConnection ==
  /\ loop = "disconnect"
  /\ loop' = "stopAdv"
  /\ UNCHANGED <<pm, ble, services, sensor, host>>

StopAdvertising ==
  /\ loop = "stopAdv"
  /\ advertising' = FALSE
  /\ loop' = "check"
  /\ UNCHANGED <<pm, connected, services, sensor, host>>

\* Mutant: the power state is left as it is.
AfterAbort_Unchanged(new) == pm

AfterAbort(new) == [transitionTo(pm, new) EXCEPT !.idle = FALSE]

\* The proximity is elevated, or the sensor's interrupt is active: back to
\* WAKE_MODE or to DETECTION_ACTIVE.  What was stopped stays stopped.
AbortSleep ==
  /\ loop = "check" /\ "abort" \in Faults
  /\ \E new \in {"WAKE_MODE", "DETECTION_ACTIVE"} : pm' = AfterAbort(new)
  /\ loop' = "idle"
  /\ UNCHANGED <<ble, services, sensor, host>>

\* esp_deep_sleep_start
DeepSleepStart ==
  /\ loop = "check"
  /\ loop' = "asleep"
  /\ UNCHANGED <<pm, ble, services, sensor, host>>

\* The sensor, the button or the timer wakes the device: setup.
Wake ==
  /\ loop = "asleep"
  /\ pm' = Booted
  /\ connected' = FALSE /\ advertising' = TRUE
  /\ pendingAcks' = FALSE /\ ota' = FALSE /\ flushing' = FALSE /\ worker' = TRUE
  /\ loop' = "idle" /\ sensor' = SensorIdle /\ host' = "idle"

-----------------------------------------------------------------------------
(* Sensor task *)

\* getState, and whether a device in WAKE_MODE turns out to be connected.
SensorRead ==
  /\ sensor.pc = "idle" /\ loop # "asleep"
  /\ sensor' = [pc |-> IF pm.state = "WAKE_MODE" /\ connected THEN "promote"
                       ELSE "sample",
                state |-> pm.state]
  /\ UNCHANGED <<pm, ble, services, loop, host>>

Promote ==
  /\ sensor.pc = "promote" /\ loop # "asleep"
  /\ pm' = transitionTo(pm, "ACTIVE")
  /\ sensor' = [pc |-> "sample", state |-> "ACTIVE"]
  /\ UNCHANGED <<ble, services, loop, host>>

\* handleDetection (its body is not in the repository): a detection begins, which
\* is activity, or ends, which leads to ACTIVE or to WAKE_MODE.
DetectionStarts ==
  /\ sensor.pc = "sample" /\ loop # "asleep"
  /\ sensor.state \in {"ACTIVE", "WAKE_MODE", "SLEEP_PREP"}
  /\ pm' = transitionTo([pm EXCEPT !.idle = FALSE], "DETECTION_ACTIVE")
  /\ sensor' = [sensor EXCEPT !.pc = "detected"]
  /\ UNCHANGED <<ble, services, loop, host>>

DetectionEnds ==
  /\ sensor.pc = "sample" /\ loop # "asleep"
  /\ sensor.state = "DETECTION_ACTIVE"
  /\ pm' = transitionTo([pm EXCEPT !.idle = FALSE],
                        IF connected THEN "ACTIVE" ELSE "WAKE_MODE")
  /\ sensor' = SensorIdle
  /\ UNCHANGED <<ble, services, loop, host>>

\* Mutant: a cancelled sleep is not counted.
CancelledOnce_NotCounted(p) == cancelSleep(p)

\* incrementSleepCancelCount, and cancelSleep unless this was the last one.
CancelledOnce(p) ==
  LET q == [p EXCEPT !.cancels = p.cancels + 1]
  IN  IF q.cancels >= MAX_SLEEP_CANCEL_COUNT THEN q ELSE cancelSleep(q)

\* The sleep that was being prepared is cancelled when the proximity is high.
SampleDone ==
  /\ sensor.pc \in {"sample", "detected"} /\ loop # "asleep"
  /\ \/ UNCHANGED pm
     \/ /\ "noise" \in Faults
        /\ sensor.state = "SLEEP_PREP" /\ ~shouldForceSleep(pm)
        /\ pm' = CancelledOnce(pm)
  /\ sensor' = SensorIdle
  /\ UNCHANGED <<ble, services, loop, host>>

-----------------------------------------------------------------------------
(* Host task *)

HostReady(pc) == host = pc /\ loop # "asleep"

\* onConnectInternal: the flag, the advertising and resetForNewConnection ...
Connect ==
  /\ HostReady("idle") /\ ~connected /\ advertising
  /\ connected' = TRUE /\ advertising' = FALSE /\ pendingAcks' = FALSE
  /\ host' = "connected"
  /\ UNCHANGED <<pm, ota, flushing, worker, loop, sensor>>

\* ... and the transition.
Connected ==
  /\ HostReady("connected")
  /\ pm' = transitionTo(pm, "ACTIVE")
  /\ host' = "idle"
  /\ UNCHANGED <<ble, services, loop, sensor>>

\* onDisconnectInternal: the flag and clearAllPending ...
Disconnect ==
  /\ HostReady("idle") /\ connected
  /\ connected' = FALSE /\ pendingAcks' = FALSE
  /\ host' = "disconnected"
  /\ UNCHANGED <<pm, advertising, ota, flushing, worker, loop, sensor>>

\* ... the transition, unless sleep is being prepared ...
Disconnected ==
  /\ HostReady("disconnected")
  /\ pm' = IF pm.state = "SLEEP_PREP" THEN pm ELSE transitionTo(pm, "WAKE_MODE")
  /\ host' = "advertise"
  /\ UNCHANGED <<ble, services, loop, sensor>>

\* Mutant: a disconnected device does not advertise again.
AdvertisingAfter_Off == advertising

AdvertisingAfter == TRUE

\* ... and startAdvertising.
StartAdvertising ==
  /\ HostReady("advertise")
  /\ advertising' = AdvertisingAfter
  /\ host' = "idle"
  /\ UNCHANGED <<pm, connected, services, loop, sensor>>

\* dispatchMessage: every message but ACK, NACK and heartbeat is activity.  The
\* sleep command and OTA_START go on from here.
Message ==
  /\ HostReady("idle") /\ connected
  /\ pm' = notifyActivity(pm)
  /\ host' \in {"idle", "sleep", "ota"}
  /\ UNCHANGED <<ble, services, loop, sensor>>

SleepCommand ==
  /\ HostReady("sleep")
  /\ pm' = requestSleep(pm)
  /\ host' = "idle"
  /\ UNCHANGED <<ble, services, loop, sensor>>

OtaStart ==
  /\ HostReady("ota")
  /\ ota' = TRUE
  /\ host' = "idle"
  /\ UNCHANGED <<pm, ble, pendingAcks, flushing, worker, loop, sensor>>

-----------------------------------------------------------------------------
(* What the services do meanwhile *)

FrameSent ==
  /\ connected /\ host # "connected" /\ loop # "asleep"
  /\ ~pendingAcks /\ pendingAcks' = TRUE
  /\ UNCHANGED <<pm, ble, ota, flushing, worker, loop, sensor, host>>

\* Every pending frame is acknowledged or given up.
FramesSettled ==
  /\ pendingAcks /\ loop # "asleep"
  /\ pendingAcks' = FALSE
  /\ UNCHANGED <<pm, ble, ota, flushing, worker, loop, sensor, host>>

\* Commit, abort or the timeout of the update.
OtaEnds ==
  /\ ota /\ loop # "asleep"
  /\ ota' = FALSE
  /\ UNCHANGED <<pm, ble, pendingAcks, flushing, worker, loop, sensor, host>>

\* logDetection or setBleConnected raises _flushPending.
FlushRequested ==
  /\ ~flushing /\ loop # "asleep"
  /\ flushing' = TRUE
  /\ UNCHANGED <<pm, ble, pendingAcks, ota, worker, loop, sensor, host>>

\* Only the worker lowers it.
FlushDone ==
  /\ flushing /\ worker /\ loop # "asleep"
  /\ flushing' = FALSE
  /\ UNCHANGED <<pm, ble, pendingAcks, ota, worker, loop, sensor, host>>

-----------------------------------------------------------------------------
Init ==
  /\ pm = Booted
  /\ connected = FALSE /\ advertising = TRUE
  /\ pendingAcks = FALSE /\ ota = FALSE /\ flushing = FALSE /\ worker = TRUE
  /\ loop = "idle" /\ sensor = SensorIdle /\ host = "idle"

LoopTask ==
  \/ IdleExpired \/ HeartbeatExpired \/ RequestSleep \/ ProcessLock
  \/ EnterPrepCase \/ PrepCase
  \/ StartShutdown \/ StopServices \/ DropConnection \/ StopAdvertising
  \/ AbortSleep \/ DeepSleepStart

SensorTask == SensorRead \/ Promote \/ DetectionStarts \/ DetectionEnds \/ SampleDone

HostTask ==
  \/ Connect \/ Connected \/ Disconnect \/ Disconnected \/ StartAdvertising
  \/ Message \/ SleepCommand \/ OtaStart

Services == FrameSent \/ FramesSettled \/ OtaEnds \/ FlushRequested \/ FlushDone

Time == \E flag \in {"idle", "prepOver", "overdue"} : TimePasses(flag)

Next == LoopTask \/ SensorTask \/ HostTask \/ Services \/ Time \/ Wake

Spec == Init /\ [][Next]_vars

\* Every task runs on, every timeout ends.  Connections, messages, detections,
\* heartbeats and new work of the services are left free; the frames that are
\* pending, an update, a flush and a detection come to their end.
Fairness ==
  /\ WF_vars(IdleExpired) /\ WF_vars(RequestSleep)
  /\ WF_vars(EnterPrepCase) /\ WF_vars(PrepCase)
  /\ WF_vars(StartShutdown \/ StopServices \/ DropConnection \/ StopAdvertising
             \/ DeepSleepStart \/ Wake)
  /\ WF_vars(SensorRead \/ Promote \/ DetectionEnds \/ SampleDone)
  /\ SF_vars(DetectionEnds)
  /\ WF_vars(Connected \/ Disconnected \/ StartAdvertising \/ SleepCommand \/ OtaStart)
  /\ \A flag \in {"idle", "prepOver", "overdue"} : WF_vars(TimePasses(flag))
  /\ WF_vars(FramesSettled) /\ WF_vars(OtaEnds) /\ WF_vars(FlushDone)

FairSpec == Spec /\ Fairness

-----------------------------------------------------------------------------
(* Properties *)

Awake == loop \notin Shutdown \cup {"asleep"}

\* Every variable has the type of the member it stands for; the counter of
\* cancelled sleeps, which nothing but a forced sleep or a connection resets,
\* does not run past its limit.
TypeOK ==
  /\ pm \in Members
  /\ connected \in BOOLEAN /\ advertising \in BOOLEAN
  /\ pendingAcks \in BOOLEAN /\ ota \in BOOLEAN
  /\ flushing \in BOOLEAN /\ worker \in BOOLEAN
  /\ loop \in LoopPc /\ host \in HostPc
  /\ sensor \in [pc : {"idle", "promote", "sample", "detected"}, state : PowerState]

\* update and the sensor task do nothing in DEEP_SLEEP: a device that is in this
\* state is really on its way into deep sleep, also after an aborted attempt
\* and whatever the host task did meanwhile.
NoStuckDeepSleep == Awake => pm.state # "DEEP_SLEEP"

\* A device that is awake and not connected can be found by the app, as long as its
\* services are up: an aborted deep sleep starts neither them nor the advertising.
Connectable == Awake /\ worker /\ ~connected /\ host = "idle" => advertising

\* What may keep the device awake.
Activity ==
  Message \/ Connect \/ Disconnect \/ DetectionStarts \/ FrameSent \/ FlushRequested

\* Noise cancels a sleep: a connected device then returns to ACTIVE, and the count
\* of cancelled sleeps starts anew.
CancelledWhileConnected == connected /\ SampleDone /\ pm' # pm

\* A device that stays awake for ever, with its services up, has activity for ever,
\* or noise while it is connected: nothing else, and no race between the tasks, keeps
\* it from deep sleep.
AwakeOnlyForActivity ==
  <>[](Awake /\ worker) => []<><<Activity \/ CancelledWhileConnected>>_vars

\* Noise of the sensor cancels only so many sleeps of a disconnected device.
NoiseIsBounded ==
  <>[](Awake /\ worker /\ ~connected) => []<><<DetectionStarts \/ FlushRequested>>_vars
=============================================================================

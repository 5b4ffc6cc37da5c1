# Verification of the ESP32 sensor firmware

TLA+ models of the firmware in `src/src`, the TLC runs that check them on small
instances, and TLAPS proofs for every size. Paths below are those of the
repository under `src/`; line numbers are the ones of its sources. Every
definition that models code is listed with its lines under `map` in
`PROJECT.json`.

1. The system
2. Modules, and how they correspond to the code
3. Runs: what they check, their bounds
4. Fairness and deadlock
5. Proofs
6. Findings and observations
7. What is not modelled
8. Plan

## 1. The system

A battery-powered detector (ESP32-S3, Arduino and FreeRTOS). A proximity sensor
finds events, the device numbers and stores them, and delivers them over BLE to
an app, which acknowledges each one. Most of the time it sleeps.

Four tasks matter. The **loop task** runs `loop()` (pump, retries, power
states, deep sleep), the **sensor task** samples and logs detections, the
**NimBLE host task** runs every BLE callback and every message handler, and
**workers** write to NVS (storage worker, config worker). They share state under
mutexes that are held for sections, not for whole operations. Memory has three
kinds: RAM, lost in every reset; RTC memory, which survives deep sleep and most
resets and holds garbage after a loss of power; NVS, flash with keys that are
written one at a time.

| Component | State it keeps | Operations | Interacts with | What is hard | What makes it correct |
|---|---|---|---|---|---|
| HistoryService | ring of events in RTC memory, its backup in five NVS keys, storage queue, `_flushPending` | log, mark as synced, synchronize the time, deferred flush, fast-forward, flush, worker, drain and sync before sleep, restore | sensor, host and loop task call it; delivery reads it | snapshot written without the mutex, two writers, a reset between keys, a full queue, wrapping indices | events stay ordered; the backup is one snapshot; no silent loss; the device can sleep |
| ProtocolHandler, DetectionDeliveryPump | pending table, sequence numbers, rate governor | send, repeat, give up, ACK, NACK, HELLO, SYNC_REQUEST, reset for a connection | history, BLE link, app | lost and late ACKs, reconnects, numbers that start anew, a full table | synced only if the app has it; every event arrives in the end |
| PowerManager | state, counters of cancelled sleeps, timers | update, heartbeat, sleep request, deep sleep, abort, wake | all tasks; BLE, OTA and history are asked before sleep | decisions on a state that other tasks change, an aborted shutdown | never awake in DEEP_SLEEP, connectable, sleeps unless there is activity |
| setup in main.cpp, BootRecoveryTracker | counters in RTC memory, a copy in NVS, boot mode, OTA image state | crash check, emergency erase, boot mode, self test, rollback, stability timer | NVS partition, boot loader, flasher | garbage in RTC memory, a reset at any line, a partition that hangs | data is erased only with cause; a boot loop ends; the flasher only when asked |
| FlasherService | phase, session, chunk buffer, deferred action, watchdogs | HTTP requests, one turn of `run`, timeouts | Update library, app | answers lost, chunks repeated, actions deferred across sessions | image complete and in order; an upload can go on; the device comes back |
| ConfigService | settings, dirty flag, commit timer, worker notification | set, save, flush before sleep, load, migrate | host and sensor task, PowerManager | a change during a write, a timer stopped while it is started | a clean flag means saved; every change is saved by somebody |
| SET_CONFIG (ProtocolHandler) | last sequence number | validate, deduplicate, apply, ACK | ConfigService, Sensor_HAL, app | wrap-around, repeats after a lost ACK | acknowledged means in force |
| StorageHAL | health of the NVS partition | init, erase | setup | init that does not return | part of boot |
| BLEManager | connection and its flags, advertising, bonds, pairing mode, counter of orphaned bonds | callbacks, update, button, pairing, shutdown | everything | callbacks between a look and an act of the loop task, flags that outlive a connection | a bond in use is kept; pairing mode ends; every connection is secured and tuned |
| OTAManager | state, announced image, counters, running CRC | start, data, commit, abort, timeout; self test at boot | ProtocolHandler, Update library, PowerManager, setup | a timeout in the middle of a handler, lost answers, a transfer cut off | only the whole image is committed; a transfer ends and leaves the library free |
| TimeService, WifiService | policy and connection of a time sync | decide, connect, time out | ConfigService | not reachable in this version | not modelled |
| DataLoggerService, PersonalizationService | samples, calibration | log, flush, learn | sensor task, serial console | files, formulas | not modelled |
| Sensor_HAL, LED_HAL, InferenceService | registers, outputs, a network | sample, show, infer | sensor task | numeric, I/O | not modelled |

The hazards of this code, each at its line and with the properties that would
catch it, are listed under `hazards` in `PROJECT.json`.

## 2. Modules

A section of the code under a mutex, or between two points where another task
can act on the same state, is one step. A task that is in the middle of an
operation has a program counter. `Faults` chooses, per instance, which faults of
the environment happen; each module lists its faults in `AllFaults`. Definitions
with a suffix (`NextIndex_NoWrap`) are the mutated forms that show what breaks a
property; no specification uses them.

### HistoryService (`Services/HistoryService.cpp`)

`rtc` is `_state`, `nvs` the five keys of namespace `devicedata`, `flush[f]` the
call of `flushToNvs` that each of three tasks may be in: the storage worker, the
loop task (drain and final sync before sleep) and the host task (fast-forward).
`BeginFlush` takes the snapshot under the mutex, `PutKey` writes one key.
`LogDetection`, `DecideFlush`, `RequestFlush` are `logDetection` in the sensor
task; `markAsSynced`, `applyTimeSync`, `BleConnect`, `BleDisconnect`,
`RequestHostFlush`, `fastForwardEventId`, `PersistFastForward` run in the host task;
`WorkerWait` to `WorkerReady` are the storage worker; `StopStorageWorker` to
`SleepAborted` the shutdown for deep sleep; `ColdBoot`, `DeepSleep` and `Restore` are
`init`. Who asks for a flush reads the flag and raises it, then queues the command, and
takes the flag back if the queue is full: three steps, between which the other tasks
run. `flushToNvs` may refuse for the pairing mode at any time (572); with `put_fails`
a write of a key in `FailingKeys` may fail.
`StackGarbage` is what `restoreFromNvs` may read from its uninitialized buffer
when the blob of events was never written. Timestamps and payloads of
events are left out; ids, the synced flag and the overflow flag are kept.

### DeliveryProtocol (`ProtocolHandler.cpp`, `DetectionDeliveryPump.cpp`) and ReliableDelivery

The loop task's `PumpRead` and `PumpSend` are the pump with the governor,
`RetryOrGiveUp` and `Resend` are `processRetries`, which leaves the mutex to
notify. The host task's `Connect`, `ClearAllPending`, `RewindSeq`, `Subscribe`,
`Disconnect` are the connection callbacks; `HandleAck`, `MarkAsSynced`,
`ClearAcked` the three sections of `handleAck`; `HandleNack`, `HandleHello`,
`HandleSyncRequest`, `SyncNext` the other handlers that change state. The history
is a sequence here, with what HistoryService promises: ids in order, the oldest
overwritten. A detection has a name (`uid`) besides its id, so that the model
notices when an id is given twice. The link loses, and with `damage` damages,
frames; the app is external: it keeps an id once and acknowledges every frame. It does
so when it has received an intact frame, before it persists it
(`docs/ble-protocol.md:268`), so "stored" means received: what an app loses after its
own ACK is out of the device's sight.
`stale` marks, for the properties only, what belongs to an earlier connection.

`ReliableDelivery` is the abstract promise: a detection is kept until it is
overwritten, and is marked as synced only after the app has received it.
`ImplementsDelivery` is the refinement.

### PowerManager (`PowerManager.cpp`, callers in `main.cpp`)

`pm` holds the members; timers are flags that become true when time has passed.
The loop task is `update` and `enterDeepSleep` with a program counter between
the points where it reads and uses the state; the sensor task reads the state,
promotes it on a detection and samples noise in SLEEP_PREP; the host task
connects, disconnects, heartbeats, asks for sleep and starts an update.

### BootRecovery (`main.cpp` setup, `BootRecoveryTracker.cpp`, `StorageHAL.cpp`, `OTAManager.cpp`)

One action per phase of `setup`, in its order: crash check and emergency erase, tracker,
boot mode, brownout recovery, storage, image validation, end of setup and the timer that
declares the system stable. `Resets` may strike in every phase; `SystemPanic` is the
panic of `setup` for hardware that does not answer, which counts as a crash of the next
boot. A loss of power makes RTC memory arbitrary (`AfterPowerLoss`), within
`MaxCounter`. NVS is usable, full, hanging or dead. `crashRun` and `quick` are history
variables: what really happened, to compare the counters with.

### Flasher (`FlasherService.cpp`)

`Startup` is `start` with its two voltage checks; `Requests` are the handlers of
the web server, one of them per turn; `Loop` is the rest of a turn of `run` in
its order: deferred action, queued chunk, watchdogs. The Update library and the
app are external. An image is a sequence of chunk numbers. An answer may be lost
in every request (`Answered`), so the app repeats a chunk. `StreamImage`, `StreamFails`
and `UpdateWithoutImage` are what a request to `/update` may come to; `stray`, for the
properties only, remembers one that failed or came without an image.

### ConfigService (`ConfigService.cpp`) and SettingsProtocol

`ConfigService` models persistence: `ChangeSetting`, `ApplySetting`, the two
steps of `updateLastKnownEpoch` in either task, the commit timer, the worker and
`forceFlush` in its steps within `enterDeepSleep`, restart and load.
`SettingsProtocol` extends it with `SET_CONFIG`: messages in flight,
`_lastConfigSeqNum` and its comparison modulo the number space, the refusal of
values out of range, the ACK and an app that sends, repeats, gives up. The app
numbers its messages upwards with gaps of at most `MaxGap`, since other messages
use the same counter.

### OtaTransfer (`OTAManager.cpp`, OTA handlers of `ProtocolHandler.cpp`)

The host task is in one handler at a time, with a program counter at every call of
the Update library: `StartRefused` to `Begun` are `handleStart`, which is RECEIVING before
it sets its clock, `DataRefused` to
`CountChunk` `handleData`, `CommitRefused` to `End` `handleCommit`. The loop task
takes the time (`CheckTimeout`), compares it (`Compare`) and runs `handleAbort` in
three steps, between which the host task may go on: OTAManager declares a `_mux` and
never takes it. `skew` says that a chunk was counted after the loop task took the
time: the unsigned difference is then a timeout. `CanSleep` is the question of
`canSafelyEnterSleep`; a transfer may begin between it and `DeepSleep`. A CRC is
the sequence of chunks it was computed over, so two images never share one.

### BleLink (`BLEManager.cpp`, the button in `main.cpp`, `PowerManager.cpp`)

`ble` holds the members, `link` what NimBLE knows of the connection (one at a time,
`CONFIG_BT_NIMBLE_MAX_CONNECTIONS`), `bonds` the bonds in NVS and `keys` the phones
that remember the device. Callbacks of the host task are split where `_mux` is
released. In the loop task, a look at the flags (`ParamsDue`, `LookAtSecurity`,
`EnterDeepSleep`) and the act on it (`UpdateParams`, `MarkRequested`,
`CountFailure`) are two steps. The waits of update (60 s, 2 s, 2.5 s) may end at any
moment; the window of the pairing mode, which is started anew, is a flag. Every reset
passes through `Off`, and `Boot` is `init`. `unencrypted`, `crossed`, `lostReset` and
`setup` are history variables.

### Composition

`SettingsProtocol` composes the protocol with ConfigService. `DeliveryProtocol`
stands on the promise of HistoryService, `BootRecovery` has the flasher as one
phase (`FlasherDone`), whose inside is `Flasher`, and takes up the image that
`OtaTransfer` commits (`CommitImage`). The `MC` modules instantiate
the constants for TLC. Every component has a module of proofs (section 5).

## 3. Runs

| Run | Checks | Shows |
|---|---|---|
| `history_safe` | `TypeOK`, `BackupRestorable`, `ColdBootKeepsBackup`, `SleepSyncsBackup`, `LossIsFlagged` | without torn flushes the backup is always one snapshot that a cold boot brings back whole, deep sleep leaves no unsynced event out of the backup (unless the host task is writing the next one), and an event disappears only by a flagged overflow |
| `history_faults` | `FlushPendingOwned`, `OnlyTornBackupBreaksOrder` | with every fault: while there is a storage worker `_flushPending` has somebody to lower it, whoever asked for the flush; the only way to a disordered ring is the restore of a torn backup |
| `delivery_safe` | `TypeOK`, `NoFalseSync`, `PendingOfThisConnection`, `ImplementsDelivery` | synced means received by the app, over losses, damage, repeats and reconnects |
| `delivery_live` | `EventuallySynced` | a subscribed app gets everything, also when the pending table has one slot and the device lost its history and numbers in a restart |
| `power_safe` | `TypeOK`, `NoStuckDeepSleep`, `Connectable`, `AwakeOnlyForActivity`, `NoiseIsBounded` | no interleaving leaves the device awake in DEEP_SLEEP or unreachable; only activity keeps it awake |
| `boot_safe` | `TypeOK`, `RestartsAreCounted`, `EraseOnlyAfterCrashes`, `FlasherOnlyWhenAsked`, `HangIsRepaired` | garbage in RTC memory is not taken for crashes, real panics are; a hanging NVS is erased by the third watchdog reset; quick restarts lead to the flasher across losses of power, and nothing else does |
| `flasher_safe` | `TypeOK`, `ChunksInSequence`, `UploadCanGoOn`, `WholeImage`, `UploadEnds` | repeated chunks are written once; from a reported success to the restart the partition holds the whole image; no upload lasts for ever, and a flasher left alone does not stay in READY |
| `settings_safe` | `CleanMeansSaved`, `DirtyIsScheduled`, `SleepSaves`, `AckedIsApplied` | no race between SET_CONFIG, write, timer and flush loses a setting, and an acknowledged one is in force although numbers wrap and messages repeat |
| `ota_safe` | `TypeOK`, `IdleMeansFree`, `AnswerNamesNext`, `CommittedIsWhole`, `TransferEnds` | no race with the timeout or with deep sleep commits part of an image or blocks the next transfer; answers lead a repeating app on; no app keeps a transfer open |
| `ble_safe` | `TypeOK`, `BondsOutliveSessions`, `PairingCloses`, `ConnectionSettles` | bonds in use are kept, pairing mode ends and every connection gets its security and parameters, with three exceptions that the code has (see Observations) |
| `delivery_stale_ack` | `NoFalseSync`, violated | see Findings |
| `flasher_stuck` | `StalledUploadRestarts`, violated | see Findings |

**Bounds.** Each is chosen so that the limit it stands for is reached.

* History: a ring of three slots (two events) overflows and wraps with three
  events; the threshold 2 makes a flush due before the ring is full and again;
  a queue of one command is full at once; two sessions give a boot after a boot.
  With all faults on, the ring of three slots holds both of two events, so a torn
  backup can bring them out of order, and 3 is the threshold, so that flushes come from
  connections, time syncs and fast-forwards and not from each event. There the write of
  the key `events` fails: the one whose old value under new indices is a torn backup.
  The proofs cover the other sizes and keys.
* Delivery: two slots, two sequence numbers and two detections, so that numbers
  wrap and are reused in one connection (in the code they do so after 65536
  frames), the table fills, the history holds both. One retry separates repeat
  from giving up. In the liveness run everything is one, the hardest case for
  progress.
* Power: two cancelled sleeps before a forced one: one below the limit, one at it.
* Boot: the thresholds of the firmware; counters and garbage run one beyond them, so
  that an emergency erase may fail and the next boot tries it again.
* Flasher: three chunks (a first, a middle, a last), two sessions, so that
  leftovers of one meet the next. Two chunks and one session for the stalled upload.
* Settings: one setting with two values, one later time than the default; one message
  on the link, so that a repeat follows a loss; five sequence numbers wrap within a
  few messages, and half of the space is more than a gap and a repeat. The second
  setting takes the same path; `ConfigProofs` covers both, and every number space.
* OTA: two chunks, a first and a last; an image that is good, one whose file is
  damaged, one that is refused.
* BLE: one phone, which may forget the device and come back; two sessions without
  keys until bonds are cleared (five in the code), so that a session with keys may
  come before, between and after them.

## 4. Fairness and deadlock

* `DeliveryProtocol!Fairness`: tasks finish the handler they are in; the loop
  task calls pump and retries in every turn, so a pump that can send again and
  again does. Messages arrive or are lost; strong fairness on delivery says that
  of infinitely many frames of the same event one is received, and one ACK comes
  back, while its frame is pending: the ACK timeout is some seconds, a round trip
  milliseconds. `EventuallySynced` assumes the connection stays.
* `PowerManager!Fairness`: tasks run on and timeouts end. Connections, messages,
  detections and new work of the services are not fair: the environment may do
  without them. What has been started (an update, a flush, pending frames, a
  detection) ends; each has a timeout in the code.
* `BootRecovery!FairSpec`: `setup` goes on, the watchdog ends a hang, and an erase
  that is tried again and again succeeds.
* `Flasher!FairSpec`: `run` goes on and time passes; the app may be silent.
* `OtaTransfer!Fairness`: both tasks go on, update is called again and again while a
  transfer is open, time passes. Nothing is assumed of the app or the link.
* `BleLink!Fairness`: callbacks end, a disconnection that was asked for is reported,
  the pairing window passes, and update, which is called in every turn of the loop,
  looks at each of its four conditions again and again. Phones, buttons and resets
  are not fair.

Deadlock is checked everywhere except for the flasher, which really ends: after
`ESP.restart` nothing more happens in that module.

## 5. Proofs

Eight modules, one per component, are checked by TLAPS. Their theorems hold for all
values of the constants that satisfy the component's assumption (`HistoryAssumption`,
`DeliveryAssumption`, `PowerAssumption`, `BootAssumption`, `FlasherAssumption`,
`ConfigAssumption` with `ProtocolAssumption`, `OtaAssumption`, `BleAssumption`), which
ask for no more than positive sizes, limits that fit their type and special values
that differ from the ordinary ones. Together they state every invariant and
every action property that a passing run checks; the runs check small instances, with
liveness, and the theorems all sizes.

| Module | Theorem | States | Hypothesis |
|---|---|---|---|
| `HistoryProofs` | `TypeCorrect` | `TypeOK`: among others, indices stay within the buffer | none |
| | `TornBackupOnly` | `OnlyTornBackupBreaksOrder` | none |
| | `OrderCorrect` | `RingOrdered` | `NoTearing` |
| | `BackupSafe` | `BackupRestorable` | `NoTearing` |
| | `FlushPendingCorrect` | `FlushPendingOwned` | none |
| | `SleepCorrect` | `SleepSyncsBackup` | `NoTearing` |
| | `LossCorrect` | `LossIsFlagged` | no fault `rtc_corrupt` |
| | `ColdBootCorrect` | `ColdBootKeepsBackup` | `BUFFER_SIZE <= 256` |
| `DeliveryProofs` | `TypeCorrect`, `PendingCorrect` | `TypeOK`, `PendingOfThisConnection` | none |
| | `SyncCorrect` | `NoFalseSync` | `Reliable` |
| | `DeliveryCorrect` | `ImplementsDelivery`: the protocol refines `ReliableDelivery` | `Reliable` |
| `PowerProofs` | `TypeCorrect`, `DeepSleepCorrect`, `ConnectableCorrect` | `TypeOK`, `NoStuckDeepSleep`, `Connectable` | none |
| `BootProofs` | `TypeCorrect`, `RestartsCorrect`, `EraseCorrect`, `FlasherCorrect` | `TypeOK`, `RestartsAreCounted`, `EraseOnlyAfterCrashes`, `FlasherOnlyWhenAsked` | none |
| `FlasherProofs` | `TypeCorrect`, `SequenceCorrect`, `UploadCorrect`, `SuccessCorrect` | `TypeOK`, `ChunksInSequence`, `UploadCanGoOn`, `WholeImage`; and that a restart for success, but for `stray`, is one into the whole image | none |
| `ConfigProofs` | `TypeCorrect`, `FlagCorrect`, `ScheduleCorrect`, `SleepCorrect` | `TypeOK`, `CleanMeansSaved`, `DirtyIsScheduled`, `SleepSaves` | none |
| | `ProtocolRefines` | `ProtocolSpec => Spec`: `SettingsProtocol` implements `ConfigService` | none |
| | `AckedCorrect` | `AckedIsApplied` | none |
| `OtaProofs` | `TypeCorrect`, `CommitCorrect`, `FreeCorrect`, `AnswerCorrect` | `TypeOK`, `CommittedIsWhole`, `IdleMeansFree`, `AnswerNamesNext` | none |
| `BleProofs` | `TypeCorrect`, `BondsCorrect` | `TypeOK`, `BondsOutliveSessions` | none |

**Hypotheses.** None is on the code; each names faults under which the code does not
keep the property, or a width.

* `NoTearing` excludes a reset during a flush, overlapping flushes and failing
  writes: exactly the ways to tear a backup, and the code has no defence against them
  (see Observations).
* `Reliable` excludes `stale_ack`, whose effect the run `delivery_stale_ack` shows,
  `slow_loop` (a frame of the last connection goes out in this one) and a device that
  lost its history and numbers its detections anew (`cold_boot`). Loss, repetition and
  damage of frames remain.
* `rtc_corrupt` is a wrong checksum of the ring after deep sleep: `init` then takes
  the backup instead, and newer events are gone with no flag.
* `BUFFER_SIZE <= 256`: `restoreFromNvs` returns the number of events as a `uint8_t`,
  and `init` takes 0 for "no backup". The firmware has 50 slots.

**History.** Order needs the arithmetic of the ring: `OrderedLogged` shows that an
append, with or without dropping the oldest, keeps the live events ordered by their
offset from the tail, and `OrderedRestore` that a restored intact backup is ordered.
From both, `OrderedStep` gives `TornBackupOnly` with `TypeOK` alone. For the backup,
`RingOrdered /\ BackupRestorable` is not inductive: while a task writes, the keys of two
snapshots are mixed. `BackupInv` adds `FlushInProgress`: one task writes at a time
(`SingleWriter`), the keys before its current one hold its snapshot, which is ordered
(`SnapshotWritten`), and nobody who is about to write or to delete the worker cuts
another off (`NoFlushCutOff`). `FlushPendingOwned` is inductive with `TypeOK`, under
every fault: whoever finds the queue full is an owner until it takes the flag back, and
what deletes the worker ends the claim. For the sleep, `FinalSynced` follows the
snapshot of the final sync: it covers the ring but for newer events, and once it is
written the backup covers it, or the snapshot that the host task is writing over it. The
step from "ordered" to "covers" uses that between two resets an event in the ring was
there before or has a new number (`NewIsNumbered`).

**Delivery.** `PendingInv` needs to know that a subscription lies between the two
cleanups of the pending table (`ConnectionInv`), since the pump fills the table of
whoever is subscribed. `NoFalseSync` needs three things. The id by which the code
knows an event is the detection's own (`NameInv`). Nothing of an earlier connection
is under way (`FreshInv`). And a sequence number, which wraps, stands for one
detection among all frames that are pending, in flight or about to be repeated, so
that an ACK that meets one of them is for a detection the app has stored (`AckInv`).
The refinement then follows action by action; the one that is not immediate is a
detection that overwrites the oldest (`DetectRefines`).

**Power.** An aborted deep sleep has to leave DEEP_SLEEP, and no other task may enter
it: `NoStuckDeepSleep` is inductive with `TypeOK`. `Connectable` is not, since at
rest it speaks only of an idle host task; `AdvertisingInv` follows the host task from
the end of a connection to the advertising, and the loop task, which stops the worker
first.

**Boot.** `CrashInv` compares the counter of crashes with the real crashes, from the
moment it was cleared after a loss of power, and accounts for the crash that the
next check will count. `StabilityInv` and `CountInv` follow the counter of quick
restarts through NVS, the tracker and RTC memory: no place ever holds a count that
should have led into the flasher.

**Flasher.** `TurnInv` says what a request may leave for the rest of the turn, and that
a pending restart, but for `stray`, stands on a whole image; the step that restarts
follows from it. `WholeImage` needs it, too. `UploadCanGoOn` needs more:
`UploadInv` ties the partition, the queued chunk, the last counted chunk and the
app's next chunk together. `ChunksInSequence` alone is not inductive: the handler
accepts any index above the last one, and it is the app's place in the image that
makes it the next.

**Settings.** `FlagInv`, the conjunction of the three properties, is inductive
relative to `TypeOK`. `SleepSaves` needs `CleanMeansSaved` for a flush that finds
the flag down, and `DirtyIsScheduled` needs `failed` for a write that nobody repeats.
`ProtocolRefines` carries these over to the composition. `AckedIsApplied` rests on
the arithmetic of the `int16_t` comparison: `WindowInv` says that all numbers in use,
on the link and in the device, lie within less than half of the number space, in the
order of sending; then `StaleIsSeen` shows that the comparison takes for
seen exactly the last number handled, although numbers wrap. `AppliedInv` says what a
message that is handled, fresh, acknowledged or repeated means for the settings.

**OTA.** `CrcInv` says that the running CRC covers what the library has, but for one
chunk that is written and not counted yet; it holds in every interleaving with the
abort of the loop task, also after a race. So the CRC that `handleCommit` compares is
of what was written (`CommitInv`). `FreeInv` follows the library through the three
steps of an abort, `AnswerInv` the messages of the app's present phase.

**BLE.** `GhostInv` bounds the counter of orphaned bonds by the sleeps of sessions
without keys plus one, the sleep of the session that proved them. It needs that such
a session begins its sleep with the counter at zero, hence `ConnectedInv` and `OffInv`.

**Only model-checked.** Liveness, which is beyond this prover: `EventuallySynced`,
`AwakeOnlyForActivity`, `NoiseIsBounded`, `HangIsRepaired`, `UploadEnds`,
`TransferEnds`, `PairingCloses`, `ConnectionSettles`. The two runs that expect a
violation need no proof: their counterexamples are complete. The inductive
invariants were checked with TLC, on instances larger than those of the runs where
these were too small for them, before they were proved.

## 6. Findings and observations

Two runs are expected to find a violation.

* `delivery_stale_ack`. `docs/failure-modes.md:171` says that ACKs of an old
  connection "don't match any `pendingMessages` in the new session". Sequence
  numbers start at 0 in every connection (`ProtocolHandler.cpp:1074`), so they can:
  an event that the app never got is then marked as synced.
* `flasher_stuck`. `docs/ota-recovery.md:99` and `:101` say that a stalled upload and a
  failed write end in "Abort Flasher Mode, Reboot". The watchdog calls `setErrorState`
  (`FlasherService.cpp:208`), which sets the phase ERROR and nothing else, and the idle
  timeout (1053) asks for READY: without a further request the device stays in flasher
  mode.

Met while modelling, and left to the maintainers:

* *History.* A reset between the puts of a flush leaves a backup of two snapshots
  (`HistoryService.cpp:614`), where `docs/storage-integrity.md:272` speaks of atomic
  transactions; the restore has no checksum over the keys. The host task flushes
  directly after a fast-forward (1174), so there are two writers, unlike
  `docs/task-model.md:278`. The persisted id is dropped when the backup's ring is empty
  (101), against `docs/storage-integrity.md:286`, and ids then start anew: the app takes
  new events for known ones. `success &= putULong(...)` (613-617) mixes byte counts, so
  the flush reports failure although it wrote. The same direct flush, which the host
  task makes once the worker is stopped, may be in the middle when the device goes to
  sleep: the backup then has the new head and the old tail, and the final sync before it
  is undone. `SleepSyncsBackup` excludes it by `Writing("host")`. After an aborted deep
  sleep no worker serves the queue, so a flush that is asked for then leaves
  `_flushPending` up: no further backup, and `PowerManager::update`
  (`PowerManager.cpp:900`) takes a device in ACTIVE for busy. `FlushPendingOwned`
  excludes it by `workerAlive`.
* *Power.* An aborted deep sleep leaves the storage worker and advertising stopped
  (`PowerManager.cpp:817-848`), which `Connectable` excludes by `worker`. An update that
  starts after `canSafelyEnterSleep` (649) is cut off: nobody looks again. That function
  does not ask whether a flush is on, where `docs/power-state-machine.md:232` and `:251`
  say that it does. A connected device resets its count of cancelled sleeps on the way
  back to ACTIVE (221), so there noise may keep it awake (`CancelledWhileConnected`).
* *Boot.* The emergency erase also erases the counter of quick restarts
  (`main.cpp:717`); `RestartsAreCounted` therefore holds only while NVS was not erased.
  When power is lost after an image was committed, the crash check returns early for
  the pending image (`main.cpp:662`) and keeps the garbage of the crash counter;
  after a rollback one crash may then trigger the emergency erase.
  `EraseOnlyAfterCrashes` excludes it by `unchecked`.
* *Flasher.* A POST to `/update` that brings no image reports success and restarts
  (`FlasherService.cpp:675-687`): nobody checks that an upload ran. A streaming upload
  that fails while a restart for success is pending leaves part of an image, and the
  restart comes all the same. `WholeImage` excludes both by `stray`. An `/abort` between
  the final commit and the next turn replaces the pending reboot.
  `docs/architecture.md:290` has the app poll `/status` until RECEIVING;
  `flasherPhaseToString` (107) has no case for that phase and answers "UNKNOWN".
* *Settings.* A failed write is not repeated before the next change
  (`ConfigService.cpp:244`). A setting changed after the flush of `enterDeepSleep`
  is acknowledged and lost. `_lastConfigSeqNum` outlives the connection, so an app
  that starts to count anew gets ACKs for settings that are dropped
  (`ProtocolHandler.cpp:591`, `docs/ble-protocol.md:342`).
  `updateLastKnownEpoch` compares outside the mutex (522), and of two tasks the older
  time may win.
* *OTA.* A START that is accepted while the loop task is in the middle of
  `handleAbort` leaves the Update library running in state IDLE (`OTAManager.cpp:501`),
  and every START fails until a reboot; `IdleMeansFree` excludes it by `raced`. The
  difference of `checkTimeout` (547) is unsigned, so a chunk that is counted between
  the two operands aborts a healthy transfer. After a failed commit (state FAILED)
  only ABORT or a reboot helps, and after a failed write the transfer stays open until
  its timeout. Deep sleep is refused in RECEIVING only (`OTAManager.h:127`), and
  asked for once; a transfer may be cut off, but half an image never boots.
* *BLE.* The counter of orphaned bonds also counts a session that proved its keys
  (`BLEManager.cpp:751`), where `docs/failure-modes.md:125` speaks of cycles without
  one, so four failed sessions after it suffice; and an authentication that completes
  within the increment does not clear it. A boot window that ends without a bond
  leaves the pairing mode on with no start time (`BLEManager.cpp:664`): it stays on
  after the first bond, where the log in line 658 says "until first bond", and
  `HistoryService::flushToNvs` (572) then writes no backup. An update that looked at a
  connection which ends before it acts (677, 691, 698) marks the next one as done: that
  one gets no parameters, or no help from the security watchdog.
  `enablePairingMode` sets the flag before the time (519), so an update in between
  may end it at once by the time of an earlier window.
* *Delivery.* `processRetries` leaves the mutex before it notifies. If a whole
  reconnect with subscription fits in between, a frame of the old connection goes
  out in the new one; the fault `slow_loop` turns that on, the runs leave it off.

## 7. What is not modelled

Formatting, checksums and frame layout (a frame is intact or damaged); logging; LED,
pins and clocks; the sensor's registers and the neural network (numeric, and partly
removed from the published source); `tools/` (offline scripts); read-only messages and
statistics; mutex timeouts, which the code logs and passes over; `factoryReset` of the
settings, which nobody calls. Three outcomes are left out or joined: an authentication
that ends bonded but not encrypted (`BLEManager.cpp:76-87`), which asks for the
connection parameters but leaves the counter of orphaned bonds; the two writes before
the restart into the flasher, of which the first alone has the next boot go on to it,
too; and of the history's events the timestamps, so `applyTimeSync` is its request for a
flush. The model makes that request in the host task, where the app's time arrives; the
second caller, a time from NTP in the loop task, cannot be reached in this version.
TimeService and WifiService cannot be reached in this version: `evaluateBootSyncPolicy`
returns at once, and `handleSetWifi` acknowledges credentials without storing them.
DataLoggerService is started from the serial console of development builds only and may
lose samples by design. PersonalizationService is numeric and partly removed. The GATT
tables, the radio's settings and the OTA information message of BLEManager and
OTAManager have no state of their own.

## 8. Plan

In order of importance to the system:

1. History, with its proofs; delivery and its refinement. *Done.*
2. Power states, boot, flasher, settings. *Done.*
3. The transfer over BLE (`OtaTransfer`) and the link with its bonds and pairing mode
   (`BleLink`). *Done.*
4. Proofs of all safety properties and of both refinements. *Done.*
5. Next: what the theorems with an exception say of the excluded case. For example,
   that a torn backup still restores only events that were logged, and that a false
   sync needs an ACK of an earlier connection.

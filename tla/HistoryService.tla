--------------------------- MODULE HistoryService ---------------------------
(***************************************************************************)
(* The event history of the firmware (src/src/Services/HistoryService.cpp):*)
(* a ring of detection events in RTC memory, its backup in NVS flash, the  *)
(* storage queue with its worker task, and the resets after which one of   *)
(* the two copies has to stand in for the other.                           *)
(*                                                                         *)
(* Four tasks act on it: the sensor task (logDetection), the NimBLE host   *)
(* task (markAsSynced, fastForwardEventId, applyTimeSync, setBleConnected),*)
(* the storage worker, and the loop task, which stops the worker and syncs *)
(* before deep sleep.  A section under _stateMutex is one step; everything *)
(* the code does outside of the mutex is a step of its own.                *)
(***************************************************************************)
EXTENDS Integers, Sequences, FiniteSets

CONSTANTS
  BUFFER_SIZE,          \* slots of the ring (50 in the firmware)
  NVS_FLUSH_THRESHOLD,  \* events after which a backup is due (50)
  STORAGE_QUEUE_DEPTH,  \* capacity of the storage queue
  MaxEventId,           \* bound: no event id above this one is issued
  MaxBootCount,         \* bound: no session after this one is started
  StackGarbage,         \* what an event read from uninitialized stack may be
  FailingKeys,          \* the NVS keys whose writes may fail
  Faults                \* which of AllFaults this instance lets happen

AllFaults ==
  { "power_cut",    \* power or a reset may strike while a flush is writing
    "overlap",      \* a task may start a flush while another is flushing
    "put_fails",    \* opening NVS, or a write of one of FailingKeys, may fail
    "rtc_corrupt",  \* the ring's CRC may be wrong after deep sleep
    "sleep_abort" } \* enterDeepSleep may return instead of sleeping

\* The keys of the backup, in the order in which flushToNvs writes them.
NvsKeys == {"bootCnt", "eventId", "head", "tail", "events"}

\* What the history tells apart of a DetectionEvent.
Event == [id : Nat, synced : BOOLEAN, overflow : BOOLEAN]

ASSUME HistoryAssumption ==
  /\ BUFFER_SIZE \in Nat /\ BUFFER_SIZE >= 2
  /\ NVS_FLUSH_THRESHOLD \in 1 .. 255
  /\ STORAGE_QUEUE_DEPTH \in Nat \ {0}
  /\ MaxEventId \in Nat
  /\ MaxBootCount \in Nat
  /\ StackGarbage \subseteq Event /\ StackGarbage # {}
  /\ FailingKeys \subseteq NvsKeys
  /\ Faults \subseteq AllFaults

VARIABLES
  rtc,              \* _state: the ring in RTC memory
  nvs,              \* the keys of NVS namespace "devicedata"
  queue,            \* _storageQueue
  workerRunning,    \* _storageWorkerRunning
  workerAlive,      \* _storageTaskHandle # nullptr
  flush,            \* per task: its call of flushToNvs
  sensor,           \* program counter of logDetection
  host,             \* program counter of the NimBLE host task
  loop,             \* program counter of enterDeepSleep
  flushPending,     \* _flushPending
  eventsSinceFlush, \* _eventsSinceFlush, a uint8_t
  bleConnected      \* _bleConnected

ram == <<queue, workerRunning, workerAlive, flush, sensor, host, loop,
         flushPending, eventsSinceFlush, bleConnected>>
vars == <<rtc, nvs, ram>>

-----------------------------------------------------------------------------
(* Data *)

Slots == 0 .. BUFFER_SIZE - 1

NoEvent == [id |-> 0, synced |-> FALSE, overflow |-> FALSE]

RTCState == [bootCount : Nat, globalEventId : Nat,
             head : Slots, tail : Slots, buffer : [Slots -> Event]]

Snapshot == [bootCnt : Nat, eventId : Nat,
             head : Slots, tail : Slots, events : [Slots -> Event]]

\* A key that was never written reads as its default; keys says which exist.
NvsState == [bootCnt : Nat, eventId : Nat, head : Slots, tail : Slots,
             events : [Slots -> Event], keys : SUBSET NvsKeys]

StorageCmd == {"SAVE_HIT", "FORCE_FLUSH"}

\* The tasks that can be inside flushToNvs.
Flushers == {"worker", "loop", "host"}

\* Where a task can be inside flushToNvs or, for the worker, before it.
FlushPc == {"idle", "waiting", "start", "returned", "refused"}
             \cup StorageCmd \cup NvsKeys

FlushRecord == [pc : FlushPc, snap : Snapshot, success : BOOLEAN]

EmptyBuffer == [s \in Slots |-> NoEvent]

\* resetState: an empty ring, after which init numbers the session 1.
FreshState == [bootCount |-> 1, globalEventId |-> 0, head |-> 0, tail |-> 0,
               buffer |-> EmptyBuffer]

NoSnapshot == [bootCnt |-> 0, eventId |-> 0, head |-> 0, tail |-> 0,
               events |-> EmptyBuffer]

NotFlushing == [pc |-> "idle", snap |-> NoSnapshot, success |-> FALSE]

-----------------------------------------------------------------------------
(* The ring *)

\* Mutant: the index does not wrap.
NextIndex_NoWrap(i) == i + 1

NextIndex(i) == IF i = BUFFER_SIZE - 1 THEN 0 ELSE i + 1

\* How far slot s is behind the tail t.
Offset(s, t) == IF s >= t THEN s - t ELSE s - t + BUFFER_SIZE

getEventCount(head, tail) ==
  IF head >= tail THEN head - tail ELSE BUFFER_SIZE - tail + head

\* The slots that the loops from tail to head visit.
Live(head, tail) ==
  {s \in Slots : Offset(s, tail) < getEventCount(head, tail)}

LiveEvents(r) == {r.buffer[s] : s \in Live(r.head, r.tail)}

\* Mutant: one synced event hides the unsynced ones.
hasPendingData_AllUnsynced ==
  LiveEvents(rtc) # {} /\ \A e \in LiveEvents(rtc) : ~e.synced

hasPendingData == \E e \in LiveEvents(rtc) : ~e.synced

CRITICAL_FLUSH_THRESHOLD == (BUFFER_SIZE * 9) \div 10

isCriticallyFull ==
  getEventCount(rtc.head, rtc.tail) >= CRITICAL_FLUSH_THRESHOLD

needsNvsFlush == eventsSinceFlush >= NVS_FLUSH_THRESHOLD

-----------------------------------------------------------------------------
(* queueStorageCommand never waits: a full queue drops the command. *)

QueueFull == Len(queue) >= STORAGE_QUEUE_DEPTH

\* A task that found _flushPending down raises it, queues SAVE_HIT, and takes the
\* flag back if that fails.  It does each without a lock, so that meanwhile another
\* task may raise the flag too, or the worker lower it.
RequestSave(from, to) ==
  \/ /\ from = "request" /\ to = "raised"
     /\ flushPending' = TRUE
     /\ UNCHANGED queue
  \/ /\ from = "raised" /\ to = "idle" /\ ~QueueFull
     /\ queue' = Append(queue, "SAVE_HIT")
     /\ UNCHANGED flushPending
  \/ /\ from = "raised" /\ to = "full" /\ QueueFull
     /\ UNCHANGED <<queue, flushPending>>
  \/ /\ from = "full" /\ to = "idle"
     /\ flushPending' = FALSE
     /\ UNCHANGED queue

\* Where a task is after a step of its request.
AfterRequest == {"raised", "full", "idle"}

-----------------------------------------------------------------------------
(* Sensor task: logDetection *)

\* Mutant: nobody looks whether the ring is full.
Overflows_Never(r) == FALSE

Overflows(r) == NextIndex(r.head) = r.tail

\* A full ring gives up its oldest event; the new event takes the next id.
Logged(r) ==
  LET next == NextIndex(r.head)
      overflow == Overflows(r)
  IN  [bootCount |-> r.bootCount,
       globalEventId |-> r.globalEventId + 1,
       head |-> next,
       tail |-> IF overflow THEN NextIndex(r.tail) ELSE r.tail,
       buffer |-> [r.buffer EXCEPT ![r.head] =
                     [id |-> r.globalEventId + 1, synced |-> FALSE,
                      overflow |-> overflow]]]

\* The section under the mutex; the counter wraps like the uint8_t it is.
LogDetection ==
  /\ sensor = "idle"
  /\ rtc.globalEventId < MaxEventId
  /\ rtc' = Logged(rtc)
  /\ eventsSinceFlush' = (eventsSinceFlush + 1) % 256
  /\ sensor' = IF (eventsSinceFlush + 1) % 256 >= NVS_FLUSH_THRESHOLD
               THEN "logged_due" ELSE "logged"
  /\ UNCHANGED <<nvs, queue, workerRunning, workerAlive, flush, host, loop,
                 flushPending, bleConnected>>

\* After the mutex: read the fill level, the connection and _flushPending.
DecideFlush ==
  /\ sensor \in {"logged", "logged_due"}
  /\ sensor' = IF /\ isCriticallyFull \/ (sensor = "logged_due" /\ ~bleConnected)
                  /\ ~flushPending
               THEN "request" ELSE "idle"
  /\ UNCHANGED <<rtc, nvs, queue, workerRunning, workerAlive, flush, host, loop,
                 flushPending, eventsSinceFlush, bleConnected>>

RequestFlush ==
  /\ \E to \in AfterRequest : RequestSave(sensor, to) /\ sensor' = to
  /\ UNCHANGED <<rtc, nvs, workerRunning, workerAlive, flush, host, loop,
                 eventsSinceFlush, bleConnected>>

-----------------------------------------------------------------------------
(* NimBLE host task: it handles the app's messages while there is a connection *)

Synced(e) == [id |-> e.id, synced |-> TRUE, overflow |-> e.overflow]

\* markAsSynced marks the first event with this id, counted from the tail.
markAsSynced(id) ==
  /\ host = "idle" /\ bleConnected
  /\ LET hits == {s \in Live(rtc.head, rtc.tail) : rtc.buffer[s].id = id}
     IN  \E s \in hits :
           /\ \A t \in hits : Offset(s, rtc.tail) <= Offset(t, rtc.tail)
           /\ rtc' = [rtc EXCEPT !.buffer[s] = Synced(rtc.buffer[s])]
  /\ UNCHANGED <<nvs, ram>>

\* setBleConnected(true)
BleConnect ==
  /\ host = "idle" /\ ~bleConnected
  /\ bleConnected' = TRUE
  /\ UNCHANGED <<rtc, nvs, queue, workerRunning, workerAlive, flush, sensor,
                 host, loop, flushPending, eventsSinceFlush>>

\* setBleConnected(false): a backup held back by the connection is due now.
BleDisconnect ==
  /\ host = "idle" /\ bleConnected
  /\ bleConnected' = FALSE
  /\ host' = IF needsNvsFlush /\ ~flushPending THEN "request" ELSE "idle"
  /\ UNCHANGED <<rtc, nvs, queue, workerRunning, workerAlive, flush, sensor,
                 loop, flushPending, eventsSinceFlush>>

\* applyTimeSync, after a TIME_SYNC of the app: it fills in the timestamps of the
\* events of this session that have none, and if there was one, asks for a backup.
\* Timestamps are not modelled, so that any ring with an event may have one.  The
\* request is made before the mutex is given back; that the other tasks may take it
\* in between only adds what they may also do during the request of BleDisconnect.
applyTimeSync ==
  /\ host = "idle" /\ bleConnected /\ LiveEvents(rtc) # {}
  /\ workerRunning /\ ~flushPending
  /\ host' = "request"
  /\ UNCHANGED <<rtc, nvs, queue, workerRunning, workerAlive, flush, sensor, loop,
                 flushPending, eventsSinceFlush, bleConnected>>

RequestHostFlush ==
  /\ \E to \in AfterRequest : RequestSave(host, to) /\ host' = to
  /\ UNCHANGED <<rtc, nvs, workerRunning, workerAlive, flush, sensor, loop,
                 eventsSinceFlush, bleConnected>>

\* Mutant: the counter follows the app in both directions.
AppIsAhead_OrBehind(newId) == newId # rtc.globalEventId

AppIsAhead(newId) == newId > rtc.globalEventId

\* fastForwardEventId under the mutex: the app has seen a higher id.
fastForwardEventId(newId) ==
  /\ host = "idle" /\ bleConnected
  /\ AppIsAhead(newId)
  /\ rtc' = [rtc EXCEPT !.globalEventId = newId]
  /\ eventsSinceFlush' = NVS_FLUSH_THRESHOLD
  /\ host' = "persist"
  /\ UNCHANGED <<nvs, queue, workerRunning, workerAlive, flush, sensor, loop,
                 flushPending, bleConnected>>

\* ... and after it: the worker persists the id, or else the host task does.
PersistFastForward ==
  /\ host = "persist"
  /\ IF workerRunning /\ ~QueueFull
     THEN /\ queue' = Append(queue, "FORCE_FLUSH")
          /\ host' = "idle"
          /\ UNCHANGED flush
     ELSE /\ host' = "flushing"
          /\ flush' = [flush EXCEPT !["host"].pc = "start"]
          /\ UNCHANGED queue
  /\ UNCHANGED <<rtc, nvs, workerRunning, workerAlive, sensor, loop,
                 flushPending, eventsSinceFlush, bleConnected>>

-----------------------------------------------------------------------------
(* flushToNvs, run by the worker, by the loop task or by the host task *)

Writing(f) == flush[f].pc \in NvsKeys

\* Unless overlaps are allowed, a flush begins when no other is writing.
MayOverlap(f) == "overlap" \in Faults \/ \A g \in Flushers \ {f} : ~Writing(g)

TakeSnapshot == [bootCnt |-> rtc.bootCount, eventId |-> rtc.globalEventId,
                 head |-> rtc.head, tail |-> rtc.tail, events |-> rtc.buffer]

\* The early returns, which depend on the battery, the charger and the pairing mode
\* at that moment, or the snapshot under the mutex.  The counter is reset here,
\* before anything is written; prefs.begin may then still fail.
BeginFlush(f) ==
  /\ flush[f].pc = "start"
  /\ MayOverlap(f)
  /\ \/ /\ flush' = [flush EXCEPT ![f].pc = "refused"]
        /\ UNCHANGED eventsSinceFlush
     \/ /\ flush' = [flush EXCEPT ![f] = [pc |-> "bootCnt", success |-> TRUE,
                                           snap |-> TakeSnapshot]]
        /\ eventsSinceFlush' = 0
     \/ /\ "put_fails" \in Faults
        /\ flush' = [flush EXCEPT ![f].pc = "refused"]
        /\ eventsSinceFlush' = 0
  /\ UNCHANGED <<rtc, nvs, queue, workerRunning, workerAlive, sensor, host, loop,
                 flushPending, bleConnected>>

\* Mutant: a flush ends before the events are written.
KeyAfter_SkipsEvents == [bootCnt |-> "eventId", eventId |-> "head", head |-> "tail",
                         tail |-> "returned", events |-> "returned"]

KeyAfter == [bootCnt |-> "eventId", eventId |-> "head", head |-> "tail",
             tail |-> "events", events |-> "returned"]

\* Bytes that the put of a key reports when it succeeds; 0 when it fails.
PutSize == [bootCnt |-> 4, eventId |-> 4, head |-> 2, tail |-> 2]

\* `success &= bytes` on a bool keeps only the lowest bit of bytes.
AndBytes(success, bytes) == success /\ bytes % 2 = 1

ValueOf(f, key) == flush[f].snap[key]

Put(n, key, value) == [n EXCEPT ![key] = value, !.keys = n.keys \cup {key}]

MayFail(key) == "put_fails" \in Faults /\ key \in FailingKeys

\* One put.  The code goes on to the next key whatever this one reports; the
\* blob is tried three times and reports failure only when all three fail.
PutKey(f) ==
  LET key == flush[f].pc IN
  /\ Writing(f)
  /\ \E ok \in IF MayFail(key) THEN BOOLEAN ELSE {TRUE} :
       /\ nvs' = IF ok THEN Put(nvs, key, ValueOf(f, key)) ELSE nvs
       /\ flush' = [flush EXCEPT ![f] =
            [pc |-> KeyAfter[key], snap |-> flush[f].snap,
             success |-> IF key = "events" THEN flush[f].success /\ ok
                         ELSE AndBytes(flush[f].success,
                                       IF ok THEN PutSize[key] ELSE 0)]]
  /\ UNCHANGED <<rtc, queue, workerRunning, workerAlive, sensor, host, loop,
                 flushPending, eventsSinceFlush, bleConnected>>

FlushReturned(f) == flush[f].pc \in {"returned", "refused"}

\* The host task goes on after the flush of fastForwardEventId.
HostFlushReturns ==
  /\ host = "flushing" /\ FlushReturned("host")
  /\ host' = "idle"
  /\ flush' = [flush EXCEPT !["host"] = NotFlushing]
  /\ UNCHANGED <<rtc, nvs, queue, workerRunning, workerAlive, sensor, loop,
                 flushPending, eventsSinceFlush, bleConnected>>

-----------------------------------------------------------------------------
(* storageWorker *)

\* The top of the loop: only a running worker waits for a command.
WorkerWait ==
  /\ workerAlive /\ workerRunning
  /\ flush["worker"].pc = "idle"
  /\ flush' = [flush EXCEPT !["worker"].pc = "waiting"]
  /\ UNCHANGED <<rtc, nvs, queue, workerRunning, workerAlive, sensor, host, loop,
                 flushPending, eventsSinceFlush, bleConnected>>

\* xQueueReceive gives up after a second with an empty queue.
WorkerTimeout ==
  /\ workerAlive
  /\ flush["worker"].pc = "waiting" /\ queue = <<>>
  /\ flush' = [flush EXCEPT !["worker"].pc = "idle"]
  /\ UNCHANGED <<rtc, nvs, queue, workerRunning, workerAlive, sensor, host, loop,
                 flushPending, eventsSinceFlush, bleConnected>>

WorkerReceive ==
  /\ workerAlive
  /\ flush["worker"].pc = "waiting" /\ queue # <<>>
  /\ flush' = [flush EXCEPT !["worker"].pc = Head(queue)]
  /\ queue' = Tail(queue)
  /\ UNCHANGED <<rtc, nvs, workerRunning, workerAlive, sensor, host, loop,
                 flushPending, eventsSinceFlush, bleConnected>>

\* Mutant: the command is dropped.
PutBack_Drops(cmd) == queue

PutBack(cmd) == IF QueueFull THEN queue ELSE <<cmd>> \o queue

\* A worker told to stop meanwhile puts the command back, if it still fits.
WorkerCheckRunning ==
  /\ workerAlive
  /\ flush["worker"].pc \in StorageCmd
  /\ IF workerRunning
     THEN /\ flush' = [flush EXCEPT !["worker"].pc = "start"]
          /\ UNCHANGED queue
     ELSE /\ flush' = [flush EXCEPT !["worker"].pc = "idle"]
          /\ queue' = PutBack(flush["worker"].pc)
  /\ UNCHANGED <<rtc, nvs, workerRunning, workerAlive, sensor, host, loop,
                 flushPending, eventsSinceFlush, bleConnected>>

LoweredBy(f) == flushPending' = FALSE

\* processStorageCommand lowers _flushPending whatever flushToNvs returned.
WorkerDone ==
  /\ workerAlive
  /\ FlushReturned("worker")
  /\ flush' = [flush EXCEPT !["worker"] = NotFlushing]
  /\ LoweredBy("worker")
  /\ UNCHANGED <<rtc, nvs, queue, workerRunning, workerAlive, sensor, host, loop,
                 eventsSinceFlush, bleConnected>>

-----------------------------------------------------------------------------
(* Loop task: the history's part of PowerManager::enterDeepSleep *)

\* The worker shares the loop task's core at a higher priority, so the loop
\* task runs only while the worker is blocked: it waits on an empty queue, it
\* sleeps at the top of its loop, or it is inside flushToNvs.
WorkerReady ==
  \/ flush["worker"].pc \in StorageCmd
  \/ flush["worker"].pc = "waiting" /\ queue # <<>>

\* stopStorageWorker returns at once when there is no worker.
StopStorageWorker ==
  /\ loop = "awake"
  /\ loop' = IF workerRunning \/ workerAlive THEN "grace" ELSE "sync"
  /\ workerRunning' = FALSE
  /\ UNCHANGED <<rtc, nvs, queue, workerAlive, flush, sensor, host,
                 flushPending, eventsSinceFlush, bleConnected>>

\* The 200 ms are enough for the flush in progress, unless overlaps are
\* allowed: then the worker may still be inside flushToNvs.
GraceOver ==
  /\ loop = "grace" /\ ~WorkerReady
  /\ "overlap" \in Faults \/ flush["worker"].pc \in {"idle", "waiting"}
  /\ loop' = "drain"
  /\ UNCHANGED <<rtc, nvs, queue, workerRunning, workerAlive, flush, sensor,
                 host, flushPending, eventsSinceFlush, bleConnected>>

\* The loop task processes what is left in the queue itself.
DrainCommand ==
  /\ loop = "drain" /\ queue # <<>> /\ ~WorkerReady
  /\ queue' = Tail(queue)
  /\ flush' = [flush EXCEPT !["loop"].pc = "start"]
  /\ loop' = "draining"
  /\ UNCHANGED <<rtc, nvs, workerRunning, workerAlive, sensor, host,
                 flushPending, eventsSinceFlush, bleConnected>>

DrainedCommand ==
  /\ loop = "draining" /\ FlushReturned("loop")
  /\ LoweredBy("loop")
  /\ flush' = [flush EXCEPT !["loop"] = NotFlushing]
  /\ loop' = "drain"
  /\ UNCHANGED <<rtc, nvs, queue, workerRunning, workerAlive, sensor, host,
                 eventsSinceFlush, bleConnected>>

\* vTaskDelete ends the worker wherever it is.
DeleteWorker ==
  /\ loop = "drain" /\ queue = <<>> /\ ~WorkerReady
  /\ workerAlive' = FALSE
  /\ flush' = [flush EXCEPT !["worker"] = NotFlushing]
  /\ loop' = "sync"
  /\ UNCHANGED <<rtc, nvs, queue, workerRunning, sensor, host,
                 flushPending, eventsSinceFlush, bleConnected>>

\* forceNvsSync, when an event is still unsynced.
FinalSync ==
  /\ loop = "sync"
  /\ IF hasPendingData
     THEN /\ loop' = "syncing"
          /\ flush' = [flush EXCEPT !["loop"].pc = "start"]
     ELSE /\ loop' = "ready"
          /\ UNCHANGED flush
  /\ UNCHANGED <<rtc, nvs, queue, workerRunning, workerAlive, sensor, host,
                 flushPending, eventsSinceFlush, bleConnected>>

FinalSyncDone ==
  /\ loop = "syncing" /\ FlushReturned("loop")
  /\ flush' = [flush EXCEPT !["loop"] = NotFlushing]
  /\ loop' = "ready"
  /\ UNCHANGED <<rtc, nvs, queue, workerRunning, workerAlive, sensor, host,
                 flushPending, eventsSinceFlush, bleConnected>>

\* The sensor is active after all: enterDeepSleep returns and the device stays
\* awake.  Nothing starts the worker again.
SleepAborted ==
  /\ loop = "ready" /\ "sleep_abort" \in Faults
  /\ loop' = "awake"
  /\ UNCHANGED <<rtc, nvs, queue, workerRunning, workerAlive, flush, sensor,
                 host, flushPending, eventsSinceFlush, bleConnected>>

-----------------------------------------------------------------------------
(* Resets, each followed by HistoryService::init *)

\* Unless power cuts are allowed, no reset strikes while a key is written.
MayReset == "power_cut" \in Faults \/ \A f \in Flushers : ~Writing(f)

\* The members that the constructor and init set; the worker is started.
InitRam ==
  /\ queue' = <<>>
  /\ workerRunning' = TRUE /\ workerAlive' = TRUE
  /\ flush' = [f \in Flushers |-> NotFlushing]
  /\ sensor' = "idle" /\ host' = "idle" /\ loop' = "awake"
  /\ flushPending' = FALSE /\ eventsSinceFlush' = 0 /\ bleConnected' = FALSE

\* The RTC state that the backup describes.
AsRing(b) == [bootCount |-> b.bootCnt, globalEventId |-> b.eventId,
              head |-> b.head, tail |-> b.tail, buffer |-> b.events]

\* A blob that was never written leaves the stack buffer uninitialized.
StackBuffers == [Slots -> StackGarbage]

\* Mutant: a ring that has wrapped counts as empty.
restoredCount_NoWrap ==
  IF nvs.head >= nvs.tail THEN nvs.head - nvs.tail ELSE 0

\* What restoreFromNvs returns, a uint8_t.
restoredCount == getEventCount(nvs.head, nvs.tail) % 256

\* restoreFromNvs, and what init makes of the number it returns.
Restore ==
  \/ /\ \/ "eventId" \notin nvs.keys
        \/ restoredCount = 0
     /\ rtc' = FreshState
  \/ /\ "eventId" \in nvs.keys
     /\ restoredCount > 0
     /\ nvs.bootCnt < MaxBootCount
     /\ \E buffer \in IF "events" \in nvs.keys THEN {nvs.events} ELSE StackBuffers :
          rtc' = [AsRing(nvs) EXCEPT !.bootCount = nvs.bootCnt + 1, !.buffer = buffer]

\* Power-on, brownout, and every reset that reloads RTC_DATA_ATTR memory and
\* so clears the magic number (panic, watchdog, esp_restart).
ColdBoot ==
  /\ MayReset
  /\ Restore
  /\ InitRam
  /\ UNCHANGED nvs

\* esp_deep_sleep_start, and the wake-up: the ring's CRC decides.
DeepSleep ==
  /\ loop = "ready"
  /\ MayReset
  /\ \/ UNCHANGED rtc
     \/ "rtc_corrupt" \in Faults /\ Restore
  /\ InitRam
  /\ UNCHANGED nvs

-----------------------------------------------------------------------------
Init ==
  /\ rtc = FreshState
  /\ nvs = [bootCnt |-> 0, eventId |-> 0, head |-> 0, tail |-> 0,
            events |-> EmptyBuffer, keys |-> {}]
  /\ queue = <<>>
  /\ workerRunning = TRUE /\ workerAlive = TRUE
  /\ flush = [f \in Flushers |-> NotFlushing]
  /\ sensor = "idle" /\ host = "idle" /\ loop = "awake"
  /\ flushPending = FALSE /\ eventsSinceFlush = 0 /\ bleConnected = FALSE

SensorTask == LogDetection \/ DecideFlush \/ RequestFlush

HostTask ==
  \/ \E id \in 0 .. MaxEventId : markAsSynced(id) \/ fastForwardEventId(id)
  \/ BleConnect \/ BleDisconnect \/ applyTimeSync \/ RequestHostFlush
  \/ PersistFastForward \/ HostFlushReturns

StorageWorker ==
  \/ WorkerWait \/ WorkerTimeout \/ WorkerReceive
  \/ WorkerCheckRunning \/ WorkerDone

LoopTask ==
  \/ StopStorageWorker \/ GraceOver \/ DrainCommand \/ DrainedCommand
  \/ DeleteWorker \/ FinalSync \/ FinalSyncDone \/ SleepAborted

Flush == \E f \in Flushers : BeginFlush(f) \/ PutKey(f)

Next ==
  \/ SensorTask \/ HostTask \/ StorageWorker \/ LoopTask \/ Flush
  \/ ColdBoot \/ DeepSleep

Spec == Init /\ [][Next]_vars

-----------------------------------------------------------------------------
(* Properties *)

\* Every variable has the type of the member it stands for.
TypeOK ==
  /\ rtc \in RTCState
  /\ nvs \in NvsState
  /\ queue \in Seq(StorageCmd)
  /\ workerRunning \in BOOLEAN /\ workerAlive \in BOOLEAN
  /\ flush \in [Flushers -> FlushRecord]
  /\ sensor \in {"idle", "logged", "logged_due", "request", "raised", "full"}
  /\ host \in {"idle", "request", "raised", "full", "persist", "flushing"}
  /\ loop \in {"awake", "grace", "drain", "draining", "sync", "syncing", "ready"}
  /\ flushPending \in BOOLEAN /\ eventsSinceFlush \in 0 .. 255
  /\ bleConnected \in BOOLEAN

\* Ids grow strictly from the tail to the head and none is above the counter.
OrderedRing(r) ==
  /\ \A s \in Live(r.head, r.tail) :
       r.buffer[s].id > 0 /\ r.buffer[s].id <= r.globalEventId
  /\ \A s, t \in Live(r.head, r.tail) :
       Offset(s, r.tail) < Offset(t, r.tail) => r.buffer[s].id < r.buffer[t].id

\* The events that getNextUnsynced, getEventsSince and the delivery to the app
\* walk through are in the order in which logDetection numbered them, whatever
\* resets, restores and fast-forwards came before.
RingOrdered == OrderedRing(rtc)

\* All keys of the backup are there and describe an ordered ring.
BackupIntact == nvs.keys = NvsKeys /\ OrderedRing(AsRing(nvs))

\* Whenever no flush is writing, the backup that restoreFromNvs would read is
\* either missing or one consistent snapshot.
BackupRestorable ==
  (\A f \in Flushers : ~Writing(f)) => nvs.keys = {} \/ BackupIntact

\* One task at a time writes the backup.
SingleWriter == \A f, g \in Flushers : Writing(f) /\ Writing(g) => f = g

KeysBefore == [bootCnt |-> {}, eventId |-> {"bootCnt"}, head |-> {"bootCnt", "eventId"},
               tail |-> NvsKeys \ {"tail", "events"}, events |-> NvsKeys \ {"events"}]

\* A task that writes the backup has the snapshot of an ordered ring, and the
\* keys before its current one hold that snapshot.
SnapshotWritten ==
  \A f \in Flushers : Writing(f) =>
    /\ OrderedRing(AsRing(flush[f].snap))
    /\ \A key \in KeysBefore[flush[f].pc] :
         key \in nvs.keys /\ nvs[key] = flush[f].snap[key]

\* A task that starts a flush, and the loop task when it deletes the worker,
\* cut nobody off in the middle of the backup.
NoFlushCutOff ==
  /\ flush["host"].pc # "idle" => host = "flushing"
  /\ flush["loop"].pc # "idle" => loop \in {"draining", "syncing"}
  /\ loop # "awake" => ~workerRunning
  /\ loop \in {"drain", "draining"} =>
       flush["worker"].pc \in {"idle", "waiting"} \cup StorageCmd

\* What makes BackupRestorable inductive while a flush is in progress.
FlushInProgress == SingleWriter /\ SnapshotWritten /\ NoFlushCutOff

\* Only a restore from a torn backup can bring the ring out of order: neither
\* a task, nor overlapping flushes, nor a wake from deep sleep can.
OnlyTornBackupBreaksOrder ==
  [][RingOrdered /\ ~RingOrdered' => ~BackupIntact]_vars

\* An event leaves the ring, or a synced event becomes unsynced, only in a cold
\* boot, or when the ring overflows; then the newest event carries the overflow
\* flag.  Deep sleep keeps every event.
LossIsFlagged ==
  [][\/ \A e \in LiveEvents(rtc) : \E k \in LiveEvents(rtc') :
          k.id = e.id /\ (e.synced => k.synced)
     \/ \E k \in LiveEvents(rtc') : k.id = rtc'.globalEventId /\ k.overflow
     \/ ColdBoot]_vars

\* As long as there is a storage worker, _flushPending, which stops every further
\* backup and keeps the device awake, has an owner that will lower it: a command in
\* the queue, one that the worker or the loop task is processing, or the task that
\* raised it and has not queued its command yet.  Without a worker, which is so after
\* an aborted deep sleep, nobody serves the queue and the flag may stay up for ever.
FlushPendingOwned ==
  flushPending /\ workerAlive =>
    \/ queue # <<>>
    \/ flush["worker"].pc \notin {"idle", "waiting"}
    \/ loop = "draining"
    \/ sensor \in {"raised", "full"} \/ host \in {"raised", "full"}

\* A cold boot brings back every event of an intact backup.
ColdBootKeepsBackup ==
  [][ColdBoot /\ BackupIntact =>
       {e.id : e \in LiveEvents(AsRing(nvs))} = {e.id : e \in LiveEvents(rtc')}]_vars

\* The loop task gets ready to sleep, and its flush, if any, was not refused.
SleepReady == loop # "ready" /\ loop' = "ready" /\ flush["loop"].pc # "refused"

\* When the loop task is ready to sleep, every unsynced event is in the backup,
\* except those logged after the snapshot, or if the flush was refused.  Nor does it
\* hold while the host task, which flushes itself when the worker is stopped, is in
\* the middle of the next backup: its head may already be beyond a tail that is not
\* written yet.
SleepSyncsBackup ==
  [][SleepReady /\ ~Writing("host") =>
       \A e \in LiveEvents(rtc) :
         \/ e.synced
         \/ flush["loop"].pc = "returned" /\ e.id > flush["loop"].snap.eventId
         \/ \E b \in LiveEvents(AsRing(nvs)) : b.id = e.id]_vars

=============================================================================

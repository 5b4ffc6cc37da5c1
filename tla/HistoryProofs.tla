---------------------------- MODULE HistoryProofs ----------------------------
(***************************************************************************)
(* Theorems about HistoryService, for every value of its constants.        *)
(***************************************************************************)
EXTENDS HistoryService, TLAPS

USE HistoryAssumption

-----------------------------------------------------------------------------
(* Type correctness *)

\* Wrapping keeps an index inside the ring.
LEMMA NextIndexType ==
  ASSUME NEW i \in Slots PROVE NextIndex(i) \in Slots
  BY DEF NextIndex, Slots

\* The uint8_t counter stays a uint8_t.
LEMMA CounterType ==
  ASSUME NEW n \in 0 .. 255 PROVE (n + 1) % 256 \in 0 .. 255
  OBVIOUS

\* The initial buffers and records are well typed.
LEMMA ConstantTypes ==
  /\ EmptyBuffer \in [Slots -> Event]
  /\ FreshState \in RTCState
  /\ NoSnapshot \in Snapshot
  BY DEF EmptyBuffer, NoEvent, Event, FreshState, RTCState, NoSnapshot, Snapshot, Slots

\* The state of a task outside of flushToNvs is well typed.
LEMMA NotFlushingType == NotFlushing \in FlushRecord
  BY ConstantTypes DEF NotFlushing, FlushRecord, FlushPc

\* The snapshot of a well-typed ring, and the ring of a well-typed snapshot.
LEMMA SnapshotType ==
  ASSUME TypeOK PROVE TakeSnapshot \in Snapshot /\ AsRing(nvs) \in RTCState
  BY DEF TypeOK, TakeSnapshot, AsRing, Snapshot, RTCState, NvsState

LEMMA TypeInit == Init => TypeOK
  <1> SUFFICES ASSUME Init PROVE TypeOK
    OBVIOUS
  <1>1. rtc \in RTCState /\ nvs \in NvsState
    BY ConstantTypes DEF Init, NvsState, Slots
  <1>2. flush \in [Flushers -> FlushRecord]
    BY NotFlushingType DEF Init
  <1>3. queue \in Seq(StorageCmd)
    BY DEF Init
  <1>4. /\ workerRunning \in BOOLEAN /\ workerAlive \in BOOLEAN
        /\ flushPending \in BOOLEAN /\ bleConnected \in BOOLEAN
    BY Zenon DEF Init
  <1>5. eventsSinceFlush \in 0 .. 255
    BY DEF Init
  <1> QED
    BY <1>1, <1>2, <1>3, <1>4, <1>5, Zenon DEF Init, TypeOK

\* A step of a request keeps the queue a sequence of commands.
LEMMA RequestSaveType ==
  ASSUME TypeOK, NEW from, NEW to, RequestSave(from, to)
  PROVE  queue' \in Seq(StorageCmd) /\ flushPending' \in BOOLEAN
  <1>1. queue' \in Seq(StorageCmd)
    <2>1. queue \in Seq(StorageCmd) /\ "SAVE_HIT" \in StorageCmd
      BY DEF TypeOK, StorageCmd
    <2>2. Append(queue, "SAVE_HIT") \in Seq(StorageCmd)
      BY <2>1
    <2> QED
      BY <2>1, <2>2 DEF RequestSave
  <1>2. flushPending' \in BOOLEAN
    BY Zenon DEF RequestSave, TypeOK
  <1> QED
    BY <1>1, <1>2

LEMMA TypeSensor == TypeOK /\ SensorTask => TypeOK'
  <1> SUFFICES ASSUME TypeOK, SensorTask PROVE TypeOK'
    OBVIOUS
  <1>1. CASE LogDetection
    <2>1. rtc.head \in Slots /\ rtc.tail \in Slots /\ rtc.globalEventId + 1 \in Nat
      BY DEF TypeOK, RTCState
    <2>2. rtc' \in RTCState
      BY <1>1, <2>1, NextIndexType DEF LogDetection, Logged, Overflows, TypeOK, RTCState, Event
    <2>3. eventsSinceFlush' \in 0 .. 255
      BY <1>1, CounterType DEF LogDetection, TypeOK
    <2> QED
      BY <1>1, <2>2, <2>3 DEF LogDetection, TypeOK
  <1>2. CASE DecideFlush
    BY <1>2 DEF DecideFlush, TypeOK
  <1>3. CASE RequestFlush
    <2>1. PICK to \in AfterRequest : RequestSave(sensor, to) /\ sensor' = to
      BY <1>3 DEF RequestFlush
    <2>2. queue' \in Seq(StorageCmd) /\ flushPending' \in BOOLEAN
      BY <2>1, RequestSaveType
    <2> QED
      BY <1>3, <2>1, <2>2 DEF RequestFlush, AfterRequest, TypeOK
  <1> QED
    BY <1>1, <1>2, <1>3 DEF SensorTask

\* Moving a task on inside flushToNvs, and ending its call.
LEMMA FlushUpdateType ==
  ASSUME TypeOK, NEW f \in Flushers, NEW pc \in FlushPc
  PROVE  /\ [flush EXCEPT ![f].pc = pc] \in [Flushers -> FlushRecord]
         /\ [flush EXCEPT ![f] = NotFlushing] \in [Flushers -> FlushRecord]
  BY NotFlushingType DEF TypeOK, FlushRecord

LEMMA TypeHost == TypeOK /\ HostTask => TypeOK'
  <1> SUFFICES ASSUME TypeOK, HostTask PROVE TypeOK'
    OBVIOUS
  <1> "host" \in Flushers /\ "start" \in FlushPc
    BY DEF Flushers, FlushPc
  <1>1. ASSUME NEW id \in 0 .. MaxEventId, markAsSynced(id) PROVE TypeOK'
    <2>1. PICK s \in Live(rtc.head, rtc.tail) :
            rtc' = [rtc EXCEPT !.buffer[s] = Synced(rtc.buffer[s])]
      BY <1>1 DEF markAsSynced
    <2>a. s \in Slots
      BY DEF Live
    <2>2. Synced(rtc.buffer[s]) \in Event
      BY <2>a DEF TypeOK, RTCState, Event, Synced
    <2>3. rtc' \in RTCState
      BY <2>1, <2>a, <2>2 DEF TypeOK, RTCState
    <2> QED
      BY <1>1, <2>3 DEF markAsSynced, TypeOK, ram
  <1>2. ASSUME NEW id \in 0 .. MaxEventId, fastForwardEventId(id) PROVE TypeOK'
    <2>1. rtc' \in RTCState
      BY <1>2 DEF fastForwardEventId, TypeOK, RTCState
    <2>2. eventsSinceFlush' \in 0 .. 255
      BY <1>2 DEF fastForwardEventId
    <2> QED
      BY <1>2, <2>1, <2>2 DEF fastForwardEventId, TypeOK
  <1>3. CASE BleConnect
    BY <1>3, Zenon DEF BleConnect, TypeOK
  <1>4. CASE BleDisconnect
    BY <1>4, Zenon DEF BleDisconnect, TypeOK
  <1>8. CASE applyTimeSync
    BY <1>8, Zenon DEF applyTimeSync, TypeOK
  <1>5. CASE RequestHostFlush
    <2>1. PICK to \in AfterRequest : RequestSave(host, to) /\ host' = to
      BY <1>5 DEF RequestHostFlush
    <2>2. queue' \in Seq(StorageCmd) /\ flushPending' \in BOOLEAN
      BY <2>1, RequestSaveType
    <2> QED
      BY <1>5, <2>1, <2>2 DEF RequestHostFlush, AfterRequest, TypeOK
  <1>6. CASE PersistFastForward
    <2>1. queue' \in Seq(StorageCmd)
      <3>1. queue \in Seq(StorageCmd) /\ "FORCE_FLUSH" \in StorageCmd
        BY DEF TypeOK, StorageCmd
      <3>2. Append(queue, "FORCE_FLUSH") \in Seq(StorageCmd)
        BY <3>1
      <3> QED
        BY <1>6, <3>1, <3>2 DEF PersistFastForward
    <2>2. flush' \in [Flushers -> FlushRecord]
      BY <1>6, FlushUpdateType DEF PersistFastForward, TypeOK
    <2>3. host' \in {"idle", "flushing"}
      BY <1>6 DEF PersistFastForward
    <2> QED
      BY <1>6, <2>1, <2>2, <2>3 DEF PersistFastForward, TypeOK
  <1>7. CASE HostFlushReturns
    <2>1. flush' \in [Flushers -> FlushRecord]
      BY <1>7, FlushUpdateType DEF HostFlushReturns
    <2> QED
      BY <1>7, <2>1 DEF HostFlushReturns, TypeOK
  <1> QED
    BY <1>1, <1>2, <1>3, <1>4, <1>5, <1>6, <1>7, <1>8 DEF HostTask

LEMMA TypeWorker == TypeOK /\ StorageWorker => TypeOK'
  <1> SUFFICES ASSUME TypeOK, StorageWorker PROVE TypeOK'
    OBVIOUS
  <1> /\ "worker" \in Flushers
      /\ "start" \in FlushPc /\ "idle" \in FlushPc /\ "waiting" \in FlushPc
    BY DEF Flushers, FlushPc
  <1> StorageCmd \subseteq FlushPc
    BY DEF FlushPc
  <1>1. CASE WorkerWait
    <2>1. flush' \in [Flushers -> FlushRecord]
      BY <1>1, FlushUpdateType DEF WorkerWait
    <2> QED
      BY <1>1, <2>1 DEF WorkerWait, TypeOK
  <1>2. CASE WorkerTimeout
    <2>1. flush' \in [Flushers -> FlushRecord]
      BY <1>2, FlushUpdateType DEF WorkerTimeout
    <2> QED
      BY <1>2, <2>1 DEF WorkerTimeout, TypeOK
  <1>3. CASE WorkerReceive
    <2>1. Head(queue) \in StorageCmd /\ queue' \in Seq(StorageCmd)
      BY <1>3 DEF WorkerReceive, TypeOK
    <2> QED
      BY <1>3, <2>1, FlushUpdateType DEF WorkerReceive, TypeOK
  <1>4. CASE WorkerCheckRunning
    <2>1. queue' \in Seq(StorageCmd)
      <3>1. flush["worker"].pc \in StorageCmd /\ queue \in Seq(StorageCmd)
        BY <1>4 DEF WorkerCheckRunning, TypeOK
      <3>2. <<flush["worker"].pc>> \o queue \in Seq(StorageCmd)
        BY <3>1
      <3> QED
        BY <1>4, <3>1, <3>2 DEF WorkerCheckRunning, PutBack
    <2>2. flush' \in [Flushers -> FlushRecord]
      <3>1. /\ [flush EXCEPT !["worker"].pc = "start"] \in [Flushers -> FlushRecord]
            /\ [flush EXCEPT !["worker"].pc = "idle"] \in [Flushers -> FlushRecord]
        BY FlushUpdateType
      <3> QED
        BY <1>4, <3>1 DEF WorkerCheckRunning
    <2> QED
      BY <1>4, <2>1, <2>2 DEF WorkerCheckRunning, TypeOK
  <1>5. CASE WorkerDone
    <2>1. flush' \in [Flushers -> FlushRecord]
      BY <1>5, FlushUpdateType DEF WorkerDone
    <2>2. flushPending' \in BOOLEAN
      BY <1>5, Zenon DEF WorkerDone, LoweredBy
    <2> QED
      BY <1>5, <2>1, <2>2 DEF WorkerDone, TypeOK
  <1> QED
    BY <1>1, <1>2, <1>3, <1>4, <1>5 DEF StorageWorker

LEMMA TypeLoop == TypeOK /\ LoopTask => TypeOK'
  <1> SUFFICES ASSUME TypeOK, LoopTask PROVE TypeOK'
    OBVIOUS
  <1> "loop" \in Flushers /\ "worker" \in Flushers /\ "start" \in FlushPc
    BY DEF Flushers, FlushPc
  <1>1. CASE StopStorageWorker
    BY <1>1, Zenon DEF StopStorageWorker, TypeOK
  <1>2. CASE GraceOver
    BY <1>2 DEF GraceOver, TypeOK
  <1>3. CASE DrainCommand
    BY <1>3, FlushUpdateType DEF DrainCommand, TypeOK
  <1>4. CASE DrainedCommand
    <2>1. flush' \in [Flushers -> FlushRecord]
      BY <1>4, FlushUpdateType DEF DrainedCommand
    <2>2. flushPending' \in BOOLEAN
      BY <1>4, Zenon DEF DrainedCommand, LoweredBy
    <2> QED
      BY <1>4, <2>1, <2>2 DEF DrainedCommand, TypeOK
  <1>5. CASE DeleteWorker
    <2>1. flush' \in [Flushers -> FlushRecord]
      BY <1>5, FlushUpdateType DEF DeleteWorker
    <2>2. workerAlive' \in BOOLEAN
      BY <1>5, Zenon DEF DeleteWorker
    <2> QED
      BY <1>5, <2>1, <2>2 DEF DeleteWorker, TypeOK
  <1>6. CASE FinalSync
    <2>1. flush' \in [Flushers -> FlushRecord]
      BY <1>6, FlushUpdateType DEF FinalSync, TypeOK
    <2>2. loop' \in {"syncing", "ready"}
      BY <1>6 DEF FinalSync
    <2> QED
      BY <1>6, <2>1, <2>2 DEF FinalSync, TypeOK
  <1>7. CASE FinalSyncDone
    BY <1>7, FlushUpdateType DEF FinalSyncDone, TypeOK
  <1>8. CASE SleepAborted
    BY <1>8 DEF SleepAborted, TypeOK
  <1> QED
    BY <1>1, <1>2, <1>3, <1>4, <1>5, <1>6, <1>7, <1>8 DEF LoopTask

\* Writing one key of a snapshot keeps the backup well typed.
LEMMA PutType ==
  ASSUME NEW n \in NvsState, NEW snap \in Snapshot, NEW key \in NvsKeys
  PROVE  Put(n, key, snap[key]) \in NvsState
  <1>1. n.keys \cup {key} \in SUBSET NvsKeys
    BY DEF NvsState
  <1>2. CASE key = "bootCnt"
    BY <1>1, <1>2 DEF Put, NvsState, Snapshot
  <1>3. CASE key = "eventId"
    BY <1>1, <1>3 DEF Put, NvsState, Snapshot
  <1>4. CASE key = "head"
    BY <1>1, <1>4 DEF Put, NvsState, Snapshot
  <1>5. CASE key = "tail"
    BY <1>1, <1>5 DEF Put, NvsState, Snapshot
  <1>6. CASE key = "events"
    BY <1>1, <1>6 DEF Put, NvsState, Snapshot
  <1> QED
    BY <1>2, <1>3, <1>4, <1>5, <1>6 DEF NvsKeys

\* The successor of a key in flushToNvs is a program counter of flushToNvs.
LEMMA KeyAfterType ==
  ASSUME NEW key \in NvsKeys PROVE KeyAfter[key] \in FlushPc
  BY DEF KeyAfter, NvsKeys, FlushPc

LEMMA TypeFlush == TypeOK /\ Flush => TypeOK'
  <1> SUFFICES ASSUME TypeOK, NEW f \in Flushers, BeginFlush(f) \/ PutKey(f)
               PROVE  TypeOK'
    BY DEF Flush
  <1>1. CASE BeginFlush(f)
    <2>1. "refused" \in FlushPc /\ "bootCnt" \in FlushPc
      BY DEF FlushPc, NvsKeys
    <2>2. [flush EXCEPT ![f].pc = "refused"] \in [Flushers -> FlushRecord]
      BY <2>1, FlushUpdateType
    <2>3. [pc |-> "bootCnt", success |-> TRUE, snap |-> TakeSnapshot] \in FlushRecord
      BY <2>1, SnapshotType DEF FlushRecord
    <2>4. flush' \in [Flushers -> FlushRecord]
      BY <1>1, <2>2, <2>3 DEF BeginFlush, TypeOK
    <2>5. eventsSinceFlush' \in 0 .. 255
      BY <1>1 DEF BeginFlush, TypeOK
    <2> QED
      BY <1>1, <2>4, <2>5 DEF BeginFlush, TypeOK
  <1>2. CASE PutKey(f)
    <2> DEFINE key == flush[f].pc
               snap == flush[f].snap
    <2>1. key \in NvsKeys /\ snap \in Snapshot
      BY <1>2 DEF PutKey, Writing, TypeOK, FlushRecord
    <2>2. PICK ok \in BOOLEAN :
            /\ nvs' = IF ok THEN Put(nvs, key, snap[key]) ELSE nvs
            /\ flush' = [flush EXCEPT ![f] =
                 [pc |-> KeyAfter[key], snap |-> snap,
                  success |-> IF key = "events" THEN flush[f].success /\ ok
                              ELSE AndBytes(flush[f].success,
                                            IF ok THEN PutSize[key] ELSE 0)]]
      BY <1>2, Zenon DEF PutKey, ValueOf
    <2>3. nvs' \in NvsState
      BY <2>1, <2>2, PutType DEF TypeOK
    <2>4. (IF key = "events" THEN flush[f].success /\ ok
           ELSE AndBytes(flush[f].success, IF ok THEN PutSize[key] ELSE 0)) \in BOOLEAN
      BY Zenon DEF AndBytes
    <2> HIDE DEF key, snap
    <2>5. flush' \in [Flushers -> FlushRecord]
      BY <2>1, <2>2, <2>4, KeyAfterType, Zenon DEF TypeOK, FlushRecord
    <2> QED
      BY <1>2, <2>3, <2>5 DEF PutKey, TypeOK
  <1> QED
    BY <1>1, <1>2

\* init leaves the members in RAM well typed.
LEMMA InitRamType ==
  ASSUME TypeOK, InitRam, rtc' \in RTCState, nvs' = nvs
  PROVE  TypeOK'
  <1>1. flush' \in [Flushers -> FlushRecord]
    BY NotFlushingType DEF InitRam
  <1>2. /\ workerRunning' \in BOOLEAN /\ workerAlive' \in BOOLEAN
        /\ flushPending' \in BOOLEAN /\ bleConnected' \in BOOLEAN
    BY Zenon DEF InitRam
  <1>3. eventsSinceFlush' \in 0 .. 255 /\ queue' \in Seq(StorageCmd)
    BY DEF InitRam
  <1>4. sensor' = "idle" /\ host' = "idle" /\ loop' = "awake"
    BY DEF InitRam
  <1> QED
    BY <1>1, <1>2, <1>3, <1>4 DEF TypeOK

\* Whatever restoreFromNvs finds, the ring it leaves is well typed.
LEMMA RestoreType == ASSUME TypeOK, Restore PROVE rtc' \in RTCState
  <1>1. CASE rtc' = FreshState
    BY <1>1, ConstantTypes
  <1>2. CASE \E buffer \in IF "events" \in nvs.keys THEN {nvs.events} ELSE StackBuffers :
               rtc' = [AsRing(nvs) EXCEPT !.bootCount = nvs.bootCnt + 1, !.buffer = buffer]
    <2>1. PICK buffer \in [Slots -> Event] :
            rtc' = [AsRing(nvs) EXCEPT !.bootCount = nvs.bootCnt + 1, !.buffer = buffer]
      BY <1>2 DEF StackBuffers, TypeOK, NvsState
    <2>2. nvs.bootCnt + 1 \in Nat
      BY DEF TypeOK, NvsState
    <2> QED
      BY <2>1, <2>2, SnapshotType DEF RTCState
  <1> QED
    BY <1>1, <1>2 DEF Restore

LEMMA TypeReset == TypeOK /\ (ColdBoot \/ DeepSleep) => TypeOK'
  <1> SUFFICES ASSUME TypeOK, ColdBoot \/ DeepSleep PROVE TypeOK'
    OBVIOUS
  <1>1. CASE ColdBoot
    BY <1>1, RestoreType, InitRamType DEF ColdBoot
  <1>2. CASE DeepSleep
    <2>1. rtc' \in RTCState
      BY <1>2, RestoreType DEF DeepSleep, TypeOK
    <2> QED
      BY <1>2, <2>1, InitRamType DEF DeepSleep
  <1> QED
    BY <1>1, <1>2

\* Every member keeps its type: in particular the indices of the ring and of
\* every snapshot stay below BUFFER_SIZE and the uint8_t counter below 256,
\* under every interleaving of the tasks and every fault.
THEOREM TypeCorrect == Spec => []TypeOK
  <1>1. TypeOK /\ [Next]_vars => TypeOK'
    <2> SUFFICES ASSUME TypeOK, [Next]_vars PROVE TypeOK'
      OBVIOUS
    <2>1. CASE UNCHANGED vars
      BY <2>1 DEF vars, ram, TypeOK
    <2>2. CASE Next
      BY <2>2, TypeSensor, TypeHost, TypeWorker, TypeLoop, TypeFlush, TypeReset DEF Next
    <2> QED
      BY <2>1, <2>2
  <1> QED
    BY TypeInit, <1>1, PTL DEF Spec

-----------------------------------------------------------------------------
(* The order of the ring *)

\* The order depends on the ids of the slots, the indices and the counter only,
\* and a larger counter does not disturb it.
LEMMA OrderedCongruence ==
  ASSUME NEW r \in RTCState, NEW q \in RTCState, OrderedRing(r),
         q.head = r.head, q.tail = r.tail, q.globalEventId >= r.globalEventId,
         \A s \in Slots : q.buffer[s].id = r.buffer[s].id
  PROVE  OrderedRing(q)
  <1>1. \A s \in Live(r.head, r.tail) : s \in Slots /\ r.buffer[s].id \in Nat
    BY DEF Live, RTCState, Event
  <1>2. r.globalEventId \in Nat /\ q.globalEventId \in Nat
    BY DEF RTCState
  <1> QED
    BY <1>1, <1>2 DEF OrderedRing

\* A slot that is live after logDetection is the one it wrote, which is the
\* last, or was live before, and then keeps its distance from the tail unless
\* the overflow moved the tail.
LEMMA LiveAfterLog ==
  ASSUME NEW head \in Slots, NEW tail \in Slots, NEW s \in Slots, NEW newTail,
         newTail = IF NextIndex(head) = tail THEN NextIndex(tail) ELSE tail,
         s \in Live(NextIndex(head), newTail)
  PROVE  /\ s # head => s \in Live(head, tail)
         /\ Offset(s, newTail) <= Offset(head, newTail)
         /\ s # head => Offset(s, newTail) < Offset(head, newTail)
         /\ s # head => Offset(s, newTail) =
              IF NextIndex(head) = tail THEN Offset(s, tail) - 1 ELSE Offset(s, tail)
  BY DEF Live, Offset, getEventCount, NextIndex, Slots

LEMMA OrderedInit == OrderedRing(FreshState)
  BY DEF OrderedRing, FreshState, Live, getEventCount, Offset, Slots

\* logDetection keeps the order, with and without an overflow.
LEMMA OrderedLogged ==
  ASSUME NEW r \in RTCState, OrderedRing(r) PROVE OrderedRing(Logged(r))
  <1> DEFINE q == Logged(r)
  <1>1. /\ r.head \in Slots /\ r.tail \in Slots /\ r.globalEventId \in Nat
        /\ r.buffer \in [Slots -> Event]
    BY DEF RTCState
  <1>2. /\ q.head = NextIndex(r.head)
        /\ q.tail = IF NextIndex(r.head) = r.tail THEN NextIndex(r.tail) ELSE r.tail
        /\ q.globalEventId = r.globalEventId + 1
        /\ q.buffer[r.head].id = r.globalEventId + 1
        /\ \A s \in Slots \ {r.head} : q.buffer[s] = r.buffer[s]
    BY <1>1 DEF Logged, Overflows
  <1>3. \A s \in Live(r.head, r.tail) : s \in Slots /\ r.buffer[s].id \in Nat
    BY <1>1 DEF Live, Event
  <1>4. \A s \in Live(q.head, q.tail) : s \in Slots
    BY DEF Live
  <1>5. \A s \in Slots : Offset(s, r.tail) \in Int
    BY <1>1 DEF Offset, Slots
  <1> HIDE DEF q
  <1>6. ASSUME NEW s \in Live(q.head, q.tail)
        PROVE  q.buffer[s].id > 0 /\ q.buffer[s].id <= q.globalEventId
    <2>1. CASE s = r.head
      BY <1>1, <1>2, <2>1
    <2>2. CASE s # r.head
      <3>1. s \in Live(r.head, r.tail)
        BY <1>1, <1>2, <1>4, <1>6, <2>2, LiveAfterLog
      <3> QED
        BY <1>1, <1>2, <1>3, <1>4, <2>2, <3>1 DEF OrderedRing
    <2> QED
      BY <2>1, <2>2
  <1>7. ASSUME NEW s \in Live(q.head, q.tail), NEW t \in Live(q.head, q.tail),
               Offset(s, q.tail) < Offset(t, q.tail)
        PROVE  q.buffer[s].id < q.buffer[t].id
    <2> s \in Slots /\ t \in Slots
      BY <1>4
    <2>1. s # r.head
      <3>1. Offset(t, q.tail) <= Offset(r.head, q.tail)
        BY <1>1, <1>2, LiveAfterLog
      <3>2. Offset(t, q.tail) \in Int /\ Offset(r.head, q.tail) \in Int
        <4>1. q.tail \in Slots
          BY <1>1, <1>2, NextIndexType
        <4> QED
          BY <1>1, <4>1 DEF Offset, Slots
      <3> QED
        BY <1>7, <3>1, <3>2
    <2>2. s \in Live(r.head, r.tail)
      BY <1>1, <1>2, <2>1, LiveAfterLog
    <2>3. CASE t = r.head
      BY <1>1, <1>2, <1>3, <2>1, <2>2, <2>3 DEF OrderedRing
    <2>4. CASE t # r.head
      <3>1. t \in Live(r.head, r.tail)
        BY <1>1, <1>2, <2>4, LiveAfterLog
      <3>2. Offset(s, r.tail) < Offset(t, r.tail)
        BY <1>1, <1>2, <1>5, <1>7, <2>1, <2>4, LiveAfterLog
      <3> QED
        BY <1>2, <2>1, <2>2, <2>4, <3>1, <3>2 DEF OrderedRing
    <2> QED
      BY <2>3, <2>4
  <1> QED
    BY <1>6, <1>7 DEF OrderedRing, q

\* Restoring an intact backup, or none, gives an ordered ring.
LEMMA OrderedRestore ==
  ASSUME TypeOK, Restore, nvs.keys = {} \/ BackupIntact PROVE RingOrdered'
  <1>1. CASE rtc' = FreshState
    BY <1>1, OrderedInit DEF RingOrdered
  <1>2. CASE /\ "eventId" \in nvs.keys
             /\ \E buffer \in IF "events" \in nvs.keys THEN {nvs.events} ELSE StackBuffers :
                  rtc' = [AsRing(nvs) EXCEPT !.bootCount = nvs.bootCnt + 1,
                                             !.buffer = buffer]
    <2>1. BackupIntact /\ "events" \in nvs.keys
      BY <1>2 DEF BackupIntact, NvsKeys
    <2>2. rtc' = [AsRing(nvs) EXCEPT !.bootCount = nvs.bootCnt + 1, !.buffer = nvs.events]
      BY <1>2, <2>1
    <2>3. AsRing(nvs) \in RTCState /\ rtc' \in RTCState
      BY SnapshotType, RestoreType
    <2>4. /\ rtc'.head = AsRing(nvs).head /\ rtc'.tail = AsRing(nvs).tail
          /\ rtc'.globalEventId = AsRing(nvs).globalEventId
          /\ rtc'.buffer = AsRing(nvs).buffer
      BY <2>2 DEF AsRing
    <2>5. rtc'.globalEventId >= AsRing(nvs).globalEventId
      BY <2>3, <2>4 DEF RTCState
    <2> QED
      BY <2>1, <2>3, <2>4, <2>5, OrderedCongruence DEF BackupIntact, RingOrdered
  <1> QED
    BY <1>1, <1>2 DEF Restore

\* A step keeps the ring or its order, or restores it from the backup.
LEMMA OrderedStep ==
  ASSUME TypeOK, RingOrdered, [Next]_vars
  PROVE  RingOrdered' \/ (Restore /\ (ColdBoot \/ DeepSleep))
  <1>1. CASE UNCHANGED rtc
    BY <1>1 DEF RingOrdered
  <1>2. CASE LogDetection
    BY <1>2, OrderedLogged DEF LogDetection, RingOrdered, TypeOK
  <1>3. ASSUME NEW id \in 0 .. MaxEventId, markAsSynced(id) PROVE RingOrdered'
    <2>1. PICK s \in Live(rtc.head, rtc.tail) :
            rtc' = [rtc EXCEPT !.buffer[s] = Synced(rtc.buffer[s])]
      BY <1>3 DEF markAsSynced
    <2>2. s \in Slots
      BY DEF Live
    <2>3. rtc \in RTCState /\ rtc' \in RTCState
      BY <1>3, TypeHost DEF HostTask, TypeOK
    <2>4. /\ rtc'.head = rtc.head /\ rtc'.tail = rtc.tail
          /\ rtc'.globalEventId >= rtc.globalEventId
          /\ \A x \in Slots : rtc'.buffer[x].id = rtc.buffer[x].id
      BY <2>1, <2>2, <2>3 DEF RTCState, Event, Synced
    <2> QED
      BY <2>3, <2>4, OrderedCongruence DEF RingOrdered
  <1>4. ASSUME NEW id \in 0 .. MaxEventId, fastForwardEventId(id) PROVE RingOrdered'
    <2>1. rtc \in RTCState /\ rtc' \in RTCState
      BY <1>4, TypeHost DEF HostTask, TypeOK
    <2>2. /\ rtc'.head = rtc.head /\ rtc'.tail = rtc.tail
          /\ rtc'.globalEventId >= rtc.globalEventId
          /\ \A x \in Slots : rtc'.buffer[x].id = rtc.buffer[x].id
      BY <1>4, <2>1 DEF fastForwardEventId, AppIsAhead, RTCState
    <2> QED
      BY <2>1, <2>2, OrderedCongruence DEF RingOrdered
  <1>5. CASE ColdBoot \/ DeepSleep
    BY <1>1, <1>5 DEF ColdBoot, DeepSleep
  <1>6. CASE UNCHANGED vars
    BY <1>1, <1>6 DEF vars
  <1>7. CASE Flush
    BY <1>1, <1>7 DEF Flush, BeginFlush, PutKey
  <1>8. CASE StorageWorker
    BY <1>1, <1>8 DEF StorageWorker, WorkerWait, WorkerTimeout, WorkerReceive,
                      WorkerCheckRunning, WorkerDone
  <1>9. CASE LoopTask
    BY <1>1, <1>9 DEF LoopTask, StopStorageWorker, GraceOver, DrainCommand,
                      DrainedCommand, DeleteWorker, FinalSync, FinalSyncDone, SleepAborted
  <1>10. CASE DecideFlush \/ RequestFlush
    BY <1>1, <1>10 DEF DecideFlush, RequestFlush
  <1>11. CASE \/ BleConnect \/ BleDisconnect \/ applyTimeSync \/ RequestHostFlush
              \/ PersistFastForward \/ HostFlushReturns
    BY <1>1, <1>11 DEF BleConnect, BleDisconnect, applyTimeSync, RequestHostFlush,
                       PersistFastForward, HostFlushReturns
  <1> QED
    BY <1>2, <1>3, <1>4, <1>5, <1>6, <1>7, <1>8, <1>9, <1>10, <1>11
    DEF Next, SensorTask, HostTask

\* Under every fault the model has (power cuts inside a flush, overlapping
\* flushes, failing writes, a corrupted ring, an aborted sleep), only a restore
\* from a torn backup brings the events out of order.
THEOREM TornBackupOnly == Spec => OnlyTornBackupBreaksOrder
  <1>1. TypeOK /\ [Next]_vars =>
          [RingOrdered /\ ~RingOrdered' => ~BackupIntact]_vars
    BY OrderedStep, OrderedRestore
  <1> QED
    BY TypeCorrect, <1>1, PTL DEF Spec, OnlyTornBackupBreaksOrder

-----------------------------------------------------------------------------
(* The backup *)

\* No reset while a key is written, no overlapping flushes, no failing write.
NoTearing == Faults \cap {"power_cut", "overlap", "put_fails"} = {}

\* The inductive invariant behind RingOrdered and BackupRestorable.
BackupInv == TypeOK /\ RingOrdered /\ FlushInProgress /\ BackupRestorable

\* A put changes its own key and nothing else.
LEMMA PutFacts ==
  ASSUME NEW n \in NvsState, NEW key \in NvsKeys, NEW value
  PROVE  /\ Put(n, key, value)[key] = value
         /\ Put(n, key, value).keys = n.keys \cup {key}
         /\ \A k \in NvsKeys \ {key} : Put(n, key, value)[k] = n[k]
  BY DEF Put, NvsState, NvsKeys

\* A step that leaves the backup alone, and changes the flush only of tasks
\* that write neither before nor after it, keeps what is written.
LEMMA QuietStep ==
  ASSUME BackupInv, nvs' = nvs,
         \A f \in Flushers : flush'[f] = flush[f] \/ (~Writing(f) /\ ~Writing(f)')
  PROVE  SingleWriter' /\ SnapshotWritten' /\ BackupRestorable'
  <1>1. \A f \in Flushers : Writing(f)' => Writing(f) /\ flush'[f] = flush[f]
    BY DEF Writing
  <1>2. \A f \in Flushers : Writing(f) => Writing(f)'
    BY DEF Writing
  <1>3. SingleWriter'
    BY <1>1, Zenon DEF BackupInv, FlushInProgress, SingleWriter
  <1>4. SnapshotWritten'
    BY <1>1 DEF BackupInv, FlushInProgress, SnapshotWritten, Writing
  <1>5. BackupRestorable'
    BY <1>2 DEF BackupInv, BackupRestorable, BackupIntact, NvsKeys
  <1> QED
    BY <1>3, <1>4, <1>5

\* Setting the program counter of one task, and ending its call.
LEMMA FlushUpdate ==
  ASSUME TypeOK, NEW f \in Flushers, NEW pc
  PROVE  /\ flush' = [flush EXCEPT ![f].pc = pc] =>
              flush'[f].pc = pc /\ \A g \in Flushers \ {f} : flush'[g] = flush[g]
         /\ flush' = [flush EXCEPT ![f] = NotFlushing] =>
              flush'[f].pc = "idle" /\ \A g \in Flushers \ {f} : flush'[g] = flush[g]
  BY DEF TypeOK, FlushRecord, NotFlushing

\* The program counters outside of the writing of a key.
QuietPc == {"idle", "waiting", "start", "returned", "refused"} \cup StorageCmd

LEMMA QuietPcs == \A pc \in QuietPc : pc \notin NvsKeys
  BY DEF QuietPc, NvsKeys, StorageCmd

\* QuietStep for a step that moves one task from one quiet place to another.
LEMMA QuietMove ==
  ASSUME BackupInv, nvs' = nvs, NEW f \in Flushers,
         flush[f].pc \in QuietPc, flush'[f].pc \in QuietPc,
         \A g \in Flushers \ {f} : flush'[g] = flush[g]
  PROVE  SingleWriter' /\ SnapshotWritten' /\ BackupRestorable'
  <1>1. ~Writing(f) /\ ~Writing(f)'
    BY QuietPcs DEF Writing
  <1> QED
    BY <1>1, QuietStep

LEMMA BackupSensor ==
  ASSUME BackupInv, SensorTask PROVE FlushInProgress' /\ BackupRestorable'
  <1>1. UNCHANGED <<nvs, flush, host, loop, workerRunning>>
    BY DEF SensorTask, LogDetection, DecideFlush, RequestFlush
  <1>2. SingleWriter' /\ SnapshotWritten' /\ BackupRestorable'
    BY <1>1, QuietStep
  <1>3. NoFlushCutOff'
    BY <1>1 DEF BackupInv, FlushInProgress, NoFlushCutOff, Writing
  <1> QED
    BY <1>2, <1>3 DEF FlushInProgress

LEMMA BackupHost ==
  ASSUME BackupInv, HostTask PROVE FlushInProgress' /\ BackupRestorable'
  <1> USE DEF Flushers
  <1>1. TypeOK /\ NoFlushCutOff
    BY DEF BackupInv, FlushInProgress
  <1>2. CASE UNCHANGED <<nvs, flush, host, loop, workerRunning>>
    <2>1. SingleWriter' /\ SnapshotWritten' /\ BackupRestorable'
      BY <1>2, QuietStep
    <2>2. NoFlushCutOff'
      BY <1>1, <1>2 DEF NoFlushCutOff, Writing
    <2> QED
      BY <2>1, <2>2 DEF FlushInProgress
  <1>3. CASE /\ host # "flushing"
             /\ UNCHANGED <<nvs, flush, loop, workerRunning>>
    <2>1. SingleWriter' /\ SnapshotWritten' /\ BackupRestorable'
      BY <1>3, QuietStep
    <2>2. NoFlushCutOff'
      BY <1>1, <1>3 DEF NoFlushCutOff, Writing
    <2> QED
      BY <2>1, <2>2 DEF FlushInProgress
  <1>4. CASE /\ host = "persist" /\ host' = "flushing"
             /\ flush' = [flush EXCEPT !["host"].pc = "start"]
             /\ UNCHANGED <<nvs, loop, workerRunning>>
    <2>1. /\ flush'["host"].pc = "start"
          /\ \A g \in Flushers \ {"host"} : flush'[g] = flush[g]
      BY <1>1, <1>4, FlushUpdate
    <2>2. flush["host"].pc \in FlushPc /\ ~Writing("host")
      BY <1>1, <1>4 DEF TypeOK, FlushRecord, NoFlushCutOff, Writing, NvsKeys
    <2>3. flush["host"].pc \in QuietPc /\ flush'["host"].pc \in QuietPc
      BY <2>1, <2>2 DEF QuietPc, FlushPc, Writing
    <2>4. SingleWriter' /\ SnapshotWritten' /\ BackupRestorable'
      BY <1>4, <2>1, <2>3, QuietMove
    <2>5. NoFlushCutOff'
      BY <1>1, <1>4, <2>1 DEF NoFlushCutOff, Writing
    <2> QED
      BY <2>4, <2>5 DEF FlushInProgress
  <1>5. CASE HostFlushReturns
    <2>1. /\ flush'["host"].pc = "idle"
          /\ \A g \in Flushers \ {"host"} : flush'[g] = flush[g]
      BY <1>1, <1>5, FlushUpdate DEF HostFlushReturns
    <2>2. flush["host"].pc \in QuietPc /\ flush'["host"].pc \in QuietPc
      BY <1>5, <2>1 DEF HostFlushReturns, FlushReturned, QuietPc
    <2>3. SingleWriter' /\ SnapshotWritten' /\ BackupRestorable'
      BY <1>5, <2>1, <2>2, QuietMove DEF HostFlushReturns
    <2>4. NoFlushCutOff'
      BY <1>1, <1>5, <2>1 DEF HostFlushReturns, NoFlushCutOff, Writing, NvsKeys
    <2> QED
      BY <2>3, <2>4 DEF FlushInProgress
  <1>6. CASE PersistFastForward
    <2>1. host = "persist" /\ UNCHANGED <<nvs, loop, workerRunning>>
      BY <1>6 DEF PersistFastForward
    <2>2. \/ UNCHANGED flush
          \/ host' = "flushing" /\ flush' = [flush EXCEPT !["host"].pc = "start"]
      BY <1>6 DEF PersistFastForward
    <2> QED
      BY <1>3, <1>4, <2>1, <2>2
  <1>7. CASE BleConnect \/ (\E id \in 0 .. MaxEventId : markAsSynced(id))
    BY <1>2, <1>7 DEF BleConnect, markAsSynced, ram
  <1>8. CASE \/ BleDisconnect \/ applyTimeSync \/ RequestHostFlush
             \/ \E id \in 0 .. MaxEventId : fastForwardEventId(id)
    BY <1>3, <1>8 DEF BleDisconnect, applyTimeSync, RequestHostFlush, RequestSave,
                      fastForwardEventId
  <1> QED
    BY <1>5, <1>6, <1>7, <1>8 DEF HostTask

LEMMA BackupWorker ==
  ASSUME BackupInv, StorageWorker PROVE FlushInProgress' /\ BackupRestorable'
  <1> USE DEF Flushers
  <1>1. TypeOK /\ NoFlushCutOff
    BY DEF BackupInv, FlushInProgress
  <1>2. UNCHANGED <<nvs, host, loop, workerRunning>>
    BY DEF StorageWorker, WorkerWait, WorkerTimeout, WorkerReceive,
           WorkerCheckRunning, WorkerDone
  <1>3. ASSUME NEW pc \in QuietPc, flush' = [flush EXCEPT !["worker"].pc = pc],
               flush["worker"].pc \in QuietPc,
               loop \in {"drain", "draining"} => pc \in {"idle", "waiting"} \cup StorageCmd
        PROVE  FlushInProgress' /\ BackupRestorable'
    <2>1. /\ flush'["worker"].pc = pc
          /\ \A g \in Flushers \ {"worker"} : flush'[g] = flush[g]
      BY <1>1, <1>3, FlushUpdate
    <2>2. SingleWriter' /\ SnapshotWritten' /\ BackupRestorable'
      BY <1>2, <1>3, <2>1, QuietMove
    <2>3. NoFlushCutOff'
      BY <1>1, <1>2, <1>3, <2>1 DEF NoFlushCutOff, Writing
    <2> QED
      BY <2>2, <2>3 DEF FlushInProgress
  <1>4. CASE WorkerWait
    BY <1>3, <1>4 DEF WorkerWait, QuietPc
  <1>5. CASE WorkerTimeout
    BY <1>3, <1>5 DEF WorkerTimeout, QuietPc
  <1>6. CASE WorkerReceive
    <2>1. Head(queue) \in StorageCmd
      BY <1>1, <1>6 DEF WorkerReceive, TypeOK
    <2> QED
      BY <1>3, <1>6, <2>1 DEF WorkerReceive, QuietPc
  <1>7. CASE WorkerCheckRunning
    <2>1. CASE workerRunning
      <3>1. loop = "awake"
        BY <1>1, <2>1 DEF NoFlushCutOff
      <3>2. flush' = [flush EXCEPT !["worker"].pc = "start"]
        BY <1>7, <2>1 DEF WorkerCheckRunning
      <3> QED
        BY <1>3, <1>7, <3>1, <3>2 DEF WorkerCheckRunning, QuietPc
    <2>2. CASE ~workerRunning
      <3>1. flush' = [flush EXCEPT !["worker"].pc = "idle"]
        BY <1>7, <2>2 DEF WorkerCheckRunning
      <3> QED
        BY <1>3, <1>7, <3>1 DEF WorkerCheckRunning, QuietPc
    <2> QED
      BY <2>1, <2>2
  <1>8. CASE WorkerDone
    <2>1. /\ flush'["worker"].pc = "idle"
          /\ \A g \in Flushers \ {"worker"} : flush'[g] = flush[g]
      BY <1>1, <1>8, FlushUpdate DEF WorkerDone
    <2>2. flush["worker"].pc \in QuietPc /\ flush'["worker"].pc \in QuietPc
      BY <1>8, <2>1 DEF WorkerDone, FlushReturned, QuietPc
    <2>3. SingleWriter' /\ SnapshotWritten' /\ BackupRestorable'
      BY <1>2, <2>1, <2>2, QuietMove
    <2>4. NoFlushCutOff'
      BY <1>1, <1>2, <2>1 DEF NoFlushCutOff, Writing
    <2> QED
      BY <2>3, <2>4 DEF FlushInProgress
  <1> QED
    BY <1>4, <1>5, <1>6, <1>7, <1>8 DEF StorageWorker

LEMMA BackupLoop ==
  ASSUME NoTearing, BackupInv, LoopTask PROVE FlushInProgress' /\ BackupRestorable'
  <1> USE DEF Flushers
  <1>1. TypeOK /\ NoFlushCutOff
    BY DEF BackupInv, FlushInProgress
  <1>2. UNCHANGED <<nvs, host>>
    BY DEF LoopTask, StopStorageWorker, GraceOver, DrainCommand, DrainedCommand,
           DeleteWorker, FinalSync, FinalSyncDone, SleepAborted
  <1>3. ASSUME UNCHANGED flush, NoFlushCutOff' PROVE FlushInProgress' /\ BackupRestorable'
    BY <1>2, <1>3, QuietStep DEF FlushInProgress
  <1>4. ASSUME NEW f \in Flushers, flush[f].pc \in QuietPc, flush'[f].pc \in QuietPc,
               \A g \in Flushers \ {f} : flush'[g] = flush[g], NoFlushCutOff'
        PROVE  FlushInProgress' /\ BackupRestorable'
    BY <1>2, <1>4, QuietMove DEF FlushInProgress
  <1>5. \A f \in Flushers : flush[f].pc \in FlushPc
    BY <1>1 DEF TypeOK, FlushRecord
  <1>6. CASE StopStorageWorker
    <2>1. UNCHANGED flush /\ loop = "awake" /\ loop' \in {"grace", "sync"} /\ ~workerRunning'
      BY <1>6 DEF StopStorageWorker
    <2>2. NoFlushCutOff'
      BY <1>1, <1>2, <2>1 DEF NoFlushCutOff, Writing
    <2> QED
      BY <1>3, <2>1, <2>2
  <1>7. CASE GraceOver
    <2>1. /\ UNCHANGED <<flush, workerRunning>> /\ loop = "grace" /\ loop' = "drain"
          /\ flush["worker"].pc \in {"idle", "waiting"}
      BY <1>7 DEF GraceOver, NoTearing
    <2>2. NoFlushCutOff'
      BY <1>1, <1>2, <2>1 DEF NoFlushCutOff, Writing
    <2> QED
      BY <1>3, <2>1, <2>2
  <1>8. CASE DrainCommand
    <2>1. /\ UNCHANGED workerRunning /\ loop = "drain" /\ loop' = "draining"
          /\ flush'["loop"].pc = "start"
          /\ \A g \in Flushers \ {"loop"} : flush'[g] = flush[g]
      BY <1>1, <1>8, FlushUpdate DEF DrainCommand
    <2>2. NoFlushCutOff'
      BY <1>1, <1>2, <2>1 DEF NoFlushCutOff, Writing
    <2>3. flush["loop"].pc \in QuietPc /\ flush'["loop"].pc \in QuietPc
      BY <1>1, <1>5, <2>1 DEF NoFlushCutOff, QuietPc, FlushPc, Writing
    <2> QED
      BY <1>4, <2>1, <2>2, <2>3
  <1>9. CASE DrainedCommand
    <2>1. /\ UNCHANGED workerRunning /\ loop = "draining" /\ loop' = "drain"
          /\ flush'["loop"].pc = "idle"
          /\ \A g \in Flushers \ {"loop"} : flush'[g] = flush[g]
          /\ flush["loop"].pc \in {"returned", "refused"}
      BY <1>1, <1>9, FlushUpdate DEF DrainedCommand, FlushReturned
    <2>2. NoFlushCutOff'
      BY <1>1, <1>2, <2>1 DEF NoFlushCutOff, Writing, NvsKeys
    <2>3. flush["loop"].pc \in QuietPc /\ flush'["loop"].pc \in QuietPc
      BY <2>1 DEF QuietPc
    <2> QED
      BY <1>4, <2>1, <2>2, <2>3
  <1>10. CASE DeleteWorker
    <2>1. /\ UNCHANGED workerRunning /\ loop = "drain" /\ loop' = "sync"
          /\ flush'["worker"].pc = "idle"
          /\ \A g \in Flushers \ {"worker"} : flush'[g] = flush[g]
      BY <1>1, <1>10, FlushUpdate DEF DeleteWorker
    <2>2. NoFlushCutOff'
      BY <1>1, <1>2, <2>1 DEF NoFlushCutOff, Writing
    <2>3. flush["worker"].pc \in QuietPc /\ flush'["worker"].pc \in QuietPc
      BY <1>1, <2>1 DEF NoFlushCutOff, QuietPc
    <2> QED
      BY <1>4, <2>1, <2>2, <2>3
  <1>11. CASE FinalSync
    <2>1. UNCHANGED workerRunning /\ loop = "sync"
      BY <1>11 DEF FinalSync
    <2>2. CASE UNCHANGED flush /\ loop' = "ready"
      <3>1. NoFlushCutOff'
        BY <1>1, <1>2, <2>1, <2>2 DEF NoFlushCutOff, Writing
      <3> QED
        BY <1>3, <2>2, <3>1
    <2>3. CASE loop' = "syncing" /\ flush' = [flush EXCEPT !["loop"].pc = "start"]
      <3>1. /\ flush'["loop"].pc = "start"
            /\ \A g \in Flushers \ {"loop"} : flush'[g] = flush[g]
        BY <1>1, <2>3, FlushUpdate
      <3>2. NoFlushCutOff'
        BY <1>1, <1>2, <2>1, <2>3, <3>1 DEF NoFlushCutOff, Writing
      <3>3. flush["loop"].pc \in QuietPc /\ flush'["loop"].pc \in QuietPc
        BY <1>1, <1>5, <2>1, <3>1 DEF NoFlushCutOff, QuietPc, FlushPc, Writing
      <3> QED
        BY <1>4, <3>1, <3>2, <3>3
    <2> QED
      BY <1>11, <2>2, <2>3 DEF FinalSync
  <1>12. CASE FinalSyncDone
    <2>1. /\ UNCHANGED workerRunning /\ loop = "syncing" /\ loop' = "ready"
          /\ flush'["loop"].pc = "idle"
          /\ \A g \in Flushers \ {"loop"} : flush'[g] = flush[g]
          /\ flush["loop"].pc \in {"returned", "refused"}
      BY <1>1, <1>12, FlushUpdate DEF FinalSyncDone, FlushReturned
    <2>2. NoFlushCutOff'
      BY <1>1, <1>2, <2>1 DEF NoFlushCutOff, Writing, NvsKeys
    <2>3. flush["loop"].pc \in QuietPc /\ flush'["loop"].pc \in QuietPc
      BY <2>1 DEF QuietPc
    <2> QED
      BY <1>4, <2>1, <2>2, <2>3
  <1>13. CASE SleepAborted
    <2>1. UNCHANGED <<flush, workerRunning>> /\ loop = "ready" /\ loop' = "awake"
      BY <1>13 DEF SleepAborted
    <2>2. NoFlushCutOff'
      BY <1>1, <1>2, <2>1 DEF NoFlushCutOff, Writing
    <2> QED
      BY <1>3, <2>1, <2>2
  <1> QED
    BY <1>6, <1>7, <1>8, <1>9, <1>10, <1>11, <1>12, <1>13 DEF LoopTask

LEMMA BackupReset ==
  ASSUME NoTearing, BackupInv, ColdBoot \/ DeepSleep
  PROVE  RingOrdered' /\ FlushInProgress' /\ BackupRestorable'
  <1>1. TypeOK /\ RingOrdered /\ BackupRestorable
    BY DEF BackupInv
  <1>2. \A f \in Flushers : ~Writing(f)
    BY DEF ColdBoot, DeepSleep, MayReset, NoTearing
  <1>3. nvs.keys = {} \/ BackupIntact
    BY <1>1, <1>2 DEF BackupRestorable
  <1>4. RingOrdered'
    <2>1. Restore \/ UNCHANGED rtc
      BY DEF ColdBoot, DeepSleep
    <2>2. CASE Restore
      BY <1>1, <1>3, <2>2, OrderedRestore
    <2>3. CASE UNCHANGED rtc
      BY <1>1, <2>3 DEF RingOrdered
    <2> QED
      BY <2>1, <2>2, <2>3
  <1>5. /\ \A f \in Flushers : flush'[f].pc = "idle"
        /\ nvs' = nvs /\ loop' = "awake"
    BY DEF ColdBoot, DeepSleep, InitRam, NotFlushing
  <1>6. \A f \in Flushers : ~Writing(f)'
    BY <1>5 DEF Writing, NvsKeys
  <1>7. FlushInProgress'
    BY <1>5, <1>6 DEF FlushInProgress, SingleWriter, SnapshotWritten, NoFlushCutOff,
                      Flushers
  <1>8. BackupRestorable'
    BY <1>3, <1>5 DEF BackupRestorable, BackupIntact
  <1> QED
    BY <1>4, <1>7, <1>8

\* The snapshot describes the ring that it was taken of.
LEMMA SnapshotOrdered ==
  ASSUME TypeOK, RingOrdered PROVE OrderedRing(AsRing(TakeSnapshot))
  <1>1. AsRing(TakeSnapshot) = rtc
    BY DEF TypeOK, RTCState, AsRing, TakeSnapshot
  <1> QED
    BY <1>1 DEF RingOrdered

LEMMA BackupBegin ==
  ASSUME NoTearing, BackupInv, NEW f \in Flushers, BeginFlush(f)
  PROVE  FlushInProgress' /\ BackupRestorable'
  <1>1. TypeOK /\ RingOrdered /\ NoFlushCutOff /\ SnapshotWritten
    BY DEF BackupInv, FlushInProgress
  <1>2. /\ UNCHANGED <<nvs, host, loop, workerRunning>> /\ flush[f].pc = "start"
        /\ \A g \in Flushers : ~Writing(g)
    BY DEF BeginFlush, MayOverlap, NoTearing, Writing, NvsKeys
  <1>3. CASE flush' = [flush EXCEPT ![f].pc = "refused"]
    <2>1. flush'[f].pc = "refused" /\ \A g \in Flushers \ {f} : flush'[g] = flush[g]
      BY <1>1, <1>3, FlushUpdate
    <2>2. flush[f].pc \in QuietPc /\ flush'[f].pc \in QuietPc
      BY <1>2, <2>1 DEF QuietPc
    <2>3. SingleWriter' /\ SnapshotWritten' /\ BackupRestorable'
      BY <1>2, <2>1, <2>2, QuietMove
    <2>4. \A g \in Flushers : Writing(g)' => Writing(g)
      BY <1>2, <2>1 DEF Writing, NvsKeys
    <2>5. NoFlushCutOff'
      BY <1>1, <1>2, <2>1, <2>4 DEF NoFlushCutOff, Flushers, StorageCmd
    <2> QED
      BY <2>3, <2>5 DEF FlushInProgress
  <1>4. CASE flush' = [flush EXCEPT ![f] = [pc |-> "bootCnt", success |-> TRUE,
                                            snap |-> TakeSnapshot]]
    <2>1. /\ flush'[f].pc = "bootCnt" /\ flush'[f].snap = TakeSnapshot
          /\ \A g \in Flushers \ {f} : flush'[g] = flush[g]
      BY <1>1, <1>4 DEF TypeOK
    <2>2. Writing(f)' /\ \A g \in Flushers \ {f} : ~Writing(g)'
      BY <1>2, <2>1 DEF Writing, NvsKeys
    <2>3. SingleWriter'
      BY <2>2 DEF SingleWriter
    <2>4. SnapshotWritten'
      <3>1. OrderedRing(AsRing(flush'[f].snap)) /\ KeysBefore[flush'[f].pc] = {}
        BY <1>1, <2>1, SnapshotOrdered DEF KeysBefore
      <3> QED
        BY <2>2, <3>1 DEF SnapshotWritten
    <2>5. BackupRestorable'
      BY <2>2 DEF BackupRestorable
    <2>6. NoFlushCutOff'
      BY <1>1, <1>2, <2>1, <2>2 DEF NoFlushCutOff, Flushers, StorageCmd
    <2> QED
      BY <2>3, <2>4, <2>5, <2>6 DEF FlushInProgress
  <1> QED
    BY <1>3, <1>4 DEF BeginFlush

LEMMA BackupPut ==
  ASSUME NoTearing, BackupInv, TypeOK', NEW f \in Flushers, PutKey(f)
  PROVE  FlushInProgress' /\ BackupRestorable'
  <1> DEFINE key == flush[f].pc
             snap == flush[f].snap
  <1>1. TypeOK /\ SingleWriter /\ NoFlushCutOff /\ SnapshotWritten
    BY DEF BackupInv, FlushInProgress
  <1>2. /\ UNCHANGED <<host, loop, workerRunning>> /\ key \in NvsKeys
        /\ nvs' = Put(nvs, key, snap[key])
        /\ flush'[f].pc = KeyAfter[key] /\ flush'[f].snap = snap
        /\ \A g \in Flushers \ {f} : flush'[g] = flush[g]
    <2>1. /\ UNCHANGED <<host, loop, workerRunning>> /\ key \in NvsKeys
          /\ "put_fails" \notin Faults
      BY DEF PutKey, Writing, NoTearing
    <2>2. PICK success :
            /\ nvs' = Put(nvs, key, snap[key])
            /\ flush' = [flush EXCEPT ![f] = [pc |-> KeyAfter[key], snap |-> snap,
                                              success |-> success]]
      BY <2>1, Zenon DEF PutKey, ValueOf, MayFail
    <2> QED
      BY <1>1, <2>1, <2>2 DEF TypeOK
  <1>3. Writing(f) /\ \A g \in Flushers \ {f} : ~Writing(g) /\ ~Writing(g)'
    BY <1>1, <1>2 DEF SingleWriter, Writing
  <1>4. /\ OrderedRing(AsRing(snap))
        /\ \A k \in KeysBefore[key] : k \in nvs.keys /\ nvs[k] = snap[k]
    BY <1>1, <1>3 DEF SnapshotWritten
  <1>5. /\ nvs'[key] = snap[key] /\ nvs'.keys = nvs.keys \cup {key}
        /\ \A k \in NvsKeys \ {key} : nvs'[k] = nvs[k]
    BY <1>1, <1>2, PutFacts DEF TypeOK
  <1>6. KeysBefore[key] \subseteq NvsKeys
    BY <1>2 DEF KeysBefore, NvsKeys
  <1>7. \A k \in KeysBefore[key] \cup {key} : k \in nvs'.keys /\ nvs'[k] = snap[k]
    BY <1>4, <1>5, <1>6
  <1>8. SingleWriter'
    BY <1>3 DEF SingleWriter
  <1>9. NoFlushCutOff'
    BY <1>1, <1>2, <1>3 DEF NoFlushCutOff, Flushers, Writing, NvsKeys, StorageCmd, KeyAfter
  <1>10. CASE key # "events"
    <2>1. /\ KeyAfter[key] \in NvsKeys
          /\ KeysBefore[KeyAfter[key]] = KeysBefore[key] \cup {key}
      BY <1>2, <1>10 DEF KeyAfter, KeysBefore, NvsKeys
    <2>2. Writing(f)'
      BY <1>2, <2>1 DEF Writing
    <2>3. SnapshotWritten'
      BY <1>2, <1>3, <1>4, <1>7, <2>1 DEF SnapshotWritten
    <2>4. BackupRestorable'
      BY <2>2 DEF BackupRestorable
    <2> QED
      BY <1>8, <1>9, <2>3, <2>4 DEF FlushInProgress
  <1>11. CASE key = "events"
    <2>1. ~Writing(f)'
      BY <1>2, <1>11 DEF Writing, KeyAfter, NvsKeys
    <2>2. SnapshotWritten'
      BY <1>3, <2>1 DEF SnapshotWritten
    <2>3. \A k \in NvsKeys : k \in nvs'.keys /\ nvs'[k] = snap[k]
      BY <1>7, <1>11 DEF KeysBefore, NvsKeys
    <2>4. nvs'.keys = NvsKeys
      BY <2>3 DEF TypeOK, NvsState
    <2>5. OrderedRing(AsRing(nvs'))
      <3>1. snap \in Snapshot
        BY <1>1 DEF TypeOK, FlushRecord
      <3>2. /\ nvs'.head = snap.head /\ nvs'.tail = snap.tail
            /\ nvs'.eventId = snap.eventId /\ nvs'.events = snap.events
        BY <2>3 DEF NvsKeys
      <3>3. /\ AsRing(nvs').head = AsRing(snap).head
            /\ AsRing(nvs').tail = AsRing(snap).tail
            /\ AsRing(nvs').buffer = AsRing(snap).buffer
            /\ AsRing(nvs').globalEventId = AsRing(snap).globalEventId
        BY <3>2 DEF AsRing
      <3> QED
        BY <1>4, <3>3 DEF OrderedRing
    <2>6. BackupRestorable'
      BY <2>4, <2>5 DEF BackupRestorable, BackupIntact
    <2> QED
      BY <1>8, <1>9, <2>2, <2>6 DEF FlushInProgress
  <1> QED
    BY <1>10, <1>11

LEMMA BackupInit == Init => BackupInv
  <1> SUFFICES ASSUME Init PROVE BackupInv
    OBVIOUS
  <1>1. TypeOK
    BY TypeInit
  <1>2. RingOrdered
    BY OrderedInit DEF Init, RingOrdered
  <1>3. /\ \A f \in Flushers : flush[f].pc = "idle"
        /\ loop = "awake" /\ nvs.keys = {}
    BY DEF Init, NotFlushing
  <1>4. \A f \in Flushers : ~Writing(f)
    BY <1>3 DEF Writing, NvsKeys
  <1> QED
    BY <1>1, <1>2, <1>3, <1>4 DEF BackupInv, FlushInProgress, SingleWriter,
       SnapshotWritten, NoFlushCutOff, BackupRestorable, Flushers

LEMMA BackupStep ==
  ASSUME NoTearing, BackupInv, [Next]_vars PROVE BackupInv'
  <1>1. TypeOK /\ RingOrdered /\ FlushInProgress /\ BackupRestorable
    BY DEF BackupInv
  <1>2. TypeOK'
    <2>1. CASE UNCHANGED vars
      BY <1>1, <2>1 DEF vars, ram, TypeOK
    <2>2. CASE Next
      BY <1>1, <2>2, TypeSensor, TypeHost, TypeWorker, TypeLoop, TypeFlush, TypeReset
      DEF Next
    <2> QED
      BY <2>1, <2>2
  <1>3. FlushInProgress' /\ BackupRestorable'
    <2>1. CASE UNCHANGED vars
      <3>1. UNCHANGED <<nvs, flush, host, loop, workerRunning>>
        BY <2>1 DEF vars, ram
      <3>2. SingleWriter' /\ SnapshotWritten' /\ BackupRestorable'
        BY <3>1, QuietStep
      <3> QED
        BY <1>1, <3>1, <3>2 DEF FlushInProgress, NoFlushCutOff, Writing
    <2>2. CASE Flush
      BY <1>2, <2>2, BackupBegin, BackupPut DEF Flush
    <2> QED
      BY <2>1, <2>2, BackupSensor, BackupHost, BackupWorker, BackupLoop, BackupReset DEF Next
  <1>4. RingOrdered'
    <2>1. CASE ColdBoot \/ DeepSleep
      BY <2>1, BackupReset
    <2>2. CASE RingOrdered' \/ ~(ColdBoot \/ DeepSleep)
      BY <1>1, <2>2, OrderedStep
    <2> QED
      BY <2>1, <2>2
  <1> QED
    BY <1>2, <1>3, <1>4 DEF BackupInv

LEMMA BackupAlways == ASSUME NoTearing PROVE Spec => []BackupInv
  <1>1. BackupInv /\ [Next]_vars => BackupInv'
    BY BackupStep
  <1> QED
    BY BackupInit, <1>1, PTL DEF Spec

\* Without tearing the events in the ring stay in the order of their numbers, through
\* every interleaving of the four tasks, every cold boot between two flushes, every
\* wake with a corrupted ring and every aborted sleep.
THEOREM OrderCorrect == ASSUME NoTearing PROVE Spec => []RingOrdered
  <1>1. BackupInv => RingOrdered
    BY DEF BackupInv
  <1> QED
    BY BackupAlways, <1>1, PTL

\* Without tearing the backup is missing or one consistent snapshot whenever no flush
\* is writing, whichever of three tasks wrote it last.
THEOREM BackupSafe == ASSUME NoTearing PROVE Spec => []BackupRestorable
  <1>1. BackupInv => BackupRestorable
    BY DEF BackupInv
  <1> QED
    BY BackupAlways, <1>1, PTL

-----------------------------------------------------------------------------
(* The flag _flushPending *)

\* A step of a request raises the flag while its task owns it, hands it over to a
\* command, or lowers it.
LEMMA RequestOwned ==
  ASSUME TypeOK, NEW from, NEW to, RequestSave(from, to)
  PROVE  flushPending' => queue' # <<>> \/ to \in {"raised", "full"}
  <1>1. queue \in Seq(StorageCmd)
    BY DEF TypeOK
  <1>2. Append(queue, "SAVE_HIT") # <<>>
    BY <1>1
  <1> QED
    BY <1>2, Zenon DEF RequestSave

\* Sensor task and host task leave the commands in progress alone, and each other's
\* requests.
LEMMA OwnedRequests ==
  ASSUME TypeOK, FlushPendingOwned, SensorTask \/ HostTask PROVE FlushPendingOwned'
  <1>1. CASE RequestFlush
    <2>1. PICK to \in AfterRequest : RequestSave(sensor, to) /\ sensor' = to
      BY <1>1 DEF RequestFlush
    <2>2. flushPending' => queue' # <<>> \/ sensor' \in {"raised", "full"}
      BY <2>1, RequestOwned
    <2> QED
      BY <2>2 DEF FlushPendingOwned
  <1>2. CASE RequestHostFlush
    <2>1. PICK to \in AfterRequest : RequestSave(host, to) /\ host' = to
      BY <1>2 DEF RequestHostFlush
    <2>2. flushPending' => queue' # <<>> \/ host' \in {"raised", "full"}
      BY <2>1, RequestOwned
    <2> QED
      BY <2>2 DEF FlushPendingOwned
  <1>3. ASSUME UNCHANGED <<queue, flushPending, workerAlive, loop>>,
               flush'["worker"] = flush["worker"],
               sensor' = sensor \/ sensor \notin {"raised", "full"},
               host' = host \/ host \notin {"raised", "full"}
        PROVE  FlushPendingOwned'
    BY <1>3 DEF FlushPendingOwned
  <1>4. CASE HostFlushReturns
    <2>1. flush'["worker"] = flush["worker"]
      BY <1>4, FlushUpdate DEF HostFlushReturns, Flushers
    <2> QED
      BY <1>3, <1>4, <2>1 DEF HostFlushReturns
  <1>5. CASE PersistFastForward
    <2>1. CASE workerRunning /\ ~QueueFull
      <3>1. queue' = Append(queue, "FORCE_FLUSH") /\ queue \in Seq(StorageCmd)
        BY <1>5, <2>1 DEF PersistFastForward, TypeOK
      <3>2. queue' # <<>>
        BY <3>1
      <3> QED
        BY <3>2 DEF FlushPendingOwned
    <2>2. CASE ~(workerRunning /\ ~QueueFull)
      <3>1. flush'["worker"] = flush["worker"]
        BY <1>5, <2>2, FlushUpdate DEF PersistFastForward, Flushers
      <3> QED
        BY <1>3, <1>5, <2>2, <3>1 DEF PersistFastForward
    <2> QED
      BY <2>1, <2>2
  <1>6. CASE LogDetection \/ DecideFlush
    BY <1>3, <1>6 DEF LogDetection, DecideFlush
  <1>7. CASE \/ BleConnect \/ BleDisconnect \/ applyTimeSync
             \/ \E id \in 0 .. MaxEventId : markAsSynced(id) \/ fastForwardEventId(id)
    BY <1>3, <1>7 DEF BleConnect, BleDisconnect, applyTimeSync, markAsSynced,
                      fastForwardEventId, ram
  <1> QED
    BY <1>1, <1>2, <1>4, <1>5, <1>6, <1>7 DEF SensorTask, HostTask

\* The worker owns the command from the queue until it has lowered the flag, or puts
\* it back; where there is no room for it, the queue has another one.
LEMMA OwnedWorker ==
  ASSUME TypeOK, FlushPendingOwned, StorageWorker PROVE FlushPendingOwned'
  <1>1. ASSUME NEW pc, flush' = [flush EXCEPT !["worker"].pc = pc],
               queue' # <<>> \/ pc \notin {"idle", "waiting"}
        PROVE  FlushPendingOwned'
    <2>1. flush'["worker"].pc = pc
      BY <1>1, FlushUpdate DEF Flushers
    <2> QED
      BY <1>1, <2>1 DEF FlushPendingOwned
  <1>2. CASE WorkerWait
    BY <1>2 DEF WorkerWait, FlushPendingOwned
  <1>3. CASE WorkerTimeout
    BY <1>3 DEF WorkerTimeout, FlushPendingOwned
  <1>4. CASE WorkerReceive
    <2>1. Head(queue) \in StorageCmd
      BY <1>4 DEF WorkerReceive, TypeOK
    <2>2. Head(queue) \notin {"idle", "waiting"}
      BY <2>1 DEF StorageCmd
    <2> QED
      BY <1>1, <1>4, <2>2 DEF WorkerReceive
  <1>5. CASE WorkerCheckRunning
    <2>1. CASE workerRunning
      <3>1. flush' = [flush EXCEPT !["worker"].pc = "start"]
        BY <1>5, <2>1 DEF WorkerCheckRunning
      <3>2. flush'["worker"].pc = "start"
        BY <3>1, FlushUpdate DEF Flushers
      <3> QED
        BY <3>2 DEF FlushPendingOwned
    <2>2. CASE ~workerRunning
      <3>1. queue' = PutBack(flush["worker"].pc) /\ queue \in Seq(StorageCmd)
        BY <1>5, <2>2 DEF WorkerCheckRunning, TypeOK
      <3>2. flush["worker"].pc \in StorageCmd
        BY <1>5 DEF WorkerCheckRunning
      <3>3. CASE QueueFull
        <4>1. Len(queue) # 0
          BY <3>1, <3>3 DEF QueueFull
        <4>2. queue' # <<>>
          BY <3>1, <3>3, <4>1 DEF PutBack
        <4> QED
          BY <1>1, <1>5, <2>2, <4>2 DEF WorkerCheckRunning
      <3>4. CASE ~QueueFull
        <4>1. queue' = <<flush["worker"].pc>> \o queue
          BY <3>1, <3>4 DEF PutBack
        <4>2. queue' # <<>>
          BY <3>1, <3>2, <4>1
        <4> QED
          BY <1>1, <1>5, <2>2, <4>2 DEF WorkerCheckRunning
      <3> QED
        BY <3>3, <3>4
    <2> QED
      BY <2>1, <2>2
  <1>6. CASE WorkerDone
    BY <1>6 DEF WorkerDone, LoweredBy, FlushPendingOwned
  <1> QED
    BY <1>2, <1>3, <1>4, <1>5, <1>6 DEF StorageWorker

\* The loop task takes the commands over one by one and lowers the flag; a worker
\* that it deletes owns nothing any more.
LEMMA OwnedLoop ==
  ASSUME TypeOK, FlushPendingOwned, LoopTask PROVE FlushPendingOwned'
  <1>1. ASSUME UNCHANGED <<queue, flushPending, workerAlive, sensor, host>>,
               flush'["worker"] = flush["worker"], loop # "draining"
        PROVE  FlushPendingOwned'
    BY <1>1 DEF FlushPendingOwned
  <1>2. CASE StopStorageWorker \/ GraceOver \/ SleepAborted
    BY <1>1, <1>2 DEF StopStorageWorker, GraceOver, SleepAborted
  <1>3. CASE DrainCommand
    BY <1>3 DEF DrainCommand, FlushPendingOwned
  <1>4. CASE DrainedCommand
    BY <1>4 DEF DrainedCommand, LoweredBy, FlushPendingOwned
  <1>5. CASE DeleteWorker
    BY <1>5 DEF DeleteWorker, FlushPendingOwned
  <1>6. CASE FinalSync \/ FinalSyncDone
    <2>1. flush'["worker"] = flush["worker"]
      BY <1>6, FlushUpdate DEF FinalSync, FinalSyncDone, Flushers
    <2> QED
      BY <1>1, <1>6, <2>1 DEF FinalSync, FinalSyncDone
  <1> QED
    BY <1>2, <1>3, <1>4, <1>5, <1>6 DEF LoopTask

\* A flush in progress goes on; it stays with its task until that takes notice.
LEMMA OwnedFlush ==
  ASSUME TypeOK, FlushPendingOwned, Flush PROVE FlushPendingOwned'
  <1>1. PICK f \in Flushers : BeginFlush(f) \/ PutKey(f)
    BY DEF Flush
  <1>2. /\ UNCHANGED <<queue, flushPending, workerAlive, loop, sensor, host>>
        /\ \A g \in Flushers \ {f} : flush'[g] = flush[g]
        /\ flush'[f].pc \notin {"idle", "waiting"}
    <2>1. CASE BeginFlush(f)
      <3>1. \/ flush' = [flush EXCEPT ![f].pc = "refused"]
            \/ flush' = [flush EXCEPT ![f] = [pc |-> "bootCnt", success |-> TRUE,
                                              snap |-> TakeSnapshot]]
        BY <2>1 DEF BeginFlush
      <3>2. /\ \A g \in Flushers \ {f} : flush'[g] = flush[g]
            /\ flush'[f].pc \in {"refused", "bootCnt"}
        BY <3>1 DEF TypeOK, FlushRecord
      <3> QED
        BY <2>1, <3>2 DEF BeginFlush
    <2>2. CASE PutKey(f)
      <3>1. PICK success :
              flush' = [flush EXCEPT ![f] = [pc |-> KeyAfter[flush[f].pc],
                                             snap |-> flush[f].snap, success |-> success]]
        BY <2>2, Zenon DEF PutKey
      <3>2. KeyAfter[flush[f].pc] \notin {"idle", "waiting"}
        BY <2>2 DEF PutKey, Writing, NvsKeys, KeyAfter
      <3>3. /\ \A g \in Flushers \ {f} : flush'[g] = flush[g]
            /\ flush'[f].pc = KeyAfter[flush[f].pc]
        BY <3>1 DEF TypeOK, FlushRecord
      <3> QED
        BY <2>2, <3>2, <3>3 DEF PutKey
    <2> QED
      BY <1>1, <2>1, <2>2
  <1>3. \/ flush'["worker"] = flush["worker"]
        \/ flush'["worker"].pc \notin {"idle", "waiting"}
    BY <1>2 DEF Flushers
  <1> QED
    BY <1>2, <1>3 DEF FlushPendingOwned

LEMMA OwnedStep ==
  ASSUME TypeOK, FlushPendingOwned, [Next]_vars PROVE FlushPendingOwned'
  <1>1. CASE UNCHANGED vars
    BY <1>1 DEF vars, ram, FlushPendingOwned
  <1>2. CASE ColdBoot \/ DeepSleep
    BY <1>2 DEF ColdBoot, DeepSleep, InitRam, FlushPendingOwned
  <1> QED
    BY <1>1, <1>2, OwnedRequests, OwnedWorker, OwnedLoop, OwnedFlush DEF Next

\* As long as the storage worker exists, _flushPending never stays up with nobody to
\* lower it: whatever the four tasks do to the queue, to the worker and, between the
\* check of the flag and the command, to each other's requests, and under every fault.
\* It does not say so of the time after the worker was deleted: a device whose deep
\* sleep was aborted has no worker, and there the flag may stay up for ever.
THEOREM FlushPendingCorrect == Spec => []FlushPendingOwned
  <1>1. Init => FlushPendingOwned
    BY DEF Init, FlushPendingOwned
  <1>2. TypeOK /\ FlushPendingOwned /\ [Next]_vars => FlushPendingOwned'
    BY OwnedStep
  <1> QED
    BY <1>1, <1>2, TypeCorrect, PTL DEF Spec

-----------------------------------------------------------------------------
(* What the ring loses *)

\* logDetection writes a slot that was not live and is the newest afterwards; unless
\* the ring is full, every slot stays live.
LEMMA LiveKept ==
  ASSUME NEW head \in Slots, NEW tail \in Slots, NEW newTail,
         newTail = IF NextIndex(head) = tail THEN NextIndex(tail) ELSE tail
  PROVE  /\ head \notin Live(head, tail)
         /\ head \in Live(NextIndex(head), newTail)
         /\ NextIndex(head) # tail =>
              \A s \in Live(head, tail) : s \in Live(NextIndex(head), newTail)
  BY DEF Live, Offset, getEventCount, NextIndex, Slots

\* A detection loses an event only by overflow, and then says so.
LEMMA LogLoss ==
  ASSUME TypeOK, LogDetection
  PROVE  \/ \A e \in LiveEvents(rtc) : \E k \in LiveEvents(rtc') :
              k.id = e.id /\ (e.synced => k.synced)
         \/ \E k \in LiveEvents(rtc') : k.id = rtc'.globalEventId /\ k.overflow
  <1>1. rtc.head \in Slots /\ rtc.tail \in Slots /\ rtc.buffer \in [Slots -> Event]
    BY DEF TypeOK, RTCState
  <1>2. /\ rtc'.head = NextIndex(rtc.head)
        /\ rtc'.tail = IF NextIndex(rtc.head) = rtc.tail
                       THEN NextIndex(rtc.tail) ELSE rtc.tail
        /\ rtc'.buffer = [rtc.buffer EXCEPT ![rtc.head] =
             [id |-> rtc'.globalEventId, synced |-> FALSE,
              overflow |-> NextIndex(rtc.head) = rtc.tail]]
    BY DEF LogDetection, Logged, Overflows
  <1>3. \A s \in Live(rtc.head, rtc.tail) : s \in Slots
    BY DEF Live
  <1>4. rtc.head \in Live(rtc'.head, rtc'.tail)
    BY <1>1, <1>2, LiveKept
  <1>5. CASE NextIndex(rtc.head) = rtc.tail
    <2> DEFINE k == rtc'.buffer[rtc.head]
    <2>1. k \in LiveEvents(rtc')
      BY <1>4 DEF LiveEvents
    <2>2. k = [id |-> rtc'.globalEventId, synced |-> FALSE,
               overflow |-> NextIndex(rtc.head) = rtc.tail]
      BY <1>1, <1>2, Zenon
    <2>3. k = [id |-> rtc'.globalEventId, synced |-> FALSE, overflow |-> TRUE]
      BY <1>5, <2>2, Zenon
    <2> HIDE DEF k
    <2>4. k.id = rtc'.globalEventId /\ k.overflow
      BY <2>3
    <2> QED
      BY <2>1, <2>4
  <1>6. CASE NextIndex(rtc.head) # rtc.tail
    <2>1. ASSUME NEW e \in LiveEvents(rtc) PROVE e \in LiveEvents(rtc')
      <3>1. PICK s \in Live(rtc.head, rtc.tail) : e = rtc.buffer[s]
        BY <2>1 DEF LiveEvents
      <3>2. s \in Live(rtc'.head, rtc'.tail) /\ s # rtc.head
        BY <1>1, <1>2, <1>6, LiveKept
      <3>3. rtc'.buffer[s] = e
        BY <1>1, <1>2, <1>3, <3>1, <3>2
      <3> QED
        BY <3>2, <3>3 DEF LiveEvents
    <2> QED
      BY <2>1
  <1> QED
    BY <1>5, <1>6

\* An ACK from the app loses nothing and takes no mark back.
LEMMA MarkLoss ==
  ASSUME TypeOK, NEW id \in 0 .. MaxEventId, markAsSynced(id)
  PROVE  \A e \in LiveEvents(rtc) : \E k \in LiveEvents(rtc') :
           k.id = e.id /\ (e.synced => k.synced)
  <1>1. PICK s \in Live(rtc.head, rtc.tail) :
          rtc' = [rtc EXCEPT !.buffer[s] = Synced(rtc.buffer[s])]
    BY DEF markAsSynced
  <1>2. \A t \in Live(rtc.head, rtc.tail) : t \in Slots
    BY DEF Live
  <1>3. /\ rtc'.head = rtc.head /\ rtc'.tail = rtc.tail
        /\ rtc'.buffer = [rtc.buffer EXCEPT ![s] = Synced(rtc.buffer[s])]
        /\ rtc.buffer \in [Slots -> Event]
    BY <1>1 DEF TypeOK, RTCState
  <1>4. ASSUME NEW e \in LiveEvents(rtc)
        PROVE  \E k \in LiveEvents(rtc') : k.id = e.id /\ (e.synced => k.synced)
    <2>1. PICK t \in Live(rtc.head, rtc.tail) : e = rtc.buffer[t]
      BY <1>4 DEF LiveEvents
    <2>2. rtc'.buffer[t] \in LiveEvents(rtc')
      BY <1>3 DEF LiveEvents
    <2>3. rtc'.buffer[t] = e \/ rtc'.buffer[t] = Synced(e)
      BY <1>2, <1>3, <2>1
    <2>4. Synced(e).id = e.id /\ Synced(e).synced
      BY DEF Synced
    <2> QED
      BY <2>2, <2>3, <2>4
  <1> QED
    BY <1>4

\* As long as the RTC memory keeps its contents in deep sleep, no event is lost without
\* the overflow flag and no ACK is forgotten, except in a cold boot: for every size of
\* the ring, with power cuts, overlapping flushes, failing writes and aborted sleeps.
THEOREM LossCorrect ==
  ASSUME "rtc_corrupt" \notin Faults PROVE Spec => LossIsFlagged
  <1> DEFINE Kept == \A e \in LiveEvents(rtc) : \E k \in LiveEvents(rtc') :
                       k.id = e.id /\ (e.synced => k.synced)
             Flagged == \E k \in LiveEvents(rtc') : k.id = rtc'.globalEventId /\ k.overflow
  <1>1. TypeOK /\ [Next]_vars => [Kept \/ Flagged \/ ColdBoot]_vars
    <2> SUFFICES ASSUME TypeOK, Next PROVE Kept \/ Flagged \/ ColdBoot
      OBVIOUS
    <2>1. CASE UNCHANGED rtc
      BY <2>1
    <2>2. CASE LogDetection
      BY <2>2, LogLoss
    <2>3. CASE \E id \in 0 .. MaxEventId : markAsSynced(id)
      BY <2>3, MarkLoss
    <2>4. CASE \E id \in 0 .. MaxEventId : fastForwardEventId(id)
      <3>1. rtc'.head = rtc.head /\ rtc'.tail = rtc.tail /\ rtc'.buffer = rtc.buffer
        BY <2>4 DEF fastForwardEventId, TypeOK, RTCState
      <3>2. LiveEvents(rtc') = LiveEvents(rtc)
        BY <3>1 DEF LiveEvents
      <3> QED
        BY <3>2
    <2>5. CASE DeepSleep
      BY <2>1, <2>5 DEF DeepSleep
    <2>6. CASE Flush
      BY <2>1, <2>6 DEF Flush, BeginFlush, PutKey
    <2>7. CASE StorageWorker
      BY <2>1, <2>7 DEF StorageWorker, WorkerWait, WorkerTimeout, WorkerReceive,
                        WorkerCheckRunning, WorkerDone
    <2>8. CASE LoopTask
      BY <2>1, <2>8 DEF LoopTask, StopStorageWorker, GraceOver, DrainCommand,
                        DrainedCommand, DeleteWorker, FinalSync, FinalSyncDone, SleepAborted
    <2>9. CASE \/ DecideFlush \/ RequestFlush \/ BleConnect \/ BleDisconnect \/ applyTimeSync
               \/ RequestHostFlush \/ PersistFastForward \/ HostFlushReturns
      BY <2>1, <2>9 DEF DecideFlush, RequestFlush, BleConnect, BleDisconnect, applyTimeSync,
                        RequestHostFlush, PersistFastForward, HostFlushReturns
    <2> HIDE DEF Kept, Flagged
    <2> QED
      BY <2>2, <2>3, <2>4, <2>5, <2>6, <2>7, <2>8, <2>9 DEF Next, SensorTask, HostTask
  <1> QED
    BY <1>1, TypeCorrect, PTL DEF Spec, LossIsFlagged

-----------------------------------------------------------------------------
(* What a cold boot brings back *)

\* Of two copies of a ring with the same indices and buffer the live events are equal.
LEMMA LiveEventsCongruence ==
  ASSUME NEW r, NEW q, r.head = q.head, r.tail = q.tail, r.buffer = q.buffer
  PROVE  LiveEvents(r) = LiveEvents(q)
  BY DEF LiveEvents

\* A ring with no events in it.
LEMMA EmptyRing ==
  ASSUME NEW r, r.head \in Slots, r.tail \in Slots, getEventCount(r.head, r.tail) = 0
  PROVE  LiveEvents(r) = {}
  BY DEF LiveEvents, Live, Offset, Slots

\* A ring holds one event less than it has slots.
LEMMA CountBound ==
  ASSUME NEW head \in Slots, NEW tail \in Slots
  PROVE  getEventCount(head, tail) \in 0 .. BUFFER_SIZE - 1
  BY DEF getEventCount, Slots

\* restoreFromNvs returns the number of events as a uint8_t and init takes 0 for "no
\* backup"; with up to 256 slots (50 in the firmware) only an empty ring counts as
\* none, and a cold boot brings back every event of an intact backup.  No assumption on
\* faults: this is about one boot, whatever led to the backup.
THEOREM ColdBootCorrect ==
  ASSUME BUFFER_SIZE <= 256 PROVE Spec => ColdBootKeepsBackup
  <1> DEFINE Same == {e.id : e \in LiveEvents(AsRing(nvs))} = {e.id : e \in LiveEvents(rtc')}
  <1>1. TypeOK /\ [Next]_vars => [ColdBoot /\ BackupIntact => Same]_vars
    <2> SUFFICES ASSUME TypeOK, ColdBoot, BackupIntact PROVE Same
      OBVIOUS
    <2>1. nvs.head \in Slots /\ nvs.tail \in Slots /\ Restore
      BY DEF TypeOK, NvsState, ColdBoot
    <2>2. getEventCount(nvs.head, nvs.tail) \in 0 .. 255
      BY <2>1, CountBound
    <2>3. restoredCount = getEventCount(nvs.head, nvs.tail)
      BY <2>2 DEF restoredCount
    <2>4. AsRing(nvs).head = nvs.head /\ AsRing(nvs).tail = nvs.tail
          /\ AsRing(nvs).buffer = nvs.events
      BY DEF AsRing
    <2>5. "eventId" \in nvs.keys /\ "events" \in nvs.keys
      BY DEF BackupIntact, NvsKeys
    <2>6. LiveEvents(AsRing(nvs)) = LiveEvents(rtc')
      <3>1. CASE restoredCount = 0 /\ rtc' = FreshState
        <4>1. LiveEvents(AsRing(nvs)) = {}
          BY <2>1, <2>3, <2>4, <3>1, EmptyRing
        <4>2. rtc'.head = 0 /\ rtc'.tail = 0 /\ 0 \in Slots /\ getEventCount(0, 0) = 0
          BY <3>1 DEF FreshState, Slots, getEventCount
        <4>3. LiveEvents(rtc') = {}
          BY <4>2, EmptyRing
        <4> QED
          BY <4>1, <4>3
      <3>2. CASE rtc' = [AsRing(nvs) EXCEPT !.bootCount = nvs.bootCnt + 1,
                                            !.buffer = nvs.events]
        <4>1. rtc'.head = nvs.head /\ rtc'.tail = nvs.tail /\ rtc'.buffer = nvs.events
          BY <3>2 DEF AsRing
        <4> QED
          BY <2>4, <4>1, LiveEventsCongruence
      <3> QED
        BY <2>1, <2>5, <3>1, <3>2 DEF Restore
    <2> QED
      BY <2>6
  <1> QED
    BY <1>1, TypeCorrect, PTL DEF Spec, ColdBootKeepsBackup

-----------------------------------------------------------------------------
(* The backup before deep sleep *)

\* Every live event of ring now is newer than n or has its id in ring kept.
CoveredBy(now, kept, n) ==
  \A e \in LiveEvents(now) : e.id > n \/ \E b \in LiveEvents(kept) : b.id = e.id

\* By the final sync the worker is gone, and no flush of it is left half done.
WorkerGone ==
  /\ ~workerAlive => flush["worker"].pc = "idle"
  /\ loop \in {"sync", "syncing"} => ~workerAlive

\* From the snapshot of the final sync on: the snapshot covers the ring.  Once it is
\* written the backup does, or, while the host task writes the next one, its snapshot.
FinalSynced ==
  loop = "syncing" /\ flush["loop"].pc \in NvsKeys \cup {"returned"} =>
    LET snap == flush["loop"].snap
        next == IF Writing("host") THEN flush["host"].snap ELSE nvs
    IN  /\ snap.eventId <= rtc.globalEventId
        /\ CoveredBy(rtc, AsRing(snap), snap.eventId)
        /\ flush["loop"].pc = "returned" => CoveredBy(rtc, AsRing(next), snap.eventId)

SyncInv == WorkerGone /\ FinalSynced

\* What is covered depends on the events of the rings only.
LEMMA CoveredCongruence ==
  ASSUME NEW now, NEW kept, NEW copy, NEW n,
         LiveEvents(copy) = LiveEvents(kept), CoveredBy(now, kept, n)
  PROVE  CoveredBy(now, copy, n)
  BY DEF CoveredBy

\* Between two resets an event in the ring was there before or has a new number.
LEMMA NewIsNumbered ==
  ASSUME TypeOK, Next
  PROVE  \/ ColdBoot \/ DeepSleep
         \/ /\ rtc'.globalEventId >= rtc.globalEventId
            /\ CoveredBy(rtc', rtc, rtc.globalEventId)
  <1> DEFINE Numbered == /\ rtc'.globalEventId >= rtc.globalEventId
                         /\ CoveredBy(rtc', rtc, rtc.globalEventId)
  <1>a. /\ rtc.head \in Slots /\ rtc.tail \in Slots /\ rtc.globalEventId \in Nat
        /\ rtc.buffer \in [Slots -> Event]
    BY DEF TypeOK, RTCState
  <1>b. \A h, t \in Slots : \A s \in Live(h, t) : s \in Slots
    BY DEF Live
  <1>1. CASE UNCHANGED rtc
    BY <1>1, <1>a DEF CoveredBy
  <1>2. CASE LogDetection
    <2>1. /\ rtc'.head = NextIndex(rtc.head)
          /\ rtc'.tail = IF NextIndex(rtc.head) = rtc.tail
                         THEN NextIndex(rtc.tail) ELSE rtc.tail
          /\ rtc'.globalEventId = rtc.globalEventId + 1
          /\ rtc'.buffer[rtc.head].id = rtc.globalEventId + 1
          /\ \A s \in Slots \ {rtc.head} : rtc'.buffer[s] = rtc.buffer[s]
      BY <1>2, <1>a DEF LogDetection, Logged, Overflows
    <2>2. ASSUME NEW e \in LiveEvents(rtc')
          PROVE  e.id > rtc.globalEventId \/ \E b \in LiveEvents(rtc) : b.id = e.id
      <3>1. PICK s \in Live(rtc'.head, rtc'.tail) : e = rtc'.buffer[s]
        BY <2>2 DEF LiveEvents
      <3>2. s \in Slots
        BY DEF Live
      <3>3. CASE s = rtc.head
        BY <1>a, <2>1, <3>1, <3>3
      <3>4. CASE s # rtc.head
        <4>1. s \in Live(rtc.head, rtc.tail)
          BY <1>a, <2>1, <3>1, <3>2, <3>4, LiveAfterLog
        <4>2. e \in LiveEvents(rtc)
          BY <2>1, <3>1, <3>2, <3>4, <4>1 DEF LiveEvents
        <4> QED
          BY <4>2
      <3> QED
        BY <3>3, <3>4
    <2>3. rtc'.globalEventId >= rtc.globalEventId
      BY <1>a, <2>1
    <2> QED
      BY <2>2, <2>3 DEF CoveredBy
  <1>3. ASSUME NEW id \in 0 .. MaxEventId, markAsSynced(id) PROVE Numbered
    <2>1. PICK s \in Live(rtc.head, rtc.tail) :
            rtc' = [rtc EXCEPT !.buffer[s] = Synced(rtc.buffer[s])]
      BY <1>3 DEF markAsSynced
    <2>2. s \in Slots
      BY DEF Live
    <2>3. /\ rtc'.head = rtc.head /\ rtc'.tail = rtc.tail
          /\ rtc'.globalEventId = rtc.globalEventId
          /\ \A x \in Slots : rtc'.buffer[x].id = rtc.buffer[x].id
      BY <1>a, <2>1, <2>2 DEF TypeOK, RTCState, Event, Synced
    <2>4. ASSUME NEW e \in LiveEvents(rtc') PROVE \E b \in LiveEvents(rtc) : b.id = e.id
      <3>1. PICK t \in Live(rtc.head, rtc.tail) : e = rtc'.buffer[t]
        BY <2>3, <2>4 DEF LiveEvents
      <3>2. t \in Slots
        BY DEF Live
      <3>3. rtc.buffer[t] \in LiveEvents(rtc)
        BY DEF LiveEvents
      <3> QED
        BY <2>3, <3>1, <3>2, <3>3
    <2> QED
      BY <1>a, <2>3, <2>4 DEF CoveredBy
  <1>4. ASSUME NEW id \in 0 .. MaxEventId, fastForwardEventId(id) PROVE Numbered
    <2>1. /\ rtc'.head = rtc.head /\ rtc'.tail = rtc.tail /\ rtc'.buffer = rtc.buffer
          /\ rtc'.globalEventId >= rtc.globalEventId
      BY <1>4, <1>a DEF fastForwardEventId, AppIsAhead, TypeOK, RTCState
    <2>2. LiveEvents(rtc') = LiveEvents(rtc)
      BY <2>1, LiveEventsCongruence
    <2> QED
      BY <2>1, <2>2 DEF CoveredBy
  <1>5. CASE Flush
    BY <1>1, <1>5 DEF Flush, BeginFlush, PutKey
  <1>6. CASE StorageWorker
    BY <1>1, <1>6 DEF StorageWorker, WorkerWait, WorkerTimeout, WorkerReceive,
                      WorkerCheckRunning, WorkerDone
  <1>7. CASE LoopTask
    BY <1>1, <1>7 DEF LoopTask, StopStorageWorker, GraceOver, DrainCommand,
                      DrainedCommand, DeleteWorker, FinalSync, FinalSyncDone, SleepAborted
  <1>8. CASE \/ DecideFlush \/ RequestFlush \/ BleConnect \/ BleDisconnect \/ applyTimeSync
             \/ RequestHostFlush \/ PersistFastForward \/ HostFlushReturns
    BY <1>1, <1>8 DEF DecideFlush, RequestFlush, BleConnect, BleDisconnect, applyTimeSync,
                      RequestHostFlush, PersistFastForward, HostFlushReturns
  <1> HIDE DEF Numbered
  <1>9. ColdBoot \/ DeepSleep \/ Numbered
    BY <1>2, <1>3, <1>4, <1>5, <1>6, <1>7, <1>8 DEF Next, SensorTask, HostTask, Numbered
  <1> QED
    BY <1>9 DEF Numbered

\* ... so that what covers the ring goes on to cover it.
LEMMA StillCovered ==
  ASSUME TypeOK, NEW kept, NEW n \in Nat, n <= rtc.globalEventId,
         CoveredBy(rtc, kept, n), TypeOK',
         rtc'.globalEventId >= rtc.globalEventId, CoveredBy(rtc', rtc, rtc.globalEventId)
  PROVE  n <= rtc'.globalEventId /\ CoveredBy(rtc', kept, n)
  <1>1. rtc.globalEventId \in Nat /\ rtc'.globalEventId \in Nat
    BY DEF TypeOK, RTCState
  <1>2. \A e \in LiveEvents(rtc') : e.id \in Nat
    BY DEF TypeOK, RTCState, LiveEvents, Live, Event
  <1>3. n <= rtc'.globalEventId
    BY <1>1
  <1>4. ASSUME NEW e \in LiveEvents(rtc')
        PROVE  e.id > n \/ \E b \in LiveEvents(kept) : b.id = e.id
    <2>1. CASE e.id > rtc.globalEventId
      BY <1>1, <1>2, <1>4, <2>1
    <2>2. CASE \E d \in LiveEvents(rtc) : d.id = e.id
      BY <2>2 DEF CoveredBy
    <2> QED
      BY <1>4, <2>1, <2>2 DEF CoveredBy
  <1> QED
    BY <1>3, <1>4 DEF CoveredBy

\* The worker is deleted outside of a flush and does nothing afterwards.
LEMMA WorkerGoneStep ==
  ASSUME TypeOK, WorkerGone, NoFlushCutOff, Next PROVE WorkerGone'
  <1> USE DEF Flushers
  <1>1. CASE UNCHANGED <<flush, workerAlive, loop>>
    BY <1>1 DEF WorkerGone
  <1>2. ASSUME flush'["worker"].pc = flush["worker"].pc, UNCHANGED <<workerAlive, loop>>
        PROVE  WorkerGone'
    BY <1>2 DEF WorkerGone
  <1>3. CASE SensorTask
    BY <1>1, <1>3 DEF SensorTask, LogDetection, DecideFlush, RequestFlush, ram
  <1>4. CASE HostTask
    <2>1. ASSUME flush' = [flush EXCEPT !["host"] = NotFlushing] \/
                 flush' = [flush EXCEPT !["host"].pc = "start"]
          PROVE  flush'["worker"] = flush["worker"]
      BY <2>1, FlushUpdate
    <2>2. CASE HostFlushReturns
      BY <1>2, <2>1, <2>2 DEF HostFlushReturns
    <2>3. CASE PersistFastForward
      BY <1>2, <2>1, <2>3 DEF PersistFastForward
    <2> QED
      BY <1>1, <1>4, <2>2, <2>3 DEF HostTask, markAsSynced, fastForwardEventId, BleConnect,
         BleDisconnect, applyTimeSync, RequestHostFlush, ram
  <1>5. CASE StorageWorker
    <2>1. workerAlive /\ UNCHANGED <<workerAlive, loop>>
      BY <1>5 DEF StorageWorker, WorkerWait, WorkerTimeout, WorkerReceive,
                  WorkerCheckRunning, WorkerDone
    <2> QED
      BY <2>1 DEF WorkerGone
  <1>6. CASE Flush
    <2>1. PICK f \in Flushers : BeginFlush(f) \/ PutKey(f)
      BY <1>6 DEF Flush
    <2>2. UNCHANGED <<workerAlive, loop>>
      BY <2>1 DEF BeginFlush, PutKey
    <2>3. CASE f = "worker"
      <3>1. flush["worker"].pc # "idle"
        BY <2>1, <2>3 DEF BeginFlush, PutKey, Writing, NvsKeys
      <3> QED
        BY <2>2, <3>1 DEF WorkerGone
    <2>4. CASE f # "worker"
      <3>1. \E r : flush' = [flush EXCEPT ![f] = r]
        <4>1. flush' = [flush EXCEPT ![f].pc = "refused"] =>
                flush' = [flush EXCEPT ![f] = [flush[f] EXCEPT !.pc = "refused"]]
          BY Zenon
        <4> QED
          BY <2>1, <4>1, Zenon DEF BeginFlush, PutKey
      <3>2. flush'["worker"] = flush["worker"]
        BY <2>4, <3>1 DEF TypeOK
      <3> QED
        BY <1>2, <2>2, <3>2
    <2> QED
      BY <2>3, <2>4
  <1>7. CASE LoopTask
    <2>1. CASE StopStorageWorker
      <3>1. /\ UNCHANGED <<flush, workerAlive>> /\ loop' \in {"grace", "sync"}
            /\ loop' = "sync" => ~workerAlive
        BY <2>1 DEF StopStorageWorker
      <3> QED
        BY <3>1 DEF WorkerGone
    <2>2. CASE GraceOver \/ SleepAborted
      BY <2>2 DEF GraceOver, SleepAborted, WorkerGone
    <2>3. CASE DeleteWorker
      <3>1. flush'["worker"].pc = "idle" /\ ~workerAlive'
        BY <2>3, FlushUpdate DEF DeleteWorker
      <3> QED
        BY <3>1 DEF WorkerGone
    <2>4. ASSUME flush' = [flush EXCEPT !["loop"] = NotFlushing] \/
                 flush' = [flush EXCEPT !["loop"].pc = "start"]
          PROVE  flush'["worker"] = flush["worker"]
      BY <2>4, FlushUpdate
    <2>5. CASE DrainCommand \/ DrainedCommand \/ FinalSyncDone
      BY <2>4, <2>5 DEF DrainCommand, DrainedCommand, FinalSyncDone, WorkerGone
    <2>6. CASE FinalSync
      BY <2>4, <2>6 DEF FinalSync, WorkerGone
    <2> QED
      BY <1>7, <2>1, <2>2, <2>3, <2>5, <2>6 DEF LoopTask
  <1>8. CASE ColdBoot \/ DeepSleep
    <2>1. workerAlive' /\ loop' = "awake"
      BY <1>8 DEF ColdBoot, DeepSleep, InitRam
    <2> QED
      BY <2>1 DEF WorkerGone
  <1> QED
    BY <1>3, <1>4, <1>5, <1>6, <1>7, <1>8 DEF Next

\* A step that concerns neither the backup nor the snapshots of the loop task and of
\* a host task that writes.
LEMMA FinalFrame ==
  ASSUME TypeOK, TypeOK', FinalSynced, nvs' = nvs, loop' = loop,
         flush'["loop"] = flush["loop"], Writing("host")' <=> Writing("host"),
         Writing("host") => flush'["host"] = flush["host"],
         rtc'.globalEventId >= rtc.globalEventId, CoveredBy(rtc', rtc, rtc.globalEventId)
  PROVE  FinalSynced'
  <1> SUFFICES ASSUME loop = "syncing", flush["loop"].pc \in NvsKeys \cup {"returned"}
               PROVE  FinalSynced'
    BY DEF FinalSynced
  <1> DEFINE snap == flush["loop"].snap
             next == IF Writing("host") THEN flush["host"].snap ELSE nvs
  <1>1. /\ snap.eventId <= rtc.globalEventId
        /\ CoveredBy(rtc, AsRing(snap), snap.eventId)
        /\ flush["loop"].pc = "returned" => CoveredBy(rtc, AsRing(next), snap.eventId)
    BY DEF FinalSynced
  <1>2. snap.eventId \in Nat
    BY DEF TypeOK, FlushRecord, Snapshot, Flushers
  <1>3. (IF Writing("host")' THEN flush'["host"].snap ELSE nvs') = next
    OBVIOUS
  <1> HIDE DEF snap, next
  <1>4. /\ snap.eventId <= rtc'.globalEventId
        /\ CoveredBy(rtc', AsRing(snap), snap.eventId)
        /\ flush["loop"].pc = "returned" => CoveredBy(rtc', AsRing(next), snap.eventId)
    BY <1>1, <1>2, StillCovered
  <1> QED
    BY <1>3, <1>4 DEF FinalSynced, snap

\* A ring covers itself.
LEMMA SelfCovered == ASSUME NEW ring, NEW n PROVE CoveredBy(ring, ring, n)
  BY DEF CoveredBy

\* The loop task, or the host task after it, takes the snapshot of the whole ring.
LEMMA FinalBegin ==
  ASSUME NoTearing, TypeOK, TypeOK', FinalSynced, NEW f \in Flushers, BeginFlush(f)
  PROVE  FinalSynced'
  <1> USE DEF Flushers
  <1>1. /\ UNCHANGED <<rtc, nvs, loop>> /\ flush[f].pc = "start"
        /\ \A g \in Flushers : ~Writing(g)
    BY DEF BeginFlush, MayOverlap, NoTearing, Writing, NvsKeys
  <1>2. rtc'.globalEventId >= rtc.globalEventId /\ CoveredBy(rtc', rtc, rtc.globalEventId)
    BY <1>1, SelfCovered DEF TypeOK, RTCState
  <1>3. CASE flush' = [flush EXCEPT ![f].pc = "refused"]
    <2>1. flush'[f].pc = "refused" /\ \A g \in Flushers \ {f} : flush'[g] = flush[g]
      BY <1>3, FlushUpdate
    <2>2. CASE f = "loop"
      BY <2>1, <2>2 DEF FinalSynced, NvsKeys
    <2>3. CASE f # "loop"
      <3>1. ~Writing("host")'
        BY <1>1, <2>1 DEF Writing, NvsKeys
      <3>2. flush'["loop"] = flush["loop"]
        BY <2>1, <2>3
      <3> QED
        BY <1>1, <1>2, <3>1, <3>2, FinalFrame
    <2> QED
      BY <2>2, <2>3
  <1>4. CASE flush' = [flush EXCEPT ![f] = [pc |-> "bootCnt", success |-> TRUE,
                                            snap |-> TakeSnapshot]]
    <2>1. /\ flush'[f].pc = "bootCnt" /\ flush'[f].snap = TakeSnapshot
          /\ \A g \in Flushers \ {f} : flush'[g] = flush[g]
      BY <1>4 DEF TypeOK
    <2>2. AsRing(TakeSnapshot) = rtc /\ TakeSnapshot.eventId = rtc.globalEventId
      BY DEF TypeOK, RTCState, AsRing, TakeSnapshot
    <2>3. CASE f = "loop"
      <3>1. /\ TakeSnapshot.eventId <= rtc'.globalEventId
            /\ CoveredBy(rtc', AsRing(TakeSnapshot), TakeSnapshot.eventId)
        BY <1>1, <1>2, <2>2
      <3> QED
        BY <2>1, <2>3, <3>1 DEF FinalSynced
    <2>4. CASE f = "worker"
      <3>1. flush'["loop"] = flush["loop"] /\ flush'["host"] = flush["host"]
        BY <2>1, <2>4
      <3>2. Writing("host")' <=> Writing("host")
        BY <3>1 DEF Writing
      <3> QED
        BY <1>1, <1>2, <3>1, <3>2, FinalFrame
    <2>5. CASE f = "host"
      <3>1. flush'["loop"] = flush["loop"] /\ Writing("host")'
        BY <2>1, <2>5 DEF Writing, NvsKeys
      <3>2. \A n : CoveredBy(rtc', AsRing(flush'["host"].snap), n)
        BY <1>1, <2>1, <2>2, <2>5, SelfCovered
      <3> QED
        BY <1>1, <3>1, <3>2 DEF FinalSynced
    <2> QED
      BY <2>3, <2>4, <2>5
  <1> QED
    BY <1>3, <1>4 DEF BeginFlush

\* After its last put the backup is the snapshot of the task that wrote it.
LEMMA PutLast ==
  ASSUME NoTearing, BackupInv, TypeOK', NEW f \in Flushers, PutKey(f)
  PROVE  /\ UNCHANGED <<rtc, loop>>
         /\ Writing(f) /\ \A g \in Flushers \ {f} : ~Writing(g) /\ flush'[g] = flush[g]
         /\ flush'[f].snap = flush[f].snap
         /\ flush[f].pc # "events" => Writing(f)'
         /\ flush[f].pc = "events" =>
              /\ flush'[f].pc = "returned"
              /\ LiveEvents(AsRing(nvs')) = LiveEvents(AsRing(flush[f].snap))
  <1> DEFINE key == flush[f].pc
             snap == flush[f].snap
  <1>1. TypeOK /\ SingleWriter /\ SnapshotWritten
    BY DEF BackupInv, FlushInProgress
  <1>2. /\ UNCHANGED <<rtc, loop>> /\ key \in NvsKeys /\ Writing(f)
        /\ nvs' = Put(nvs, key, snap[key])
        /\ flush'[f].pc = KeyAfter[key] /\ flush'[f].snap = snap
        /\ \A g \in Flushers \ {f} : flush'[g] = flush[g]
    <2>1. /\ UNCHANGED <<rtc, loop>> /\ key \in NvsKeys /\ Writing(f)
          /\ "put_fails" \notin Faults
      BY DEF PutKey, Writing, NoTearing
    <2>2. PICK success :
            /\ nvs' = Put(nvs, key, snap[key])
            /\ flush' = [flush EXCEPT ![f] = [pc |-> KeyAfter[key], snap |-> snap,
                                              success |-> success]]
      BY <2>1, Zenon DEF PutKey, ValueOf, MayFail
    <2> QED
      BY <1>1, <2>1, <2>2 DEF TypeOK
  <1>3. \A g \in Flushers \ {f} : ~Writing(g)
    BY <1>1, <1>2 DEF SingleWriter
  <1>4. ASSUME key # "events" PROVE Writing(f)'
    BY <1>2, <1>4 DEF Writing, KeyAfter, NvsKeys
  <1>5. ASSUME key = "events"
        PROVE  /\ flush'[f].pc = "returned"
               /\ LiveEvents(AsRing(nvs')) = LiveEvents(AsRing(snap))
    <2>1. flush'[f].pc = "returned"
      BY <1>2, <1>5 DEF KeyAfter
    <2>2. nvs.head = snap.head /\ nvs.tail = snap.tail
      BY <1>1, <1>2, <1>5 DEF SnapshotWritten, KeysBefore, NvsKeys
    <2>3. nvs'["events"] = snap["events"] /\ \A k \in NvsKeys \ {"events"} : nvs'[k] = nvs[k]
      BY <1>1, <1>2, <1>5, PutFacts DEF TypeOK
    <2>4. nvs'.head = snap.head /\ nvs'.tail = snap.tail /\ nvs'.events = snap.events
      BY <2>2, <2>3 DEF NvsKeys
    <2>5. /\ AsRing(nvs').head = AsRing(snap).head
          /\ AsRing(nvs').tail = AsRing(snap).tail
          /\ AsRing(nvs').buffer = AsRing(snap).buffer
      BY <2>4 DEF AsRing
    <2> QED
      BY <2>1, <2>5, LiveEventsCongruence
  <1> QED
    BY <1>2, <1>3, <1>4, <1>5

\* With the last key the backup takes over from the snapshot of its writer.
LEMMA FinalPut ==
  ASSUME NoTearing, BackupInv, TypeOK', WorkerGone, FinalSynced,
         NEW f \in Flushers, PutKey(f)
  PROVE  FinalSynced'
  <1> USE DEF Flushers
  <1>1. /\ UNCHANGED <<rtc, loop>>
        /\ Writing(f) /\ \A g \in Flushers \ {f} : ~Writing(g) /\ flush'[g] = flush[g]
        /\ flush'[f].snap = flush[f].snap
        /\ flush[f].pc # "events" => Writing(f)'
        /\ flush[f].pc = "events" =>
             /\ flush'[f].pc = "returned"
             /\ LiveEvents(AsRing(nvs')) = LiveEvents(AsRing(flush[f].snap))
    BY PutLast
  <1> SUFFICES ASSUME loop = "syncing", flush'["loop"].pc \in NvsKeys \cup {"returned"}
               PROVE  FinalSynced'
    BY <1>1 DEF FinalSynced
  <1>2. f # "worker"
    BY <1>1 DEF WorkerGone, Writing, NvsKeys
  <1>3. CASE f = "loop"
    <2> DEFINE snap == flush["loop"].snap
    <2>1. snap.eventId <= rtc.globalEventId /\ CoveredBy(rtc, AsRing(snap), snap.eventId)
      BY <1>1, <1>3 DEF FinalSynced, Writing
    <2>2. ~Writing("host")'
      BY <1>1, <1>3 DEF Writing
    <2>3. CASE flush["loop"].pc = "events"
      <3>1. CoveredBy(rtc, AsRing(nvs'), snap.eventId)
        BY <1>1, <1>3, <2>1, <2>3, CoveredCongruence
      <3> QED
        BY <1>1, <1>3, <2>1, <2>2, <3>1 DEF FinalSynced
    <2>4. CASE flush["loop"].pc # "events"
      <3>1. flush'["loop"].pc # "returned"
        BY <1>1, <1>3, <2>4 DEF Writing, NvsKeys
      <3> QED
        BY <1>1, <1>3, <2>1, <3>1 DEF FinalSynced
    <2> QED
      BY <2>3, <2>4
  <1>4. CASE f = "host"
    <2> DEFINE snap == flush["loop"].snap
               next == flush["host"].snap
    <2>1. flush'["loop"] = flush["loop"] /\ flush["loop"].pc = "returned"
      BY <1>1, <1>4 DEF Writing
    <2>2. /\ snap.eventId <= rtc.globalEventId
          /\ CoveredBy(rtc, AsRing(snap), snap.eventId)
          /\ CoveredBy(rtc, AsRing(next), snap.eventId)
      BY <1>1, <1>4, <2>1 DEF FinalSynced
    <2>3. CASE flush["host"].pc = "events"
      <3>1. CoveredBy(rtc, AsRing(nvs'), snap.eventId)
        BY <1>1, <1>4, <2>2, <2>3, CoveredCongruence
      <3>2. ~Writing("host")'
        BY <1>1, <1>4, <2>3 DEF Writing, NvsKeys
      <3> QED
        BY <1>1, <2>1, <2>2, <3>1, <3>2 DEF FinalSynced
    <2>4. CASE flush["host"].pc # "events"
      <3>1. Writing("host")' /\ flush'["host"].snap = next
        BY <1>1, <1>4, <2>4
      <3> QED
        BY <1>1, <2>1, <2>2, <3>1 DEF FinalSynced
    <2> QED
      BY <2>3, <2>4
  <1> QED
    BY <1>2, <1>3, <1>4

LEMMA SyncStep ==
  ASSUME NoTearing, BackupInv, BackupInv', SyncInv, [Next]_vars PROVE SyncInv'
  <1> USE DEF Flushers
  <1>1. /\ TypeOK /\ TypeOK' /\ NoFlushCutOff /\ WorkerGone /\ FinalSynced
        /\ \A f \in Flushers : flush[f].pc \in FlushPc
    BY DEF BackupInv, FlushInProgress, SyncInv, TypeOK, FlushRecord
  <1>2. CASE UNCHANGED vars
    BY <1>2 DEF vars, ram, SyncInv, WorkerGone, FinalSynced, Writing
  <1> SUFFICES ASSUME Next PROVE FinalSynced'
    BY <1>1, <1>2, WorkerGoneStep DEF SyncInv
  <1>3. CASE loop' # "syncing"
    BY <1>3 DEF FinalSynced
  <1>4. CASE ColdBoot \/ DeepSleep
    BY <1>3, <1>4 DEF ColdBoot, DeepSleep, InitRam
  <1>5. ASSUME ~(ColdBoot \/ DeepSleep), UNCHANGED <<nvs, loop>>,
               flush'["loop"] = flush["loop"], Writing("host")' <=> Writing("host"),
               Writing("host") => flush'["host"] = flush["host"]
        PROVE  FinalSynced'
    BY <1>1, <1>5, FinalFrame, NewIsNumbered
  <1>6. ASSUME ~(ColdBoot \/ DeepSleep), UNCHANGED <<nvs, loop, flush>> PROVE FinalSynced'
    <2>1. Writing("host")' <=> Writing("host")
      BY <1>6 DEF Writing
    <2> QED
      BY <1>5, <1>6, <2>1
  <1>7. CASE Flush
    BY <1>1, <1>7, FinalBegin, FinalPut DEF Flush
  <1>8. CASE SensorTask
    <2>1. UNCHANGED <<nvs, loop, flush>>
      BY <1>8 DEF SensorTask, LogDetection, DecideFlush, RequestFlush, ram
    <2> QED
      BY <1>4, <1>6, <2>1
  <1>9. CASE StorageWorker
    <2>1. UNCHANGED <<nvs, loop>> /\ \E r : flush' = [flush EXCEPT !["worker"] = r]
      <3>1. \A pc : [flush EXCEPT !["worker"].pc = pc] =
                    [flush EXCEPT !["worker"] = [flush["worker"] EXCEPT !.pc = pc]]
        BY Zenon
      <3> QED
        BY <1>9, <3>1, Zenon DEF StorageWorker, WorkerWait, WorkerTimeout, WorkerReceive,
                                 WorkerCheckRunning, WorkerDone
    <2>2. flush'["loop"] = flush["loop"] /\ flush'["host"] = flush["host"]
      BY <1>1, <2>1 DEF TypeOK
    <2>3. Writing("host")' <=> Writing("host")
      BY <2>2 DEF Writing
    <2> QED
      BY <1>4, <1>5, <2>1, <2>2, <2>3
  <1>10. CASE HostTask
    <2>1. UNCHANGED <<nvs, loop>>
      BY <1>10 DEF HostTask, markAsSynced, fastForwardEventId, BleConnect, BleDisconnect, applyTimeSync,
         RequestHostFlush, PersistFastForward, HostFlushReturns, ram
    <2>2. CASE UNCHANGED flush
      BY <1>4, <1>6, <2>1, <2>2
    <2>3. CASE /\ host = "persist" /\ flush' = [flush EXCEPT !["host"].pc = "start"]
      <3>1. /\ flush'["host"].pc = "start" /\ flush["host"].pc = "idle"
            /\ flush'["loop"] = flush["loop"]
        BY <1>1, <2>3, FlushUpdate DEF NoFlushCutOff
      <3>2. ~Writing("host") /\ ~Writing("host")'
        BY <3>1 DEF Writing, NvsKeys
      <3> QED
        BY <1>4, <1>5, <2>1, <3>1, <3>2
    <2>4. CASE HostFlushReturns
      <3>1. /\ flush'["host"].pc = "idle" /\ flush["host"].pc \in {"returned", "refused"}
            /\ flush'["loop"] = flush["loop"]
        BY <1>1, <2>4, FlushUpdate DEF HostFlushReturns, FlushReturned
      <3>2. ~Writing("host") /\ ~Writing("host")'
        BY <3>1 DEF Writing, NvsKeys
      <3> QED
        BY <1>4, <1>5, <2>1, <3>1, <3>2
    <2> QED
      BY <1>10, <2>2, <2>3, <2>4 DEF HostTask, markAsSynced, fastForwardEventId, BleConnect,
         BleDisconnect, applyTimeSync, RequestHostFlush, PersistFastForward, ram
  <1>11. CASE LoopTask
    <2>1. CASE FinalSync
      <3>1. loop' = "syncing" => flush'["loop"].pc = "start"
        BY <1>1, <2>1, FlushUpdate DEF FinalSync
      <3> QED
        BY <3>1 DEF FinalSynced, NvsKeys
    <2> QED
      BY <1>3, <1>11, <2>1 DEF LoopTask, StopStorageWorker, GraceOver, DrainCommand,
         DrainedCommand, DeleteWorker, FinalSyncDone, SleepAborted
  <1> QED
    BY <1>4, <1>7, <1>8, <1>9, <1>10, <1>11 DEF Next

\* Without tearing, when the loop task gets ready to sleep every unsynced event is in
\* the backup, unless it was logged after the snapshot, the flush was refused, or the
\* host task is in the middle of writing the next backup.
THEOREM SleepCorrect ==
  ASSUME NoTearing PROVE Spec => SleepSyncsBackup
  <1> DEFINE Saved == \A e \in LiveEvents(rtc) :
                        \/ e.synced
                        \/ flush["loop"].pc = "returned" /\ e.id > flush["loop"].snap.eventId
                        \/ \E b \in LiveEvents(AsRing(nvs)) : b.id = e.id
  <1>1. Init => SyncInv
    BY DEF Init, SyncInv, WorkerGone, FinalSynced
  <1>2. BackupInv /\ BackupInv' /\ SyncInv /\ [Next]_vars => SyncInv'
    BY SyncStep
  <1>3. SyncInv /\ [Next]_vars => [SleepReady /\ ~Writing("host") => Saved]_vars
    <2> SUFFICES ASSUME SyncInv, Next, SleepReady, ~Writing("host") PROVE Saved
      OBVIOUS
    <2>1. (FinalSync /\ ~hasPendingData) \/ FinalSyncDone
      BY DEF SleepReady, Next, SensorTask, LogDetection, DecideFlush, RequestFlush,
         HostTask, markAsSynced, fastForwardEventId, BleConnect, BleDisconnect, applyTimeSync,
         RequestHostFlush, PersistFastForward, HostFlushReturns, ram,
         StorageWorker, WorkerWait, WorkerTimeout, WorkerReceive, WorkerCheckRunning,
         WorkerDone, LoopTask, StopStorageWorker, GraceOver, DrainCommand, DrainedCommand,
         DeleteWorker, FinalSync, SleepAborted, Flush, BeginFlush, PutKey,
         ColdBoot, DeepSleep, InitRam
    <2>2. CASE FinalSync /\ ~hasPendingData
      BY <2>2 DEF hasPendingData
    <2>3. CASE FinalSyncDone
      <3>1. loop = "syncing" /\ flush["loop"].pc = "returned"
        BY <2>3 DEF FinalSyncDone, FlushReturned, SleepReady
      <3>2. CoveredBy(rtc, AsRing(nvs), flush["loop"].snap.eventId)
        BY <3>1 DEF SyncInv, FinalSynced
      <3> QED
        BY <3>1, <3>2 DEF CoveredBy
    <2> QED
      BY <2>1, <2>2, <2>3
  <1> QED
    BY <1>1, <1>2, <1>3, BackupAlways, PTL DEF Spec, SleepSyncsBackup

=============================================================================

-------------------------- MODULE DeliveryProtocol --------------------------
(***************************************************************************)
(* How a detection event reaches the app (src/src/Services/                *)
(* ProtocolHandler.cpp, DetectionDeliveryPump.cpp and the connection       *)
(* callbacks of BLEManager.cpp and main.cpp): the pump sends the oldest    *)
(* unsynced event, the protocol handler keeps the frame in its pending     *)
(* table until the app acknowledges it, repeats it when the ACK is late    *)
(* and starts its sequence numbers anew with every connection.             *)
(*                                                                         *)
(* Two tasks of the device act: the loop task (pump, retries) and the      *)
(* NimBLE host task (connections and everything received).  A section      *)
(* under the handler's _mutex is one step.  The link loses messages; what  *)
(* is in flight when the connection ends is gone.  The app is external.    *)
(***************************************************************************)
EXTENDS Integers, Sequences, FiniteSets

CONSTANTS
  MAX_PENDING_MESSAGES,        \* slots of the pending table (64)
  MAX_PENDING_BEFORE_BACKOFF,  \* pending frames at which the pump pauses (8)
  MAX_RETRY_COUNT,             \* repetitions before a frame is given up (3)
  MAX_DETECTIONS_PER_WINDOW,   \* what the governor lets pass per second (5)
  SYNC_BATCH,                  \* events per SYNC_REQUEST (10)
  CAPACITY,                    \* events the history holds (BUFFER_SIZE - 1)
  SEQ_SPACE,                   \* sequence numbers (2^16)
  MaxDetections,               \* bound: no more detections than this
  Faults                       \* which of AllFaults this instance lets happen

AllFaults ==
  { "damage",      \* a frame may arrive damaged, and the app refuses it
    "stale_ack",   \* ACKs the app had queued arrive in the next connection
    "slow_loop",   \* a whole reconnect fits between two lines of the loop task
    "cold_boot" }  \* the device restarts without a usable backup

ASSUME DeliveryAssumption ==
  /\ MAX_PENDING_MESSAGES \in Nat \ {0}
  /\ MAX_PENDING_BEFORE_BACKOFF \in Nat
  /\ MAX_RETRY_COUNT \in Nat
  /\ MAX_DETECTIONS_PER_WINDOW \in Nat
  /\ SYNC_BATCH \in Nat
  /\ CAPACITY \in Nat \ {0}
  /\ SEQ_SPACE \in Nat \ {0}
  /\ MaxDetections \in Nat
  /\ Faults \subseteq AllFaults

VARIABLES
  events,      \* the events of the history, oldest first
  globalId,    \* globalEventId of the history
  detections,  \* how many detections there were: the name of the last one
  suppressed,  \* the sensor ignores detections for a second
  connected,   \* _deviceConnected
  subscribed,  \* _subscribed
  txSeq,       \* _txSeqNum
  pending,     \* _pendingMessages
  governed,    \* _detectionEventCount
  loop,        \* the loop task: where it is and the frame or event it holds
  host,        \* the host task: where it is and what it handles
  frames,      \* frames on their way to the app
  acks,        \* ACKs on their way to the device
  stored       \* the app's database: the detections it has kept

link == <<connected, subscribed>>
history == <<events, globalId, detections, suppressed>>
vars == <<history, link, txSeq, pending, governed, loop, host, frames, acks, stored>>

-----------------------------------------------------------------------------
(* Data *)

Slots == 1 .. MAX_PENDING_MESSAGES
SeqNums == 0 .. SEQ_SPACE - 1
Ids == 0 .. MaxDetections

\* uid names the detection itself; the code knows it only by id.
Event == [id : Ids, uid : Ids, synced : BOOLEAN]

\* A DETECTION_EVENT frame.  stale: it was built in an earlier connection.
Frame == [seq : SeqNums, id : Ids, uid : Ids, stale : BOOLEAN]
Ack == [seq : SeqNums, stale : BOOLEAN]
Pending == [active : BOOLEAN, frame : Frame, retries : 0 .. MAX_RETRY_COUNT]

NoFrame == [seq |-> 0, id |-> 0, uid |-> 0, stale |-> FALSE]
FreeSlot == [active |-> FALSE, frame |-> NoFrame, retries |-> 0]
NoPending == [i \in Slots |-> FreeSlot]

LoopIdle == [pc |-> "idle", frame |-> NoFrame]
HostIdle == [pc |-> "idle", slot |-> 1, seq |-> 0, id |-> 0, sent |-> 0]

Stale(f) == [f EXCEPT !.stale = TRUE]

-----------------------------------------------------------------------------
(* The history, as far as delivery sees it *)

\* getNextUnsynced: the first event from the tail that is not synced.
NextUnsynced ==
  {i \in DOMAIN events : /\ ~events[i].synced
                         /\ \A j \in 1 .. i - 1 : events[j].synced}

\* getEventsSince(since) with room for one event.
NextSince(since) ==
  {i \in DOMAIN events : /\ events[i].id > since
                         /\ \A j \in 1 .. i - 1 : events[j].id <= since}

\* logDetection, for a detection that is not suppressed.
LogDetection ==
  /\ detections < MaxDetections /\ globalId < MaxDetections
  /\ ~suppressed
  /\ detections' = detections + 1
  /\ globalId' = globalId + 1
  /\ LET kept == IF Len(events) < CAPACITY THEN events ELSE Tail(events)
     IN  events' = Append(kept, [id |-> globalId + 1, uid |-> detections + 1,
                                 synced |-> FALSE])
  /\ UNCHANGED <<suppressed, link, txSeq, pending, governed, loop, host, frames,
                 acks, stored>>

\* The second of suppressDetections(1000) is over.
SuppressionEnds ==
  /\ suppressed /\ suppressed' = FALSE
  /\ UNCHANGED <<events, globalId, detections, link, txSeq, pending, governed,
                 loop, host, frames, acks, stored>>

-----------------------------------------------------------------------------
(* Sending *)

ActiveSlots == {i \in Slots : pending[i].active}
getPendingCount == Cardinality(ActiveSlots)

\* Mutant: an ACK is taken for any pending frame.
SlotsOf_Any(seq) == ActiveSlots

SlotsOf(seq) == {i \in ActiveSlots : pending[i].frame.seq = seq}

\* findFreeSlot: the first slot that is not active, if there is one.
findFreeSlot == {i \in Slots \ ActiveSlots : \A j \in 1 .. i - 1 : pending[j].active}

\* Bound: no sequence number comes round again while a frame or an ACK of
\* this connection still carries it (2^16 numbers, and no frame lives longer
\* than MAX_RETRY_COUNT + 1 timeouts).
SeqUnused ==
  /\ \A i \in ActiveSlots : pending[i].frame.stale \/ pending[i].frame.seq # txSeq
  /\ \A m \in frames \cup acks : m.stale \/ m.seq # txSeq
  /\ loop.pc = "resend" => loop.frame.stale \/ loop.frame.seq # txSeq
  /\ host.pc \in {"mark", "clear"} => host.seq # txSeq

\* Mutant: the counter is wider than its type.
SeqAfter_NoWrap(n) == txSeq + n

\* The counter after n messages.
SeqAfter(n) == (txSeq + n) % SEQ_SPACE

\* sendMessage with requireAck, for an event that history holds at e: the frame
\* is tracked before it is sent and untracked when sendNotification refuses it.
SendMessage(e) ==
  LET frame == [seq |-> txSeq, id |-> e.id, uid |-> e.uid, stale |-> FALSE] IN
  IF ~connected
  THEN UNCHANGED <<txSeq, pending, frames>>
  ELSE /\ txSeq' = SeqAfter(1)
       /\ IF subscribed /\ findFreeSlot # {}
          THEN /\ SeqUnused
               /\ \E i \in findFreeSlot :
                    pending' = [pending EXCEPT ![i] =
                      [active |-> TRUE, frame |-> frame, retries |-> 0]]
               /\ frames' = frames \cup {frame}
          ELSE UNCHANGED <<pending, frames>>

\* sendMessage without requireAck: heartbeat, ACK, battery status and the like.
SendUntracked ==
  /\ connected
  /\ txSeq' = SeqAfter(1)
  /\ UNCHANGED <<history, link, pending, governed, loop, host, frames, acks, stored>>

-----------------------------------------------------------------------------
(* Loop task: the pump *)

\* update, up to the event that it reads from the history.
PumpRead ==
  /\ loop.pc = "idle"
  /\ connected /\ subscribed
  /\ getPendingCount < MAX_PENDING_BEFORE_BACKOFF
  /\ \E i \in NextUnsynced :
       loop' = [pc |-> "send", frame |-> [seq |-> 0, id |-> events[i].id,
                                          uid |-> events[i].uid, stale |-> FALSE]]
  /\ UNCHANGED <<history, link, txSeq, pending, governed, host, frames, acks, stored>>

\* sendDetectionEvent: the governor, then sendMessage.
PumpSend ==
  /\ loop.pc = "send"
  /\ IF governed >= MAX_DETECTIONS_PER_WINDOW
     THEN /\ suppressed' = TRUE
          /\ UNCHANGED <<governed, txSeq, pending, frames>>
     ELSE /\ governed' = governed + 1
          /\ SendMessage(loop.frame)
          /\ UNCHANGED suppressed
  /\ loop' = LoopIdle
  /\ UNCHANGED <<events, globalId, detections, link, host, acks, stored>>

\* A second has passed since the window began.
RateWindowOver ==
  /\ governed > 0 /\ governed' = 0
  /\ UNCHANGED <<history, link, txSeq, pending, loop, host, frames, acks, stored>>

-----------------------------------------------------------------------------
(* Loop task: processRetries *)

\* Mutant: a frame that is given up keeps its slot.
GiveUp_Leaks(i) == pending

GiveUp(i) == [pending EXCEPT ![i] = FreeSlot]

\* The ACK of slot i is overdue: count the retry and copy the frame, or give up.
RetryOrGiveUp(i) ==
  /\ loop.pc = "idle"
  /\ connected
  /\ pending[i].active
  /\ IF pending[i].retries < MAX_RETRY_COUNT
     THEN /\ pending' = [pending EXCEPT ![i].retries = @ + 1]
          /\ loop' = [pc |-> "resend", frame |-> pending[i].frame]
     ELSE /\ pending' = GiveUp(i)
          /\ UNCHANGED loop
  /\ UNCHANGED <<history, link, txSeq, governed, host, frames, acks, stored>>

\* The copy is sent after the mutex is released.
Resend ==
  /\ loop.pc = "resend"
  /\ frames' = IF connected /\ subscribed THEN frames \cup {loop.frame} ELSE frames
  /\ loop' = LoopIdle
  /\ UNCHANGED <<history, link, txSeq, pending, governed, host, acks, stored>>

-----------------------------------------------------------------------------
(* Host task: connections *)

\* onConnectInternal, up to resetForNewConnection.
Connect ==
  /\ host.pc = "idle" /\ ~connected
  /\ connected' = TRUE
  /\ host' = [HostIdle EXCEPT !.pc = "reset"]
  /\ UNCHANGED <<history, subscribed, txSeq, pending, governed, loop, frames, acks,
                 stored>>

\* Mutant: the table survives the connection.
clearAllPending_Skipped == pending

clearAllPending == NoPending

\* clearAllPending, of resetForNewConnection or of onBLEDisconnect.
ClearAllPending ==
  /\ host.pc \in {"reset", "cleanup"}
  /\ pending' = clearAllPending
  /\ host' = [HostIdle EXCEPT !.pc = IF host.pc = "reset" THEN "rewind" ELSE "idle"]
  /\ UNCHANGED <<history, link, txSeq, governed, loop, frames, acks, stored>>

\* resetForNewConnection sets _txSeqNum without the mutex.
RewindSeq ==
  /\ host.pc = "rewind"
  /\ txSeq' = 0
  /\ host' = HostIdle
  /\ UNCHANGED <<history, link, pending, governed, loop, frames, acks, stored>>

\* onSubscribe: the app subscribes or unsubscribes.  Unless the loop task may be
\* that slow, the frame it was about to repeat in the last connection is long gone.
Subscribe ==
  /\ host.pc = "idle" /\ connected
  /\ "slow_loop" \in Faults \/ ~loop.frame.stale
  /\ subscribed' = ~subscribed
  /\ UNCHANGED <<history, connected, txSeq, pending, governed, loop, host, frames,
                 acks, stored>>

\* onDisconnectInternal, up to clearAllPending.  The link drops what it carries.
Disconnect ==
  /\ host.pc = "idle" /\ connected
  /\ connected' = FALSE /\ subscribed' = FALSE
  /\ host' = [HostIdle EXCEPT !.pc = "cleanup"]
  /\ frames' = {}
  /\ acks' = IF "stale_ack" \in Faults THEN {Stale(r) : r \in acks} ELSE {}
  /\ loop' = IF loop.pc = "resend" THEN [loop EXCEPT !.frame = Stale(loop.frame)] ELSE loop
  /\ pending' = [i \in Slots |-> [pending[i] EXCEPT !.frame.stale = pending[i].active]]
  /\ UNCHANGED <<history, txSeq, governed, stored>>

-----------------------------------------------------------------------------
(* Host task: messages from the app *)

\* handleAck: find the slot and read the event id out of its frame.
HandleAck(r) ==
  /\ host.pc = "idle" /\ connected
  /\ r \in acks
  /\ acks' = acks \ {r}
  /\ IF SlotsOf(r.seq) = {}
     THEN UNCHANGED host
     ELSE \E i \in SlotsOf(r.seq) :
            /\ \A j \in SlotsOf(r.seq) : i <= j
            /\ host' = [HostIdle EXCEPT !.pc = "mark", !.slot = i, !.seq = r.seq,
                                        !.id = pending[i].frame.id]
  /\ UNCHANGED <<history, link, txSeq, pending, governed, loop, frames, stored>>

\* ... mark the first event with that id, without the handler's mutex ...
MarkAsSynced ==
  /\ host.pc = "mark"
  /\ events' = [i \in DOMAIN events |->
                  IF /\ events[i].id = host.id
                     /\ \A j \in 1 .. i - 1 : events[j].id # host.id
                  THEN [events[i] EXCEPT !.synced = TRUE] ELSE events[i]]
  /\ host' = [host EXCEPT !.pc = "clear", !.id = 0]
  /\ UNCHANGED <<globalId, detections, suppressed, link, txSeq, pending, governed,
                 loop, frames, acks, stored>>

\* ... and free the slot if it still holds that frame.
ClearAcked ==
  /\ host.pc = "clear"
  /\ pending' = IF pending[host.slot].active /\ pending[host.slot].frame.seq = host.seq
                THEN [pending EXCEPT ![host.slot] = FreeSlot] ELSE pending
  /\ host' = HostIdle
  /\ UNCHANGED <<history, link, txSeq, governed, loop, frames, acks, stored>>

\* handleNack only frees the slot of the frame that the app refused.
HandleNack(f) ==
  /\ "damage" \in Faults
  /\ host.pc = "idle" /\ connected
  /\ f \in frames
  /\ frames' = frames \ {f}
  /\ IF SlotsOf(f.seq) = {}
     THEN UNCHANGED pending
     ELSE \E i \in SlotsOf(f.seq) :
            /\ \A j \in SlotsOf(f.seq) : i <= j
            /\ pending' = [pending EXCEPT ![i] = FreeSlot]
  /\ UNCHANGED <<history, link, txSeq, governed, loop, host, acks, stored>>

\* handleHello: catch up with the highest id the app knows, answer with
\* HELLO_ACK and ACK.
StoredIds == {d.id : d \in stored}

HandleHello ==
  /\ host.pc = "idle" /\ connected
  /\ \E last \in StoredIds \cup {0} :
       /\ \A id \in StoredIds : id <= last
       /\ globalId' = IF last > globalId THEN last ELSE globalId
  /\ txSeq' = SeqAfter(2)
  /\ UNCHANGED <<events, detections, suppressed, link, pending, governed, loop,
                 host, frames, acks, stored>>

\* handleSyncRequest: send up to SYNC_BATCH events past the governor, then ACK.
HandleSyncRequest ==
  /\ host.pc = "idle" /\ connected
  /\ \E since \in StoredIds \cup {0} : host' = [HostIdle EXCEPT !.pc = "sync", !.id = since]
  /\ UNCHANGED <<history, link, txSeq, pending, governed, loop, frames, acks, stored>>

\* Whether sendDetectionEvent returns true.
SendSucceeds == connected /\ subscribed /\ findFreeSlot # {}

SyncNext ==
  /\ host.pc = "sync"
  /\ IF host.sent < SYNC_BATCH /\ NextSince(host.id) # {}
     THEN \E i \in NextSince(host.id) :
            /\ SendMessage(events[i])
            /\ host' = IF SendSucceeds
                       THEN [host EXCEPT !.id = events[i].id, !.sent = @ + 1]
                       ELSE [host EXCEPT !.sent = SYNC_BATCH]
     ELSE /\ host' = HostIdle
          /\ txSeq' = SeqAfter(1)
          /\ UNCHANGED <<pending, frames>>
  /\ UNCHANGED <<history, link, governed, loop, acks, stored>>

-----------------------------------------------------------------------------
(* The app and the link *)

\* The app keeps a detection whose id is new to it, and acknowledges every frame.  By
\* its documents it sends the ACK before it writes its database: that it does not lose
\* in between what it has acknowledged is assumed, and "stored" means received intact.
AppReceive(f) ==
  /\ f \in frames
  /\ stored' = IF f.id \in StoredIds THEN stored
               ELSE stored \cup {[id |-> f.id, uid |-> f.uid]}
  /\ acks' = acks \cup {[seq |-> f.seq, stale |-> f.stale]}
  /\ frames' = frames \ {f}
  /\ UNCHANGED <<history, link, txSeq, pending, governed, loop, host>>

LoseFrame(f) ==
  /\ f \in frames /\ frames' = frames \ {f}
  /\ UNCHANGED <<history, link, txSeq, pending, governed, loop, host, acks, stored>>

LoseAck(r) ==
  /\ r \in acks /\ acks' = acks \ {r}
  /\ UNCHANGED <<history, link, txSeq, pending, governed, loop, host, frames, stored>>

\* The device restarts and finds no backup, or one with an empty ring.
ColdBoot ==
  /\ "cold_boot" \in Faults
  /\ events' = <<>> /\ globalId' = 0 /\ suppressed' = FALSE
  /\ connected' = FALSE /\ subscribed' = FALSE
  /\ txSeq' = 0 /\ pending' = NoPending /\ governed' = 0
  /\ loop' = LoopIdle /\ host' = HostIdle
  /\ frames' = {} /\ acks' = {}
  /\ UNCHANGED <<detections, stored>>

-----------------------------------------------------------------------------
Init ==
  /\ events = <<>> /\ globalId = 0 /\ detections = 0 /\ suppressed = FALSE
  /\ connected = FALSE /\ subscribed = FALSE
  /\ txSeq = 0 /\ pending = NoPending /\ governed = 0
  /\ loop = LoopIdle /\ host = HostIdle
  /\ frames = {} /\ acks = {} /\ stored = {}

LoopTask ==
  \/ PumpRead \/ PumpSend \/ Resend
  \/ \E i \in Slots : RetryOrGiveUp(i)

HostTask ==
  \/ Connect \/ ClearAllPending \/ RewindSeq \/ Subscribe \/ Disconnect
  \/ \E r \in acks : HandleAck(r)
  \/ \E f \in frames : HandleNack(f)
  \/ MarkAsSynced \/ ClearAcked \/ HandleHello \/ HandleSyncRequest \/ SyncNext

Environment ==
  \/ LogDetection \/ SuppressionEnds \/ RateWindowOver \/ SendUntracked \/ ColdBoot
  \/ \E f \in frames : AppReceive(f) \/ LoseFrame(f)
  \/ \E r \in acks : LoseAck(r)

Next == LoopTask \/ HostTask \/ Environment

Spec == Init /\ [][Next]_vars

\* Tasks finish the call they are in and the loop task calls the pump again and
\* again; the seconds of the governor and of the suppression pass.  No message
\* stays in flight for ever.  Of the event that the pump repeats for ever, the app
\* gets some frame, and the device its ACK, while the frame is still pending: the
\* ACK timeout is six seconds, a round trip some milliseconds.
InTime(seq) ==
  \E i \in NextUnsynced, k \in SlotsOf(seq) : pending[k].frame.id = events[i].id

Fairness ==
  /\ WF_vars(PumpRead) /\ SF_vars(PumpSend) /\ WF_vars(Resend)
  /\ WF_vars(RateWindowOver) /\ WF_vars(SuppressionEnds)
  /\ \A i \in Slots : SF_vars(RetryOrGiveUp(i))
  /\ WF_vars(ClearAllPending \/ RewindSeq \/ MarkAsSynced \/ ClearAcked)
  /\ SF_vars(SyncNext)
  /\ \A n \in SeqNums :
       /\ WF_vars(\E f \in frames : f.seq = n /\ (AppReceive(f) \/ LoseFrame(f)))
       /\ WF_vars(\E r \in acks : r.seq = n /\ (HandleAck(r) \/ LoseAck(r)))
  /\ SF_vars(\E f \in frames : InTime(f.seq) /\ AppReceive(f))
  /\ SF_vars(\E r \in acks : InTime(r.seq) /\ HandleAck(r))

FairSpec == Spec /\ Fairness

-----------------------------------------------------------------------------
(* Properties *)

\* Every variable has the type of the member it stands for.
TypeOK ==
  /\ events \in Seq(Event) /\ Len(events) <= CAPACITY
  /\ globalId \in Ids /\ detections \in Ids /\ suppressed \in BOOLEAN
  /\ connected \in BOOLEAN /\ subscribed \in BOOLEAN
  /\ txSeq \in SeqNums
  /\ pending \in [Slots -> Pending]
  /\ governed \in 0 .. MAX_DETECTIONS_PER_WINDOW
  /\ loop \in [pc : {"idle", "send", "resend"}, frame : Frame]
  /\ host \in [pc : {"idle", "reset", "rewind", "cleanup", "mark", "clear", "sync"},
               slot : Slots, seq : SeqNums, id : Ids, sent : 0 .. SYNC_BATCH]
  /\ frames \subseteq Frame /\ acks \subseteq Ack
  /\ stored \subseteq [id : Ids, uid : Ids]

\* A detection that the device has marked as synced, and will not send again, was
\* received by the app.
NoFalseSync ==
  \A i \in DOMAIN events :
    events[i].synced => \E d \in stored : d.uid = events[i].uid

\* handleAck, clearPending and the retry look a frame up by its sequence number
\* alone, and the numbers start anew with every connection: so no frame of an
\* earlier connection is pending in this one, and no two share a number.
PendingOfThisConnection ==
  \A i \in ActiveSlots :
    /\ pending[i].frame.stale => host.pc = "cleanup"
    /\ \A j \in ActiveSlots : pending[i].frame.seq = pending[j].frame.seq => i = j

\* A detection is what the abstract specification calls it by its name.
Abstract == INSTANCE ReliableDelivery WITH
  detected <- detections,
  kept <- {events[i].uid : i \in DOMAIN events},
  synced <- {events[i].uid : i \in {j \in DOMAIN events : events[j].synced}},
  stored <- {d.uid : d \in stored}

\* The protocol implements the abstract delivery of detections.
ImplementsDelivery == Abstract!Spec

Unsynced(uid) == \E i \in DOMAIN events : events[i].uid = uid /\ ~events[i].synced

\* While the app stays connected and subscribed, and has no more sync requests,
\* every detection in the history is synced in the end by the pump and the
\* retries alone, or overwritten by newer ones.
EventuallySynced ==
  <>[](connected /\ subscribed /\ host.pc # "sync") =>
    \A uid \in 1 .. MaxDetections : Unsynced(uid) ~> ~Unsynced(uid)

=============================================================================

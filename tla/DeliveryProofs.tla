--------------------------- MODULE DeliveryProofs ---------------------------
(***************************************************************************)
(* What the delivery of detections guarantees for every size of its        *)
(* tables and windows: no frame of an earlier connection is pending in     *)
(* this one, whatever the faults; and, when the link drops what a          *)
(* connection leaves behind and the device keeps its history, no detection *)
(* counts as synced that the app has not stored, and the protocol          *)
(* implements the abstract delivery.                                       *)
(***************************************************************************)
EXTENDS DeliveryProtocol, FiniteSetTheorems, FunctionTheorems, TLAPS

\* What the host task does to a connection: the app can subscribe only between the two
\* cleanups of the pending table, of this connection's begin and of its end.
ConnectionInv ==
  /\ subscribed => connected /\ host.pc \notin {"reset", "rewind", "cleanup"}
  /\ host.pc = "cleanup" => ~connected

PendingInv == TypeOK /\ ConnectionInv /\ PendingOfThisConnection

\* The faults under which a sync can be trusted: the app gets its frames late or
\* damaged or not at all, but no ACK outlives its connection, and the device neither
\* sends a frame of the last connection nor starts its ids anew.
Reliable == Faults \subseteq {"damage"}

\* The frames of this connection that are pending, in flight or about to be repeated.
LiveFrames ==
  {f \in Frame : /\ ~f.stale
                 /\ \/ f \in frames
                    \/ loop.pc = "resend" /\ f = loop.frame
                    \/ \E i \in ActiveSlots : f = pending[i].frame}

Detections == 1 .. detections

\* The id that the code knows a detection by is its name, in the history, on the way
\* and in the app; the history is in the order of the detections.
NameInv ==
  /\ globalId = detections
  /\ \A i \in DOMAIN events : events[i].id = events[i].uid /\ events[i].uid \in Detections
  /\ \A i, j \in DOMAIN events : i < j => events[i].uid < events[j].uid
  /\ \A d \in stored : d.id = d.uid /\ d.uid \in Detections
  /\ \A f \in LiveFrames : f.id = f.uid /\ f.uid \in Detections
  /\ loop.pc = "send" => loop.frame.id = loop.frame.uid /\ loop.frame.uid \in Detections

\* Nothing of an earlier connection is under way.
FreshInv ==
  /\ \A f \in frames : ~f.stale
  /\ \A r \in acks : ~r.stale
  /\ subscribed => ~loop.frame.stale

\* A sequence number stands for one detection, and one that is acknowledged for a
\* detection that the app has stored; so does the id that handleAck has read.
AckInv ==
  /\ \A f, g \in LiveFrames : f.seq = g.seq => f.id = g.id
  /\ \A r \in acks, f \in LiveFrames : f.seq = r.seq => f.id \in StoredIds
  /\ host.pc = "mark" => host.id \in StoredIds

DeliveryInv == Reliable /\ PendingInv /\ NameInv /\ FreshInv /\ AckInv /\ NoFalseSync

-----------------------------------------------------------------------------
(* Data *)

HostSteps == {"idle", "reset", "rewind", "cleanup", "mark", "clear", "sync"}
Hosts == [pc : HostSteps, slot : Slots, seq : SeqNums, id : Ids, sent : 0 .. SYNC_BATCH]
Loops == [pc : {"idle", "send", "resend"}, frame : Frame]

LEMMA ConstantFacts ==
  /\ SEQ_SPACE \in Nat \ {0} /\ MAX_PENDING_MESSAGES \in Nat \ {0} /\ CAPACITY \in Nat \ {0}
  /\ MaxDetections \in Nat /\ SYNC_BATCH \in Nat /\ MAX_RETRY_COUNT \in Nat
  /\ MAX_DETECTIONS_PER_WINDOW \in Nat
  BY DeliveryAssumption

LEMMA InitialFacts ==
  /\ 0 \in SeqNums /\ 0 \in Ids /\ 1 \in Slots /\ 0 \in 0 .. SYNC_BATCH
  /\ NoFrame \in Frame /\ FreeSlot \in Pending /\ ~FreeSlot.active
  /\ NoPending \in [Slots -> Pending] /\ LoopIdle \in Loops /\ HostIdle \in Hosts
  /\ LoopIdle.pc = "idle" /\ LoopIdle.frame = NoFrame /\ ~NoFrame.stale
  /\ HostIdle.pc = "idle"
  <1>1. /\ 0 \in SeqNums /\ 0 \in Ids /\ 1 \in Slots /\ 0 \in 0 .. SYNC_BATCH
        /\ 0 \in 0 .. MAX_RETRY_COUNT
    BY ConstantFacts DEF SeqNums, Ids, Slots
  <1>2. NoFrame \in Frame /\ ~NoFrame.stale
    BY <1>1 DEF NoFrame, Frame
  <1>3. FreeSlot \in Pending /\ ~FreeSlot.active
    BY <1>1, <1>2 DEF FreeSlot, Pending
  <1>4. NoPending \in [Slots -> Pending]
    BY <1>3 DEF NoPending
  <1>5. LoopIdle \in Loops /\ LoopIdle.pc = "idle" /\ LoopIdle.frame = NoFrame
    BY <1>2 DEF LoopIdle, Loops
  <1>6. "idle" \in HostSteps
    BY DEF HostSteps
  <1>7. HostIdle \in Hosts /\ HostIdle.pc = "idle"
    BY <1>1, <1>6 DEF HostIdle, Hosts
  <1> QED
    BY <1>1, <1>2, <1>3, <1>4, <1>5, <1>7

\* The host task at another step.
LEMMA HostFacts ==
  ASSUME NEW h \in Hosts, NEW step \in HostSteps
  PROVE  /\ [h EXCEPT !.pc = step] \in Hosts /\ [h EXCEPT !.pc = step].pc = step
         /\ [h EXCEPT !.pc = step].id = h.id
  BY DEF Hosts

LEMMA SeqFacts == ASSUME TypeOK, NEW n \in Nat PROVE SeqAfter(n) \in SeqNums
  BY ConstantFacts DEF SeqAfter, SeqNums, TypeOK

LEMMA StaleFacts ==
  ASSUME NEW f \in Frame
  PROVE  /\ Stale(f) \in Frame /\ Stale(f).stale /\ Stale(f).seq = f.seq /\ Stale(f).id = f.id
         /\ Stale(f).uid = f.uid
  BY DEF Stale, Frame

\* A new frame takes a slot that was free and the next number, which no frame or ACK of
\* this connection carries; otherwise nothing is sent.
LEMMA SendFacts ==
  ASSUME TypeOK, NEW e, e.id \in Ids, e.uid \in Ids, SendMessage(e)
  PROVE  /\ txSeq' \in SeqNums
         /\ \/ UNCHANGED <<pending, frames>>
            \/ \E f \in Frame, i \in Slots :
                 /\ connected /\ subscribed /\ SeqUnused
                 /\ f.seq = txSeq /\ f.id = e.id /\ f.uid = e.uid /\ ~f.stale
                 /\ ~pending[i].active
                 /\ pending' =
                      [pending EXCEPT ![i] = [active |-> TRUE, frame |-> f, retries |-> 0]]
                 /\ frames' = frames \cup {f}
  <1> DEFINE f == [seq |-> txSeq, id |-> e.id, uid |-> e.uid, stale |-> FALSE]
  <1>1. f \in Frame /\ f.seq = txSeq /\ f.id = e.id /\ f.uid = e.uid /\ ~f.stale
    BY DEF Frame, TypeOK
  <1>2. txSeq' \in SeqNums
    BY SeqFacts DEF SendMessage, TypeOK
  <1>3. CASE connected /\ subscribed /\ findFreeSlot # {}
    <2>1. PICK i \in findFreeSlot :
            pending' = [pending EXCEPT ![i] = [active |-> TRUE, frame |-> f, retries |-> 0]]
      BY <1>3 DEF SendMessage
    <2>2. i \in Slots /\ ~pending[i].active
      BY DEF findFreeSlot, ActiveSlots
    <2>3. SeqUnused /\ frames' = frames \cup {f}
      BY <1>3 DEF SendMessage
    <2> HIDE DEF f
    <2> QED
      BY <1>1, <1>2, <1>3, <2>1, <2>2, <2>3
  <1>4. CASE ~(connected /\ subscribed /\ findFreeSlot # {})
    BY <1>2, <1>4 DEF SendMessage
  <1> QED
    BY <1>3, <1>4

\* The slot of the new frame.
LEMMA NewSlotFacts ==
  ASSUME NEW f \in Frame
  PROVE  [active |-> TRUE, frame |-> f, retries |-> 0] \in Pending
  <1>1. 0 \in 0 .. MAX_RETRY_COUNT
    BY ConstantFacts
  <1> QED
    BY <1>1 DEF Pending

\* The parts of the state that sending changes keep their types.
LEMMA SendTypes ==
  ASSUME TypeOK, NEW e, e.id \in Ids, e.uid \in Ids, SendMessage(e)
  PROVE  txSeq' \in SeqNums /\ pending' \in [Slots -> Pending] /\ frames' \subseteq Frame
  <1>1. CASE UNCHANGED <<pending, frames>>
    BY <1>1, SendFacts DEF TypeOK
  <1>2. ASSUME NEW f \in Frame, NEW i \in Slots,
               pending' = [pending EXCEPT ![i] = [active |-> TRUE, frame |-> f, retries |-> 0]],
               frames' = frames \cup {f}
        PROVE  pending' \in [Slots -> Pending] /\ frames' \subseteq Frame
    BY <1>2, NewSlotFacts DEF TypeOK
  <1> QED
    BY <1>1, <1>2, SendFacts

-----------------------------------------------------------------------------
(* Types *)

TypeParts ==
  /\ events \in Seq(Event) /\ Len(events) <= CAPACITY
  /\ globalId \in Ids /\ detections \in Ids /\ suppressed \in BOOLEAN
  /\ connected \in BOOLEAN /\ subscribed \in BOOLEAN
  /\ txSeq \in SeqNums /\ pending \in [Slots -> Pending]
  /\ governed \in 0 .. MAX_DETECTIONS_PER_WINDOW
  /\ loop \in Loops /\ host \in Hosts
  /\ frames \subseteq Frame /\ acks \subseteq Ack /\ stored \subseteq [id : Ids, uid : Ids]

\* The type invariant in these terms.
LEMMA TypeFacts == (TypeOK <=> TypeParts) /\ (TypeOK' <=> TypeParts')
  BY Zenon DEF TypeOK, TypeParts, Loops, Hosts, HostSteps

LEMMA StoredFacts == ASSUME TypeOK PROVE StoredIds \cup {0} \subseteq Ids
  BY InitialFacts DEF StoredIds, TypeOK

LEMMA EventFacts ==
  ASSUME TypeOK, NEW i \in DOMAIN events
  PROVE  /\ i \in 1 .. Len(events) /\ events[i] \in Event
         /\ events[i].id \in Ids /\ events[i].uid \in Ids
  <1>1. events[i] \in Event /\ i \in 1 .. Len(events)
    BY DEF TypeOK
  <1> QED
    BY <1>1 DEF Event

LEMMA PendingFacts ==
  ASSUME TypeOK, NEW i \in Slots
  PROVE  /\ pending[i] \in Pending /\ pending[i].frame \in Frame /\ pending[i].active \in BOOLEAN
         /\ pending[i].frame.id \in Ids /\ pending[i].frame.seq \in SeqNums
  <1>1. pending[i] \in Pending
    BY DEF TypeOK
  <1>2. pending[i].frame \in Frame /\ pending[i].active \in BOOLEAN
    BY <1>1 DEF Pending
  <1> QED
    BY <1>1, <1>2 DEF Frame

\* A retry is counted within its limit.
LEMMA RetryFacts ==
  ASSUME TypeOK, NEW i \in Slots, pending[i].retries < MAX_RETRY_COUNT
  PROVE  /\ [pending EXCEPT ![i].retries = @ + 1] \in [Slots -> Pending]
         /\ \A j \in Slots :
              /\ [pending EXCEPT ![i].retries = @ + 1][j].active = pending[j].active
              /\ [pending EXCEPT ![i].retries = @ + 1][j].frame = pending[j].frame
  <1>1. pending[i] \in Pending /\ pending \in [Slots -> Pending]
    BY DEF TypeOK
  <1>2. pending[i].retries + 1 \in 0 .. MAX_RETRY_COUNT
    BY <1>1, ConstantFacts DEF Pending
  <1> DEFINE q == [pending[i] EXCEPT !.retries = pending[i].retries + 1]
  <1>3. q \in Pending /\ q.active = pending[i].active /\ q.frame = pending[i].frame
    BY <1>1, <1>2 DEF Pending
  <1>4. [pending EXCEPT ![i].retries = @ + 1] = [pending EXCEPT ![i] = q]
    BY <1>1
  <1> HIDE DEF q
  <1> QED
    BY <1>1, <1>3, <1>4

LEMMA LoopTypes == ASSUME TypeOK, LoopTask PROVE TypeOK'
  <1> USE TypeFacts, InitialFacts DEF TypeParts
  <1>1. CASE PumpRead
    <2>1. PICK i \in NextUnsynced :
            loop' = [pc |-> "send", frame |-> [seq |-> 0, id |-> events[i].id,
                                               uid |-> events[i].uid, stale |-> FALSE]]
      BY <1>1 DEF PumpRead
    <2>2. events[i].id \in Ids /\ events[i].uid \in Ids
      BY EventFacts DEF NextUnsynced
    <2>3. loop' \in Loops
      BY <2>1, <2>2 DEF Loops, Frame
    <2> QED
      BY <1>1, <2>3 DEF PumpRead, history, link
  <1>2. CASE PumpSend
    <2>1. CASE governed >= MAX_DETECTIONS_PER_WINDOW
      BY <1>2, <2>1 DEF PumpSend, history, link
    <2>2. CASE ~(governed >= MAX_DETECTIONS_PER_WINDOW)
      <3>1. loop.frame.id \in Ids /\ loop.frame.uid \in Ids
        BY DEF Loops, Frame
      <3>2. SendMessage(loop.frame) /\ governed' = governed + 1
        BY <1>2, <2>2 DEF PumpSend
      <3>3. governed' \in 0 .. MAX_DETECTIONS_PER_WINDOW
        BY <2>2, <3>2, ConstantFacts
      <3>4. txSeq' \in SeqNums /\ pending' \in [Slots -> Pending] /\ frames' \subseteq Frame
        BY <3>1, <3>2, SendTypes
      <3> QED
        BY <1>2, <2>2, <3>3, <3>4 DEF PumpSend, history, link
    <2> QED
      BY <2>1, <2>2
  <1>3. CASE Resend
    <2>1. frames' \subseteq Frame
      BY <1>3 DEF Resend, Loops
    <2> QED
      BY <1>3, <2>1 DEF Resend, history, link
  <1>4. ASSUME NEW i \in Slots, RetryOrGiveUp(i) PROVE TypeOK'
    <2>1. CASE pending[i].retries < MAX_RETRY_COUNT
      <3>1. pending' \in [Slots -> Pending]
        BY <1>4, <2>1, RetryFacts DEF RetryOrGiveUp
      <3>2. loop' \in Loops
        BY <1>4, <2>1, PendingFacts DEF RetryOrGiveUp, Loops
      <3> QED
        BY <1>4, <3>1, <3>2 DEF RetryOrGiveUp, history, link
    <2>2. CASE ~(pending[i].retries < MAX_RETRY_COUNT)
      BY <1>4, <2>2 DEF RetryOrGiveUp, GiveUp, history, link
    <2> QED
      BY <2>1, <2>2
  <1> QED
    BY <1>1, <1>2, <1>3, <1>4 DEF LoopTask

\* What Disconnect leaves of the pending table: the same frames, of a past connection.
LEMMA DisconnectFacts ==
  ASSUME TypeOK, NEW i \in Slots
  PROVE  LET p == [pending[i] EXCEPT !.frame.stale = pending[i].active]
         IN  /\ p \in Pending /\ p.active = pending[i].active
             /\ p.frame.seq = pending[i].frame.seq /\ p.frame.id = pending[i].frame.id
             /\ p.frame.uid = pending[i].frame.uid /\ p.frame.stale = pending[i].active
  <1>1. pending[i] \in Pending /\ pending[i].frame \in Frame /\ pending[i].active \in BOOLEAN
    BY PendingFacts
  <1> DEFINE g == [pending[i].frame EXCEPT !.stale = pending[i].active]
  <1>2. /\ g \in Frame /\ g.seq = pending[i].frame.seq /\ g.id = pending[i].frame.id
        /\ g.uid = pending[i].frame.uid /\ g.stale = pending[i].active
    BY <1>1 DEF Frame
  <1>3. [pending[i] EXCEPT !.frame.stale = pending[i].active] = [pending[i] EXCEPT !.frame = g]
    BY <1>1 DEF Pending
  <1> HIDE DEF g
  <1> QED
    BY <1>1, <1>2, <1>3 DEF Pending

LEMMA HostTypes == ASSUME TypeOK, HostTask PROVE TypeOK'
  <1> USE TypeFacts, InitialFacts DEF TypeParts
  <1>0. \A step \in HostSteps : [HostIdle EXCEPT !.pc = step] \in Hosts
    BY HostFacts
  <1>1. CASE Connect
    BY <1>0, <1>1 DEF Connect, HostSteps, history
  <1>2. CASE ClearAllPending
    BY <1>0, <1>2 DEF ClearAllPending, clearAllPending, HostSteps, history, link
  <1>3. CASE RewindSeq
    BY <1>3 DEF RewindSeq, history, link
  <1>4. CASE Subscribe
    BY <1>4 DEF Subscribe, history
  <1>5. CASE Disconnect
    <2>1. host' \in Hosts
      BY <1>0, <1>5 DEF Disconnect, HostSteps
    <2>2. acks' \subseteq Ack
      <3>1. \A r \in acks : Stale(r) \in Ack
        BY DEF Stale, Ack
      <3> QED
        BY <1>5, <3>1 DEF Disconnect
    <2>3. loop' \in Loops
      <3>1. loop.frame \in Frame
        BY DEF Loops
      <3>2. [loop EXCEPT !.frame = Stale(loop.frame)] \in Loops
        BY <3>1, StaleFacts DEF Loops
      <3> QED
        BY <1>5, <3>2 DEF Disconnect
    <2>4. pending' \in [Slots -> Pending]
      BY <1>5, DisconnectFacts DEF Disconnect
    <2> QED
      BY <1>5, <2>1, <2>2, <2>3, <2>4 DEF Disconnect, history
  <1>6. ASSUME NEW r \in acks, HandleAck(r) PROVE TypeOK'
    <2>1. host' \in Hosts
      <3>1. CASE SlotsOf(r.seq) = {}
        BY <1>6, <3>1 DEF HandleAck
      <3>2. CASE SlotsOf(r.seq) # {}
        <4>1. PICK i \in SlotsOf(r.seq) :
                host' = [HostIdle EXCEPT !.pc = "mark", !.slot = i, !.seq = r.seq,
                                         !.id = pending[i].frame.id]
          BY <1>6, <3>2 DEF HandleAck
        <4>2. i \in Slots
          BY DEF SlotsOf, ActiveSlots
        <4>3. r.seq \in SeqNums
          BY <1>6 DEF Ack
        <4>4. pending[i].frame.id \in Ids
          BY <4>2, PendingFacts
        <4>5. "mark" \in HostSteps
          BY DEF HostSteps
        <4> QED
          BY <4>1, <4>2, <4>3, <4>4, <4>5 DEF Hosts
      <3> QED
        BY <3>1, <3>2
    <2> QED
      BY <1>6, <2>1 DEF HandleAck, history, link
  <1>7. ASSUME NEW f \in frames, HandleNack(f) PROVE TypeOK'
    <2>1. pending' \in [Slots -> Pending]
      BY <1>7 DEF HandleNack
    <2> QED
      BY <1>7, <2>1 DEF HandleNack, history, link
  <1>8. CASE MarkAsSynced
    <2>1. events' \in Seq(Event) /\ Len(events') = Len(events)
      <3>1. \A i \in DOMAIN events : [events[i] EXCEPT !.synced = TRUE] \in Event
        BY EventFacts DEF Event
      <3>2. DOMAIN events = 1 .. Len(events) /\ Len(events) \in Nat
        OBVIOUS
      <3>3. DOMAIN events' = 1 .. Len(events) /\ \A i \in 1 .. Len(events) : events'[i] \in Event
        BY <1>8, <3>1, <3>2 DEF MarkAsSynced
      <3>4. events' = [i \in 1 .. Len(events) |-> events'[i]]
        BY <1>8, <3>2 DEF MarkAsSynced
      <3> QED
        BY <3>2, <3>3, <3>4
    <2>2. host' \in Hosts
      BY <1>8 DEF MarkAsSynced, Hosts, HostSteps
    <2> QED
      BY <1>8, <2>1, <2>2 DEF MarkAsSynced, link
  <1>9. CASE ClearAcked
    <2>1. pending' \in [Slots -> Pending]
      BY <1>9 DEF ClearAcked
    <2> QED
      BY <1>9, <2>1 DEF ClearAcked, history, link
  <1>10. CASE HandleHello
    <2>1. txSeq' \in SeqNums
      BY <1>10, SeqFacts DEF HandleHello
    <2>2. globalId' \in Ids
      BY <1>10, StoredFacts DEF HandleHello
    <2> QED
      BY <1>10, <2>1, <2>2 DEF HandleHello, link
  <1>11. CASE HandleSyncRequest
    <2>1. PICK since \in StoredIds \cup {0} : host' = [HostIdle EXCEPT !.pc = "sync", !.id = since]
      BY <1>11 DEF HandleSyncRequest
    <2>2. since \in Ids
      BY StoredFacts
    <2>3. host' \in Hosts
      BY <2>1, <2>2 DEF Hosts, HostSteps
    <2> QED
      BY <1>11, <2>3 DEF HandleSyncRequest, history, link
  <1>12. CASE SyncNext
    <2>1. CASE host.sent < SYNC_BATCH /\ NextSince(host.id) # {}
      <3>1. PICK i \in NextSince(host.id) :
              /\ SendMessage(events[i])
              /\ host' = IF SendSucceeds THEN [host EXCEPT !.id = events[i].id, !.sent = @ + 1]
                         ELSE [host EXCEPT !.sent = SYNC_BATCH]
        BY <1>12, <2>1 DEF SyncNext
      <3>2. events[i].id \in Ids /\ events[i].uid \in Ids
        BY EventFacts DEF NextSince
      <3>3. host.sent + 1 \in 0 .. SYNC_BATCH /\ SYNC_BATCH \in 0 .. SYNC_BATCH
        BY <2>1, ConstantFacts DEF Hosts
      <3>4. /\ [host EXCEPT !.id = events[i].id, !.sent = @ + 1] \in Hosts
            /\ [host EXCEPT !.sent = SYNC_BATCH] \in Hosts
        BY <3>2, <3>3 DEF Hosts
      <3>5. txSeq' \in SeqNums /\ pending' \in [Slots -> Pending] /\ frames' \subseteq Frame
        BY <3>1, <3>2, SendTypes
      <3>6. host' \in Hosts
        BY <3>1, <3>4
      <3> QED
        BY <1>12, <3>5, <3>6 DEF SyncNext, history, link
    <2>2. CASE ~(host.sent < SYNC_BATCH /\ NextSince(host.id) # {})
      BY <1>12, <2>2, SeqFacts DEF SyncNext, history, link
    <2> QED
      BY <2>1, <2>2
  <1> QED
    BY <1>1, <1>2, <1>3, <1>4, <1>5, <1>6, <1>7, <1>8, <1>9, <1>10, <1>11, <1>12 DEF HostTask

LEMMA EnvironmentTypes == ASSUME TypeOK, Environment PROVE TypeOK'
  <1> USE TypeFacts, InitialFacts DEF TypeParts
  <1>1. CASE LogDetection
    <2> DEFINE kept == IF Len(events) < CAPACITY THEN events ELSE Tail(events)
               new == [id |-> globalId + 1, uid |-> detections + 1, synced |-> FALSE]
    <2>1. globalId + 1 \in Ids /\ detections + 1 \in Ids
      BY <1>1, ConstantFacts DEF LogDetection, Ids
    <2>2. new \in Event
      BY <2>1 DEF Event
    <2>3. kept \in Seq(Event) /\ Len(kept) < CAPACITY /\ Len(kept) \in Nat
      BY ConstantFacts
    <2>4. events' = Append(kept, new)
      BY <1>1 DEF LogDetection
    <2> HIDE DEF kept, new
    <2>5. events' \in Seq(Event) /\ Len(events') <= CAPACITY
      BY <2>2, <2>3, <2>4, ConstantFacts
    <2> QED
      BY <1>1, <2>1, <2>5 DEF LogDetection, link
  <1>2. CASE SuppressionEnds \/ RateWindowOver
    <2>1. 0 \in 0 .. MAX_DETECTIONS_PER_WINDOW
      BY ConstantFacts
    <2> QED
      BY <1>2, <2>1 DEF SuppressionEnds, RateWindowOver, history, link
  <1>3. CASE SendUntracked
    BY <1>3, SeqFacts DEF SendUntracked, history, link
  <1>4. CASE ColdBoot
    <2>1. 0 \in 0 .. MAX_DETECTIONS_PER_WINDOW /\ 0 <= CAPACITY
      BY ConstantFacts
    <2>2. <<>> \in Seq(Event) /\ Len(<<>>) = 0
      OBVIOUS
    <2> QED
      BY <1>4, <2>1, <2>2 DEF ColdBoot
  <1>5. ASSUME NEW f \in frames, AppReceive(f) PROVE TypeOK'
    <2>1. f.id \in Ids /\ f.uid \in Ids /\ f.seq \in SeqNums /\ f.stale \in BOOLEAN
      BY DEF Frame
    <2>2. [seq |-> f.seq, stale |-> f.stale] \in Ack /\ [id |-> f.id, uid |-> f.uid] \in [id : Ids, uid : Ids]
      BY <2>1 DEF Ack
    <2> QED
      BY <1>5, <2>2 DEF AppReceive, history, link
  <1>6. ASSUME NEW f \in frames, LoseFrame(f) PROVE TypeOK'
    BY <1>6 DEF LoseFrame, history, link
  <1>7. ASSUME NEW r \in acks, LoseAck(r) PROVE TypeOK'
    BY <1>7 DEF LoseAck, history, link
  <1> QED
    BY <1>1, <1>2, <1>3, <1>4, <1>5, <1>6, <1>7 DEF Environment

LEMMA TypeInit == Init => TypeOK
  <1>1. 0 \in 0 .. MAX_DETECTIONS_PER_WINDOW /\ 0 <= CAPACITY
    BY ConstantFacts
  <1>2. <<>> \in Seq(Event) /\ Len(<<>>) = 0
    OBVIOUS
  <1> QED
    BY <1>1, <1>2, TypeFacts, InitialFacts DEF Init, TypeParts

LEMMA TypeStep == ASSUME TypeOK, [Next]_vars PROVE TypeOK'
  <1>1. CASE UNCHANGED vars
    BY <1>1, TypeFacts DEF vars, history, link, TypeParts
  <1> QED
    BY <1>1, LoopTypes, HostTypes, EnvironmentTypes DEF Next

-----------------------------------------------------------------------------
(* Frames of this connection *)

\* Every slot that is active held the same frame before.
SlotsKept ==
  \A i \in Slots :
    pending'[i].active => pending[i].active /\ pending'[i].frame = pending[i].frame

LEMMA FreedFacts ==
  ASSUME TypeOK, NEW i \in Slots, pending' = [pending EXCEPT ![i] = FreeSlot]
  PROVE  SlotsKept
  <1>1. \A j \in Slots : pending'[j] = IF j = i THEN FreeSlot ELSE pending[j]
    BY DEF TypeOK
  <1> QED
    BY <1>1, InitialFacts DEF SlotsKept

LEMMA KeptPending ==
  ASSUME PendingOfThisConnection, SlotsKept, host.pc = "cleanup" => host'.pc = "cleanup"
  PROVE  PendingOfThisConnection'
  BY DEF PendingOfThisConnection, SlotsKept, ActiveSlots

\* A send puts one frame of this connection into the table, with a number of its own.
LEMMA SentPending ==
  ASSUME PendingInv, NEW e, e.id \in Ids, e.uid \in Ids, SendMessage(e), host'.pc = host.pc
  PROVE  PendingOfThisConnection'
  <1>1. TypeOK /\ PendingOfThisConnection
    BY DEF PendingInv
  <1>2. CASE UNCHANGED <<pending, frames>>
    BY <1>1, <1>2, KeptPending DEF SlotsKept
  <1>3. ASSUME NEW f \in Frame, NEW i \in Slots, connected, subscribed, SeqUnused,
               f.seq = txSeq, ~f.stale, ~pending[i].active,
               pending' = [pending EXCEPT ![i] = [active |-> TRUE, frame |-> f, retries |-> 0]]
        PROVE  PendingOfThisConnection'
    <2>1. \A j \in Slots :
            pending'[j] = IF j = i THEN [active |-> TRUE, frame |-> f, retries |-> 0] ELSE pending[j]
      BY <1>1, <1>3 DEF TypeOK
    <2>2. host.pc # "cleanup"
      BY <1>3 DEF PendingInv, ConnectionInv
    <2>3. \A j \in Slots : pending[j].active => ~pending[j].frame.stale /\ pending[j].frame.seq # f.seq
      BY <1>1, <1>3, <2>2 DEF SeqUnused, ActiveSlots, PendingOfThisConnection
    <2>4. \A j \in Slots \ {i} : pending'[j] = pending[j]
      BY <2>1
    <2>5. pending'[i].frame = f
      BY <2>1
    <2>6. ASSUME NEW j \in Slots, NEW k \in Slots, pending'[j].active, pending'[k].active,
                 pending'[j].frame.seq = pending'[k].frame.seq
          PROVE  j = k
      BY <1>1, <2>3, <2>4, <2>5, <2>6 DEF PendingOfThisConnection, ActiveSlots
    <2>7. \A j \in Slots : pending'[j].active => ~pending'[j].frame.stale
      BY <1>3, <2>3, <2>4, <2>5
    <2> QED
      BY <2>6, <2>7 DEF PendingOfThisConnection, ActiveSlots
  <1> QED
    BY <1>1, <1>2, <1>3, SendFacts

\* The steps that neither send nor touch the pending table nor end a cleanup.
LEMMA QuietPending ==
  ASSUME PendingInv, UNCHANGED <<pending, connected, subscribed>>,
         host'.pc \in {host.pc, "idle", "mark", "clear", "sync"},
         host.pc # "cleanup" \/ host' = host
  PROVE  ConnectionInv' /\ PendingOfThisConnection'
  <1>1. ConnectionInv'
    BY DEF PendingInv, ConnectionInv
  <1>2. SlotsKept
    BY DEF SlotsKept
  <1> QED
    BY <1>1, <1>2, KeptPending DEF PendingInv

LEMMA PendingStep == ASSUME PendingInv, Next PROVE ConnectionInv' /\ PendingOfThisConnection'
  <1>0. TypeOK /\ ConnectionInv /\ PendingOfThisConnection /\ host \in Hosts
    BY TypeFacts DEF PendingInv, TypeParts
  <1>1. CASE PumpRead \/ Resend \/ LogDetection \/ SuppressionEnds \/ RateWindowOver \/ SendUntracked
    BY <1>1, QuietPending
    DEF PumpRead, Resend, LogDetection, SuppressionEnds, RateWindowOver, SendUntracked, link
  <1>2. CASE PumpSend
    <2>1. UNCHANGED <<host, connected, subscribed>>
      BY <1>2 DEF PumpSend, link
    <2>2. CASE SendMessage(loop.frame)
      <3>1. loop.frame.id \in Ids /\ loop.frame.uid \in Ids
        BY <1>0 DEF TypeOK, Frame
      <3> QED
        BY <1>0, <2>1, <2>2, <3>1, SentPending DEF ConnectionInv
    <2>3. CASE UNCHANGED pending
      BY <2>1, <2>3, QuietPending
    <2> QED
      BY <1>2, <2>2, <2>3 DEF PumpSend
  <1>3. ASSUME NEW i \in Slots, RetryOrGiveUp(i) PROVE ConnectionInv' /\ PendingOfThisConnection'
    <2>1. SlotsKept
      <3>1. CASE pending[i].retries < MAX_RETRY_COUNT
        BY <1>0, <1>3, <3>1, RetryFacts DEF RetryOrGiveUp, SlotsKept
      <3>2. CASE ~(pending[i].retries < MAX_RETRY_COUNT)
        BY <1>0, <1>3, <3>2, FreedFacts DEF RetryOrGiveUp, GiveUp
      <3> QED
        BY <3>1, <3>2
    <2> QED
      BY <1>0, <1>3, <2>1, KeptPending DEF RetryOrGiveUp, link, ConnectionInv
  <1>4. CASE Connect
    <2>1. host'.pc = "reset" /\ ~subscribed' /\ host.pc = "idle" /\ pending' = pending
      BY <1>0, <1>4, HostFacts, InitialFacts DEF Connect, HostSteps, ConnectionInv
    <2>2. SlotsKept
      BY <2>1 DEF SlotsKept
    <2> QED
      BY <1>0, <2>1, <2>2, KeptPending DEF ConnectionInv
  <1>5. CASE ClearAllPending
    <2>1. /\ host'.pc \in {"rewind", "idle"} /\ UNCHANGED <<connected, subscribed>>
          /\ host.pc \in {"reset", "cleanup"} /\ pending' = NoPending
      BY <1>5, HostFacts, InitialFacts DEF ClearAllPending, clearAllPending, HostSteps, link
    <2>2. \A i \in Slots : ~pending'[i].active
      BY <2>1, InitialFacts DEF NoPending
    <2> QED
      BY <1>0, <2>1, <2>2 DEF ConnectionInv, PendingOfThisConnection, ActiveSlots
  <1>6. CASE RewindSeq
    BY <1>6, QuietPending, InitialFacts DEF RewindSeq, link
  <1>7. CASE Subscribe
    <2>1. SlotsKept
      BY <1>7 DEF Subscribe, SlotsKept
    <2> QED
      BY <1>0, <1>7, <2>1, KeptPending DEF Subscribe, ConnectionInv
  <1>8. CASE Disconnect
    <2>1. host'.pc = "cleanup" /\ ~connected' /\ ~subscribed'
      BY <1>8, HostFacts, InitialFacts DEF Disconnect, HostSteps
    <2>2. \A i \in Slots : /\ pending'[i].active = pending[i].active
                           /\ pending'[i].frame.seq = pending[i].frame.seq
      BY <1>0, <1>8, DisconnectFacts DEF Disconnect
    <2> QED
      BY <1>0, <2>1, <2>2 DEF ConnectionInv, PendingOfThisConnection, ActiveSlots
  <1>9. ASSUME NEW r \in acks, HandleAck(r) PROVE ConnectionInv' /\ PendingOfThisConnection'
    <2>1. host' = host \/ host'.pc = "mark"
      BY <1>9, InitialFacts DEF HandleAck, Hosts
    <2> QED
      BY <1>9, <2>1, QuietPending DEF HandleAck, link
  <1>10. ASSUME NEW f \in frames, HandleNack(f) PROVE ConnectionInv' /\ PendingOfThisConnection'
    <2>1. SlotsKept
      <3>1. CASE pending' = pending
        BY <3>1 DEF SlotsKept
      <3>2. ASSUME NEW i \in SlotsOf(f.seq), pending' = [pending EXCEPT ![i] = FreeSlot]
            PROVE  SlotsKept
        BY <1>0, <3>2, FreedFacts DEF SlotsOf, ActiveSlots
      <3> QED
        BY <1>10, <3>1, <3>2 DEF HandleNack
    <2> QED
      BY <1>0, <1>10, <2>1, KeptPending DEF HandleNack, link, ConnectionInv
  <1>11. CASE MarkAsSynced
    <2>1. host'.pc = "clear"
      BY <1>0, <1>11 DEF MarkAsSynced, Hosts
    <2> QED
      BY <1>11, <2>1, QuietPending DEF MarkAsSynced, link
  <1>12. CASE ClearAcked
    <2>1. SlotsKept
      <3>1. host.slot \in Slots
        BY <1>0 DEF Hosts
      <3>2. CASE pending' = pending
        BY <3>2 DEF SlotsKept
      <3>3. CASE pending' = [pending EXCEPT ![host.slot] = FreeSlot]
        BY <1>0, <3>1, <3>3, FreedFacts
      <3> QED
        BY <1>12, <3>2, <3>3 DEF ClearAcked
    <2> QED
      BY <1>0, <1>12, <2>1, KeptPending, InitialFacts DEF ClearAcked, link, ConnectionInv
  <1>13. CASE HandleHello
    BY <1>13, QuietPending DEF HandleHello, link
  <1>14. CASE HandleSyncRequest
    <2>1. host'.pc = "sync"
      BY <1>14, InitialFacts DEF HandleSyncRequest, Hosts
    <2> QED
      BY <1>14, <2>1, QuietPending DEF HandleSyncRequest, link
  <1>15. CASE SyncNext
    <2>1. CASE host.sent < SYNC_BATCH /\ NextSince(host.id) # {}
      <3>1. PICK i \in NextSince(host.id) :
              /\ SendMessage(events[i])
              /\ host' = IF SendSucceeds THEN [host EXCEPT !.id = events[i].id, !.sent = @ + 1]
                         ELSE [host EXCEPT !.sent = SYNC_BATCH]
        BY <1>15, <2>1 DEF SyncNext
      <3>2. events[i].id \in Ids /\ events[i].uid \in Ids
        BY <1>0, EventFacts DEF NextSince
      <3>3. host'.pc = host.pc
        BY <1>0, <3>1 DEF Hosts
      <3>4. PendingOfThisConnection'
        BY <3>1, <3>2, <3>3, SentPending
      <3> QED
        BY <1>0, <1>15, <3>3, <3>4 DEF SyncNext, link, ConnectionInv
    <2>2. CASE ~(host.sent < SYNC_BATCH /\ NextSince(host.id) # {})
      BY <1>15, <2>2, QuietPending, InitialFacts DEF SyncNext, link
    <2> QED
      BY <2>1, <2>2
  <1>16. CASE \E f \in frames : AppReceive(f) \/ LoseFrame(f)
    BY <1>16, QuietPending DEF AppReceive, LoseFrame, link
  <1>17. CASE \E r \in acks : LoseAck(r)
    BY <1>17, QuietPending DEF LoseAck, link
  <1>18. CASE ColdBoot
    <2>1. \A i \in Slots : ~pending'[i].active
      BY <1>18, InitialFacts DEF ColdBoot, NoPending
    <2> QED
      BY <1>18, <2>1, InitialFacts DEF ColdBoot, ConnectionInv, PendingOfThisConnection, ActiveSlots
  <1> QED
    BY <1>1, <1>2, <1>3, <1>4, <1>5, <1>6, <1>7, <1>8, <1>9, <1>10, <1>11, <1>12, <1>13, <1>14,
       <1>15, <1>16, <1>17, <1>18
    DEF Next, LoopTask, HostTask, Environment

LEMMA PendingInvInit == Init => PendingInv
  BY TypeInit, InitialFacts
  DEF Init, PendingInv, ConnectionInv, PendingOfThisConnection, ActiveSlots, NoPending

LEMMA PendingInvStep == PendingInv /\ [Next]_vars => PendingInv'
  <1> SUFFICES ASSUME PendingInv, [Next]_vars PROVE PendingInv'
    OBVIOUS
  <1>1. TypeOK'
    BY TypeStep DEF PendingInv
  <1>2. CASE UNCHANGED vars
    BY <1>1, <1>2, QuietPending DEF vars, link, PendingInv
  <1>3. CASE Next
    BY <1>1, <1>3, PendingStep DEF PendingInv
  <1> QED
    BY <1>2, <1>3

LEMMA PendingAlways == Spec => []PendingInv
  BY PendingInvInit, PendingInvStep, PTL DEF Spec

-----------------------------------------------------------------------------
(* What is under way *)

LEMMA ReliableFacts ==
  ASSUME Reliable
  PROVE  "stale_ack" \notin Faults /\ "slow_loop" \notin Faults /\ "cold_boot" \notin Faults
  BY DEF Reliable

\* The tables and messages hold nothing but what they held.
LEMMA LiveKept ==
  ASSUME SlotsKept, frames' \subseteq frames, loop' = loop \/ loop'.pc # "resend"
  PROVE  LiveFrames' \subseteq LiveFrames
  BY DEF LiveFrames, SlotsKept, ActiveSlots

\* A frame of the table is one of this connection, unless the connection has ended.
LEMMA PendingLive ==
  ASSUME DeliveryInv, NEW i \in Slots, pending[i].active, connected
  PROVE  pending[i].frame \in LiveFrames /\ ~pending[i].frame.stale
  <1>1. host.pc # "cleanup"
    BY DEF DeliveryInv, PendingInv, ConnectionInv
  <1>2. ~pending[i].frame.stale
    BY <1>1 DEF DeliveryInv, PendingInv, PendingOfThisConnection, ActiveSlots
  <1>3. pending[i].frame \in Frame
    BY PendingFacts DEF DeliveryInv, PendingInv
  <1> QED
    BY <1>2, <1>3 DEF LiveFrames, ActiveSlots

LEMMA FrameLive ==
  ASSUME DeliveryInv, NEW f \in frames PROVE f \in LiveFrames
  BY DEF DeliveryInv, PendingInv, TypeOK, FreshInv, LiveFrames

\* No frame or ACK under way carries the number of a frame that is sent.
LEMMA SentLive ==
  ASSUME DeliveryInv, NEW e, e.id \in Ids, e.uid \in Ids, SendMessage(e),
         loop' = loop \/ loop'.pc # "resend"
  PROVE  \/ LiveFrames' \subseteq LiveFrames /\ frames' = frames
         \/ \E f \in Frame :
              /\ LiveFrames' \subseteq LiveFrames \cup {f} /\ frames' = frames \cup {f}
              /\ f.id = e.id /\ f.uid = e.uid /\ ~f.stale
              /\ \A g \in LiveFrames : g.seq # f.seq
              /\ \A r \in acks : r.seq # f.seq
  <1>1. TypeOK
    BY DEF DeliveryInv, PendingInv
  <1>2. CASE UNCHANGED <<pending, frames>>
    BY <1>2, LiveKept DEF SlotsKept
  <1>3. ASSUME NEW f \in Frame, NEW i \in Slots, SeqUnused,
               f.seq = txSeq, f.id = e.id, f.uid = e.uid, ~f.stale, ~pending[i].active,
               pending' = [pending EXCEPT ![i] = [active |-> TRUE, frame |-> f, retries |-> 0]],
               frames' = frames \cup {f}
        PROVE  /\ LiveFrames' \subseteq LiveFrames \cup {f}
               /\ \A g \in LiveFrames : g.seq # f.seq
               /\ \A r \in acks : r.seq # f.seq
    <2>1. \A j \in Slots :
            pending'[j] = IF j = i THEN [active |-> TRUE, frame |-> f, retries |-> 0] ELSE pending[j]
      BY <1>1, <1>3 DEF TypeOK
    <2>2. \A j \in Slots : pending'[j] = pending[j] \/ pending'[j].frame = f
      BY <2>1
    <2>3. LiveFrames' \subseteq LiveFrames \cup {f}
      BY <1>3, <2>2 DEF LiveFrames, ActiveSlots
    <2>4. \A g \in LiveFrames : g.seq # f.seq
      BY <1>3 DEF SeqUnused, LiveFrames, ActiveSlots
    <2>5. \A r \in acks : r.seq # f.seq
      BY <1>3 DEF SeqUnused, DeliveryInv, FreshInv
    <2> QED
      BY <2>3, <2>4, <2>5
  <1> QED
    BY <1>1, <1>2, <1>3, SendFacts

\* A step that sends a detection of the history.
LEMMA SentInv ==
  ASSUME DeliveryInv, NEW e, e.id \in Ids, e.uid \in Ids, SendMessage(e),
         e.id = e.uid, e.uid \in Detections,
         UNCHANGED <<events, globalId, detections, subscribed, acks, stored>>,
         loop' = loop \/ loop' = LoopIdle, host'.pc = host.pc, host.pc # "mark" \/ host' = host
  PROVE  NameInv' /\ FreshInv' /\ AckInv' /\ NoFalseSync'
  <1>1. LoopIdle.pc = "idle" /\ ~LoopIdle.frame.stale
    BY InitialFacts
  <1>2. UNCHANGED <<StoredIds, Detections>>
    BY DEF StoredIds, Detections
  <1>3. CASE LiveFrames' \subseteq LiveFrames /\ frames' = frames
    BY <1>1, <1>2, <1>3 DEF DeliveryInv, NameInv, FreshInv, AckInv, NoFalseSync
  <1>4. ASSUME NEW f \in Frame,
               LiveFrames' \subseteq LiveFrames \cup {f}, frames' = frames \cup {f},
               f.id = e.id, f.uid = e.uid, ~f.stale,
               \A g \in LiveFrames : g.seq # f.seq, \A r \in acks : r.seq # f.seq
        PROVE  NameInv' /\ FreshInv' /\ AckInv' /\ NoFalseSync'
    <2>1. FreshInv'
      BY <1>1, <1>4 DEF DeliveryInv, FreshInv
    <2>2. NameInv'
      BY <1>1, <1>2, <1>4 DEF DeliveryInv, NameInv
    <2>3. AckInv'
      BY <1>2, <1>4 DEF DeliveryInv, AckInv
    <2> QED
      BY <2>1, <2>2, <2>3 DEF DeliveryInv, NoFalseSync
  <1> QED
    BY <1>1, <1>3, <1>4, SentLive

\* Nothing of an earlier connection comes under way.
LEMMA FreshStep == ASSUME DeliveryInv, Next PROVE FreshInv'
  <1>0. TypeOK /\ FreshInv /\ ~LoopIdle.frame.stale /\ Reliable
    BY InitialFacts DEF DeliveryInv, PendingInv
  <1>1. CASE frames' \subseteq frames /\ acks' \subseteq acks /\ (subscribed' => ~loop'.frame.stale)
    BY <1>0, <1>1 DEF FreshInv
  <1>2. CASE PumpRead
    BY <1>1, <1>2 DEF PumpRead, link
  <1>3. CASE PumpSend
    <2>1. loop.frame.id \in Ids /\ loop.frame.uid \in Ids /\ loop' = LoopIdle /\ acks' = acks
      BY <1>0, <1>3 DEF TypeOK, Frame, PumpSend
    <2>2. CASE SendMessage(loop.frame)
      <3>1. \A f \in frames' : ~f.stale
        BY <1>0, <2>1, <2>2, SendFacts DEF FreshInv
      <3> QED
        BY <1>0, <2>1, <3>1 DEF FreshInv
    <2>3. CASE frames' = frames
      BY <1>0, <1>1, <2>1, <2>3
    <2> QED
      BY <1>3, <2>2, <2>3 DEF PumpSend
  <1>4. CASE Resend
    BY <1>0, <1>4 DEF Resend, FreshInv
  <1>5. ASSUME NEW i \in Slots, RetryOrGiveUp(i) PROVE FreshInv'
    <2>1. ~pending[i].frame.stale
      BY <1>5, PendingLive DEF RetryOrGiveUp
    <2> QED
      BY <1>0, <1>1, <1>5, <2>1 DEF RetryOrGiveUp, link, FreshInv
  <1>6. CASE Subscribe
    BY <1>0, <1>1, <1>6, ReliableFacts DEF Subscribe
  <1>7. CASE Disconnect
    BY <1>0, <1>1, <1>7, ReliableFacts DEF Disconnect
  <1>8. CASE SyncNext
    <2>1. CASE host.sent < SYNC_BATCH /\ NextSince(host.id) # {}
      <3>1. PICK i \in NextSince(host.id) : SendMessage(events[i])
        BY <1>8, <2>1 DEF SyncNext
      <3>2. events[i].id \in Ids /\ events[i].uid \in Ids
        BY <1>0, EventFacts DEF NextSince
      <3>3. \A f \in frames' : ~f.stale
        BY <1>0, <3>1, <3>2, SendFacts DEF FreshInv
      <3> QED
        BY <1>0, <1>8, <3>3 DEF SyncNext, link, FreshInv
    <2>2. CASE ~(host.sent < SYNC_BATCH /\ NextSince(host.id) # {})
      BY <1>0, <1>1, <1>8, <2>2 DEF SyncNext, link, FreshInv
    <2> QED
      BY <2>1, <2>2
  <1>9. ASSUME NEW f \in frames, AppReceive(f) PROVE FreshInv'
    BY <1>0, <1>9 DEF AppReceive, link, FreshInv
  <1>10. CASE Connect \/ ClearAllPending \/ RewindSeq \/ MarkAsSynced \/ ClearAcked \/ HandleHello
              \/ HandleSyncRequest
    BY <1>0, <1>1, <1>10
    DEF Connect, ClearAllPending, RewindSeq, MarkAsSynced, ClearAcked, HandleHello,
        HandleSyncRequest, link, FreshInv
  <1>11. CASE \/ \E r \in acks : HandleAck(r) \/ LoseAck(r)
              \/ \E f \in frames : HandleNack(f) \/ LoseFrame(f)
    BY <1>0, <1>1, <1>11 DEF HandleAck, LoseAck, HandleNack, LoseFrame, link, FreshInv
  <1>12. CASE LogDetection \/ SuppressionEnds \/ RateWindowOver \/ SendUntracked
    BY <1>0, <1>1, <1>12
    DEF LogDetection, SuppressionEnds, RateWindowOver, SendUntracked, link, FreshInv
  <1>13. ~ColdBoot
    BY <1>0, ReliableFacts DEF ColdBoot
  <1> QED
    BY <1>2, <1>3, <1>4, <1>5, <1>6, <1>7, <1>8, <1>9, <1>10, <1>11, <1>12, <1>13
    DEF Next, LoopTask, HostTask, Environment

-----------------------------------------------------------------------------
(* No false sync *)

\* A step that brings nothing new under way and leaves the history and the app alone.
LEMMA KeptInv ==
  ASSUME DeliveryInv, LiveFrames' \subseteq LiveFrames,
         UNCHANGED <<events, globalId, detections, stored>>, acks' \subseteq acks,
         loop'.pc = "send" => loop' = loop, host'.pc = "mark" => host' = host
  PROVE  NameInv' /\ AckInv' /\ NoFalseSync'
  <1>1. UNCHANGED <<StoredIds, Detections>>
    BY DEF StoredIds, Detections
  <1>2. NameInv'
    BY <1>1 DEF DeliveryInv, NameInv
  <1>3. AckInv'
    BY <1>1 DEF DeliveryInv, AckInv
  <1> QED
    BY <1>2, <1>3 DEF DeliveryInv, NoFalseSync

\* The detection joins the history under its own name, and may push out the oldest.
LEMMA DetectedFacts ==
  ASSUME TypeOK, NameInv, LogDetection
  PROVE  /\ detections' = detections + 1 /\ globalId' = globalId + 1 /\ detections \in Nat
         /\ Len(events) \in Nat /\ DOMAIN events = 1 .. Len(events)
         /\ \E cut \in {0, 1} :
              /\ cut = IF Len(events) < CAPACITY THEN 0 ELSE 1
              /\ DOMAIN events' = 1 .. Len(events) - cut + 1
              /\ \A i \in 1 .. Len(events) - cut : events'[i] = events[i + cut]
              /\ events'[Len(events) - cut + 1].id = globalId + 1
              /\ events'[Len(events) - cut + 1].uid = detections + 1
              /\ ~events'[Len(events) - cut + 1].synced
  <1> DEFINE kept == IF Len(events) < CAPACITY THEN events ELSE Tail(events)
             new == [id |-> globalId + 1, uid |-> detections + 1, synced |-> FALSE]
             cut == IF Len(events) < CAPACITY THEN 0 ELSE 1
  <1>1. /\ detections' = detections + 1 /\ globalId' = globalId + 1 /\ events' = Append(kept, new)
    BY DEF LogDetection
  <1>2. /\ detections \in Nat /\ Len(events) \in Nat /\ DOMAIN events = 1 .. Len(events)
    BY DEF TypeOK, Ids
  <1>3. events \in Seq(Event) /\ CAPACITY \in Nat \ {0}
    BY ConstantFacts DEF TypeOK
  <1>4. /\ kept \in Seq(Event) /\ Len(kept) = Len(events) - cut /\ Len(kept) \in Nat
        /\ \A i \in 1 .. Len(kept) : kept[i] = events[i + cut]
    <2>1. CASE Len(events) < CAPACITY
      BY <1>2, <1>3, <2>1
    <2>2. CASE ~(Len(events) < CAPACITY)
      <3>1. events # <<>>
        BY <1>2, <1>3, <2>2
      <3>2. /\ Tail(events) \in Seq(Event) /\ Len(Tail(events)) = Len(events) - 1
            /\ \A i \in 1 .. Len(events) - 1 : Tail(events)[i] = events[i + 1]
        BY <1>2, <1>3, <3>1
      <3> QED
        BY <1>2, <1>3, <2>2, <3>2
    <2> QED
      BY <2>1, <2>2
  <1>5. new.id = globalId + 1 /\ new.uid = detections + 1 /\ ~new.synced
    OBVIOUS
  <1>6. cut \in {0, 1}
    OBVIOUS
  <1> HIDE DEF kept, new
  <1>7. /\ DOMAIN events' = 1 .. Len(kept) + 1 /\ events'[Len(kept) + 1] = new
        /\ \A i \in 1 .. Len(kept) : events'[i] = kept[i]
    BY <1>1, <1>4
  <1> QED
    BY <1>1, <1>2, <1>4, <1>5, <1>6, <1>7

LEMMA DetectedNames ==
  ASSUME TypeOK, NameInv, NoFalseSync, LogDetection
  PROVE  /\ globalId' = detections'
         /\ \A i \in DOMAIN events' : events'[i].id = events'[i].uid /\ events'[i].uid \in Detections'
         /\ \A i, j \in DOMAIN events' : i < j => events'[i].uid < events'[j].uid
         /\ NoFalseSync'
  <1> DEFINE n == Len(events)
  <1>1. PICK cut \in {0, 1} :
          /\ DOMAIN events' = 1 .. n - cut + 1
          /\ \A i \in 1 .. n - cut : events'[i] = events[i + cut]
          /\ events'[n - cut + 1].id = globalId + 1
          /\ events'[n - cut + 1].uid = detections + 1
          /\ ~events'[n - cut + 1].synced
    BY DetectedFacts
  <1>2. /\ detections' = detections + 1 /\ globalId' = globalId + 1 /\ detections \in Nat
        /\ n \in Nat /\ DOMAIN events = 1 .. n /\ globalId = detections
    BY DetectedFacts DEF NameInv
  <1> HIDE DEF n
  <1>3. \A i \in 1 .. n - cut : i + cut \in 1 .. n
    BY <1>2
  <1>4. \A i \in 1 .. n - cut : /\ events'[i].id = events'[i].uid
                                /\ events'[i].uid \in 1 .. detections
    BY <1>1, <1>2, <1>3 DEF NameInv, Detections
  <1>5. \A i \in DOMAIN events' : i \in 1 .. n - cut \/ i = n - cut + 1
    BY <1>1, <1>2
  <1>6. Detections' = 1 .. detections + 1
    BY <1>2 DEF Detections
  <1>7. detections + 1 \in 1 .. detections + 1 /\ 1 .. detections \subseteq 1 .. detections + 1
    BY <1>2
  <1>8. \A i \in DOMAIN events' : events'[i].id = events'[i].uid /\ events'[i].uid \in Detections'
    BY <1>1, <1>2, <1>4, <1>5, <1>6, <1>7
  <1>9. ASSUME NEW i \in DOMAIN events', NEW j \in DOMAIN events', i < j
        PROVE  events'[i].uid < events'[j].uid
    <2>1. i \in 1 .. n - cut
      BY <1>1, <1>2, <1>9
    <2>2. CASE j \in 1 .. n - cut
      <3>1. i + cut < j + cut
        BY <1>2, <1>9, <2>1, <2>2
      <3>2. /\ events'[i] = events[i + cut] /\ i + cut \in DOMAIN events
            /\ events'[j] = events[j + cut] /\ j + cut \in DOMAIN events
        BY <1>1, <1>2, <1>3, <2>1, <2>2
      <3>3. events[i + cut].uid < events[j + cut].uid
        BY <3>1, <3>2 DEF NameInv
      <3> QED
        BY <3>2, <3>3
    <2>3. CASE j = n - cut + 1
      <3>1. events'[i].uid \in 1 .. detections /\ events'[j].uid = detections + 1
        BY <1>1, <1>4, <2>1, <2>3
      <3> QED
        BY <1>2, <3>1
    <2> QED
      BY <1>5, <2>2, <2>3
  <1>10. NoFalseSync'
    <2>1. \A i \in 1 .. n - cut :
            events'[i].synced => \E d \in stored : d.uid = events'[i].uid
      BY <1>1, <1>2, <1>3 DEF NoFalseSync
    <2>2. stored' = stored
      BY DEF LogDetection
    <2> QED
      BY <1>1, <1>5, <2>1, <2>2 DEF NoFalseSync
  <1> QED
    BY <1>2, <1>8, <1>9, <1>10

\* What the history looks like after MarkAsSynced.
LEMMA MarkedFacts ==
  ASSUME TypeOK, MarkAsSynced
  PROVE  /\ DOMAIN events' = DOMAIN events
         /\ \A i \in DOMAIN events :
              /\ events'[i].id = events[i].id /\ events'[i].uid = events[i].uid
              /\ events'[i].synced <=>
                   \/ events[i].synced
                   \/ events[i].id = host.id /\ \A j \in 1 .. i - 1 : events[j].id # host.id
  <1>1. \A i \in DOMAIN events :
          /\ events[i] \in Event
          /\ events'[i] = IF /\ events[i].id = host.id
                             /\ \A j \in 1 .. i - 1 : events[j].id # host.id
                          THEN [events[i] EXCEPT !.synced = TRUE] ELSE events[i]
    BY EventFacts DEF MarkAsSynced
  <1>2. \A i \in DOMAIN events :
          /\ [events[i] EXCEPT !.synced = TRUE].synced
          /\ [events[i] EXCEPT !.synced = TRUE].id = events[i].id
          /\ [events[i] EXCEPT !.synced = TRUE].uid = events[i].uid
    BY <1>1 DEF Event
  <1>3. DOMAIN events' = DOMAIN events
    BY DEF MarkAsSynced
  <1> HIDE DEF MarkAsSynced
  <1> QED
    BY <1>1, <1>2, <1>3

LEMMA SyncStep == ASSUME DeliveryInv, Next PROVE NameInv' /\ AckInv' /\ NoFalseSync'
  <1>0. /\ TypeOK /\ NameInv /\ FreshInv /\ AckInv /\ NoFalseSync /\ Reliable
        /\ LoopIdle.pc = "idle" /\ HostIdle.pc = "idle"
    BY InitialFacts DEF DeliveryInv, PendingInv
  <1>1. CASE /\ SlotsKept /\ frames' \subseteq frames /\ acks' \subseteq acks
             /\ UNCHANGED <<events, globalId, detections, stored>>
             /\ loop' = loop \/ loop' = LoopIdle
             /\ host'.pc # "mark" \/ host' = host
    BY <1>0, <1>1, LiveKept, KeptInv
  <1>2. UNCHANGED pending => SlotsKept
    BY DEF SlotsKept
  <1>3. CASE PumpRead
    <2>1. PICK i \in NextUnsynced :
            loop' = [pc |-> "send", frame |-> [seq |-> 0, id |-> events[i].id,
                                               uid |-> events[i].uid, stale |-> FALSE]]
      BY <1>3 DEF PumpRead
    <2>2. events[i].id = events[i].uid /\ events[i].uid \in Detections
      BY <1>0 DEF NextUnsynced, NameInv
    <2>3. UNCHANGED <<events, globalId, detections, stored, acks, pending, frames, host>>
      BY <1>3 DEF PumpRead, history
    <2>4. LiveFrames' \subseteq LiveFrames /\ loop'.frame.id = loop'.frame.uid
          /\ loop'.frame.uid \in Detections /\ UNCHANGED <<StoredIds, Detections>>
      BY <1>2, <2>1, <2>2, <2>3, LiveKept DEF StoredIds, Detections
    <2> QED
      BY <1>0, <2>3, <2>4 DEF NameInv, AckInv, NoFalseSync
  <1>4. CASE PumpSend
    <2>1. /\ loop.frame.id \in Ids /\ loop.frame.uid \in Ids
          /\ loop.frame.id = loop.frame.uid /\ loop.frame.uid \in Detections
      BY <1>0, <1>4 DEF TypeOK, Frame, PumpSend, NameInv
    <2>2. /\ UNCHANGED <<events, globalId, detections, subscribed, acks, stored, host>>
          /\ loop' = LoopIdle
      BY <1>4 DEF PumpSend, link
    <2>3. CASE SendMessage(loop.frame)
      BY <2>1, <2>2, <2>3, SentInv
    <2>4. CASE UNCHANGED <<pending, frames>>
      BY <1>1, <1>2, <2>2, <2>4
    <2> QED
      BY <1>4, <2>3, <2>4 DEF PumpSend
  <1>5. CASE Resend
    <2>1. LiveFrames' \subseteq LiveFrames
      <3>1. subscribed => loop.frame \in LiveFrames
        BY <1>0, <1>5 DEF Resend, FreshInv, LiveFrames, TypeOK
      <3>2. LiveFrames' \subseteq LiveFrames \cup frames'
        BY <1>0, <1>5 DEF Resend, LiveFrames, ActiveSlots
      <3>3. frames' \subseteq LiveFrames
        BY <1>5, <3>1, FrameLive DEF Resend
      <3> QED
        BY <3>2, <3>3
    <2> QED
      BY <1>0, <1>5, <2>1, KeptInv DEF Resend, history
  <1>6. ASSUME NEW i \in Slots, RetryOrGiveUp(i) PROVE NameInv' /\ AckInv' /\ NoFalseSync'
    <2>1. CASE pending[i].retries < MAX_RETRY_COUNT
      <3>1. loop' = [pc |-> "resend", frame |-> pending[i].frame] /\ frames' = frames
        BY <1>6, <2>1 DEF RetryOrGiveUp
      <3>2. \A j \in Slots : /\ pending'[j].active = pending[j].active
                             /\ pending'[j].frame = pending[j].frame
        BY <1>0, <1>6, <2>1, RetryFacts DEF RetryOrGiveUp
      <3>3. pending[i].frame \in LiveFrames
        BY <1>6, PendingLive DEF RetryOrGiveUp
      <3>4. LiveFrames' \subseteq LiveFrames \cup {pending[i].frame}
        BY <3>1, <3>2 DEF LiveFrames, ActiveSlots
      <3> QED
        BY <1>6, <3>1, <3>3, <3>4, KeptInv DEF RetryOrGiveUp, history
    <2>2. CASE ~(pending[i].retries < MAX_RETRY_COUNT)
      <3>1. SlotsKept
        BY <1>0, <1>6, <2>2, FreedFacts DEF RetryOrGiveUp, GiveUp
      <3> QED
        BY <1>1, <1>6, <2>2, <3>1 DEF RetryOrGiveUp, history
    <2> QED
      BY <2>1, <2>2
  <1>7. CASE Connect \/ RewindSeq \/ Subscribe \/ HandleHello
    <2>1. globalId' = globalId
      <3>1. CASE HandleHello
        <4>1. PICK last \in StoredIds \cup {0} :
                globalId' = IF last > globalId THEN last ELSE globalId
          BY <3>1 DEF HandleHello
        <4>2. detections \in Nat /\ globalId = detections
          BY <1>0 DEF TypeOK, Ids, NameInv
        <4>3. last \in 0 .. detections
          BY <1>0, <4>2 DEF NameInv, StoredIds, Detections
        <4> QED
          BY <4>1, <4>2, <4>3
      <3> QED
        BY <1>7, <3>1 DEF Connect, RewindSeq, Subscribe, history
    <2>2. host'.pc # "mark" \/ host' = host
      BY <1>7, InitialFacts, HostFacts DEF Connect, RewindSeq, Subscribe, HandleHello, HostSteps
    <2> QED
      BY <1>1, <1>2, <1>7, <2>1, <2>2 DEF Connect, RewindSeq, Subscribe, HandleHello, history
  <1>8. CASE ClearAllPending
    <2>1. SlotsKept
      BY <1>8, InitialFacts DEF ClearAllPending, clearAllPending, NoPending, SlotsKept
    <2>2. host'.pc # "mark"
      BY <1>8, InitialFacts, HostFacts DEF ClearAllPending, HostSteps
    <2> QED
      BY <1>1, <1>8, <2>1, <2>2 DEF ClearAllPending, history
  <1>9. CASE Disconnect
    <2>1. \A i \in Slots : pending'[i].active => pending'[i].frame.stale
      <3>1. \A i \in Slots : pending'[i] = [pending[i] EXCEPT !.frame.stale = pending[i].active]
        BY <1>9 DEF Disconnect
      <3> QED
        BY <1>0, <3>1, DisconnectFacts
    <2>2. loop'.pc = "resend" => loop'.frame.stale
      <3>1. loop \in Loops /\ loop.frame \in Frame
        BY <1>0, TypeFacts DEF TypeParts, Loops
      <3>2. CASE loop.pc = "resend"
        BY <1>9, <3>1, <3>2, StaleFacts DEF Disconnect, Loops
      <3>3. CASE loop.pc # "resend"
        BY <1>9, <3>3 DEF Disconnect
      <3> QED
        BY <3>2, <3>3
    <2>3. frames' = {} /\ acks' = {} /\ UNCHANGED <<events, globalId, detections, stored>>
      BY <1>0, <1>9, ReliableFacts DEF Disconnect, history
    <2>4. LiveFrames' = {}
      BY <2>1, <2>2, <2>3 DEF LiveFrames, ActiveSlots
    <2>5. loop'.pc = "send" => loop' = loop
      <3>1. loop \in Loops
        BY <1>0, TypeFacts DEF TypeParts
      <3> QED
        BY <1>9, <3>1 DEF Disconnect, Loops
    <2>6. host'.pc # "mark"
      BY <1>9, InitialFacts, HostFacts DEF Disconnect, HostSteps
    <2> QED
      BY <2>3, <2>4, <2>5, <2>6, KeptInv
  <1>10. ASSUME NEW r \in acks, HandleAck(r) PROVE NameInv' /\ AckInv' /\ NoFalseSync'
    <2>1. CASE SlotsOf(r.seq) = {}
      BY <1>1, <1>2, <1>10, <2>1 DEF HandleAck, history
    <2>2. CASE SlotsOf(r.seq) # {}
      <3>1. PICK i \in SlotsOf(r.seq) :
              host' = [HostIdle EXCEPT !.pc = "mark", !.slot = i, !.seq = r.seq,
                                       !.id = pending[i].frame.id]
        BY <1>10, <2>2 DEF HandleAck
      <3>2. i \in Slots /\ pending[i].active /\ pending[i].frame.seq = r.seq
        BY DEF SlotsOf, ActiveSlots
      <3>3. pending[i].frame \in LiveFrames
        BY <1>10, <3>2, PendingLive DEF HandleAck
      <3>4. pending[i].frame.id \in StoredIds
        BY <1>0, <1>10, <3>2, <3>3 DEF AckInv
      <3>5. host'.id = pending[i].frame.id
        BY <3>1 DEF HostIdle
      <3>6. /\ UNCHANGED <<events, globalId, detections, stored, pending, frames, loop>>
            /\ acks' \subseteq acks
        BY <1>10 DEF HandleAck, history
      <3>7. LiveFrames' \subseteq LiveFrames /\ UNCHANGED <<StoredIds, Detections>>
        BY <1>2, <3>6, LiveKept DEF StoredIds, Detections
      <3> QED
        BY <1>0, <3>4, <3>5, <3>6, <3>7 DEF NameInv, AckInv, NoFalseSync
    <2> QED
      BY <2>1, <2>2
  <1>11. ASSUME NEW f \in frames, HandleNack(f) PROVE NameInv' /\ AckInv' /\ NoFalseSync'
    <2>1. SlotsKept
      <3>1. ASSUME NEW i \in SlotsOf(f.seq), pending' = [pending EXCEPT ![i] = FreeSlot]
            PROVE  SlotsKept
        BY <1>0, <3>1, FreedFacts DEF SlotsOf, ActiveSlots
      <3> QED
        BY <1>2, <1>11, <3>1 DEF HandleNack
    <2> QED
      BY <1>1, <1>11, <2>1 DEF HandleNack, history
  <1>12. CASE MarkAsSynced
    <2>1. UNCHANGED <<globalId, detections, stored, acks, pending, frames, loop>> /\ host.pc = "mark"
      BY <1>12 DEF MarkAsSynced
    <2>2. LiveFrames' \subseteq LiveFrames /\ UNCHANGED <<StoredIds, Detections>>
      BY <1>2, <2>1, LiveKept DEF StoredIds, Detections
    <2>3. host'.pc = "clear"
      <3>1. host \in Hosts
        BY <1>0, TypeFacts DEF TypeParts
      <3> QED
        BY <1>12, <3>1 DEF MarkAsSynced, Hosts
    <2>4. NameInv'
      BY <1>0, <1>12, <2>1, <2>2, MarkedFacts DEF NameInv
    <2>5. AckInv'
      BY <1>0, <2>1, <2>2, <2>3 DEF AckInv
    <2>6. PICK d \in stored : d.id = host.id
      BY <1>0, <2>1 DEF AckInv, StoredIds
    <2>7. d.uid = host.id
      BY <1>0, <2>6 DEF NameInv
    <2>8. ASSUME NEW i \in DOMAIN events', events'[i].synced
          PROVE  \E c \in stored : c.uid = events'[i].uid
      <3>1. i \in DOMAIN events /\ events'[i].uid = events[i].uid
        BY <1>0, <1>12, <2>8, MarkedFacts
      <3>2. CASE events[i].synced
        BY <1>0, <3>1, <3>2 DEF NoFalseSync
      <3>3. CASE events[i].id = host.id
        BY <1>0, <2>7, <3>1, <3>3 DEF NameInv
      <3> QED
        BY <1>0, <1>12, <2>8, <3>1, <3>2, <3>3, MarkedFacts
    <2> QED
      BY <2>1, <2>4, <2>5, <2>8 DEF NoFalseSync
  <1>13. CASE ClearAcked
    <2>1. SlotsKept
      <3>1. host.slot \in Slots
        BY <1>0 DEF TypeOK
      <3>2. CASE pending' = [pending EXCEPT ![host.slot] = FreeSlot]
        BY <1>0, <3>1, <3>2, FreedFacts
      <3> QED
        BY <1>2, <1>13, <3>2 DEF ClearAcked
    <2> QED
      BY <1>0, <1>1, <1>13, <2>1 DEF ClearAcked, history
  <1>14. CASE HandleSyncRequest
    <2>1. host'.pc = "sync"
      BY <1>14 DEF HandleSyncRequest, HostIdle
    <2> QED
      BY <1>1, <1>2, <1>14, <2>1 DEF HandleSyncRequest, history
  <1>15. CASE SyncNext
    <2>1. CASE host.sent < SYNC_BATCH /\ NextSince(host.id) # {}
      <3>1. PICK i \in NextSince(host.id) :
              /\ SendMessage(events[i])
              /\ host' = IF SendSucceeds THEN [host EXCEPT !.id = events[i].id, !.sent = @ + 1]
                         ELSE [host EXCEPT !.sent = SYNC_BATCH]
        BY <1>15, <2>1 DEF SyncNext
      <3>2. events[i].id \in Ids /\ events[i].uid \in Ids
        BY <1>0, EventFacts DEF NextSince
      <3>3. events[i].id = events[i].uid /\ events[i].uid \in Detections
        BY <1>0 DEF NextSince, NameInv
      <3>4. host'.pc = host.pc /\ host.pc # "mark"
        <4>1. host \in Hosts
          BY <1>0, TypeFacts DEF TypeParts
        <4> QED
          BY <1>15, <3>1, <4>1 DEF SyncNext, Hosts
      <3> QED
        BY <1>15, <3>1, <3>2, <3>3, <3>4, SentInv DEF SyncNext, history, link
    <2>2. CASE ~(host.sent < SYNC_BATCH /\ NextSince(host.id) # {})
      BY <1>0, <1>1, <1>2, <1>15, <2>2 DEF SyncNext, history
    <2> QED
      BY <2>1, <2>2
  <1>16. ASSUME NEW f \in frames, AppReceive(f) PROVE NameInv' /\ AckInv' /\ NoFalseSync'
    <2>1. /\ UNCHANGED <<events, globalId, detections, pending, loop, host>>
          /\ frames' \subseteq frames
          /\ stored' \subseteq stored \cup {[id |-> f.id, uid |-> f.uid]} /\ stored \subseteq stored'
          /\ acks' = acks \cup {[seq |-> f.seq, stale |-> f.stale]}
      BY <1>16 DEF AppReceive, history
    <2>2. LiveFrames' \subseteq LiveFrames /\ UNCHANGED Detections
      BY <1>2, <2>1, LiveKept DEF Detections
    <2>3. f \in LiveFrames
      BY FrameLive
    <2>4. NameInv'
      BY <1>0, <2>1, <2>2, <2>3 DEF NameInv
    <2>5. StoredIds \subseteq StoredIds'
      BY <2>1 DEF StoredIds
    <2>6. f.id \in StoredIds'
      <3>1. CASE f.id \in StoredIds
        BY <2>5, <3>1
      <3>2. CASE f.id \notin StoredIds
        <4>1. [id |-> f.id, uid |-> f.uid] \in stored' /\ [id |-> f.id, uid |-> f.uid].id = f.id
          BY <1>16, <3>2 DEF AppReceive
        <4> QED
          BY <4>1 DEF StoredIds
      <3> QED
        BY <3>1, <3>2
    <2>7. \A g, h \in LiveFrames' : g.seq = h.seq => g.id = h.id
      BY <1>0, <2>2 DEF AckInv
    <2>8. ASSUME NEW r \in acks', NEW g \in LiveFrames', g.seq = r.seq PROVE g.id \in StoredIds'
      <3>1. CASE r \in acks
        BY <1>0, <2>2, <2>5, <2>8, <3>1 DEF AckInv
      <3>2. CASE r = [seq |-> f.seq, stale |-> f.stale]
        <4>1. g.id = f.id
          BY <1>0, <2>2, <2>3, <2>8, <3>2 DEF AckInv
        <4> QED
          BY <2>6, <4>1
      <3> QED
        BY <2>1, <3>1, <3>2
    <2>9. AckInv'
      BY <1>0, <2>1, <2>5, <2>7, <2>8 DEF AckInv
    <2> QED
      BY <1>0, <2>1, <2>4, <2>9 DEF NoFalseSync
  <1>17. CASE \/ \E f \in frames : LoseFrame(f)
              \/ \E r \in acks : LoseAck(r)
              \/ SuppressionEnds \/ RateWindowOver \/ SendUntracked
    BY <1>1, <1>2, <1>17 DEF LoseFrame, LoseAck, SuppressionEnds, RateWindowOver, SendUntracked, history
  <1>18. CASE LogDetection
    <2>1. UNCHANGED <<stored, acks, pending, frames, loop, host>>
      BY <1>18 DEF LogDetection
    <2>2. LiveFrames' \subseteq LiveFrames /\ UNCHANGED StoredIds
      BY <1>2, <2>1, LiveKept DEF StoredIds
    <2>3. Detections \subseteq Detections'
      BY <1>0, <1>18, DetectedFacts DEF Detections
    <2>4. NameInv'
      BY <1>0, <1>18, <2>1, <2>2, <2>3, DetectedNames DEF NameInv
    <2>5. AckInv'
      BY <1>0, <2>1, <2>2 DEF AckInv
    <2> QED
      BY <1>0, <1>18, <2>4, <2>5, DetectedNames
  <1>19. ~ColdBoot
    BY <1>0, ReliableFacts DEF ColdBoot
  <1> QED
    BY <1>3, <1>4, <1>5, <1>6, <1>7, <1>8, <1>9, <1>10, <1>11, <1>12, <1>13, <1>14, <1>15, <1>16,
       <1>17, <1>18, <1>19
    DEF Next, LoopTask, HostTask, Environment

LEMMA DeliveryInvInit == Reliable /\ Init => DeliveryInv
  <1> SUFFICES ASSUME Reliable, Init PROVE DeliveryInv
    OBVIOUS
  <1>1. LiveFrames = {}
    BY InitialFacts DEF Init, LiveFrames, ActiveSlots, NoPending
  <1>2. DOMAIN events = {}
    BY DEF Init
  <1> QED
    BY <1>1, <1>2, PendingInvInit, InitialFacts
    DEF Init, DeliveryInv, NameInv, FreshInv, AckInv, NoFalseSync

LEMMA DeliveryInvStep == DeliveryInv /\ [Next]_vars => DeliveryInv'
  <1> SUFFICES ASSUME DeliveryInv, [Next]_vars PROVE DeliveryInv'
    OBVIOUS
  <1>1. PendingInv' /\ Reliable'
    BY PendingInvStep DEF DeliveryInv, Reliable
  <1>2. CASE UNCHANGED vars
    <2>1. UNCHANGED <<history, link, txSeq, pending, governed, loop, host, frames, acks, stored>>
      BY <1>2 DEF vars
    <2>2. FreshInv'
      BY <2>1 DEF DeliveryInv, FreshInv, link
    <2>3. LiveFrames' \subseteq LiveFrames
      BY <2>1, LiveKept DEF SlotsKept
    <2> QED
      BY <1>1, <2>1, <2>2, <2>3, KeptInv DEF DeliveryInv, history
  <1>3. CASE Next
    BY <1>1, <1>3, FreshStep, SyncStep DEF DeliveryInv
  <1> QED
    BY <1>2, <1>3

LEMMA DeliveryAlways == Reliable /\ Spec => []DeliveryInv
  BY DeliveryInvInit, DeliveryInvStep, PTL DEF Spec

-----------------------------------------------------------------------------
(* Refinement of ReliableDelivery *)

\* What the abstract specification sees of the state.
KeptNames == {events[i].uid : i \in DOMAIN events}
SyncedNames == {events[i].uid : i \in {j \in DOMAIN events : events[j].synced}}
StoredNames == {d.uid : d \in stored}

LEMMA InitRefines == Init => Abstract!Init
  BY DEF Init, Abstract!Init

\* The history holds as many detections as it has entries.
LEMMA KeptCount ==
  ASSUME TypeOK, NameInv
  PROVE  Cardinality(KeptNames) = Len(events)
  <1> DEFINE n == Len(events)
             f == [i \in 1 .. n |-> events[i].uid]
  <1>1. n \in Nat /\ DOMAIN events = 1 .. n
    BY DEF TypeOK
  <1>2. f \in [1 .. n -> KeptNames] /\ \A t \in KeptNames : \E s \in 1 .. n : f[s] = t
    BY <1>1 DEF KeptNames
  <1>3. \A i, j \in 1 .. n : i < j => events[i].uid < events[j].uid
    BY <1>1 DEF NameInv
  <1>4. \A i \in 1 .. n : events[i].uid \in Nat
    BY <1>1, EventFacts DEF Ids
  <1>5. ASSUME NEW i \in 1 .. n, NEW j \in 1 .. n, f[i] = f[j] PROVE i = j
    <2>1. events[i].uid = events[j].uid
      BY <1>5
    <2>2. ~(i < j) /\ ~(j < i)
      BY <1>3, <1>4, <2>1
    <2> QED
      BY <1>1, <2>2
  <1> HIDE DEF n, f
  <1>6. f \in Bijection(1 .. n, KeptNames)
    BY <1>2, <1>5, Fun_IsBij
  <1>7. ExistsBijection(1 .. n, KeptNames)
    BY <1>6 DEF ExistsBijection
  <1>8. IsFiniteSet(1 .. n) /\ Cardinality(1 .. n) = n
    BY <1>1, FS_Interval
  <1>9. Cardinality(KeptNames) = n
    BY <1>7, <1>8, FS_Bijection
  <1> QED
    BY <1>9 DEF n

\* A detection that is logged is one that is detected, in the place of the oldest one
\* when the history is full.
LEMMA DetectRefines ==
  ASSUME TypeOK, NameInv, LogDetection
  PROVE  Abstract!Detect
  <1> DEFINE n == Len(events)
  <1>1. PICK cut \in {0, 1} :
          /\ cut = IF n < CAPACITY THEN 0 ELSE 1
          /\ DOMAIN events' = 1 .. n - cut + 1
          /\ \A i \in 1 .. n - cut : events'[i] = events[i + cut]
          /\ events'[n - cut + 1].uid = detections + 1
          /\ ~events'[n - cut + 1].synced
    BY DetectedFacts
  <1>2. /\ detections' = detections + 1 /\ detections \in Nat /\ n \in Nat
        /\ DOMAIN events = 1 .. n /\ CAPACITY \in Nat \ {0} /\ stored' = stored
    BY DetectedFacts, ConstantFacts DEF LogDetection
  <1>3. Cardinality(KeptNames) = n
    BY KeptCount
  <1>4. \A i, j \in 1 .. n : i < j => events[i].uid < events[j].uid
    BY <1>2 DEF NameInv
  <1>5. \A i \in 1 .. n : events[i].uid \in Nat
    BY <1>2, EventFacts DEF Ids
  <1> DEFINE old == {events[i].uid : i \in 1 .. cut}
  <1> HIDE DEF n
  <1>6. cut <= n
    BY <1>1, <1>2
  <1>7. \A i \in 1 .. n : events[i].uid \in old <=> i \in 1 .. cut
    BY <1>2, <1>4, <1>5, <1>6
  <1>8. old \subseteq KeptNames
    BY <1>2, <1>6 DEF KeptNames
  <1>9. \A i \in 1 .. n - cut : i + cut \in 1 .. n /\ i + cut \notin 1 .. cut
    BY <1>2
  <1>10. \A k \in 1 .. n : k \notin 1 .. cut => k - cut \in 1 .. n - cut /\ (k - cut) + cut = k
    BY <1>2
  <1>11. n - cut + 1 \in DOMAIN events' /\ \A i \in DOMAIN events' : i \in 1 .. n - cut \/ i = n - cut + 1
    BY <1>1, <1>2, <1>6
  <1>12. 1 .. n - cut \subseteq DOMAIN events'
    BY <1>1, <1>2, <1>6
  <1> HIDE DEF old
  <1>13. KeptNames' = (KeptNames \ old) \cup {detections + 1}
    <2>1. \A x \in KeptNames' : x \in (KeptNames \ old) \cup {detections + 1}
      <3> TAKE x \in KeptNames'
      <3>1. PICK i \in DOMAIN events' : x = events'[i].uid
        BY DEF KeptNames
      <3>2. CASE i \in 1 .. n - cut
        <4>1. x = events[i + cut].uid /\ i + cut \in 1 .. n /\ i + cut \notin 1 .. cut
          BY <1>1, <1>9, <3>1, <3>2
        <4> QED
          BY <1>2, <1>7, <4>1 DEF KeptNames
      <3>3. CASE i = n - cut + 1
        BY <1>1, <3>1, <3>3
      <3> QED
        BY <1>11, <3>2, <3>3
    <2>2. \A x \in KeptNames \ old : x \in KeptNames'
      <3> TAKE x \in KeptNames \ old
      <3>1. PICK k \in 1 .. n : x = events[k].uid
        BY <1>2 DEF KeptNames
      <3>2. k - cut \in 1 .. n - cut /\ (k - cut) + cut = k
        BY <1>7, <1>10, <3>1
      <3>3. x = events'[k - cut].uid /\ k - cut \in DOMAIN events'
        BY <1>1, <1>12, <3>1, <3>2
      <3> QED
        BY <3>3 DEF KeptNames
    <2>3. detections + 1 \in KeptNames'
      BY <1>1, <1>11 DEF KeptNames
    <2> QED
      BY <2>1, <2>2, <2>3
  <1>14. SyncedNames' = SyncedNames \ old
    <2>1. \A x \in SyncedNames' : x \in SyncedNames \ old
      BY <1>1, <1>2, <1>7, <1>9, <1>11 DEF SyncedNames
    <2>2. \A x \in SyncedNames \ old : x \in SyncedNames'
      <3> TAKE x \in SyncedNames \ old
      <3>1. PICK k \in 1 .. n : x = events[k].uid /\ events[k].synced
        BY <1>2 DEF SyncedNames
      <3>2. k - cut \in 1 .. n - cut /\ (k - cut) + cut = k
        BY <1>7, <1>10, <3>1
      <3>3. x = events'[k - cut].uid /\ events'[k - cut].synced /\ k - cut \in DOMAIN events'
        BY <1>1, <1>12, <3>1, <3>2
      <3> QED
        BY <3>3 DEF SyncedNames
    <2> QED
      BY <2>1, <2>2
  <1>15. IF Cardinality(KeptNames) < CAPACITY THEN old = {}
         ELSE Cardinality(old) = 1 /\ \A o \in old, k \in KeptNames : o <= k
    <2>1. CASE n < CAPACITY
      BY <1>1, <1>3, <2>1 DEF old
    <2>2. CASE ~(n < CAPACITY)
      <3>1. cut = 1 /\ 1 \in 1 .. n
        BY <1>1, <1>2, <2>2
      <3>2. old = {events[1].uid}
        BY <3>1 DEF old
      <3>3. Cardinality(old) = 1
        BY <3>2, FS_Singleton
      <3>4. \A i \in 1 .. n : events[1].uid <= events[i].uid
        BY <1>2, <1>4, <1>5, <3>1
      <3> QED
        BY <1>2, <1>3, <2>2, <3>2, <3>3, <3>4 DEF KeptNames
    <2> QED
      BY <2>1, <2>2
  <1>16. \E o \in SUBSET KeptNames :
           /\ IF Cardinality(KeptNames) < CAPACITY THEN o = {}
              ELSE Cardinality(o) = 1 /\ \A x \in o, k \in KeptNames : x <= k
           /\ KeptNames' = (KeptNames \ o) \cup {detections + 1}
           /\ SyncedNames' = SyncedNames \ o
    BY <1>8, <1>13, <1>14, <1>15
  <1>17. \A S : Abstract!Cardinality(S) = Cardinality(S)
    BY DEF Abstract!Cardinality, Cardinality
  <1> QED
    BY <1>2, <1>16, <1>17, Zenon DEF Abstract!Detect, KeptNames, SyncedNames

LEMMA StepRefines ==
  ASSUME DeliveryInv, [Next]_vars
  PROVE  Abstract!Next \/ UNCHANGED Abstract!vars
  <1>0. TypeOK /\ NameInv /\ AckInv /\ Reliable
    BY DEF DeliveryInv, PendingInv
  <1>1. CASE UNCHANGED <<events, detections, stored>>
    BY <1>1 DEF Abstract!vars
  <1>2. CASE LogDetection
    BY <1>0, <1>2, DetectRefines DEF Abstract!Next
  <1>3. CASE MarkAsSynced
    <2>1. UNCHANGED <<detections, stored>> /\ host.pc = "mark" /\ host.id \in StoredIds
      BY <1>0, <1>3 DEF MarkAsSynced, AckInv
    <2>2. KeptNames' = KeptNames
      BY <1>0, <1>3, MarkedFacts DEF KeptNames
    <2>3. host.id \in StoredNames /\ host.id \in 1 .. detections
      BY <1>0, <2>1 DEF StoredIds, StoredNames, NameInv, Detections
    <2>4. CASE \E i \in DOMAIN events : events[i].id = host.id
      <3>1. PICK i \in DOMAIN events : events[i].id = host.id
        BY <2>4
      <3>2. i \in 1 .. Len(events) /\ Len(events) \in Nat /\ DOMAIN events = 1 .. Len(events)
        BY <1>0 DEF TypeOK
      <3>3. \A j \in DOMAIN events : events[j].id = host.id <=> j = i
        <4>1. \A j \in DOMAIN events : events[j].id = events[j].uid /\ events[j].uid \in Nat
          BY <1>0, EventFacts DEF NameInv, Ids
        <4> QED
          BY <1>0, <3>1, <3>2, <4>1 DEF NameInv
      <3>4. \A j \in 1 .. i - 1 : events[j].id # host.id
        BY <3>2, <3>3
      <3>5. \A j \in DOMAIN events : events'[j].synced <=> events[j].synced \/ j = i
        BY <1>0, <1>3, <3>3, <3>4, MarkedFacts
      <3>6. events[i].uid = host.id
        BY <1>0, <3>1 DEF NameInv
      <3>7. SyncedNames' = SyncedNames \cup {host.id}
        BY <1>0, <1>3, <3>5, <3>6, MarkedFacts DEF SyncedNames
      <3>8. host.id \in KeptNames
        BY <3>6 DEF KeptNames
      <3>9. PICK n \in 1 .. detections : n = host.id
        BY <2>3
      <3>10. Abstract!Sync(n)
        BY <2>1, <2>2, <2>3, <3>7, <3>8, <3>9
        DEF Abstract!Sync, KeptNames, SyncedNames, StoredNames
      <3> QED
        BY <3>10 DEF Abstract!Next
    <2>5. CASE ~\E i \in DOMAIN events : events[i].id = host.id
      <3>1. \A j \in DOMAIN events : events'[j].synced <=> events[j].synced
        BY <1>0, <1>3, <2>5, MarkedFacts
      <3>2. SyncedNames' = SyncedNames
        BY <1>0, <1>3, <3>1, MarkedFacts DEF SyncedNames
      <3> QED
        BY <2>1, <2>2, <3>2 DEF Abstract!vars, KeptNames, SyncedNames, StoredNames
    <2> QED
      BY <2>4, <2>5
  <1>4. ASSUME NEW f \in frames, AppReceive(f) PROVE Abstract!Next \/ UNCHANGED Abstract!vars
    <2>1. UNCHANGED <<events, detections>>
      BY <1>4 DEF AppReceive, history
    <2>2. CASE f.id \in StoredIds
      BY <1>1, <1>4, <2>1, <2>2 DEF AppReceive
    <2>3. CASE f.id \notin StoredIds
      <3>1. f.id = f.uid /\ f.uid \in 1 .. detections
        BY <1>0, FrameLive DEF NameInv, Detections
      <3>2. f.uid \notin StoredNames
        BY <1>0, <2>3, <3>1 DEF StoredIds, StoredNames, NameInv
      <3>3. stored' = stored \cup {[id |-> f.id, uid |-> f.uid]}
        BY <1>4, <2>3 DEF AppReceive
      <3>4. StoredNames' = StoredNames \cup {f.uid}
        <4>1. [id |-> f.id, uid |-> f.uid].uid = f.uid
          OBVIOUS
        <4> QED
          BY <3>3, <4>1, Zenon DEF StoredNames
      <3>5. Abstract!Store(f.uid)
        BY <2>1, <3>1, <3>2, <3>4 DEF Abstract!Store, StoredNames
      <3> QED
        BY <3>1, <3>5 DEF Abstract!Next
    <2> QED
      BY <2>2, <2>3
  <1>5. ~ColdBoot
    BY <1>0, ReliableFacts DEF ColdBoot
  <1> QED
    BY <1>1, <1>2, <1>3, <1>4, <1>5
    DEF Next, LoopTask, HostTask, Environment, vars, history, PumpRead, PumpSend, Resend,
        RetryOrGiveUp, Connect, ClearAllPending, RewindSeq, Subscribe, Disconnect, HandleAck,
        HandleNack, ClearAcked, HandleHello, HandleSyncRequest, SyncNext, SuppressionEnds,
        RateWindowOver, SendUntracked, LoseFrame, LoseAck

-----------------------------------------------------------------------------
(* Theorems *)

\* The members of ProtocolHandler, the history and what is under way keep their types
\* and bounds, whatever the faults.
THEOREM TypeCorrect == Spec => []TypeOK
  <1>1. PendingInv => TypeOK
    BY DEF PendingInv
  <1> QED
    BY <1>1, PendingAlways, PTL

\* Whatever the faults, the pending table holds no frame of an earlier connection when
\* handleAck, clearPending or processRetries look one up, and no two with one number.
THEOREM PendingCorrect == Spec => []PendingOfThisConnection
  <1>1. PendingInv => PendingOfThisConnection
    BY DEF PendingInv
  <1> QED
    BY <1>1, PendingAlways, PTL

\* With a reliable link handleAck marks only detections that the app has stored.
THEOREM SyncCorrect == Reliable /\ Spec => []NoFalseSync
  <1>1. DeliveryInv => NoFalseSync
    BY DEF DeliveryInv
  <1> QED
    BY <1>1, DeliveryAlways, PTL

\* With a reliable link the pump, the retries, the ACKs and the sync requests together
\* implement ReliableDelivery: a detection is kept until newer ones overwrite it, is
\* stored once, counts as synced only when it is stored, and stays synced.
THEOREM DeliveryCorrect == Reliable /\ Spec => ImplementsDelivery
  <1>1. DeliveryInv /\ [Next]_vars => [Abstract!Next]_(Abstract!vars)
    BY StepRefines
  <1> QED
    BY <1>1, InitRefines, DeliveryAlways, PTL DEF Spec, ImplementsDelivery, Abstract!Spec

=============================================================================

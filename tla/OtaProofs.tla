------------------------------ MODULE OtaProofs ------------------------------
(***************************************************************************)
(* What an update over BLE guarantees for every number of chunks and every *)
(* set of images, although the loop task may abort in the middle of every  *)
(* handler and no mutex guards the members of OTAManager.                  *)
(***************************************************************************)
EXTENDS OtaTransfer, TLAPS

-----------------------------------------------------------------------------
(* The invariants *)

\* The chunk that the host task is working on.
InHand == Content(host.msg.image, host.msg.index)

\* The app sends an image, and the message that the host task is working on is the
\* one its handler is for.
HostInv ==
  /\ app.phase # "none" => app.image \in Images
  /\ host.at = "begin" => host.msg \in Message /\ host.msg.type = "start"
  /\ host.at \in {"write", "count"} => host.msg \in Message /\ host.msg.type = "data"

\* What the running CRC covers is what the library has, but for a chunk that is
\* written and not yet counted; no more than the image has are counted.
CrcInv ==
  /\ upd # None => upd = IF host.at = "count" THEN Append(ota.crc, InHand) ELSE ota.crc
  /\ upd # None => Len(upd) <= CHUNKS
  /\ host.at = "count" => Len(ota.crc) < CHUNKS
  /\ ota.received <= Len(ota.crc)

TransferInv == TypeOK /\ HostInv /\ CrcInv

\* A transfer is of an image that handleStart has accepted, and what is about to be
\* activated is that image.
CommitInv ==
  /\ ota.state = "RECEIVING" \/ host.at \in {"begin", "validate", "end"}
       => ota.image \in Images \ Rejected
  /\ host.at = "end" /\ upd # None => upd = Whole(ota.image)

\* The library is in use only in a transfer, and not after the abort of the loop task.
FreeInv ==
  upd # None /\ ~raced =>
    /\ ota.state \in {"RECEIVING", "VALIDATING", "COMMITTING"}
    /\ loop.at \notin {"idle", "clear"}

\* What is on the link and in the host task belongs to the phase of the app; while
\* nothing disturbs its transfer, the device is in it and waits for the chunk that the
\* last answer asks for.
AnswerInv ==
  /\ up # None /\ up.type = "abort" => disturbed
  /\ up # None /\ up.type = "commit" => app.phase \in {"none", "committing"}
  /\ host.at \in {"validate", "end", "rebooting"} => app.phase \in {"none", "committing"}
  /\ app.phase = "starting" =>
       /\ up # None => up.type = "start"
       /\ host.at \in {"idle", "begin", "begun"}
       /\ down # None => down.type = "start"
  /\ ~disturbed /\ host.at = "begun" => ota.state = "RECEIVING"
  /\ ~disturbed /\ app.phase = "starting" /\ down # None /\ down.ok =>
       ota.state = "RECEIVING" /\ host.at = "idle"
  /\ ~disturbed /\ app.phase = "sending" =>
       ota.state = "RECEIVING" /\ host.at \in {"idle", "write", "count"}
  /\ ~disturbed /\ host.at \in {"write", "count"} => host.msg.index = ota.received
  /\ ~disturbed /\ app.phase = "sending" /\ down # None /\ down.type = "data"
       => Asked(down) = ota.received

-----------------------------------------------------------------------------
(* Types *)

\* What the file of an image holds is a chunk.
LEMMA ContentType ==
  ASSUME NEW m \in Message, m.type = "data"
  PROVE  Content(m.image, m.index) \in Chunk
  BY DEF Message, Content, Chunk

\* The messages of the app and the answers of the device have their types.
LEMMA AppMessageType ==
  ASSUME TypeOK, HostInv, app.phase # "none"
  PROVE  AppMessage \in Message
  <1>1. CASE app.phase = "starting"
    <2>1. AppMessage = [type |-> "start", image |-> app.image]
      BY <1>1, Zenon DEF AppMessage
    <2> QED
      BY <2>1 DEF HostInv, Message
  <1>2. CASE app.phase = "sending"
    <2>1. AppMessage = [type |-> "data", image |-> app.image, index |-> app.next]
      BY <1>2, Zenon DEF AppMessage
    <2> QED
      BY <1>2, <2>1 DEF HostInv, TypeOK, Message
  <1>3. CASE app.phase = "committing"
    <2>1. AppMessage = [type |-> "commit"]
      BY <1>3, Zenon DEF AppMessage
    <2> QED
      BY <2>1 DEF Message
  <1> QED
    BY <1>1, <1>2, <1>3 DEF TypeOK

LEMMA TransferInit == Init => TransferInv
  <1> SUFFICES ASSUME Init PROVE TransferInv
    OBVIOUS
  <1>1. InitOta \in Ota /\ InitOta.received = 0 /\ InitOta.crc = <<>>
    BY OtaAssumption DEF InitOta, Ota, OTAState
  <1>2. Len(InitOta.crc) = 0
    BY <1>1
  <1>3. IdleHost \in [at : HostAt, msg : Message \cup {None}] /\ IdleHost.at = "idle"
    BY DEF IdleHost, HostAt
  <1>4. AtTop \in [at : LoopAt, skew : BOOLEAN]
    BY DEF AtTop, LoopAt
  <1>5. NoTransfer \in [phase : {"none", "starting", "sending", "committing"},
                       image : Images \cup {None}, next : 0 .. CHUNKS - 1]
    BY OtaAssumption DEF NoTransfer
  <1>6. TypeOK
    <2>1. ota \in Ota /\ Len(ota.crc) <= CHUNKS
      BY <1>1, <1>2, OtaAssumption DEF Init
    <2> QED
      BY <2>1, <1>3, <1>4, <1>5 DEF Init, TypeOK
  <1>7. HostInv
    BY <1>3 DEF Init, HostInv, NoTransfer
  <1>8. CrcInv
    BY <1>1, <1>2, <1>3 DEF Init, CrcInv
  <1> QED
    BY <1>6, <1>7, <1>8 DEF TransferInv

LEMMA Zero == 0 \in 0 .. CHUNKS /\ 0 \in 0 .. CHUNKS - 1
  BY OtaAssumption

\* The handlers, up to their first call of the library.
LEMMA ReceivesStep ==
  ASSUME TransferInv, HostReceives PROVE TransferInv'
  <1> USE DEF TransferInv, TypeOK, HostInv, CrcInv, InHand
  <1>1. CASE StartRefused
    <2>1. up \in Message /\ up.image \in Images
      BY <1>1 DEF StartRefused, Received, Message
    <2>2. ota' \in Ota /\ ota'.crc = ota.crc /\ ota'.received = ota.received
      BY <1>1, <2>1 DEF StartRefused, Ota
    <2>3. down' \in Answer
      BY <1>1 DEF StartRefused, Status, Answer
    <2> QED
      BY <1>1, <2>2, <2>3 DEF StartRefused, Received
  <1>2. CASE StartAccepted
    BY <1>2 DEF StartAccepted, Received, Ota, HostAt, Message
  <1>3. CASE DataRefused
    <2>1. up.index \in Nat /\ ota.received \in Nat
      BY <1>3 DEF DataRefused, Received, Message, Ota
    <2>2. down' \in Answer
      BY <1>3, <2>1 DEF DataRefused, ChunkAck, ExpectedIndex, Answer
    <2> QED
      BY <1>3, <2>2 DEF DataRefused, Received
  <1>4. CASE DataAccepted
    BY <1>4 DEF DataAccepted, Received, HostAt, Message
  <1>5. CASE CommitRefused
    BY <1>5 DEF CommitRefused, Received, Status, Answer
  <1>6. CASE CommitAccepted
    <2>1. "VALIDATING" \in OTAState /\ "validate" \in HostAt
      BY DEF OTAState, HostAt
    <2>2. ota' \in Ota /\ ota'.crc = ota.crc /\ ota'.received = ota.received
      BY <1>6, <2>1 DEF CommitAccepted, Ota
    <2>3. /\ host' \in [at : HostAt, msg : Message \cup {None}]
          /\ host.at = "idle" /\ host'.at = "validate"
      BY <1>6, <2>1 DEF CommitAccepted, Received
    <2> QED
      BY <1>6, <2>2, <2>3 DEF CommitAccepted, Received
  <1>7. CASE Abort
    <2>1. /\ ota' \in Ota /\ ota'.crc = ota.crc
          /\ ota'.received = ota.received \/ ota'.received = 0
      <3>1. CASE ota.state = "IDLE"
        BY <1>7, <3>1 DEF Abort
      <3>2. CASE ota.state # "IDLE"
        <4>1. "IDLE" \in OTAState
          BY DEF OTAState
        <4> QED
          BY <1>7, <3>2, <4>1, Zero DEF Abort, Ota
      <3> QED
        BY <3>1, <3>2
    <2>2. ota'.received <= Len(ota'.crc)
      BY <2>1 DEF Ota
    <2>3. down' \in Answer
      BY <1>7 DEF Abort, Status, Answer
    <2>4. upd' = None \/ upd' = upd
      BY <1>7 DEF Abort
    <2> QED
      BY <1>7, <2>1, <2>2, <2>3, <2>4 DEF Abort, Received
  <1> QED
    BY <1>1, <1>2, <1>3, <1>4, <1>5, <1>6, <1>7 DEF HostReceives

\* A reset leaves the initial state of the device.
LEMMA ResetStep ==
  ASSUME TransferInv, Reset PROVE TransferInv'
  <1> USE DEF TransferInv, TypeOK, HostInv, CrcInv, InHand
  <1>1. ota' \in Ota /\ ota'.received = 0 /\ ota'.crc = <<>> /\ Len(ota'.crc) = 0
    BY OtaAssumption DEF Reset, InitOta, Ota, OTAState
  <1>2. host' \in [at : HostAt, msg : Message \cup {None}] /\ host'.at = "idle"
    BY DEF Reset, IdleHost, HostAt
  <1>3. loop' \in [at : LoopAt, skew : BOOLEAN]
    BY DEF Reset, AtTop, LoopAt
  <1>4. Len(ota'.crc) <= CHUNKS /\ ota'.received <= Len(ota'.crc)
    BY <1>1, OtaAssumption
  <1> QED
    BY <1>1, <1>2, <1>3, <1>4 DEF Reset

LEMMA NewTransferType ==
  ASSUME NEW o \in Ota
  PROVE  /\ NewTransfer(o) \in Ota /\ NewTransfer(o).received = 0
         /\ NewTransfer(o).crc = <<>> /\ Len(NewTransfer(o).crc) = 0
  <1>1. "RECEIVING" \in OTAState
    BY DEF OTAState
  <1>2. <<>> \in Seq(Chunk) /\ Len(<<>>) = 0
    OBVIOUS
  <1> QED
    BY <1>1, <1>2, Zero DEF NewTransfer, Ota

\* The handlers, from one call of the library to the next.
LEMMA GoesOnStep ==
  ASSUME TransferInv, HostGoesOn PROVE TransferInv'
  <1> USE DEF TransferInv, TypeOK, HostInv, CrcInv, InHand
  <1>1. CASE BeginFails
    BY <1>1 DEF BeginFails, Status, Answer, Done, IdleHost, HostAt
  <1>2. CASE Begin
    <2>1. ota' \in Ota /\ ota'.received = 0 /\ ota'.crc = <<>> /\ Len(ota'.crc) = 0
      BY <1>2, NewTransferType DEF Begin
    <2>2. Len(ota'.crc) <= CHUNKS /\ ota'.received <= Len(ota'.crc)
      BY <2>1, OtaAssumption
    <2>3. host' \in [at : HostAt, msg : Message \cup {None}] /\ host'.at = "begun"
      BY <1>2 DEF Begin, Goto, HostAt
    <2>4. upd' = <<>> /\ upd' \in Seq(Chunk) /\ Len(upd') <= CHUNKS
      BY <1>2, OtaAssumption DEF Begin
    <2>5. raced' \in BOOLEAN
      BY <1>2 DEF Begin
    <2> QED
      BY <1>2, <2>1, <2>2, <2>3, <2>4, <2>5 DEF Begin
  <1>11. CASE Begun
    <2>1. host' \in [at : HostAt, msg : Message \cup {None}] /\ host'.at = "idle"
      BY <1>11 DEF Begun, Done, IdleHost, HostAt
    <2>2. loop' \in [at : LoopAt, skew : BOOLEAN] /\ late' \in BOOLEAN
      BY <1>11 DEF Begun, ClockTaken
    <2>3. down' \in Answer
      BY <1>11 DEF Begun, Status, Answer
    <2> QED
      BY <1>11, <2>1, <2>2, <2>3 DEF Begun
  <1>3. CASE WriteFails
    BY <1>3 DEF WriteFails, ChunkAck, Answer, Done, IdleHost, HostAt, Message
  <1>4. CASE Write
    <2>1. InHand \in Chunk
      BY <1>4, ContentType DEF Write
    <2>2. ota.crc \in Seq(Chunk) /\ upd = ota.crc
      BY <1>4 DEF Write, Ota
    <2>3. upd' = Append(ota.crc, InHand) /\ upd' \in Seq(Chunk) /\ Len(upd') = Len(ota.crc) + 1
      BY <1>4, <2>1, <2>2 DEF Write
    <2>4. Len(upd') <= CHUNKS /\ Len(ota.crc) < CHUNKS
      BY <1>4, <2>2, <2>3, OtaAssumption DEF Write
    <2>5. host' \in [at : HostAt, msg : Message \cup {None}] /\ host'.at = "count"
            /\ host'.msg = host.msg
      BY <1>4 DEF Write, Goto, HostAt
    <2> QED
      BY <1>4, <2>3, <2>4, <2>5 DEF Write
  <1>5. CASE CountChunk
    <2>1. InHand \in Chunk
      BY <1>5, ContentType DEF CountChunk
    <2>2. /\ ota.crc \in Seq(Chunk) /\ Len(ota.crc) < CHUNKS /\ ota.received \in Nat
          /\ ota.received <= Len(ota.crc)
      BY <1>5 DEF CountChunk, Ota
    <2>3. /\ ota'.crc = Append(ota.crc, InHand) /\ ota'.crc \in Seq(Chunk)
          /\ Len(ota'.crc) = Len(ota.crc) + 1 /\ ota'.received = ota.received + 1
      BY <1>5, <2>1, <2>2 DEF CountChunk, Ota
    <2>4. Len(ota'.crc) <= CHUNKS /\ ota'.received <= Len(ota'.crc) /\ ota'.received \in 0 .. CHUNKS
      BY <2>2, <2>3, OtaAssumption
    <2>5. ota' \in Ota
      BY <1>5, <2>3, <2>4 DEF CountChunk, Ota
    <2>6. host' \in [at : HostAt, msg : Message \cup {None}] /\ host'.at = "idle"
      BY <1>5 DEF CountChunk, Done, IdleHost, HostAt
    <2>7. loop' \in [at : LoopAt, skew : BOOLEAN] /\ late' \in BOOLEAN
      BY <1>5 DEF CountChunk, ClockTaken
    <2>8. host.msg.index \in Nat
      BY <1>5 DEF CountChunk, Message
    <2>9. down' \in Answer
      BY <1>5, <2>8 DEF CountChunk, ChunkAck, Answer
    <2> QED
      BY <1>5, <2>3, <2>4, <2>5, <2>6, <2>7, <2>9 DEF CountChunk
  <1>6. CASE ValidationFails
    BY <1>6 DEF ValidationFails, Ota, OTAState, Status, Answer, Done, IdleHost, HostAt
  <1>7. CASE Validated
    <2>1. ota' \in Ota /\ ota'.crc = ota.crc /\ ota'.received = ota.received
      BY <1>7 DEF Validated, Ota, OTAState
    <2>2. host' \in [at : HostAt, msg : Message \cup {None}] /\ host'.at = "end"
      BY <1>7 DEF Validated, Goto, HostAt
    <2> QED
      BY <1>7, <2>1, <2>2 DEF Validated
  <1>8. CASE EndFails
    BY <1>8 DEF EndFails, Ota, OTAState, Status, Answer, Done, IdleHost, HostAt
  <1>9. CASE End
    BY <1>9 DEF End, Ota, OTAState, Status, Answer, Goto, HostAt
  <1>10. CASE Restart
    BY <1>10, ResetStep DEF Restart
  <1> QED
    BY <1>1, <1>2, <1>3, <1>4, <1>5, <1>6, <1>7, <1>8, <1>9, <1>10, <1>11
    DEF HostGoesOn

\* The loop task, and the passage of time.
LEMMA LoopStep ==
  ASSUME TransferInv, CheckTimeout \/ LoopGoesOn \/ CanSleep \/ PowerLoss \/ TimePasses
  PROVE  TransferInv'
  <1> USE DEF TransferInv, TypeOK, HostInv, CrcInv, InHand
  <1>1. CASE CheckTimeout
    BY <1>1 DEF CheckTimeout, LoopAt
  <1>2. CASE Compare
    BY <1>2 DEF Compare, LoopAt
  <1>3. CASE LoopAborts
    <2>1. upd' = None \/ upd' = upd
      BY <1>3 DEF LoopAborts, AbortUpdate
    <2>2. AtTop \in [at : LoopAt, skew : BOOLEAN]
      BY DEF AtTop, LoopAt
    <2>3. [loop EXCEPT !.at = "idle"] \in [at : LoopAt, skew : BOOLEAN]
      BY DEF LoopAt
    <2>4. loop' \in [at : LoopAt, skew : BOOLEAN] /\ disturbed' \in BOOLEAN
      BY <1>3, <2>2, <2>3, Zenon DEF LoopAborts
    <2> QED
      BY <1>3, <2>1, <2>4 DEF LoopAborts
  <1>4. CASE LoopSetsIdle
    <2>1. ota' \in Ota /\ ota'.crc = ota.crc /\ ota'.received = ota.received
      BY <1>4 DEF LoopSetsIdle, Ota, OTAState
    <2>2. loop' \in [at : LoopAt, skew : BOOLEAN]
      BY <1>4 DEF LoopSetsIdle, LoopAt
    <2> QED
      BY <1>4, <2>1, <2>2 DEF LoopSetsIdle
  <1>5. CASE LoopClears
    <2>1. ota' \in Ota /\ ota'.crc = ota.crc /\ ota'.received = 0
      BY <1>5, OtaAssumption DEF LoopClears, Ota
    <2>2. ota'.received <= Len(ota'.crc)
      BY <2>1 DEF Ota
    <2>3. loop' \in [at : LoopAt, skew : BOOLEAN]
      BY <1>5 DEF LoopClears, AtTop, LoopAt
    <2> QED
      BY <1>5, <2>1, <2>2, <2>3 DEF LoopClears
  <1>6. CASE CanSleep
    BY <1>6 DEF CanSleep, LoopAt
  <1>7. CASE SleepAborted
    BY <1>7 DEF SleepAborted, AtTop, LoopAt
  <1>8. CASE TimePasses
    BY <1>8 DEF TimePasses
  <1>9. CASE Reset
    BY <1>9, ResetStep
  <1> QED
    BY <1>1, <1>2, <1>3, <1>4, <1>5, <1>6, <1>7, <1>8, <1>9
    DEF LoopGoesOn, DeepSleep, PowerLoss

\* What the app does after an answer.
LEMMA AppAfterType ==
  ASSUME TransferInv, down # None
  PROVE  /\ AppAfter(down) \in [phase : {"none", "starting", "sending", "committing"},
                                image : Images \cup {None}, next : 0 .. CHUNKS - 1]
         /\ AppAfter(down).phase # "none" => AppAfter(down).image \in Images
  <1> USE DEF TransferInv, TypeOK, HostInv
  <1>1. down \in Answer
    OBVIOUS
  <1>2. CASE down.type = "start" /\ app.phase = "starting"
    <2>1. AppAfter(down) = IF down.ok THEN [app EXCEPT !.phase = "sending"] ELSE NoTransfer
      BY <1>2, Zenon DEF AppAfter
    <2> QED
      BY <1>2, <2>1, OtaAssumption DEF NoTransfer
  <1>3. CASE down.type = "data" /\ app.phase = "sending"
    <2>1. AppAfter(down) = IF Asked(down) < CHUNKS THEN [app EXCEPT !.next = Asked(down)]
                           ELSE [app EXCEPT !.phase = "committing", !.next = 0]
      BY <1>3, Zenon DEF AppAfter
    <2>2. Asked(down) \in Nat
      BY <1>1, <1>3 DEF Asked, Answer
    <2> QED
      <3>1. CASE Asked(down) < CHUNKS
        BY <1>3, <2>1, <2>2, <3>1, OtaAssumption
      <3>2. CASE ~(Asked(down) < CHUNKS)
        BY <1>3, <2>1, <2>2, <3>2, Zero
      <3> QED
        BY <3>1, <3>2
  <1>4. CASE down.type = "commit" /\ app.phase = "committing"
    <2>1. AppAfter(down) = NoTransfer
      BY <1>4, Zenon DEF AppAfter
    <2> QED
      BY <2>1, OtaAssumption DEF NoTransfer
  <1>5. CASE /\ ~(down.type = "start" /\ app.phase = "starting")
             /\ ~(down.type = "data" /\ app.phase = "sending")
             /\ ~(down.type = "commit" /\ app.phase = "committing")
    <2>1. AppAfter(down) = app
      BY <1>5, Zenon DEF AppAfter
    <2> QED
      BY <2>1
  <1> QED
    BY <1>2, <1>3, <1>4, <1>5

\* The link and the app.
LEMMA AppStep ==
  ASSUME TransferInv, Lose \/ App \/ AppSends \/ AppReceives PROVE TransferInv'
  <1> USE DEF TransferInv, TypeOK, HostInv, CrcInv, InHand
  <1>1. CASE Lose
    BY <1>1 DEF Lose
  <1>2. ASSUME NEW i \in Images, AppBegins(i) PROVE TransferInv'
    <2>1. /\ app' \in [phase : {"none", "starting", "sending", "committing"},
                       image : Images \cup {None}, next : 0 .. CHUNKS - 1]
          /\ app'.image \in Images
      BY <1>2, OtaAssumption DEF AppBegins
    <2> QED
      BY <1>2, <2>1 DEF AppBegins
  <1>3. CASE AppAborts
    BY <1>3, OtaAssumption DEF AppAborts, NoTransfer, Message
  <1>4. CASE AppDisappears
    BY <1>4, OtaAssumption DEF AppDisappears, NoTransfer
  <1>5. CASE AppSends
    BY <1>5, AppMessageType DEF AppSends
  <1>6. CASE AppReceives
    BY <1>6, AppAfterType DEF AppReceives
  <1> QED
    BY <1>1, <1>2, <1>3, <1>4, <1>5, <1>6 DEF App

LEMMA TransferStep == TransferInv /\ [Next]_vars => TransferInv'
  <1> SUFFICES ASSUME TransferInv, [Next]_vars PROVE TransferInv'
    OBVIOUS
  <1>1. CASE UNCHANGED vars
    BY <1>1 DEF vars, TransferInv, TypeOK, HostInv, CrcInv, InHand
  <1> QED
    BY <1>1, ReceivesStep, GoesOnStep, LoopStep, AppStep DEF Next

LEMMA TransferAlways == Spec => []TransferInv
  BY TransferInit, TransferStep, PTL DEF Spec

\* Every variable of the transfer keeps its type, and no race with the loop task makes
\* handleData count or check more than the chunks of an image.
THEOREM TypeCorrect == Spec => []TypeOK
  BY TransferAlways, PTL DEF TransferInv

-----------------------------------------------------------------------------
(* The committed image *)

LEMMA CommitInit == Init => CommitInv
  BY DEF Init, CommitInv, InitOta, IdleHost

\* The handlers that change the state, the image or the position of the host task.
LEMMA CommitHost ==
  ASSUME TransferInv, CommitInv, HostReceives \/ HostGoesOn PROVE CommitInv'
  <1> USE DEF CommitInv
  <1>0. ota \in Ota
    BY DEF TransferInv, TypeOK
  <1>1. CASE StartRefused
    BY <1>0, <1>1 DEF StartRefused, Startable, Received, Ota
  <1>2. CASE StartAccepted
    <2>1. up.image \in Images
      BY <1>2 DEF StartAccepted, Received, TransferInv, TypeOK, Message
    <2> QED
      BY <1>0, <1>2, <2>1 DEF StartAccepted, Ota
  <1>3. CASE DataRefused
    BY <1>3 DEF DataRefused
  <1>4. CASE DataAccepted
    BY <1>4 DEF DataAccepted
  <1>5. CASE CommitRefused
    BY <1>5 DEF CommitRefused
  <1>6. CASE CommitAccepted
    BY <1>0, <1>6 DEF CommitAccepted, Ota
  <1>7. CASE Abort
    <2>1. ota'.image = ota.image /\ ota'.state \in {ota.state, "IDLE"} /\ host.at = "idle"
      BY <1>0, <1>7 DEF Abort, Received, Ota
    <2> QED
      BY <1>7, <2>1 DEF Abort
  <1>8. CASE BeginFails
    BY <1>8 DEF BeginFails, Done, IdleHost
  <1>9. CASE Begin
    BY <1>0, <1>9 DEF Begin, NewTransfer, Goto, Ota, TransferInv, TypeOK
  <1>18. CASE Begun
    BY <1>18 DEF Begun, Done, IdleHost
  <1>10. CASE WriteFails
    BY <1>10 DEF WriteFails, Done, IdleHost
  <1>11. CASE Write
    BY <1>11 DEF Write, Goto, TransferInv, TypeOK
  <1>12. CASE CountChunk
    BY <1>0, <1>12 DEF CountChunk, Done, IdleHost, Ota
  <1>13. CASE ValidationFails
    BY <1>0, <1>13 DEF ValidationFails, Done, IdleHost, Ota
  <1>14. CASE Validated
    \* Here the comparison of the CRC decides, and nothing but what it covers is in
    \* the library.
    <2>1. ota'.image = ota.image /\ host'.at = "end" /\ ota'.state = "COMMITTING"
      BY <1>0, <1>14 DEF Validated, Goto, Ota, TransferInv, TypeOK
    <2>2. upd # None => upd = Whole(ota.image)
      BY <1>14 DEF Validated, Valid, TransferInv, CrcInv
    <2> QED
      BY <1>14, <2>1, <2>2 DEF Validated, Whole
  <1>15. CASE EndFails
    BY <1>0, <1>15 DEF EndFails, Done, IdleHost, Ota
  <1>16. CASE End
    BY <1>0, <1>16 DEF End, Goto, Ota, TransferInv, TypeOK
  <1>17. CASE Restart
    BY <1>17 DEF Restart, Reset, InitOta, IdleHost
  <1> QED
    BY <1>1, <1>2, <1>3, <1>4, <1>5, <1>6, <1>7, <1>8, <1>9, <1>10, <1>11, <1>12, <1>13,
       <1>14, <1>15, <1>16, <1>17, <1>18 DEF HostReceives, HostGoesOn

\* The loop task takes the library away or stops the transfer; nobody else interferes.
LEMMA CommitOthers ==
  ASSUME TransferInv, CommitInv,
         \/ CheckTimeout \/ LoopGoesOn \/ CanSleep \/ PowerLoss \/ TimePasses
         \/ Lose \/ App \/ AppSends \/ AppReceives
  PROVE  CommitInv'
  <1> USE DEF CommitInv
  <1>0. ota \in Ota
    BY DEF TransferInv, TypeOK
  <1>1. CASE UNCHANGED <<ota, upd, host>>
    BY <1>1 DEF Whole
  <1>2. CASE LoopAborts
    BY <1>2 DEF LoopAborts, AbortUpdate, Whole
  <1>3. CASE LoopSetsIdle
    BY <1>0, <1>3 DEF LoopSetsIdle, Ota, Whole
  <1>4. CASE LoopClears
    BY <1>0, <1>4 DEF LoopClears, Ota, Whole
  <1>5. CASE Reset
    BY <1>5 DEF Reset, InitOta, IdleHost
  <1> QED
    BY <1>1, <1>2, <1>3, <1>4, <1>5
    DEF LoopGoesOn, CheckTimeout, Compare, CanSleep, SleepAborted, DeepSleep, PowerLoss,
        TimePasses, Lose, App, AppBegins, AppAborts, AppDisappears, AppSends, AppReceives

LEMMA CommitAlways == Spec => []CommitInv
  <1>1. TransferInv /\ CommitInv /\ [Next]_vars => CommitInv'
    <2>1. UNCHANGED vars /\ CommitInv => CommitInv'
      BY DEF vars, CommitInv, Whole
    <2> QED
      BY <2>1, CommitHost, CommitOthers DEF Next
  <1> QED
    BY <1>1, CommitInit, TransferAlways, PTL DEF Spec

\* Whatever handleCommit activates is the announced image, accepted by handleStart,
\* whole, in order and once.
THEOREM CommitCorrect == Spec => CommittedIsWhole
  <1>1. TransferInv /\ CommitInv /\ [Next]_vars =>
          (boot' # boot => \E i \in Images \ Rejected : boot' = Whole(i))
    <2> SUFFICES ASSUME CommitInv, [Next]_vars, boot' # boot
                 PROVE  \E i \in Images \ Rejected : boot' = Whole(i)
      OBVIOUS
    <2>1. End
      BY DEF Next, vars, HostReceives, HostGoesOn, LoopGoesOn, App, StartRefused,
        StartAccepted, DataRefused, DataAccepted, CommitRefused, CommitAccepted, Abort,
        BeginFails, Begin, Begun, WriteFails, Write, CountChunk, ValidationFails, Validated,
        EndFails, Restart, Reset, CheckTimeout, Compare, LoopAborts, LoopSetsIdle,
        LoopClears, CanSleep, SleepAborted, DeepSleep, PowerLoss, TimePasses, Lose,
        AppBegins, AppAborts, AppDisappears, AppSends, AppReceives
    <2> QED
      BY <2>1 DEF End, CommitInv
  <1> QED
    BY <1>1, TransferAlways, CommitAlways, PTL DEF Spec, CommittedIsWhole

-----------------------------------------------------------------------------
(* The Update library is free *)

LEMMA FreeStep ==
  ASSUME TransferInv, FreeInv, Next PROVE FreeInv'
  <1> USE DEF FreeInv
  <1>0. /\ ota \in Ota /\ loop \in [at : LoopAt, skew : BOOLEAN]
        /\ raced \in BOOLEAN /\ upd \in Seq(Chunk) \cup {None}
    BY DEF TransferInv, TypeOK
  <1>1. CASE upd' = None
    BY <1>1
  <1>2. CASE UNCHANGED <<ota, upd, raced, loop>>
    BY <1>2
  <1>3. CASE StartRefused
    BY <1>0, <1>3 DEF StartRefused, Ota
  <1>4. CASE StartAccepted
    BY <1>0, <1>4 DEF StartAccepted, Ota
  <1>5. CASE CommitAccepted
    BY <1>0, <1>5 DEF CommitAccepted, Ota
  <1>6. CASE Abort
    BY <1>0, <1>6 DEF Abort
  <1>7. CASE Begin
    <2>1. ota'.state = "RECEIVING" /\ loop'.at = loop.at
      BY <1>0, <1>7 DEF Begin, NewTransfer, Ota
    <2> QED
      BY <1>0, <1>7, <2>1 DEF Begin
  <1>15. CASE Begun
    BY <1>0, <1>15 DEF Begun, ClockTaken
  <1>8. CASE Write
    BY <1>0, <1>8 DEF Write
  <1>9. CASE CountChunk
    <2>1. ota'.state = ota.state /\ loop'.at = loop.at
      BY <1>0, <1>9 DEF CountChunk, ClockTaken, Ota
    <2> QED
      BY <1>9, <2>1 DEF CountChunk
  <1>10. CASE Validated
    BY <1>0, <1>10 DEF Validated, Ota
  <1>11. CASE CheckTimeout \/ Compare \/ CanSleep \/ SleepAborted
    BY <1>0, <1>11 DEF CheckTimeout, Compare, CanSleep, SleepAborted, AtTop
  <1>12. CASE LoopAborts
    BY <1>0, <1>12 DEF LoopAborts, AbortUpdate, AtTop
  <1>13. CASE LoopSetsIdle
    BY <1>0, <1>13 DEF LoopSetsIdle
  <1>14. CASE LoopClears
    BY <1>0, <1>14 DEF LoopClears
  <1> QED
    BY <1>1, <1>2, <1>3, <1>4, <1>5, <1>6, <1>7, <1>8, <1>9, <1>10, <1>11, <1>12, <1>13, <1>14,
       <1>15
    DEF Next, HostReceives, HostGoesOn, LoopGoesOn, App, DataRefused, DataAccepted,
        CommitRefused, BeginFails, WriteFails, ValidationFails, EndFails, End, Restart,
        Reset, DeepSleep, PowerLoss, TimePasses, Lose, AppBegins, AppAborts,
        AppDisappears, AppSends, AppReceives

\* No abort, timeout, failed write or failed commit leaves the library running while no
\* transfer is in progress, but for a START that races with the loop task's abort.
THEOREM FreeCorrect == Spec => []IdleMeansFree
  <1>1. Init => FreeInv
    BY DEF Init, FreeInv
  <1>2. TransferInv /\ FreeInv /\ [Next]_vars => FreeInv'
    <2>1. UNCHANGED vars /\ FreeInv => FreeInv'
      BY DEF vars, FreeInv
    <2> QED
      BY <2>1, FreeStep
  <1>3. TransferInv /\ FreeInv => IdleMeansFree
    BY DEF FreeInv, IdleMeansFree
  <1> QED
    BY <1>1, <1>2, <1>3, TransferAlways, PTL DEF Spec

-----------------------------------------------------------------------------
(* The answers *)

LEMMA AnswerHost ==
  ASSUME TransferInv, AnswerInv, HostReceives \/ HostGoesOn PROVE AnswerInv'
  <1> USE DEF AnswerInv
  <1>0. /\ ota \in Ota /\ host \in [at : HostAt, msg : Message \cup {None}]
        /\ ota.received \in Nat
    BY DEF TransferInv, TypeOK, Ota
  <1>1. CASE StartRefused
    <2>1. ota'.state = ota.state /\ ota'.received = ota.received
      BY <1>0, <1>1 DEF StartRefused, Ota
    <2>2. down' = [type |-> "start", ok |-> FALSE] /\ up' = None /\ host.at = "idle"
      BY <1>1 DEF StartRefused, Received, Status
    <2> QED
      BY <1>1, <2>1, <2>2 DEF StartRefused
  <1>2. CASE StartAccepted
    <2>1. ota'.state = "IDLE" /\ ota.state = "IDLE" /\ host'.at = "begin" /\ up' = None
      BY <1>0, <1>2 DEF StartAccepted, Startable, Received, Ota
    <2>2. up # None /\ up.type = "start" /\ host.at = "idle"
      BY <1>2 DEF StartAccepted, Received
    <2> QED
      BY <1>2, <2>1, <2>2 DEF StartAccepted
  <1>3. CASE DataRefused
    <2>1. up' = None /\ up # None /\ up.type = "data" /\ host.at = "idle" /\ app.phase # "starting"
      BY <1>3 DEF DataRefused, Received
    <2>2. down'.type = "data" /\ ~down'.ok
            /\ (ota.state = "RECEIVING" => down'.index = ota.received)
      BY <1>3 DEF DataRefused, ChunkAck, ExpectedIndex
    <2> QED
      BY <1>3, <2>1, <2>2 DEF DataRefused, Asked
  <1>4. CASE DataAccepted
    <2>1. up' = None /\ up # None /\ up.type = "data" /\ host.at = "idle" /\ app.phase # "starting"
      BY <1>4 DEF DataAccepted, Received
    <2>2. host'.at = "write" /\ host'.msg.index = ota.received
      BY <1>4 DEF DataAccepted
    <2> QED
      BY <1>4, <2>1, <2>2 DEF DataAccepted
  <1>5. CASE CommitRefused
    BY <1>5 DEF CommitRefused, Received, Status
  <1>6. CASE CommitAccepted
    BY <1>6 DEF CommitAccepted, Received
  <1>7. CASE Abort
    <2>1. disturbed /\ up' = None /\ host.at = "idle" /\ app.phase # "starting"
      BY <1>7 DEF Abort, Received
    <2> QED
      BY <1>7, <2>1 DEF Abort
  <1>8. CASE BeginFails
    <2>1. down' = [type |-> "start", ok |-> FALSE] /\ host'.at = "idle"
      BY <1>8 DEF BeginFails, Status, Done, IdleHost
    <2> QED
      BY <1>8, <2>1 DEF BeginFails
  <1>9. CASE Begin
    <2>1. ota'.state = "RECEIVING" /\ host'.at = "begun"
      BY <1>0, <1>9 DEF Begin, NewTransfer, Goto, Ota
    <2> QED
      BY <1>9, <2>1 DEF Begin
  <1>18. CASE Begun
    <2>1. down' = [type |-> "start", ok |-> TRUE] /\ host'.at = "idle"
      BY <1>18 DEF Begun, Status, Done, IdleHost
    <2> QED
      BY <1>18, <2>1 DEF Begun
  <1>10. CASE WriteFails
    <2>1. host'.at = "idle" /\ app.phase # "starting"
      BY <1>10 DEF WriteFails, Done, IdleHost
    <2> QED
      BY <1>10, <2>1 DEF WriteFails
  <1>11. CASE Write
    <2>1. host'.at = "count" /\ host'.msg = host.msg
      BY <1>0, <1>11 DEF Write, Goto
    <2> QED
      BY <1>11, <2>1 DEF Write
  <1>12. CASE CountChunk
    <2>1. /\ ota'.state = ota.state /\ ota'.received = ota.received + 1
          /\ host'.at = "idle" /\ app.phase # "starting"
      BY <1>0, <1>12 DEF CountChunk, Done, IdleHost, Ota
    <2>2. down'.type = "data" /\ down'.ok /\ down'.index = host.msg.index
      BY <1>12 DEF CountChunk, ChunkAck
    <2> QED
      BY <1>12, <2>1, <2>2 DEF CountChunk, Asked
  <1>13. CASE ValidationFails
    BY <1>13 DEF ValidationFails, Done, IdleHost
  <1>14. CASE Validated
    BY <1>0, <1>14 DEF Validated, Goto
  <1>15. CASE EndFails
    BY <1>15 DEF EndFails, Done, IdleHost
  <1>16. CASE End
    BY <1>0, <1>16 DEF End, Goto
  <1>17. CASE Restart
    BY <1>17 DEF Restart, Reset, IdleHost
  <1> QED
    BY <1>1, <1>2, <1>3, <1>4, <1>5, <1>6, <1>7, <1>8, <1>9, <1>10, <1>11, <1>12, <1>13,
       <1>14, <1>15, <1>16, <1>17, <1>18 DEF HostReceives, HostGoesOn

\* What the loop task changes of a transfer disturbs it.
LEMMA AnswerLoop ==
  ASSUME TransferInv, AnswerInv,
         CheckTimeout \/ LoopGoesOn \/ CanSleep \/ PowerLoss \/ TimePasses
  PROVE  AnswerInv'
  <1> USE DEF AnswerInv
  <1>1. CASE UNCHANGED <<ota, host, up, down, app, disturbed>>
    BY <1>1 DEF Asked
  <1>2. CASE LoopAborts
    BY <1>2 DEF LoopAborts, Asked
  <1>3. CASE LoopSetsIdle
    BY <1>3 DEF LoopSetsIdle
  <1>4. CASE LoopClears
    BY <1>4 DEF LoopClears
  <1>5. CASE Reset
    BY <1>5 DEF Reset, IdleHost
  <1> QED
    BY <1>1, <1>2, <1>3, <1>4, <1>5
    DEF LoopGoesOn, CheckTimeout, Compare, CanSleep, SleepAborted, DeepSleep, PowerLoss,
        TimePasses

LEMMA AnswerApp ==
  ASSUME TransferInv, AnswerInv, Lose \/ App \/ AppSends \/ AppReceives PROVE AnswerInv'
  <1> USE DEF AnswerInv
  <1>0. app \in [phase : {"none", "starting", "sending", "committing"},
                 image : Images \cup {None}, next : 0 .. CHUNKS - 1]
    BY DEF TransferInv, TypeOK
  <1>1. CASE Lose
    BY <1>1 DEF Lose, Asked
  <1>2. ASSUME NEW i \in Images, AppBegins(i) PROVE AnswerInv'
    BY <1>2 DEF AppBegins
  <1>3. CASE AppAborts
    BY <1>3 DEF AppAborts, NoTransfer
  <1>4. CASE AppDisappears
    BY <1>4 DEF AppDisappears, NoTransfer
  <1>5. CASE AppSends
    <2>1. CASE app.phase = "starting"
      <3>1. AppMessage = [type |-> "start", image |-> app.image]
        BY <2>1, Zenon DEF AppMessage
      <3> QED
        BY <1>5, <2>1, <3>1 DEF AppSends, Asked
    <2>2. CASE app.phase = "sending"
      <3>1. AppMessage = [type |-> "data", image |-> app.image, index |-> app.next]
        BY <2>2, Zenon DEF AppMessage
      <3> QED
        BY <1>5, <2>2, <3>1 DEF AppSends, Asked
    <2>3. CASE app.phase = "committing"
      <3>1. AppMessage = [type |-> "commit"]
        BY <2>3, Zenon DEF AppMessage
      <3> QED
        BY <1>5, <2>3, <3>1 DEF AppSends, Asked
    <2> QED
      BY <1>0, <1>5, <2>1, <2>2, <2>3 DEF AppSends
  <1>6. CASE AppReceives
    <2>1. \/ app'.phase = app.phase \/ app'.phase = "none"
          \/ app.phase = "starting" /\ app'.phase = "sending" /\ down.ok
          \/ app.phase = "sending" /\ app'.phase = "committing"
      <3>1. CASE down.type = "start" /\ app.phase = "starting"
        <4>1. AppAfter(down) = IF down.ok THEN [app EXCEPT !.phase = "sending"] ELSE NoTransfer
          BY <3>1, Zenon DEF AppAfter
        <4> QED
          BY <1>0, <1>6, <3>1, <4>1 DEF AppReceives, NoTransfer
      <3>2. CASE down.type = "data" /\ app.phase = "sending"
        <4>1. AppAfter(down) = IF Asked(down) < CHUNKS THEN [app EXCEPT !.next = Asked(down)]
                               ELSE [app EXCEPT !.phase = "committing", !.next = 0]
          BY <3>2, Zenon DEF AppAfter
        <4> QED
          BY <1>0, <1>6, <3>2, <4>1 DEF AppReceives
      <3>3. CASE down.type = "commit" /\ app.phase = "committing"
        <4>1. AppAfter(down) = NoTransfer
          BY <3>3, Zenon DEF AppAfter
        <4> QED
          BY <1>6, <4>1 DEF AppReceives, NoTransfer
      <3>4. CASE /\ ~(down.type = "start" /\ app.phase = "starting")
                 /\ ~(down.type = "data" /\ app.phase = "sending")
                 /\ ~(down.type = "commit" /\ app.phase = "committing")
        <4>1. AppAfter(down) = app
          BY <3>4, Zenon DEF AppAfter
        <4> QED
          BY <1>6, <4>1 DEF AppReceives
      <3> QED
        BY <3>1, <3>2, <3>3, <3>4
    <2> QED
      BY <1>6, <2>1 DEF AppReceives
  <1> QED
    BY <1>1, <1>2, <1>3, <1>4, <1>5, <1>6 DEF App

\* Every answer to a chunk names the chunk that the device waits for, over lost answers
\* and repeats, unless the transfer was aborted, cut off or lost a write.
THEOREM AnswerCorrect == Spec => []AnswerNamesNext
  <1>1. Init => AnswerInv
    BY DEF Init, AnswerInv, IdleHost, NoTransfer
  <1>2. TransferInv /\ AnswerInv /\ [Next]_vars => AnswerInv'
    <2>1. UNCHANGED vars /\ AnswerInv => AnswerInv'
      BY DEF vars, AnswerInv, Asked
    <2> QED
      BY <2>1, AnswerHost, AnswerLoop, AnswerApp DEF Next
  <1>3. AnswerInv => AnswerNamesNext
    BY DEF AnswerInv, AnswerNamesNext
  <1> QED
    BY <1>1, <1>2, <1>3, TransferAlways, PTL DEF Spec
=============================================================================

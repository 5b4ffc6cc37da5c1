---------------------------- MODULE FlasherProofs ----------------------------
(***************************************************************************)
(* What the flasher guarantees for images of every size and every number   *)
(* of sessions, with every fault: the partition holds the chunks in order, *)
(* success means the whole image, and an upload can go on.                 *)
(***************************************************************************)
EXTENDS Flasher, TLAPS

-----------------------------------------------------------------------------
(* The invariants *)

\* What a request leaves pending is done in the same turn of run, but for the restart
\* after success; run passes through the other phases within a step.
TurnInv ==
  /\ pc \in {"start", "wifi", "load"} =>
       action = "NONE" /\ g.phase \notin {"RECEIVING", "COMPLETE"}
  /\ pc \in {"client", "action", "chunk", "watch"} =>
       g.phase \in {"READY", "RECEIVING", "COMPLETE", "ERROR"}
  /\ pc = "chunk" => action = "NONE"
  /\ pc \in {"client", "watch"} => action \in {"NONE", "REBOOT_SUCCESS"}
  /\ pc = "action" /\ action = "START_SESSION" =>
       g.phase = "READY" /\ (starting = app.session => app.next = 0)
  /\ chunk.state = "QUEUED" => chunk.index >= 0

\* The partition holds the chunks up to the last one that was counted, a queued chunk
\* is the next one, and the app is at most one answer behind.
UploadInv ==
  g.phase = "RECEIVING" =>
    /\ update.running /\ update.image = Image(g.last + 1)
    /\ chunk.state \in {"IDLE", "QUEUED"}
    /\ chunk.state = "IDLE" /\ g.session = app.session => app.next \in {g.last, g.last + 1}
    /\ chunk.state = "QUEUED" =>
         /\ pc \in {"action", "chunk", "off"} /\ chunk.index = g.last + 1
         /\ g.session = app.session => app.next \in {chunk.index, chunk.index + 1}

FlasherInv == TypeOK /\ TurnInv /\ UploadInv

-----------------------------------------------------------------------------
(* Operators *)

\* The first k chunks are a sequence of k numbers, which the next one continues.
LEMMA ImageFacts ==
  ASSUME NEW k \in 0 .. CHUNKS
  PROVE  /\ Image(k) \in Seq(0 .. CHUNKS - 1) /\ Len(Image(k)) = k
         /\ k < CHUNKS => Append(Image(k), k) = Image(k + 1)
  <1>1. Image(k) \in Seq(0 .. CHUNKS - 1) /\ Len(Image(k)) = k
    <2>1. k \in Nat /\ \A i \in 1 .. k : i - 1 \in 0 .. CHUNKS - 1
      BY FlasherAssumption
    <2> QED
      BY <2>1 DEF Image
  <1>2. ASSUME k < CHUNKS PROVE Append(Image(k), k) = Image(k + 1)
    <2>1. k \in 0 .. CHUNKS - 1 /\ k + 1 \in Nat
      BY <1>2, FlasherAssumption
    <2>2. Append(Image(k), k) \in Seq(0 .. CHUNKS - 1) /\ Len(Append(Image(k), k)) = k + 1
      BY <1>1, <2>1
    <2>3. Image(k + 1) \in Seq(0 .. CHUNKS - 1) /\ Len(Image(k + 1)) = k + 1
      <3>1. \A i \in 1 .. k + 1 : i - 1 \in 0 .. CHUNKS - 1
        BY <1>2, FlasherAssumption
      <3> QED
        BY <2>1, <3>1 DEF Image
    <2>4. ASSUME NEW i \in 1 .. k + 1 PROVE Append(Image(k), k)[i] = Image(k + 1)[i]
      BY <1>1, <2>1 DEF Image
    <2> QED
      BY <2>2, <2>3, <2>4
  <1> QED
    BY <1>1, <1>2

\* What isTransitionAllowed makes of the two transitions of a new upload and of the two
\* after its last chunk.
LEMMA UploadPhases ==
  /\ transitionPhase(transitionPhase("READY", "ERASING"), "RECEIVING") = "RECEIVING"
  /\ transitionPhase(transitionPhase("RECEIVING", "VERIFYING"), "COMPLETE") = "COMPLETE"
  BY DEF transitionPhase, isTransitionAllowed, Transitions

LEMMA PhaseType ==
  ASSUME NEW from \in Phases, NEW to \in Phases
  PROVE  transitionPhase(from, to) \in Phases
  BY DEF transitionPhase

-----------------------------------------------------------------------------
(* Steps *)

\* The states that the handlers and the reset leave.
LEMMA ResetType ==
  /\ ResetState \in State /\ ResetState.phase = "READY"
  /\ resetPendingChunk \in PendingChunk /\ resetPendingChunk.state = "IDLE"
  /\ 0 \in Sessions /\ 0 \in 0 .. CHUNKS
  <1>1. 0 \in Sessions /\ -1 \in Indices /\ 0 \in 0 .. CHUNKS
    BY FlasherAssumption DEF Sessions, Indices
  <1>2. "READY" \in Phases
    BY DEF Phases
  <1> QED
    BY <1>1, <1>2 DEF ResetState, State, resetPendingChunk, PendingChunk

LEMMA ErrorType ==
  ASSUME NEW s \in State
  PROVE  /\ setErrorState(s) \in State /\ setErrorState(s).phase = "ERROR"
         /\ setErrorState(s).last = s.last
  <1>1. "ERROR" \in Phases
    BY DEF Phases
  <1> QED
    BY <1>1 DEF setErrorState, State

LEMMA AbortedType ==
  ASSUME NEW u \in UpdateState PROVE Aborted(u) \in UpdateState
  BY DEF Aborted, UpdateState

LEMMA FlasherInit == Init => FlasherInv
  <1> SUFFICES ASSUME Init PROVE FlasherInv
    OBVIOUS
  <1>1. "INIT" \in Phases
    BY DEF Phases
  <1>2. -1 \in Indices
    BY FlasherAssumption DEF Indices
  <1>3. g \in State /\ g.phase = "INIT"
    BY <1>1, <1>2, ResetType DEF Init, State
  <1>4. update \in UpdateState
    BY DEF Init, UpdateState
  <1>5. app \in [session : Sessions, next : 0 .. CHUNKS]
    BY ResetType DEF Init
  <1>6. TypeOK
    BY <1>3, <1>4, <1>5, ResetType DEF Init, TypeOK, Actions
  <1> QED
    BY <1>3, <1>6, ResetType DEF Init, FlasherInv, TurnInv, UploadInv

\* Steps that end run: a restart, or a start that fails.
LEMMA RestartStep ==
  ASSUME FlasherInv, Restart PROVE FlasherInv'
  BY DEF FlasherInv, TypeOK, TurnInv, UploadInv, Restart, Image

LEMMA StartupStep ==
  ASSUME FlasherInv, Startup PROVE FlasherInv'
  <1> USE DEF FlasherInv, TypeOK, TurnInv, UploadInv
  <1>1. CASE StartFails
    BY <1>1, ErrorType DEF StartFails
  <1>2. CASE CheckIdleVoltage
    <2>1. /\ "BATTERY_CHECK" \in Phases /\ "WIFI_START" \in Phases
          /\ g.phase \in Phases
      BY DEF Phases, State
    <2>2. /\ transitionPhase(transitionPhase(g.phase, "BATTERY_CHECK"), "WIFI_START") \in Phases
          /\ transitionPhase(transitionPhase(g.phase, "BATTERY_CHECK"), "WIFI_START")
               \notin {"RECEIVING", "COMPLETE"}
      BY <1>2, <2>1, PhaseType DEF CheckIdleVoltage, transitionPhase
    <2>3. g' \in State /\ g'.phase \notin {"RECEIVING", "COMPLETE"}
      BY <1>2, <2>2 DEF CheckIdleVoltage, State
    <2> QED
      BY <1>2, <2>3 DEF CheckIdleVoltage
  <1>3. CASE StartWifi
    BY <1>3 DEF StartWifi
  <1>4. CASE CheckLoadVoltage
    <2>1. g' \in State /\ g'.phase = "READY" /\ chunk' \in PendingChunk /\ chunk'.state = "IDLE"
      BY <1>4, ResetType DEF CheckLoadVoltage
    <2> QED
      BY <1>4, <2>1, ResetType DEF CheckLoadVoltage, Actions
  <1> QED
    BY <1>1, <1>2, <1>3, <1>4 DEF Startup

\* An answer that arrives or is lost.
LEMMA AnsweredType ==
  ASSUME TypeOK, Answered, app.next < CHUNKS
  PROVE  /\ app' \in [session : Sessions, next : 0 .. CHUNKS]
         /\ app'.session = app.session /\ app'.next \in {app.next, app.next + 1}
  <1>1. app.next + 1 \in 0 .. CHUNKS
    BY FlasherAssumption DEF TypeOK
  <1> QED
    BY <1>1 DEF TypeOK, Answered

\* The handlers of the web server.
LEMMA RequestStep ==
  ASSUME FlasherInv, Requests PROVE FlasherInv'
  <1> USE DEF FlasherInv, TypeOK, TurnInv, UploadInv
  <1>0. Active \subseteq Timers
    BY DEF Active
  <1>1. CASE Status
    BY <1>0, <1>1 DEF Status
  <1>2. CASE HandleStart
    <2>1. CASE g.phase = "READY"
      <3>1. app.session + 1 \in Sessions
        BY <1>2, FlasherAssumption DEF HandleStart, Sessions
      <3>2. /\ app' \in [session : Sessions, next : 0 .. CHUNKS]
            /\ app' = app \/ app'.next = 0
        BY <1>2, <2>1, <3>1, ResetType DEF HandleStart
      <3>3. starting' \in Sessions /\ (starting' = app'.session => app'.next = 0)
        <4>1. starting' = app.session + 1 /\ app.session + 1 # app.session
          BY <1>2, <2>1 DEF HandleStart, Sessions
        <4> QED
          BY <3>1, <3>2, <4>1
      <3> QED
        BY <1>0, <1>2, <2>1, <3>2, <3>3 DEF HandleStart, Actions
    <2>2. CASE g.phase # "READY"
      BY <1>0, <1>2, <2>2 DEF HandleStart
    <2> QED
      BY <2>1, <2>2
  <1>3. CASE HandleAbort
    BY <1>3 DEF HandleAbort, Actions
  <1>4. CASE RefuseChunk
    <2>1. CASE UNCHANGED app
      BY <1>0, <1>4, <2>1 DEF RefuseChunk
    <2>2. CASE /\ g.phase = "RECEIVING" /\ chunk.state = "IDLE"
               /\ g.session = app.session /\ Duplicate(app.next) /\ Answered
      <3>1. app.next <= g.last /\ app.next \in {g.last, g.last + 1} /\ g.last \in Int
        BY <2>2 DEF Duplicate, State, Indices
      <3>2. app.next = g.last
        BY <3>1
      <3>3. /\ app' \in [session : Sessions, next : 0 .. CHUNKS]
            /\ app'.next \in {app.next, app.next + 1}
        BY <1>4, <2>2, AnsweredType DEF RefuseChunk
      <3> QED
        BY <1>0, <1>4, <2>2, <3>2, <3>3 DEF RefuseChunk
    <2> QED
      BY <1>4, <2>1, <2>2 DEF RefuseChunk
  <1>5. CASE QueueChunk
    <2>1. /\ g.phase = "RECEIVING" /\ g.session = app.session /\ chunk.state = "IDLE"
          /\ g.last \in Int /\ app.next \in Nat /\ app.next < CHUNKS
      BY <1>5 DEF QueueChunk, ChunkIsExpected, State, Indices
    <2>2. app.next = g.last + 1
      BY <1>5, <2>1 DEF QueueChunk, Duplicate
    <2>3. /\ app' \in [session : Sessions, next : 0 .. CHUNKS]
          /\ app'.next \in {app.next, app.next + 1}
      BY <1>5, <2>1, AnsweredType DEF QueueChunk
    <2>4. /\ chunk' \in PendingChunk /\ chunk'.state = "QUEUED" /\ chunk'.index = app.next
          /\ chunk'.index >= 0
      BY <1>5, <2>1, FlasherAssumption DEF QueueChunk, PendingChunk, Indices
    <2> QED
      BY <1>0, <1>5, <2>1, <2>2, <2>3, <2>4 DEF QueueChunk, ChunkIsExpected
  <1>6. CASE SpoilSession
    <2>1. g' \in State /\ g'.phase = "ERROR"
      BY <1>6, ErrorType DEF SpoilSession
    <2>2. chunk' \in PendingChunk /\ chunk'.state # "QUEUED"
      BY <1>6, ResetType DEF SpoilSession, PendingChunk
    <2> QED
      BY <1>0, <1>6, <2>1, <2>2 DEF SpoilSession, ChunkIsExpected
  <1>7. CASE DropChunk
    <2>1. chunk' \in PendingChunk /\ chunk'.state = "IDLE"
      BY <1>7, ResetType DEF DropChunk
    <2>2. g.phase = "RECEIVING" => chunk.state = "IDLE"
      BY <1>7 DEF DropChunk
    <2> QED
      BY <1>0, <1>7, <2>1, <2>2 DEF DropChunk
  <1>8. CASE StreamImage
    <2>1. "COMPLETE" \in Phases
      BY DEF Phases
    <2>2. g' \in State /\ g'.phase = "COMPLETE"
      BY <1>8, <2>1, ResetType DEF StreamImage, State
    <2>3. CHUNKS \in 0 .. CHUNKS
      BY FlasherAssumption
    <2>4. update' \in UpdateState
      BY <1>8, <2>3, ImageFacts DEF StreamImage, UpdateState
    <2> QED
      BY <1>0, <1>8, <2>2, <2>4 DEF StreamImage, Actions
  <1>9. CASE StreamFails
    <2>1. g' \in State /\ g'.phase = "ERROR"
      BY <1>9, ErrorType DEF StreamFails
    <2>2. update' \in UpdateState
      <3>1. CASE update' = StreamStart(update)
        BY <3>1, AbortedType DEF StreamStart
      <3>2. ASSUME NEW k \in 0 .. CHUNKS,
                   update' = [update EXCEPT !.running = FALSE, !.image = Image(k)]
            PROVE  update' \in UpdateState
        BY <3>2, ImageFacts DEF UpdateState
      <3> QED
        BY <1>9, <3>1, <3>2 DEF StreamFails
    <2> QED
      BY <1>0, <1>9, <2>1, <2>2 DEF StreamFails
  <1>10. CASE UpdateWithoutImage
    <2>1. "COMPLETE" \in Phases
      BY DEF Phases
    <2>2. g' \in State /\ g'.phase = "COMPLETE"
      BY <1>10, <2>1 DEF UpdateWithoutImage, State
    <2> QED
      BY <1>10, <2>2 DEF UpdateWithoutImage, Actions
  <1> QED
    BY <1>1, <1>2, <1>3, <1>4, <1>5, <1>6, <1>7, <1>8, <1>9, <1>10 DEF Requests

\* The pending action.
LEMMA ActionStep ==
  ASSUME FlasherInv, NoRequest \/ NoAction \/ AbortReset \/ StartSession \/ RebootSuccess
  PROVE  FlasherInv'
  <1> USE DEF FlasherInv, TypeOK, TurnInv, UploadInv
  <1>1. CASE NoRequest
    BY <1>1 DEF NoRequest
  <1>2. CASE NoAction
    BY <1>2 DEF NoAction
  <1>3. CASE AbortReset
    <2>1. g' \in State /\ g'.phase = "READY" /\ chunk' \in PendingChunk /\ chunk'.state = "IDLE"
      BY <1>3, ResetType DEF AbortReset
    <2>2. update' \in UpdateState
      BY <1>3, AbortedType DEF AbortReset
    <2> QED
      BY <1>3, <2>1, <2>2, ResetType DEF AbortReset, Actions
  <1>4. CASE StartSession
    <2>1. chunk' \in PendingChunk /\ chunk'.state = "IDLE" /\ starting' \in Sessions
      BY <1>4, ResetType DEF StartSession
    <2>2. CASE /\ update' = [update EXCEPT !.running = TRUE, !.image = <<>>]
               /\ g' = NewSession(starting)
      <3>1. /\ g' \in State /\ g'.phase = "RECEIVING" /\ g'.session = starting
            /\ g'.last = -1
        <4>1. g.phase = "READY" /\ "RECEIVING" \in Phases
          BY <1>4 DEF StartSession, Phases
        <4>2. NewSession(starting) = [phase |-> "RECEIVING", session |-> starting, last |-> -1]
          BY <4>1, UploadPhases DEF NewSession
        <4>3. -1 \in Indices
          BY FlasherAssumption DEF Indices
        <4> QED
          BY <2>2, <4>1, <4>2, <4>3 DEF State
      <3>2. update' \in UpdateState /\ update'.running /\ update'.image = <<>>
        <4>1. <<>> \in Seq(0 .. CHUNKS - 1) /\ update \in UpdateState
          OBVIOUS
        <4> QED
          BY <2>2, <4>1 DEF UpdateState
      <3>3. Image(0) = <<>>
        <4>1. Image(0) \in Seq(0 .. CHUNKS - 1) /\ Len(Image(0)) = 0
          BY ResetType, ImageFacts
        <4> QED
          BY <4>1
      <3>4. g'.last + 1 = 0
        BY <3>1
      <3>5. g'.session = app.session => app.next = 0
        BY <1>4, <3>1 DEF StartSession
      <3> QED
        BY <1>4, <2>1, <3>1, <3>2, <3>3, <3>4, <3>5 DEF StartSession, Actions
    <2>3. CASE g' = [ResetState EXCEPT !.phase = "ERROR"] /\ UNCHANGED update
      <3>1. g' \in State /\ g'.phase = "ERROR"
        BY <2>3, ResetType, ErrorType DEF setErrorState
      <3> QED
        BY <1>4, <2>1, <2>3, <3>1 DEF StartSession, Actions
    <2> QED
      BY <1>4, <2>2, <2>3 DEF StartSession
  <1>5. CASE RebootSuccess
    BY <1>5, RestartStep DEF RebootSuccess
  <1> QED
    BY <1>1, <1>2, <1>3, <1>4, <1>5

\* What processPendingChunk writes is the chunk that was missing.
LEMMA NextChunk ==
  ASSUME FlasherInv, Writable
  PROVE  /\ chunk.index \in 0 .. CHUNKS - 1 /\ chunk.index = g.last + 1 /\ g.last \in Indices
         /\ Append(update.image, chunk.index) = Image(chunk.index + 1)
         /\ Append(update.image, chunk.index) \in Seq(0 .. CHUNKS - 1)
  <1>1. /\ chunk.index \in Indices /\ chunk.index >= 0 /\ chunk.index = g.last + 1
        /\ g.last \in Indices /\ update.image = Image(g.last + 1)
    BY DEF FlasherInv, TypeOK, TurnInv, UploadInv, Writable, PendingChunk, State
  <1>2. chunk.index \in 0 .. CHUNKS - 1 /\ chunk.index \in 0 .. CHUNKS /\ chunk.index < CHUNKS
    BY <1>1, FlasherAssumption DEF Indices
  <1>3. Append(update.image, chunk.index) = Image(chunk.index + 1)
    BY <1>1, <1>2, ImageFacts
  <1>4. chunk.index + 1 \in 0 .. CHUNKS
    BY <1>2, FlasherAssumption
  <1> QED
    BY <1>1, <1>2, <1>3, <1>4, ImageFacts

LEMMA ChunkStep ==
  ASSUME FlasherInv, NoChunk \/ WriteFails \/ WriteChunk \/ WriteLastChunk
  PROVE  FlasherInv'
  <1> USE DEF FlasherInv, TypeOK, TurnInv, UploadInv
  <1>1. CASE NoChunk
    <2>1. chunk' \in PendingChunk /\ chunk'.state # "QUEUED"
      BY <1>1, ResetType DEF NoChunk
    <2>2. g.phase = "RECEIVING" => chunk' = chunk
      BY <1>1 DEF NoChunk
    <2> QED
      BY <1>1, <2>1, <2>2 DEF NoChunk
  <1>2. CASE WriteFails
    <2>1. g' \in State /\ g'.phase = "ERROR" /\ update' \in UpdateState
      BY <1>2, ErrorType, AbortedType DEF WriteFails
    <2>2. chunk' \in PendingChunk /\ chunk'.state = "ERROR"
      BY <1>2 DEF WriteFails, PendingChunk
    <2> QED
      BY <1>2, <2>1, <2>2 DEF WriteFails, Writable
  <1>3. CASE WriteChunk
    <2>1. chunk' \in PendingChunk /\ chunk'.state = "IDLE"
      BY <1>3, ResetType DEF WriteChunk, ChunkWritten
    <2>2. Writable /\ chunk.index \in Indices
      BY <1>3 DEF WriteChunk, PendingChunk
    <2>3. /\ g' \in State /\ g'.phase = "RECEIVING" /\ g'.last = chunk.index
          /\ g'.session = g.session
      BY <1>3, <2>2 DEF WriteChunk, Writable, State
    <2>4. /\ update' \in UpdateState /\ update'.running
          /\ update'.image = Image(chunk.index + 1)
      BY <1>3, <2>2, NextChunk DEF WriteChunk, UpdateState
    <2> QED
      BY <1>3, <2>1, <2>2, <2>3, <2>4 DEF WriteChunk, Writable
  <1>4. CASE WriteLastChunk
    <2>1. chunk' \in PendingChunk /\ chunk'.state = "IDLE"
      BY <1>4, ResetType DEF WriteLastChunk, ChunkWritten
    <2>2. Writable /\ chunk.index \in Indices
      BY <1>4 DEF WriteLastChunk, PendingChunk
    <2>3. update' \in UpdateState
      <3>1. Append(update.image, chunk.index) \in Seq(0 .. CHUNKS - 1)
        BY <2>2, NextChunk
      <3>2. CASE update' = [running |-> FALSE, image |-> Append(update.image, chunk.index),
                            boot |-> TRUE]
        BY <3>1, <3>2 DEF UpdateState
      <3>3. CASE update' = [update EXCEPT !.running = FALSE,
                                          !.image = Append(update.image, chunk.index)]
        BY <3>1, <3>3 DEF UpdateState
      <3> QED
        BY <1>4, <3>2, <3>3 DEF WriteLastChunk
    <2>4. g' \in State /\ g'.phase \in {"COMPLETE", "ERROR"}
      <3>1. g.phase = "RECEIVING" /\ "COMPLETE" \in Phases
        BY <2>2 DEF Writable, Phases
      <3>2. CASE g' = [g EXCEPT !.phase = "COMPLETE", !.last = chunk.index]
        BY <2>2, <3>1, <3>2 DEF State
      <3>3. CASE g' = setErrorState([g EXCEPT !.last = chunk.index])
        <4>1. [g EXCEPT !.last = chunk.index] \in State
          BY <2>2 DEF State
        <4> QED
          BY <3>3, <4>1, ErrorType
      <3> QED
        BY <1>4, <3>1, <3>2, <3>3, UploadPhases DEF WriteLastChunk
    <2>5. action' \in {"NONE", "REBOOT_SUCCESS"} /\ action' \in Actions
      BY <1>4, <2>2 DEF WriteLastChunk, Writable, Actions
    <2> QED
      BY <1>4, <2>1, <2>2, <2>3, <2>4, <2>5 DEF WriteLastChunk, Writable
  <1> QED
    BY <1>1, <1>2, <1>3, <1>4

\* The watchdogs, and the passage of time.
LEMMA WatchStep ==
  ASSUME FlasherInv,
         SessionTimeout \/ BatteryDropped \/ IdleRestart \/ WatchdogsPass \/ Time \/ PowerLoss
  PROVE  FlasherInv'
  <1> USE DEF FlasherInv, TypeOK, TurnInv, UploadInv
  <1>1. CASE SessionTimeout
    <2>1. g' \in State /\ g'.phase = "ERROR" /\ update' \in UpdateState
      BY <1>1, ErrorType, AbortedType DEF SessionTimeout
    <2> QED
      BY <1>1, <2>1, ResetType DEF SessionTimeout
  <1>2. CASE BatteryDropped
    <2>1. g' \in State /\ g'.phase = "ERROR" /\ update' \in UpdateState
      BY <1>2, ErrorType, AbortedType DEF BatteryDropped
    <2> QED
      BY <1>2, <2>1 DEF BatteryDropped
  <1>3. CASE WatchdogsPass
    BY <1>3 DEF WatchdogsPass
  <1>4. ASSUME NEW t \in Timers, TimePasses(t) PROVE FlasherInv'
    BY <1>4 DEF TimePasses
  <1> QED
    BY <1>1, <1>2, <1>3, <1>4, RestartStep DEF IdleRestart, PowerLoss, Time

LEMMA FlasherStep == FlasherInv /\ [Next]_vars => FlasherInv'
  <1>1. FlasherInv /\ UNCHANGED vars => FlasherInv'
    BY DEF FlasherInv, TypeOK, TurnInv, UploadInv, vars, Image
  <1> QED
    BY <1>1, StartupStep, RequestStep, ActionStep, ChunkStep, WatchStep DEF Next, Loop

LEMMA FlasherAlways == Spec => []FlasherInv
  BY FlasherInit, FlasherStep, PTL DEF Spec

-----------------------------------------------------------------------------
(* Theorems *)

\* Every variable of the flasher keeps its type, and no request sees a phase that run
\* passes through.
THEOREM TypeCorrect == Spec => []TypeOK
  BY FlasherAlways, PTL DEF FlasherInv

\* The partition holds the chunks of the upload, each once and in order.
THEOREM SequenceCorrect == Spec => []ChunksInSequence
  <1>1. FlasherInv => ChunksInSequence
    <2> SUFFICES ASSUME FlasherInv, g.phase = "RECEIVING"
                 PROVE  update.image = Image(Len(update.image))
      BY DEF ChunksInSequence
    <2>1. g.last + 1 \in 0 .. CHUNKS /\ update.image = Image(g.last + 1)
      BY FlasherAssumption DEF FlasherInv, TypeOK, UploadInv, State, Indices
    <2> QED
      BY <2>1, ImageFacts
  <1> QED
    BY <1>1, FlasherAlways, PTL

\* Every chunk that the app has an answer for is in the partition, and the buffer is
\* free for the next one.
THEOREM UploadCorrect == Spec => []UploadCanGoOn
  <1>1. FlasherInv => UploadCanGoOn
    BY DEF FlasherInv, UploadInv, UploadCanGoOn
  <1> QED
    BY <1>1, FlasherAlways, PTL

\* Until a step overwrites the partition, the whole image stays in it.
LEMMA WholeKept ==
  ASSUME FlasherInv, WholeImage, UNCHANGED <<update, stray>> \/ update' = Aborted(update),
         stray' = stray,
         g'.phase = "COMPLETE" \/ action' = "REBOOT_SUCCESS" =>
           g.phase = "COMPLETE" \/ action = "REBOOT_SUCCESS"
  PROVE  WholeImage'
  <1>1. update'.boot = update.boot /\ update'.image = update.image
    BY DEF Aborted, FlasherInv, TypeOK, UpdateState
  <1> QED
    BY <1>1 DEF WholeImage, Image

\* The last chunk is the last that was missing.
LEMMA LastChunkWhole ==
  ASSUME FlasherInv, WriteLastChunk, action' = "REBOOT_SUCCESS"
  PROVE  update'.boot /\ update'.image = Image(CHUNKS)
  <1>1. /\ Writable /\ chunk.index = CHUNKS - 1 /\ action # "REBOOT_SUCCESS"
        /\ Append(update.image, chunk.index) = Image(chunk.index + 1)
    BY NextChunk DEF WriteLastChunk, IsLast, FlasherInv, TurnInv, Writable
  <1>2. update'.boot /\ update'.image = Append(update.image, chunk.index)
    BY <1>1 DEF WriteLastChunk
  <1>3. chunk.index + 1 = CHUNKS
    BY <1>1, FlasherAssumption
  <1> QED
    BY <1>1, <1>2, <1>3

LEMMA WholeStep == FlasherInv /\ WholeImage /\ [Next]_vars => WholeImage'
  <1> SUFFICES ASSUME FlasherInv, WholeImage, [Next]_vars PROVE WholeImage'
    OBVIOUS
  <1>1. CASE UNCHANGED vars
    BY <1>1, WholeKept DEF vars
  <1>2. CASE \/ StartFails \/ SpoilSession \/ SessionTimeout \/ BatteryDropped \/ WriteFails
    <2>1. g'.phase = "ERROR"
      BY <1>2, ErrorType DEF StartFails, SpoilSession, SessionTimeout, BatteryDropped,
                             WriteFails, FlasherInv, TypeOK
    <2> QED
      BY <1>2, <2>1, WholeKept DEF StartFails, SpoilSession, SessionTimeout, BatteryDropped,
                                   WriteFails
  <1>3. CASE CheckIdleVoltage
    <2>1. g'.phase # "COMPLETE" /\ action' = "NONE"
      BY <1>3, StartupStep DEF CheckIdleVoltage, Startup, FlasherInv, TurnInv
    <2> QED
      BY <1>3, <2>1 DEF WholeImage
  <1>4. CASE CheckLoadVoltage \/ AbortReset
    <2>1. g'.phase = "READY" /\ action' = "NONE"
      BY <1>4, ResetType DEF CheckLoadVoltage, AbortReset
    <2> QED
      BY <2>1 DEF WholeImage
  <1>5. CASE \/ StartWifi \/ NoRequest \/ Status \/ RefuseChunk \/ QueueChunk \/ DropChunk
             \/ NoAction \/ RebootSuccess \/ NoChunk \/ IdleRestart \/ WatchdogsPass
             \/ Time \/ PowerLoss
    BY <1>5, WholeKept
    DEF StartWifi, NoRequest, Status, RefuseChunk, QueueChunk, DropChunk, NoAction,
        RebootSuccess, NoChunk, IdleRestart, WatchdogsPass, Time, TimePasses, PowerLoss, Restart
  <1>6. CASE HandleStart \/ HandleAbort
    BY <1>6, WholeKept DEF HandleStart, HandleAbort
  <1>7. CASE StreamImage
    BY <1>7 DEF StreamImage, WholeImage, Image
  <1>8. CASE StreamFails \/ UpdateWithoutImage
    BY <1>8 DEF StreamFails, UpdateWithoutImage, WholeImage
  <1>9. CASE StartSession
    <2>1. g.phase = "READY" /\ g \in State
      BY <1>9 DEF StartSession, FlasherInv, TypeOK, TurnInv
    <2>2. CASE g' = NewSession(starting)
      <3>1. g'.phase = "RECEIVING"
        BY <2>1, <2>2, UploadPhases DEF NewSession
      <3> QED
        BY <1>9, <3>1 DEF StartSession, WholeImage
    <2>3. CASE g' = [ResetState EXCEPT !.phase = "ERROR"]
      <3>1. g'.phase = "ERROR"
        BY <2>3, ResetType DEF State
      <3> QED
        BY <1>9, <3>1 DEF StartSession, WholeImage
    <2> QED
      BY <1>9, <2>2, <2>3 DEF StartSession
  <1>10. CASE WriteChunk
    <2>1. g'.phase = "RECEIVING" /\ action' = "NONE"
      BY <1>10 DEF WriteChunk, Writable, FlasherInv, TypeOK, TurnInv, State
    <2> QED
      BY <2>1 DEF WholeImage
  <1>11. CASE WriteLastChunk
    <2>1. CASE action' = "REBOOT_SUCCESS"
      BY <1>11, <2>1, LastChunkWhole DEF WholeImage, Image
    <2>2. CASE action' # "REBOOT_SUCCESS"
      <3>1. g' = setErrorState([g EXCEPT !.last = chunk.index])
        BY <1>11, <2>2 DEF WriteLastChunk
      <3>2. [g EXCEPT !.last = chunk.index] \in State
        BY DEF FlasherInv, TypeOK, State, PendingChunk
      <3>3. g'.phase = "ERROR"
        BY <3>1, <3>2, ErrorType
      <3> QED
        BY <2>2, <3>3 DEF WholeImage
    <2> QED
      BY <2>1, <2>2
  <1> QED
    BY <1>1, <1>2, <1>3, <1>4, <1>5, <1>6, <1>7, <1>8, <1>9, <1>10, <1>11
    DEF Next, Startup, Requests, Loop

\* From the report of success to the restart itself the partition holds the whole
\* image, and so the device restarts with success only into a whole image, unless a
\* request to /update came without an image, or failed while the restart was pending.
THEOREM SuccessCorrect ==
  Spec => /\ []WholeImage
          /\ [][RebootSuccess => stray \/ (update.boot /\ update.image = Image(CHUNKS))]_vars
  <1>1. Init => WholeImage
    BY DEF Init, WholeImage
  <1>2. WholeImage /\ [Next]_vars =>
          [RebootSuccess => stray \/ (update.boot /\ update.image = Image(CHUNKS))]_vars
    BY DEF WholeImage, RebootSuccess
  <1> QED
    BY <1>1, <1>2, WholeStep, FlasherAlways, PTL DEF Spec
=============================================================================

------------------------------- MODULE Flasher -------------------------------
(***************************************************************************)
(* The recovery mode that receives a firmware image over Wi-Fi             *)
(* (src/src/Services/FlasherService.cpp).  One task does everything: in    *)
(* each turn of the loop in run it serves one HTTP request, executes the   *)
(* action that a request or the last chunk has left pending, writes the    *)
(* chunk that was queued and looks at its watchdogs.                       *)
(*                                                                         *)
(* The Update library, the HTTP server and the app are external.  A        *)
(* request is served as a whole, its upload included; its answer may be    *)
(* lost, and the app then repeats it.  The library's own verification of   *)
(* the image is left out: what the protocol achieves without it is the     *)
(* question.  Erasing blocks the loop, so that no request sees it.         *)
(***************************************************************************)
EXTENDS Integers, Sequences

CONSTANTS
  CHUNKS,       \* chunks of the image
  MaxSessions,  \* bound: uploads that the app begins
  Faults        \* which of AllFaults this instance lets happen

AllFaults ==
  { "flash",     \* the flash memory may fail
    "malformed", \* a request may have bad headers, or not the announced size
    "battery",   \* the voltage may drop
    "power" }    \* power may be lost

ASSUME FlasherAssumption ==
  /\ CHUNKS \in Nat \ {0}
  /\ MaxSessions \in Nat \ {0}
  /\ Faults \subseteq AllFaults

VARIABLES
  g,        \* g_state: phase, sessionId and lastChunkIndex
  chunk,    \* g_pendingChunk: its state and the index of the chunk
  action,   \* g_pendingAction
  starting, \* g_pendingSessionId
  update,   \* external: the Update library and the partition it writes
  timer,    \* the timeouts that are over
  pc,       \* where the loop of run is
  app,      \* external: the app's session and the chunk that it sends next
  stray     \* observed: since the last reset, upload or new session a request to
            \* /update has failed, or was served without an image

vars == <<g, chunk, action, starting, update, timer, pc, app, stray>>

-----------------------------------------------------------------------------
(* Data *)

Phases == {"INIT", "BATTERY_CHECK", "WIFI_START", "READY", "ERASING", "RECEIVING",
           "VERIFYING", "COMPLETE", "ERROR"}

Sessions == 0 .. MaxSessions
Indices == -1 .. CHUNKS - 1

State == [phase : Phases, session : Sessions, last : Indices]

PendingChunk == [state : {"IDLE", "QUEUED", "ERROR"}, index : Indices]

Actions == {"NONE", "ABORT_RESET", "START_SESSION", "REBOOT_SUCCESS"}

\* quiet: 30 s without a request; idle: IDLE_TIMEOUT_MS without one; stalled:
\* PROGRESS_TIMEOUT_MS since a chunk was written.
Timers == {"quiet", "idle", "stalled"}

\* running: Update.isRunning; image: the chunks in the partition, in the order
\* in which they were written; boot: the device starts from this partition next.
UpdateState == [running : BOOLEAN, image : Seq(0 .. CHUNKS - 1), boot : BOOLEAN]

\* The first k chunks, each once and in order.
Image(k) == [i \in 1 .. k |-> i - 1]

resetPendingChunk == [state |-> "IDLE", index |-> -1]

\* Mutant: the row of VERIFYING is missing.
Transitions_NotVerified ==
  { <<"INIT", "BATTERY_CHECK">>, <<"BATTERY_CHECK", "WIFI_START">>,
    <<"WIFI_START", "READY">>, <<"READY", "ERASING">>, <<"ERASING", "RECEIVING">>,
    <<"RECEIVING", "VERIFYING">>, <<"RECEIVING", "COMPLETE">> }

\* What isTransitionAllowed lists, besides every transition to ERROR.
Transitions ==
  { <<"INIT", "BATTERY_CHECK">>, <<"BATTERY_CHECK", "WIFI_START">>,
    <<"WIFI_START", "READY">>, <<"READY", "ERASING">>, <<"ERASING", "RECEIVING">>,
    <<"RECEIVING", "VERIFYING">>, <<"RECEIVING", "COMPLETE">>,
    <<"VERIFYING", "COMPLETE">> }

isTransitionAllowed(from, to) == to = "ERROR" \/ <<from, to>> \in Transitions

\* A transition that is not allowed is ignored.
transitionPhase(from, to) == IF isTransitionAllowed(from, to) THEN to ELSE from

setErrorState(s) == [s EXCEPT !.phase = "ERROR"]

Aborted(u) == [u EXCEPT !.running = FALSE]

\* The members of resetFlasherState.
ResetState == [phase |-> "READY", session |-> 0, last |-> -1]

-----------------------------------------------------------------------------
(* Start of run *)

Restart ==
  /\ pc' = "off"
  /\ UNCHANGED <<g, chunk, action, starting, update, timer, app, stray>>

\* Too low a voltage, before or after Wi-Fi is on, or no access point:
\* errorAndReboot.
StartFails ==
  /\ pc \in {"start", "wifi", "load"}
  /\ g' = setErrorState(g)
  /\ pc' = "off"
  /\ UNCHANGED <<chunk, action, starting, update, timer, app, stray>>

CheckIdleVoltage ==
  /\ pc = "start"
  /\ g' = [g EXCEPT !.phase = transitionPhase(
                      transitionPhase(g.phase, "BATTERY_CHECK"), "WIFI_START")]
  /\ pc' = "wifi"
  /\ UNCHANGED <<chunk, action, starting, update, timer, app, stray>>

StartWifi ==
  /\ pc = "wifi"
  /\ pc' = "load"
  /\ UNCHANGED <<g, chunk, action, starting, update, timer, app, stray>>

\* The voltage under load suffices: the server is started and the state reset.
CheckLoadVoltage ==
  /\ pc = "load"
  /\ g' = ResetState /\ chunk' = resetPendingChunk
  /\ action' = "NONE" /\ starting' = 0 /\ timer' = {}
  /\ stray' = FALSE
  /\ pc' = "client"
  /\ UNCHANGED <<update, app>>

-----------------------------------------------------------------------------
(* handleClient: at most one request *)

\* lastActivityMs = millis
Active == timer \ {"quiet", "idle"}

NoRequest ==
  /\ pc = "client"
  /\ pc' = "action"
  /\ UNCHANGED <<g, chunk, action, starting, update, timer, app, stray>>

\* /status only tells what is.
Status ==
  /\ pc = "client"
  /\ timer' = Active
  /\ pc' = "action"
  /\ UNCHANGED <<g, chunk, action, starting, update, app, stray>>

\* A new upload, if the flasher is ready for one.
HandleStart ==
  /\ pc = "client" /\ app.session < MaxSessions
  /\ timer' = Active
  /\ IF g.phase = "READY"
     THEN /\ action' = "START_SESSION" /\ starting' = app.session + 1
          /\ app' \in {app, [session |-> app.session + 1, next |-> 0]}
     ELSE UNCHANGED <<action, starting, app>>
  /\ pc' = "action"
  /\ UNCHANGED <<g, chunk, update, stray>>

\* A pending restart after success is replaced, too.
HandleAbort ==
  /\ pc = "client"
  /\ action' = "ABORT_RESET"
  /\ pc' = "action"
  /\ UNCHANGED <<g, chunk, starting, update, timer, app, stray>>

\* Mutant: off by one.
Duplicate_Newer(index) == index < g.last

\* A chunk that was written already.
Duplicate(index) == index <= g.last

\* The app goes on to the next chunk when the answer is positive, if it gets it.
Answered == app' \in {app, [app EXCEPT !.next = app.next + 1]}

\* The chunk was not for the flasher to write: it is no session of its, its
\* buffer is busy, or it has it.
RefuseChunk ==
  /\ pc = "client" /\ app.session > 0 /\ app.next < CHUNKS
  /\ timer' = Active
  /\ \/ /\ g.phase # "RECEIVING" \/ chunk.state # "IDLE"
        /\ UNCHANGED app
     \/ /\ g.phase = "RECEIVING" /\ chunk.state = "IDLE"
        /\ g.session = app.session /\ Duplicate(app.next)
        /\ Answered
  /\ pc' = "action"
  /\ UNCHANGED <<g, chunk, action, starting, update, stray>>

\* The chunk that the handler takes: everything but its size is checked.
ChunkIsExpected ==
  /\ pc = "client" /\ app.session > 0 /\ app.next < CHUNKS
  /\ g.phase = "RECEIVING" /\ chunk.state = "IDLE"

QueueChunk ==
  /\ ChunkIsExpected /\ g.session = app.session /\ ~Duplicate(app.next)
  /\ chunk' = [state |-> "QUEUED", index |-> app.next]
  /\ Answered
  /\ timer' = Active
  /\ pc' = "action"
  /\ UNCHANGED <<g, action, starting, update, stray>>

\* The chunk of another session, or one with bad headers or not of its size,
\* ends the upload.  The buffer is reset if the connection then breaks.
SpoilSession ==
  /\ ChunkIsExpected
  /\ g.session # app.session \/ "malformed" \in Faults
  /\ g' = setErrorState(g)
  /\ chunk' \in {[chunk EXCEPT !.state = "ERROR"], resetPendingChunk}
  /\ timer' = Active
  /\ pc' = "action"
  /\ UNCHANGED <<action, starting, update, app, stray>>

\* The connection broke during the upload of a chunk: resetPendingChunk.
DropChunk ==
  /\ pc = "client" /\ app.session > 0 /\ app.next < CHUNKS
  /\ chunk' = resetPendingChunk
  /\ timer' = Active
  /\ pc' = "action"
  /\ UNCHANGED <<g, action, starting, update, app, stray>>

\* What a streaming upload finds: an update in progress is aborted.
StreamStart(u) == IF g.phase # "READY" THEN Aborted(u) ELSE u

\* The old way to upload, the whole image in one request to /update, in any phase.
StreamImage ==
  /\ pc = "client"
  /\ g' = [g EXCEPT !.phase = "COMPLETE", !.session = 0]
  /\ update' = [running |-> FALSE, image |-> Image(CHUNKS), boot |-> TRUE]
  /\ action' = "REBOOT_SUCCESS"
  /\ stray' = FALSE
  /\ timer' = Active
  /\ pc' = "action"
  /\ UNCHANGED <<chunk, starting, app>>

\* It fails at once or after some bytes.  A restart that is pending stays so.
StreamFails ==
  /\ pc = "client"
  /\ g' = setErrorState(g)
  /\ \/ update' = StreamStart(update)
     \/ \E k \in 0 .. CHUNKS : update' = [update EXCEPT !.running = FALSE, !.image = Image(k)]
  /\ stray' = TRUE
  /\ timer' = Active
  /\ pc' = "action"
  /\ UNCHANGED <<chunk, action, starting, app>>

\* A POST to /update that is no multipart form: the upload handler is not called, and
\* the handler of the request finds no error and takes that for success.  In the phase
\* ERROR, the only one in which the library remembers an error, it answers with it.
UpdateWithoutImage ==
  /\ pc = "client" /\ g.phase # "ERROR"
  /\ g' = [g EXCEPT !.phase = "COMPLETE"]
  /\ action' = "REBOOT_SUCCESS"
  /\ stray' = TRUE
  /\ pc' = "action"
  /\ UNCHANGED <<chunk, starting, update, timer, app>>

-----------------------------------------------------------------------------
(* The pending action *)

NoAction ==
  /\ pc = "action" /\ action = "NONE"
  /\ pc' = "chunk"
  /\ UNCHANGED <<g, chunk, action, starting, update, timer, app, stray>>

\* resetFlasherState
AbortReset ==
  /\ pc = "action" /\ action = "ABORT_RESET"
  /\ g' = ResetState /\ chunk' = resetPendingChunk
  /\ action' = "NONE" /\ starting' = 0
  /\ update' = Aborted(update)
  /\ timer' = {} /\ stray' = FALSE
  /\ pc' = "chunk"
  /\ UNCHANGED app

NewSession(s) ==
  [phase |-> transitionPhase(transitionPhase(g.phase, "ERASING"), "RECEIVING"),
   session |-> s, last |-> -1]

\* Update.begin erases the partition; it fails when an update is in progress.
StartSession ==
  /\ pc = "action" /\ action = "START_SESSION"
  /\ action' = "NONE" /\ starting' = 0 /\ timer' = {} /\ stray' = FALSE
  /\ chunk' = resetPendingChunk
  /\ \/ /\ ~update.running
        /\ update' = [update EXCEPT !.running = TRUE, !.image = <<>>]
        /\ g' = NewSession(starting)
     \/ /\ update.running \/ "flash" \in Faults
        /\ g' = [ResetState EXCEPT !.phase = "ERROR"]
        /\ UNCHANGED update
  /\ pc' = "chunk"
  /\ UNCHANGED app

RebootSuccess ==
  /\ pc = "action" /\ action = "REBOOT_SUCCESS"
  /\ Restart

-----------------------------------------------------------------------------
(* processPendingChunk *)

\* No chunk, or one whose upload is over.
NoChunk ==
  /\ pc = "chunk"
  /\ chunk.state # "QUEUED" \/ g.phase # "RECEIVING"
  /\ chunk' = IF chunk.state = "QUEUED" THEN resetPendingChunk ELSE chunk
  /\ pc' = "watch"
  /\ UNCHANGED <<g, action, starting, update, timer, app, stray>>

Writable == pc = "chunk" /\ chunk.state = "QUEUED" /\ g.phase = "RECEIVING"

WriteFails ==
  /\ Writable
  /\ ~update.running \/ Len(update.image) >= CHUNKS \/ "flash" \in Faults
  /\ g' = setErrorState(g)
  /\ update' = Aborted(update)
  /\ chunk' = [chunk EXCEPT !.state = "ERROR"]
  /\ pc' = "watch"
  /\ UNCHANGED <<action, starting, timer, app, stray>>

\* Mutant: the buffer is not given back.
ChunkWritten_StaysQueued == chunk

ChunkWritten == resetPendingChunk

\* Mutant: off by one.
IsLast_Early(index) == index = CHUNKS - 2

IsLast(index) == index = CHUNKS - 1

WriteChunk ==
  /\ Writable /\ update.running /\ Len(update.image) < CHUNKS
  /\ ~IsLast(chunk.index)
  /\ update' = [update EXCEPT !.image = Append(update.image, chunk.index)]
  /\ g' = [g EXCEPT !.last = chunk.index]
  /\ chunk' = ChunkWritten
  /\ timer' = timer \ {"stalled"}
  /\ pc' = "watch"
  /\ UNCHANGED <<action, starting, app, stray>>

\* The last chunk: Update.end(true) makes the partition the one to start from.
WriteLastChunk ==
  /\ Writable /\ update.running /\ Len(update.image) < CHUNKS
  /\ IsLast(chunk.index)
  /\ LET image == Append(update.image, chunk.index)
         verifying == transitionPhase(g.phase, "VERIFYING")
     IN  \/ /\ update' = [running |-> FALSE, image |-> image, boot |-> TRUE]
            /\ g' = [g EXCEPT !.phase = transitionPhase(verifying, "COMPLETE"),
                              !.last = chunk.index]
            /\ action' = "REBOOT_SUCCESS"
         \/ /\ update' = [update EXCEPT !.running = FALSE, !.image = image]
            /\ g' = setErrorState([g EXCEPT !.last = chunk.index])
            /\ UNCHANGED action
  /\ chunk' = ChunkWritten
  /\ timer' = timer \ {"stalled"}
  /\ pc' = "watch"
  /\ UNCHANGED <<starting, app, stray>>

-----------------------------------------------------------------------------
(* Watchdogs *)

\* Mutant: an app that asks for /status keeps the session alive.
SessionOver_QuietOnly == "quiet" \in timer

\* No request for 30 s, or no chunk for PROGRESS_TIMEOUT_MS.
SessionOver == timer \cap {"quiet", "stalled"} # {}

SessionTimeout ==
  /\ pc = "watch" /\ g.phase = "RECEIVING" /\ SessionOver
  /\ g' = setErrorState(g)
  /\ update' = Aborted(update)
  /\ chunk' = resetPendingChunk
  /\ pc' = "client"
  /\ UNCHANGED <<action, starting, timer, app, stray>>

BatteryDropped ==
  /\ pc = "watch" /\ g.phase = "RECEIVING" /\ ~SessionOver
  /\ "battery" \in Faults
  /\ g' = setErrorState(g)
  /\ update' = Aborted(update)
  /\ pc' = "client"
  /\ UNCHANGED <<chunk, action, starting, timer, app, stray>>

IdleOver == g.phase = "READY" /\ "idle" \in timer

IdleRestart ==
  /\ pc = "watch" /\ IdleOver
  /\ Restart

\* None of them bites.
WatchdogsPass ==
  /\ pc = "watch"
  /\ ~(g.phase = "RECEIVING" /\ SessionOver) /\ ~IdleOver
  /\ pc' = "client"
  /\ UNCHANGED <<g, chunk, action, starting, update, timer, app, stray>>

-----------------------------------------------------------------------------
(* Environment *)

TimePasses(t) ==
  /\ pc = "client" /\ t \notin timer
  /\ t = "idle" => "quiet" \in timer
  /\ timer' = timer \cup {t}
  /\ UNCHANGED <<g, chunk, action, starting, update, pc, app, stray>>

PowerLoss ==
  /\ "power" \in Faults /\ pc # "off"
  /\ Restart

-----------------------------------------------------------------------------
Init ==
  /\ g = [phase |-> "INIT", session |-> 0, last |-> -1]
  /\ chunk = resetPendingChunk
  /\ action = "NONE" /\ starting = 0
  /\ update = [running |-> FALSE, image |-> <<>>, boot |-> FALSE]
  /\ timer = {} /\ pc = "start"
  /\ app = [session |-> 0, next |-> 0] /\ stray = FALSE

Startup == StartFails \/ CheckIdleVoltage \/ StartWifi \/ CheckLoadVoltage

Requests ==
  \/ Status \/ HandleStart \/ HandleAbort
  \/ RefuseChunk \/ QueueChunk \/ SpoilSession \/ DropChunk
  \/ StreamImage \/ StreamFails \/ UpdateWithoutImage

Loop ==
  \/ NoRequest
  \/ NoAction \/ AbortReset \/ StartSession \/ RebootSuccess
  \/ NoChunk \/ WriteFails \/ WriteChunk \/ WriteLastChunk
  \/ SessionTimeout \/ BatteryDropped \/ IdleRestart \/ WatchdogsPass

Time == \E t \in Timers : TimePasses(t)

Next == Startup \/ Requests \/ Loop \/ Time \/ PowerLoss

Spec == Init /\ [][Next]_vars

\* run goes on and time passes; the app may be silent for ever.
FairSpec ==
  Spec /\ WF_vars(Startup) /\ WF_vars(Loop) /\ \A t \in Timers : SF_vars(TimePasses(t))

-----------------------------------------------------------------------------
(* Properties *)

\* Every variable has its type, and the app sees no phase that is passed through.
TypeOK ==
  /\ g \in State /\ chunk \in PendingChunk /\ action \in Actions
  /\ starting \in Sessions /\ update \in UpdateState /\ timer \subseteq Timers
  /\ pc \in {"start", "wifi", "load", "client", "action", "chunk", "watch", "off"}
  /\ app \in [session : Sessions, next : 0 .. CHUNKS] /\ stray \in BOOLEAN
  /\ pc = "client" => g.phase \in {"READY", "RECEIVING", "COMPLETE", "ERROR"}

\* However often the app repeats a chunk because an answer was lost, and whatever
\* became of earlier uploads, the partition holds the chunks of this one, each once
\* and in order, although the handler accepts any index above the last one.
ChunksInSequence ==
  g.phase = "RECEIVING" => update.image = Image(Len(update.image))

\* From the moment at which the flasher reports success until it restarts, the
\* partition that it will start from holds the whole image: the last chunk, by its
\* number, is the last that was missing, and nothing that is served or written while
\* the restart is pending changes that.  The exception are requests to /update: one
\* without an image is taken for success, and one that fails while the restart is
\* pending leaves part of an image behind.
WholeImage ==
  (g.phase = "COMPLETE" \/ action = "REBOOT_SUCCESS") /\ ~stray =>
    update.boot /\ update.image = Image(CHUNKS)

\* A chunk that the app has an answer for is in the partition, so that the upload
\* can go on: there is always a chunk that the flasher would take.
UploadCanGoOn ==
  pc = "client" /\ g.phase = "RECEIVING" =>
    /\ chunk.state = "IDLE" /\ update.running
    /\ g.session = app.session => app.next \in {g.last, g.last + 1}

\* No upload goes on for ever, whatever the app does: polling /status, repeating
\* chunks that were written or sending nothing.  And a flasher that gets no requests
\* does not stay ready, or at success, for ever: it restarts.
UploadEnds ==
  /\ g.phase = "RECEIVING" ~> g.phase # "RECEIVING" \/ pc = "off"
  /\ []<><<Requests>>_vars \/ ~<>[](g.phase \in {"READY", "COMPLETE"} /\ pc # "off")

\* The documents: an upload that stalls ends flasher mode with a reboot.  The code's
\* watchdog only sets the phase ERROR, which has no timeout: a device whose app has
\* gone away stays in flasher mode for ever.
StalledUploadRestarts ==
  []<><<Requests>>_vars \/ (g.phase = "RECEIVING" /\ "stalled" \in timer ~> pc = "off")
=============================================================================

----------------------------- MODULE OtaTransfer -----------------------------
(***************************************************************************)
(* An update over BLE (src/src/Services/OTAManager.cpp): START, DATA,      *)
(* COMMIT and ABORT, handled in the NimBLE host task, and the timeout in   *)
(* the loop task, which calls handleAbort while the host task may be in    *)
(* the middle of a handler: no mutex guards the members.                   *)
(*                                                                         *)
(* Every image has CHUNKS chunks; the running CRC is the sequence of the   *)
(* chunks it was computed over, and the announced one stands for the whole *)
(* image.  The Update library, the link and the app are external: a call   *)
(* of the library is one step, the link loses messages, the app sends what *)
(* the answers ask for, repeats it, and may disappear.                     *)
(***************************************************************************)
EXTENDS Naturals, Sequences

CONSTANTS
  CHUNKS,    \* chunks of an image
  Images,    \* the images the app may send
  Rejected,  \* the ones of an older version, or too large for the partition
  Damaged,   \* the ones whose file differs from the announced CRC
  None       \* no image, no message, no update in progress

ASSUME OtaAssumption ==
  /\ CHUNKS \in Nat \ {0}
  /\ Rejected \subseteq Images /\ Damaged \subseteq Images /\ None \notin Images

VARIABLES
  ota,       \* OTAManager: _state, the announced image, _receivedChunks, _runningCRC
  late,      \* OTA_CHUNK_TIMEOUT_MS have passed since _lastChunkTime
  upd,       \* external: the Update library: the chunks written, None if not running
  boot,      \* external: what the next boot starts: chunks, or None for the old image
  host,      \* where the host task is, and in which message
  loop,      \* where the loop task is; skew: _lastChunkTime has overtaken its millis
  up, down,  \* external: the message and the answer on their way
  app,       \* external: what the app is doing, with which image, and the next chunk
  disturbed, \* history: the app's transfer was aborted, cut off or lost a write
  raced      \* history: a START was accepted in the middle of the loop task's abort

vars == <<ota, late, upd, boot, host, loop, up, down, app, disturbed, raced>>

-----------------------------------------------------------------------------
(* Data *)

OTAState == {"IDLE", "RECEIVING", "VALIDATING", "COMMITTING", "REBOOTING", "FAILED"}

Bad == <<None, 0>>

\* What the file of an image holds, and what its CRC was computed over.
Content(i, index) == IF i \in Damaged /\ index = 0 THEN Bad ELSE <<i, index>>

Whole(i) == [k \in 1 .. CHUNKS |-> <<i, k - 1>>]

Chunk == (Images \X (0 .. CHUNKS - 1)) \cup {Bad}

Ota == [state : OTAState, image : Images \cup {None}, received : 0 .. CHUNKS,
        crc : Seq(Chunk)]

Message ==
  [type : {"start"}, image : Images]
    \cup [type : {"data"}, image : Images, index : 0 .. CHUNKS - 1]
    \cup [type : {"commit", "abort"}]

Answer == [type : {"start", "commit", "abort"}, ok : BOOLEAN]
            \cup [type : {"data"}, ok : BOOLEAN, index : Nat]

HostAt == {"idle", "begin", "begun", "write", "count", "validate", "end", "rebooting"}

LoopAt == {"none", "clock", "abort", "idle", "clear", "sleep"}

InitOta == [state |-> "IDLE", image |-> None, received |-> 0, crc |-> <<>>]

IdleHost == [at |-> "idle", msg |-> None]

AtTop == [at |-> "none", skew |-> FALSE]

\* sendStatus with the ACK or NACK of the message, and sendChunkAck.
Status(type, ok) == down' = [type |-> type, ok |-> ok]

ChunkAck(index, ok) == down' = [type |-> "data", ok |-> ok, index |-> index]

\* _lastChunkTime = millis
ClockTaken == late' = FALSE /\ loop' = [loop EXCEPT !.skew = (loop.at = "clock")]

-----------------------------------------------------------------------------
(* Host task: handleStart *)

Received(type) ==
  /\ host.at = "idle" /\ up # None /\ up.type = type
  /\ up' = None

Done == host' = IdleHost

Goto(step) == host' = [host EXCEPT !.at = step]

Startable == ota.state = "IDLE"

\* The members are set before the version, the size and the partition are checked.
StartRefused ==
  /\ Received("start")
  /\ ~Startable \/ up.image \in Rejected
  /\ ota' = IF Startable THEN [ota EXCEPT !.image = up.image] ELSE ota
  /\ Status("start", FALSE)
  /\ UNCHANGED <<late, upd, boot, host, loop, app, disturbed, raced>>

StartAccepted ==
  /\ Received("start")
  /\ Startable /\ up.image \notin Rejected
  /\ ota' = [ota EXCEPT !.image = up.image]
  /\ host' = [at |-> "begin", msg |-> up]
  /\ UNCHANGED <<late, upd, boot, loop, down, app, disturbed, raced>>

\* Update.begin fails when an update is running, ...
BeginFails ==
  /\ host.at = "begin" /\ upd # None
  /\ Status("start", FALSE) /\ Done
  /\ UNCHANGED <<ota, late, upd, boot, loop, up, app, disturbed, raced>>

\* Mutant: the running CRC of an aborted transfer is not started anew.
NewTransfer_OldCrc(o) == [o EXCEPT !.state = "RECEIVING", !.received = 0]

NewTransfer(o) == [o EXCEPT !.state = "RECEIVING", !.received = 0, !.crc = <<>>]

\* ... and otherwise the device is ready for the first chunk, ...
Begin ==
  /\ host.at = "begin" /\ upd = None
  /\ upd' = <<>>
  /\ ota' = NewTransfer(ota)
  /\ raced' = (raced \/ loop.at \in {"abort", "idle", "clear"})
  /\ Goto("begun")
  /\ UNCHANGED <<late, boot, loop, up, down, app, disturbed>>

\* ... but until it has taken the time, the timeout is that of an earlier transfer.
Begun ==
  /\ host.at = "begun"
  /\ ClockTaken
  /\ Status("start", TRUE) /\ Done
  /\ UNCHANGED <<ota, upd, boot, up, app, disturbed, raced>>

-----------------------------------------------------------------------------
(* Host task: handleData *)

\* Mutant: the answer repeats the number of the chunk instead of the one expected.
ExpectedIndex_Same(index) == index

ExpectedIndex(index) == IF ota.state = "RECEIVING" THEN ota.received ELSE index

DataRefused ==
  /\ Received("data")
  /\ ota.state # "RECEIVING" \/ up.index # ota.received
  /\ ChunkAck(ExpectedIndex(up.index), FALSE)
  /\ UNCHANGED <<ota, late, upd, boot, host, loop, app, disturbed, raced>>

DataAccepted ==
  /\ Received("data")
  /\ ota.state = "RECEIVING" /\ up.index = ota.received
  /\ host' = [at |-> "write", msg |-> up]
  /\ UNCHANGED <<ota, late, upd, boot, loop, down, app, disturbed, raced>>

\* Update.write ends the update when the flash cannot be written or the chunk does
\* not fit; without an update it fails.  The transfer stays as it is.
WriteFails ==
  /\ host.at = "write"
  /\ upd' = None
  /\ disturbed' = TRUE
  /\ ChunkAck(host.msg.index, FALSE) /\ Done
  /\ UNCHANGED <<ota, late, boot, loop, up, app, raced>>

Write ==
  /\ host.at = "write" /\ upd # None /\ Len(upd) < CHUNKS
  /\ upd' = Append(upd, Content(host.msg.image, host.msg.index))
  /\ Goto("count")
  /\ UNCHANGED <<ota, late, boot, loop, up, down, app, disturbed, raced>>

CountChunk ==
  /\ host.at = "count"
  /\ ota' = [ota EXCEPT !.received = @ + 1,
                        !.crc = Append(@, Content(host.msg.image, host.msg.index))]
  /\ ClockTaken
  /\ ChunkAck(host.msg.index, TRUE) /\ Done
  /\ UNCHANGED <<upd, boot, up, app, disturbed, raced>>

-----------------------------------------------------------------------------
(* Host task: handleCommit and handleAbort *)

CommitRefused ==
  /\ Received("commit") /\ ota.state # "RECEIVING"
  /\ Status("commit", FALSE)
  /\ UNCHANGED <<ota, late, upd, boot, host, loop, app, disturbed, raced>>

CommitAccepted ==
  /\ Received("commit") /\ ota.state = "RECEIVING"
  /\ ota' = [ota EXCEPT !.state = "VALIDATING"]
  /\ host' = [at |-> "validate", msg |-> up]
  /\ UNCHANGED <<late, upd, boot, loop, down, app, disturbed, raced>>

\* Mutant: only the size is compared.
Valid_SizeOnly == ota.received = CHUNKS

Valid == ota.received = CHUNKS /\ ota.crc = Whole(ota.image)

ValidationFails ==
  /\ host.at = "validate" /\ ~Valid
  /\ ota' = [ota EXCEPT !.state = "FAILED"]
  /\ upd' = None
  /\ Status("commit", FALSE) /\ Done
  /\ UNCHANGED <<late, boot, loop, up, app, disturbed, raced>>

Validated ==
  /\ host.at = "validate" /\ Valid
  /\ ota' = [ota EXCEPT !.state = "COMMITTING"]
  /\ Goto("end")
  /\ UNCHANGED <<late, upd, boot, loop, up, down, app, disturbed, raced>>

\* Update.end fails without an update, and when the image cannot be activated.
EndFails ==
  /\ host.at = "end"
  /\ ota' = [ota EXCEPT !.state = "FAILED"]
  /\ upd' = None
  /\ Status("commit", FALSE) /\ Done
  /\ UNCHANGED <<late, boot, loop, up, app, disturbed, raced>>

\* The image is the next to boot; the restart comes three seconds later.
End ==
  /\ host.at = "end" /\ upd # None
  /\ boot' = upd /\ upd' = None
  /\ ota' = [ota EXCEPT !.state = "REBOOTING"]
  /\ Status("commit", TRUE) /\ Goto("rebooting")
  /\ UNCHANGED <<late, loop, up, app, disturbed, raced>>

Abort ==
  /\ Received("abort")
  /\ IF ota.state = "IDLE" THEN UNCHANGED <<ota, upd>>
     ELSE upd' = None /\ ota' = [ota EXCEPT !.state = "IDLE", !.received = 0]
  /\ Status("abort", TRUE)
  /\ UNCHANGED <<late, boot, host, loop, app, disturbed, raced>>

-----------------------------------------------------------------------------
(* Loop task: update, and the way to deep sleep *)

\* checkTimeout takes the time ...
CheckTimeout ==
  /\ loop.at = "none" /\ ota.state = "RECEIVING"
  /\ loop' = [at |-> "clock", skew |-> FALSE]
  /\ UNCHANGED <<ota, late, upd, boot, host, up, down, app, disturbed, raced>>

\* Mutant: nothing is ever too late.
TimedOut_Never == FALSE

\* ... and subtracts _lastChunkTime, which may be later by now: the difference is
\* unsigned.
TimedOut == late \/ loop.skew

Compare ==
  /\ loop.at = "clock"
  /\ loop' = [at |-> IF TimedOut THEN "abort" ELSE "none", skew |-> FALSE]
  /\ UNCHANGED <<ota, late, upd, boot, host, up, down, app, disturbed, raced>>

\* Mutant: handleAbort leaves the Update library alone.
AbortUpdate_Forgotten == UNCHANGED upd

AbortUpdate == upd' = None

\* handleAbort: Update.abort, ...
LoopAborts ==
  /\ loop.at = "abort"
  /\ IF ota.state = "IDLE" THEN loop' = AtTop /\ UNCHANGED <<upd, disturbed>>
     ELSE loop' = [loop EXCEPT !.at = "idle"] /\ AbortUpdate /\ disturbed' = TRUE
  /\ UNCHANGED <<ota, late, boot, host, up, down, app, raced>>

\* ... the state, ...
LoopSetsIdle ==
  /\ loop.at = "idle"
  /\ ota' = [ota EXCEPT !.state = "IDLE"]
  /\ loop' = [loop EXCEPT !.at = "clear"]
  /\ disturbed' = TRUE
  /\ UNCHANGED <<late, upd, boot, host, up, down, app, raced>>

\* ... the counters, and a status that the app has not asked for.
LoopClears ==
  /\ loop.at = "clear"
  /\ ota' = [ota EXCEPT !.received = 0]
  /\ loop' = AtTop
  /\ disturbed' = TRUE
  /\ UNCHANGED <<late, upd, boot, host, up, down, app, raced>>

\* canSafelyEnterSleep asks isInProgress; the shutdown takes a while ...
CanSleep ==
  /\ loop.at = "none" /\ ota.state # "RECEIVING"
  /\ loop' = [loop EXCEPT !.at = "sleep"]
  /\ UNCHANGED <<ota, late, upd, boot, host, up, down, app, disturbed, raced>>

SleepAborted ==
  /\ loop.at = "sleep"
  /\ loop' = AtTop
  /\ UNCHANGED <<ota, late, upd, boot, host, up, down, app, disturbed, raced>>

\* RAM is lost, and with it the update.
Reset ==
  /\ ota' = InitOta /\ late' = FALSE /\ upd' = None
  /\ host' = IdleHost /\ loop' = AtTop
  /\ up' = None /\ down' = None
  /\ disturbed' = TRUE /\ raced' = FALSE
  /\ UNCHANGED <<boot, app>>

\* ... and nobody looks again.
DeepSleep == loop.at = "sleep" /\ Reset

Restart == host.at = "rebooting" /\ Reset

\* A crash or a loss of power at any time.
PowerLoss == ota # InitOta /\ Reset

-----------------------------------------------------------------------------
(* Time, the link and the app *)

TimePasses ==
  /\ ~late /\ ota.state = "RECEIVING"
  /\ late' = TRUE
  /\ UNCHANGED <<ota, upd, boot, host, loop, up, down, app, disturbed, raced>>

Lose ==
  /\ \/ up # None /\ up' = None /\ UNCHANGED down
     \/ down # None /\ down' = None /\ UNCHANGED up
  /\ UNCHANGED <<ota, late, upd, boot, host, loop, app, disturbed, raced>>

NoTransfer == [phase |-> "none", image |-> None, next |-> 0]

\* A new transfer.  Its START has a number of its own, so that no answer to an
\* earlier one is taken for its, and it comes after what was sent before: a new
\* connection is opened by the host task, too.
AppBegins(i) ==
  /\ app.phase = "none" /\ up = None /\ host.at = "idle"
  /\ app' = [phase |-> "starting", image |-> i, next |-> 0]
  /\ down' = None /\ disturbed' = FALSE
  /\ UNCHANGED <<ota, late, upd, boot, host, loop, up, raced>>

AppMessage ==
  CASE app.phase = "starting"   -> [type |-> "start", image |-> app.image]
    [] app.phase = "sending"    -> [type |-> "data", image |-> app.image, index |-> app.next]
    [] app.phase = "committing" -> [type |-> "commit"]

AppSends ==
  /\ app.phase # "none" /\ up = None
  /\ up' = AppMessage
  /\ UNCHANGED <<ota, late, upd, boot, host, loop, down, app, disturbed, raced>>

\* The next chunk: after the acknowledged one, or the one the device asks for.
Asked(a) == IF a.ok THEN a.index + 1 ELSE a.index

AppAfter(a) ==
  CASE a.type = "start" /\ app.phase = "starting" ->
         IF a.ok THEN [app EXCEPT !.phase = "sending"] ELSE NoTransfer
    [] a.type = "data" /\ app.phase = "sending" ->
         IF Asked(a) < CHUNKS THEN [app EXCEPT !.next = Asked(a)]
         ELSE [app EXCEPT !.phase = "committing", !.next = 0]
    [] a.type = "commit" /\ app.phase = "committing" -> NoTransfer
    [] OTHER -> app

AppReceives ==
  /\ down # None
  /\ app' = AppAfter(down)
  /\ down' = None
  /\ UNCHANGED <<ota, late, upd, boot, host, loop, up, disturbed, raced>>

\* The app gives up, with or without an ABORT.
AppAborts ==
  /\ up = None
  /\ up' = [type |-> "abort"]
  /\ app' = NoTransfer
  /\ disturbed' = TRUE
  /\ UNCHANGED <<ota, late, upd, boot, host, loop, down, raced>>

AppDisappears ==
  /\ app.phase # "none"
  /\ app' = NoTransfer
  /\ UNCHANGED <<ota, late, upd, boot, host, loop, up, down, disturbed, raced>>

-----------------------------------------------------------------------------
Init ==
  /\ ota = InitOta /\ late = FALSE /\ upd = None /\ boot = None
  /\ host = IdleHost /\ loop = AtTop /\ up = None /\ down = None
  /\ app = NoTransfer /\ disturbed = FALSE /\ raced = FALSE

HostReceives ==
  \/ StartRefused \/ StartAccepted \/ DataRefused \/ DataAccepted
  \/ CommitRefused \/ CommitAccepted \/ Abort

HostGoesOn ==
  \/ BeginFails \/ Begin \/ Begun \/ WriteFails \/ Write \/ CountChunk
  \/ ValidationFails \/ Validated \/ EndFails \/ End \/ Restart

LoopGoesOn == Compare \/ LoopAborts \/ LoopSetsIdle \/ LoopClears \/ SleepAborted \/ DeepSleep

App == (\E i \in Images : AppBegins(i)) \/ AppAborts \/ AppDisappears

Next ==
  \/ HostReceives \/ HostGoesOn \/ CheckTimeout \/ LoopGoesOn \/ CanSleep
  \/ PowerLoss \/ TimePasses \/ Lose \/ App \/ AppSends \/ AppReceives

\* Tasks run on, loop calls update again and again, and time passes; nothing is
\* assumed of the app and the link.
Fairness ==
  /\ WF_vars(HostGoesOn) /\ WF_vars(LoopGoesOn) /\ SF_vars(CheckTimeout)
  /\ WF_vars(TimePasses)

Spec == Init /\ [][Next]_vars

FairSpec == Spec /\ Fairness

-----------------------------------------------------------------------------
(* Properties *)

\* Every variable has its type, and the CRC runs over no more than an image.
TypeOK ==
  /\ ota \in Ota /\ Len(ota.crc) <= CHUNKS /\ late \in BOOLEAN
  /\ upd \in Seq(Chunk) \cup {None} /\ boot \in Seq(Chunk) \cup {None}
  /\ host \in [at : HostAt, msg : Message \cup {None}]
  /\ loop \in [at : LoopAt, skew : BOOLEAN]
  /\ up \in Message \cup {None} /\ down \in Answer \cup {None}
  /\ app \in [phase : {"none", "starting", "sending", "committing"},
              image : Images \cup {None}, next : 0 .. CHUNKS - 1]
  /\ disturbed \in BOOLEAN /\ raced \in BOOLEAN

\* What handleCommit makes the next image to boot is the announced one, whole, in
\* order and once, although the loop task may abort in the middle of every handler,
\* clear the counters of a transfer that has just begun, or go to sleep.
CommittedIsWhole ==
  [][boot' # boot => \E i \in Images \ Rejected : boot' = Whole(i)]_vars

\* When no transfer is in progress the Update library is free for the next one: no
\* abort, timeout, failed write or failed commit leaves it running, which would refuse
\* every START until a reboot.  The exception is a START that is accepted while the
\* loop task is in the middle of handleAbort.
IdleMeansFree ==
  ota.state \in {"IDLE", "FAILED"} /\ host.at = "idle" /\ loop.at \in {"none", "clock", "sleep"}
    => upd = None \/ raced

\* A transfer ends, committed, failed or aborted, whatever the app does and although
\* every chunk starts the timeout anew: it does not keep the device awake for ever.
TransferEnds == ota.state = "RECEIVING" ~> ota.state # "RECEIVING"

\* The answer to a chunk tells the app which one to send next, the one the device
\* waits for, when the chunk was repeated because an answer was lost, too: otherwise
\* the same chunk would be sent and refused until the timeout.  The exception is a
\* transfer that was aborted, cut off or lost a write.
AnswerNamesNext ==
  app.phase = "sending" /\ ~disturbed /\ host.at = "idle" /\ down # None /\ down.type = "data"
    => Asked(down) = ota.received
=============================================================================

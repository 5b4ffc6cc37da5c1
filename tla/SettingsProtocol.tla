--------------------------- MODULE SettingsProtocol ---------------------------
(***************************************************************************)
(* SET_CONFIG (handleSetConfig in src/src/Services/ProtocolHandler.cpp) on *)
(* top of ConfigService: the messages of the app that change a setting,    *)
(* and their ACKs.                                                         *)
(*                                                                         *)
(* The app and the link are external.  The app sends one setting at a time *)
(* with ascending sequence numbers, repeats it until it is acknowledged,   *)
(* and may give up; the link keeps the order of messages and may lose      *)
(* them.                                                                   *)
(***************************************************************************)
EXTENDS ConfigService, SequencesExt

CONSTANTS
  TooHigh,   \* a sensitivity over 100
  SEQ_SPACE, \* sequence numbers, 2^16 in the code
  MaxGap,    \* bound: numbers from one SET_CONFIG to the next
  MaxFrames, \* bound: messages on the link
  None       \* no message, no value

ASSUME ProtocolAssumption ==
  /\ TooHigh \notin Sensitivities
  /\ SEQ_SPACE \in Nat \ {0} /\ MaxGap \in Nat \ {0} /\ MaxFrames \in Nat \ {0}
  /\ None \notin [seq : 0 .. SEQ_SPACE - 1, key : Keys,
                  value : Sensitivities \cup Brightnesses \cup {TooHigh}]

VARIABLES
  lastSeq, \* _lastConfigSeqNum, -1 until _configSeqInitialized
  handled, \* the message that the host task is applying
  up,      \* external: messages on their way, in order
  ack,     \* external: the ACK that the app waits for is on its way
  app      \* external: the app: seq, the last number it used; used, how many since
           \* an ACK; waits, the message without an ACK; acked, the settings that were
           \* acknowledged and not lost with the RAM since

linkVars == <<lastSeq, handled, up, ack, app>>
allVars == <<vars, linkVars>>

-----------------------------------------------------------------------------
Seqs == 0 .. SEQ_SPACE - 1

SetConfigOf(seq) ==
  { m \in [seq : {seq}, key : Keys, value : Sensitivities \cup Brightnesses \cup {TooHigh}] :
      m.value \in Values(m.key) \/ (m.key = "sensitivity" /\ m.value = TooHigh) }

SetConfig == UNION {SetConfigOf(seq) : seq \in Seqs}

NothingAcked == [key \in Keys |-> None]

\* Mutant: the numbers are compared as they are.
Stale_Unsigned(seq) == lastSeq # -1 /\ seq <= lastSeq

\* int16_t(seq - last) <= 0: not ahead, or ahead by half of the numbers or more.
Stale(seq) ==
  /\ lastSeq # -1
  /\ LET diff == (seq - lastSeq) % SEQ_SPACE IN diff = 0 \/ 2 * diff >= SEQ_SPACE

Accepted(m) == m.value # TooHigh

\* An ACK of a number that the app does not wait for any more has no effect.
sendAck(seq) == ack' = (ack \/ (app.waits # None /\ app.waits.seq = seq))

-----------------------------------------------------------------------------
(* handleSetConfig *)

Received(m) ==
  /\ running /\ task["host"].at = "idle"
  /\ up # <<>> /\ m = Head(up) /\ up' = Tail(up)

\* A message it has seen, or takes for one: it is acknowledged.
DropStale(m) ==
  /\ Received(m) /\ Stale(m.seq)
  /\ sendAck(m.seq)
  /\ UNCHANGED <<vars, lastSeq, handled, app>>

\* The number of a setting that is refused is not remembered.
Refuse(m) ==
  /\ Received(m) /\ ~Stale(m.seq) /\ ~Accepted(m)
  /\ UNCHANGED <<vars, lastSeq, handled, ack, app>>

\* The setting has the value already.
Keep(m) ==
  /\ Received(m) /\ ~Stale(m.seq) /\ Accepted(m)
  /\ config[m.key] = m.value
  /\ lastSeq' = m.seq
  /\ sendAck(m.seq)
  /\ UNCHANGED <<vars, handled, app>>

Take(m) ==
  /\ Received(m) /\ ~Stale(m.seq) /\ Accepted(m)
  /\ ChangeSetting(m.key, m.value)
  /\ handled' = m
  /\ UNCHANGED <<lastSeq, ack, app>>

Finish ==
  /\ ApplySetting
  /\ lastSeq' = handled.seq
  /\ sendAck(handled.seq)
  /\ handled' = None
  /\ UNCHANGED <<up, app>>

-----------------------------------------------------------------------------
(* The rest of the device *)

InBackground == Background /\ UNCHANGED linkVars

\* External: the app after a restart of the device.  With lastSeq gone any number is
\* new, so the last one the app has used may be called 0.
AfterRestart(a) ==
  [a EXCEPT !.seq = 0, !.used = 0,
            !.waits = IF @ = None THEN None ELSE [@ EXCEPT !.seq = 0],
            !.acked = IF dirty THEN NothingAcked ELSE @]

\* The connection is gone; what was not saved is lost.
DeviceRestarts ==
  /\ Restart
  /\ lastSeq' = -1 /\ handled' = None /\ up' = <<>> /\ ack' = FALSE
  /\ app' = AfterRestart(app)

-----------------------------------------------------------------------------
(* The app and the link *)

\* One setting at a time; other messages use some of the numbers in between, but
\* less than half of all numbers between two settings.
AppSends(m, gap) ==
  /\ app.waits = None /\ Len(up) < MaxFrames
  /\ 2 * (app.used + gap) < SEQ_SPACE
  /\ app' = [app EXCEPT !.seq = m.seq, !.used = @ + gap, !.waits = m,
                        !.acked[m.key] = None]
  /\ up' = Append(up, m)
  /\ UNCHANGED <<vars, lastSeq, handled, ack>>

AppRepeats ==
  /\ app.waits # None /\ Len(up) < MaxFrames
  /\ up' = Append(up, app.waits)
  /\ UNCHANGED <<vars, lastSeq, handled, ack, app>>

\* The app takes the setting for the device's.
AppAcked ==
  /\ ack
  /\ app' = [app EXCEPT !.waits = None, !.used = 0,
                        !.acked[app.waits.key] = app.waits.value]
  /\ ack' = FALSE
  /\ UNCHANGED <<vars, lastSeq, handled, up>>

\* A NACK, or no more attempts: the app shows the old value again.
AppGivesUp ==
  /\ app.waits # None
  /\ app' = [app EXCEPT !.waits = None]
  /\ ack' = FALSE
  /\ UNCHANGED <<vars, lastSeq, handled, up>>

Lose ==
  /\ \/ up # <<>> /\ up' = Tail(up) /\ UNCHANGED ack
     \/ ack /\ ack' = FALSE /\ UNCHANGED up
  /\ UNCHANGED <<vars, lastSeq, handled, app>>

-----------------------------------------------------------------------------
ProtocolInit ==
  /\ Init
  /\ lastSeq = -1 /\ handled = None /\ up = <<>> /\ ack = FALSE
  /\ app = [seq |-> 0, used |-> 0, waits |-> None, acked |-> NothingAcked]

ProtocolNext ==
  \/ \E m \in Range(up) : DropStale(m) \/ Refuse(m) \/ Keep(m) \/ Take(m)
  \/ Finish \/ InBackground \/ DeviceRestarts
  \/ \E gap \in 1 .. MaxGap : \E m \in SetConfigOf((app.seq + gap) % SEQ_SPACE) : AppSends(m, gap)
  \/ AppRepeats \/ AppAcked \/ AppGivesUp \/ Lose

ProtocolSpec == ProtocolInit /\ [][ProtocolNext]_allVars

-----------------------------------------------------------------------------
(* Properties *)

\* What handleSetConfig has acknowledged is in force, in the settings and in the
\* sensor, as long as the app does not ask for something else, and it still is after
\* a restart unless it was not saved: no repeated message brings an old value back,
\* and none is acknowledged without having been applied.
AckedIsApplied ==
  running =>
    /\ \A key \in Keys : app.acked[key] \in {None, config[key]}
    /\ "sensitivity" \in Keys => app.acked["sensitivity"] \in {None, hal}
=============================================================================

---------------------------- MODULE ConfigProofs ----------------------------
(***************************************************************************)
(* What ConfigService guarantees for all settings, all times and all       *)
(* faults: the flag _dirty can be trusted, whoever skips a write because   *)
(* of it; and what SettingsProtocol, which implements it, adds: a setting  *)
(* that was acknowledged is in force.                                      *)
(***************************************************************************)
EXTENDS SettingsProtocol, TLAPS

\* The default settings are settings, and so is what a boot restores.
LEMMA RestoredType ==
  ASSUME NEW blob \in UserConfig \cup {Unusable}
  PROVE  Restored(blob) \in UserConfig
  BY ConfigAssumption DEF Restored, initUserConfigDefaults, UserConfig

\* Where a task may be.
LEMMA TaskType ==
  ASSUME NEW at \in {"idle", "epoch", "timer"} \cup Keys, NEW now \in 0 .. MaxEpoch
  PROVE  At(at, now) \in TaskState
  BY DEF At, TaskState

LEMMA IdleType == Idle \in TaskState
  BY ConfigAssumption, TaskType DEF Idle

LEMMA InitType == Init => TypeOK
  <1> SUFFICES ASSUME Init PROVE TypeOK
    OBVIOUS
  <1>1. initUserConfigDefaults \in UserConfig
    BY ConfigAssumption DEF initUserConfigDefaults, UserConfig
  <1>2. Idle \in TaskState
    BY IdleType
  <1> QED
    BY <1>1, <1>2, ConfigAssumption DEF Init, TypeOK, Tasks

\* Changes, and the steps that follow them.
LEMMA ChangeType ==
  ASSUME TypeOK,
         \/ \E key \in Keys : \E value \in Values(key) : ChangeSetting(key, value)
         \/ ApplySetting
         \/ \E t \in Tasks : UpdateEpoch(t)
  PROVE  TypeOK'
  <1>0. 0 \in 0 .. MaxEpoch
    BY ConfigAssumption
  <1>1. ASSUME NEW key \in Keys, NEW value \in Values(key), ChangeSetting(key, value)
        PROVE  TypeOK'
    <2>1. config' \in UserConfig
      BY <1>1, ConfigAssumption DEF TypeOK, ChangeSetting, Values, UserConfig
    <2>2. task' \in [Tasks -> TaskState]
      BY <1>0, <1>1, TaskType DEF TypeOK, ChangeSetting, Tasks
    <2> QED
      BY <1>1, <2>1, <2>2 DEF TypeOK, ChangeSetting, Changed
  <1>2. CASE ApplySetting
    <2>1. task' \in [Tasks -> TaskState]
      BY <1>2, IdleType DEF TypeOK, ApplySetting, Tasks
    <2>2. hal' \in Sensitivities
      BY <1>2 DEF TypeOK, ApplySetting, applySensitivityToHal, UserConfig
    <2> QED
      BY <1>2, <2>1, <2>2 DEF TypeOK, ApplySetting, TimerAfter
  <1>3. ASSUME NEW t \in Tasks, NEW now \in 1 .. MaxEpoch, CompareEpoch(t, now)
        PROVE  TypeOK'
    <2>1. now \in 0 .. MaxEpoch
      BY ConfigAssumption
    <2>2. task' \in [Tasks -> TaskState]
      BY <1>3, <2>1, TaskType DEF TypeOK, CompareEpoch
    <2> QED
      BY <1>3, <2>2 DEF TypeOK, CompareEpoch
  <1>4. ASSUME NEW t \in Tasks, SetEpoch(t) PROVE TypeOK'
    <2>1. config' \in UserConfig
      BY <1>4 DEF TypeOK, SetEpoch, UserConfig, TaskState
    <2>2. task' \in [Tasks -> TaskState]
      BY <1>0, <1>4, TaskType DEF TypeOK, SetEpoch
    <2> QED
      BY <1>4, <2>1, <2>2 DEF TypeOK, SetEpoch, Changed
  <1>5. ASSUME NEW t \in Tasks, StartTimer(t) PROVE TypeOK'
    <2>1. task' \in [Tasks -> TaskState]
      BY <1>5, IdleType DEF TypeOK, StartTimer
    <2> QED
      BY <1>5, <2>1 DEF TypeOK, StartTimer, TimerAfter
  <1> QED
    BY <1>1, <1>2, <1>3, <1>4, <1>5 DEF UpdateEpoch

\* writeToNvs keeps the types of what it sets.
LEMMA WriteType ==
  ASSUME TypeOK, writeToNvs
  PROVE  nvs' \in UserConfig \cup {Unusable} /\ dirty' \in BOOLEAN /\ failed' \in BOOLEAN
  BY DEF TypeOK, writeToNvs, DirtyAfter

LEMMA BackgroundType ==
  ASSUME TypeOK, Save \/ PrepareSleep \/ Boot \/ Restart PROVE TypeOK'
  <1>1. CASE commitTimerCallback
    BY <1>1 DEF TypeOK, commitTimerCallback
  <1>2. CASE WorkerWakes
    BY <1>2 DEF TypeOK, WorkerWakes
  <1>3. CASE WorkerSaves
    BY <1>3, WriteType DEF TypeOK, WorkerSaves
  <1>4. CASE BeforeSleep
    BY <1>4 DEF TypeOK, BeforeSleep
  <1>5. CASE StopTimer
    BY <1>5 DEF TypeOK, StopTimer
  <1>6. CASE CheckDirty
    BY <1>6 DEF TypeOK, CheckDirty
  <1>7. CASE FlushWrites
    BY <1>7, WriteType DEF TypeOK, FlushWrites
  <1>8. CASE SleepAborted
    BY <1>8 DEF TypeOK, SleepAborted
  <1>9. CASE Boot
    <2>1. config' \in UserConfig
      BY <1>9, RestoredType DEF TypeOK, Boot
    <2>2. hal' \in Sensitivities
      BY <1>9, <2>1 DEF Boot, UserConfig
    <2>3. nvs' \in UserConfig \cup {Unusable}
      BY <1>9, <2>1 DEF TypeOK, Boot
    <2> QED
      BY <1>9, <2>1, <2>2, <2>3 DEF TypeOK, Boot
  <1>10. CASE Reset
    BY <1>10, IdleType, RestoredType, ConfigAssumption DEF TypeOK, Reset, Restored
  <1> QED
    BY <1>1, <1>2, <1>3, <1>4, <1>5, <1>6, <1>7, <1>8, <1>9, <1>10
    DEF Save, PrepareSleep, Restart, DeepSleep, PowerLoss

\* Every variable of ConfigService keeps its type, for all settings and all faults.
THEOREM TypeCorrect == Spec => []TypeOK
  <1>1. TypeOK /\ [Next]_vars => TypeOK'
    <2> SUFFICES ASSUME TypeOK, [Next]_vars PROVE TypeOK'
      OBVIOUS
    <2>1. CASE UNCHANGED vars
      BY <2>1 DEF TypeOK, vars
    <2> QED
      BY <2>1, ChangeType, BackgroundType DEF Next, Background
  <1> QED
    BY InitType, <1>1, PTL DEF Spec

-----------------------------------------------------------------------------
\* The invariant of the flag: what it says when it is down, and who looks after it
\* while it is up, in the normal case and on the way to deep sleep.
FlagInv == CleanMeansSaved /\ DirtyIsScheduled /\ SleepSaves

LEMMA InitFlag == Init => FlagInv
  BY DEF Init, FlagInv, CleanMeansSaved, DirtyIsScheduled, SleepSaves, running

\* A change raises the flag, and the task that made it goes on to the timer.
LEMMA ChangeFlag ==
  ASSUME TypeOK, FlagInv,
         \/ \E key \in Keys : \E value \in Values(key) : ChangeSetting(key, value)
         \/ ApplySetting
         \/ \E t \in Tasks : UpdateEpoch(t)
  PROVE  FlagInv'
  <1>1. ASSUME NEW t \in Tasks, NEW at \in {"timer"} \cup Keys, Changed, loop' = loop,
               task' = [task EXCEPT ![t] = At(at, 0)]
        PROVE  FlagInv'
    <2>1. task'[t].at = at
      BY <1>1 DEF TypeOK, At
    <2> QED
      BY <1>1, <2>1 DEF TypeOK, FlagInv, CleanMeansSaved, DirtyIsScheduled, SleepSaves,
                        Changed, running
  <1>2. CASE \E key \in Keys : \E value \in Values(key) : ChangeSetting(key, value)
    BY <1>1, <1>2 DEF ChangeSetting, Tasks
  <1>3. ASSUME timer', loop' = loop, nvs' = nvs, config' = config, dirty' = dirty,
               late' = late, failed' = failed
        PROVE  FlagInv'
    BY <1>3 DEF FlagInv, CleanMeansSaved, DirtyIsScheduled, SleepSaves, running, Restored
  <1>4. CASE ApplySetting
    BY <1>3, <1>4 DEF ApplySetting, TimerAfter
  <1>5. ASSUME NEW t \in Tasks, NEW now \in 1 .. MaxEpoch, CompareEpoch(t, now)
        PROVE  FlagInv'
    <2>1. \A u \in Tasks : task[u].at \in {"timer"} \cup Keys => task'[u] = task[u]
      BY <1>5, ConfigAssumption DEF TypeOK, CompareEpoch
    <2> QED
      BY <1>5, <2>1 DEF CompareEpoch, FlagInv, CleanMeansSaved, DirtyIsScheduled,
                        SleepSaves, running, Restored
  <1>6. ASSUME NEW t \in Tasks, SetEpoch(t) PROVE FlagInv'
    BY <1>1, <1>6 DEF SetEpoch
  <1>7. ASSUME NEW t \in Tasks, StartTimer(t) PROVE FlagInv'
    BY <1>3, <1>7 DEF StartTimer, TimerAfter
  <1> QED
    BY <1>2, <1>4, <1>5, <1>6, <1>7 DEF UpdateEpoch

\* A write lowers the flag with the settings saved, or it fails and leaves everything
\* as it is.
LEMMA WriteFlag ==
  ASSUME TypeOK, FlagInv, writeToNvs, config' = config, loop # "boot", loop' # "boot"
  PROVE  FlagInv'
  <1>1. (nvs' = config /\ ~dirty') \/ (failed' /\ nvs' = nvs /\ dirty' = dirty)
    BY DEF TypeOK, writeToNvs, DirtyAfter
  <1>2. config # Unusable
    BY ConfigAssumption DEF TypeOK, UserConfig
  <1> QED
    BY <1>1, <1>2 DEF FlagInv, CleanMeansSaved, DirtyIsScheduled, SleepSaves, running, Restored

LEMMA BackgroundFlag ==
  ASSUME TypeOK, FlagInv, Save \/ PrepareSleep \/ Boot \/ Restart PROVE FlagInv'
  <1> USE DEF FlagInv, CleanMeansSaved, DirtyIsScheduled, SleepSaves, running, Restored
  <1>1. CASE commitTimerCallback
    BY <1>1 DEF TypeOK, commitTimerCallback
  <1>2. CASE WorkerWakes
    BY <1>2 DEF TypeOK, WorkerWakes
  <1>3. CASE WorkerSaves
    BY <1>3, WriteFlag DEF WorkerSaves
  <1>4. CASE BeforeSleep
    BY <1>4 DEF TypeOK, BeforeSleep, MustFlush
  <1>5. CASE StopTimer
    BY <1>5 DEF TypeOK, StopTimer
  <1>6. CASE CheckDirty
    BY <1>6 DEF TypeOK, CheckDirty
  <1>7. CASE FlushWrites
    BY <1>7, WriteFlag DEF FlushWrites
  <1>8. CASE SleepAborted
    BY <1>8 DEF TypeOK, SleepAborted
  <1>9. CASE Boot
    BY <1>9, RestoredType, ConfigAssumption DEF TypeOK, Boot, UserConfig
  <1>10. CASE Reset
    BY <1>10 DEF Reset
  <1> QED
    BY <1>1, <1>2, <1>3, <1>4, <1>5, <1>6, <1>7, <1>8, <1>9, <1>10
    DEF Save, PrepareSleep, Restart, DeepSleep, PowerLoss

LEMMA FlagAlways == Spec => []FlagInv
  <1>1. TypeOK /\ FlagInv /\ [Next]_vars => FlagInv'
    <2> SUFFICES ASSUME TypeOK, FlagInv, [Next]_vars PROVE FlagInv'
      OBVIOUS
    <2>1. CASE UNCHANGED vars
      BY <2>1 DEF vars, FlagInv, CleanMeansSaved, DirtyIsScheduled, SleepSaves, running, Restored
    <2> QED
      BY <2>1, ChangeFlag, BackgroundFlag DEF Next, Background
  <1> QED
    BY InitFlag, <1>1, TypeCorrect, PTL DEF Spec

\* For all settings and all faults: while _dirty is down NVS holds the settings in
\* force, so that nobody who skips a write because of it loses a change.
THEOREM FlagCorrect == Spec => []CleanMeansSaved
  <1>1. FlagInv => CleanMeansSaved
    BY DEF FlagInv
  <1> QED
    BY FlagAlways, <1>1, PTL

\* For all settings and all faults: while _dirty is up somebody will save the settings,
\* unless NVS has refused them.
THEOREM ScheduleCorrect == Spec => []DirtyIsScheduled
  <1>1. FlagInv => DirtyIsScheduled
    BY DEF FlagInv
  <1> QED
    BY FlagAlways, <1>1, PTL

\* For all settings and all faults: deep sleep loses only what was changed after its
\* flush or refused by NVS.
THEOREM SleepCorrect == Spec => []SleepSaves
  <1>1. FlagInv => SleepSaves
    BY DEF FlagInv
  <1> QED
    BY FlagAlways, <1>1, PTL

-----------------------------------------------------------------------------
(* SettingsProtocol implements ConfigService *)

\* What a message may be, and what an acknowledged setting.
AnyValue == Sensitivities \cup Brightnesses \cup {TooHigh}

\* The messages on the link, and what the app remembers, are well typed; an ACK is on
\* its way only to an app that waits.
LinkType ==
  /\ up \in Seq(SetConfig)
  /\ app \in [seq : Seqs, used : Nat, waits : SetConfig \cup {None},
             acked : [Keys -> AnyValue \cup {None}]]
  /\ ack => app.waits # None

\* The fields of a message.
LEMMA MessageFields ==
  ASSUME NEW m \in SetConfig
  PROVE  /\ m.seq \in Seqs /\ m.key \in Keys /\ m.value \in AnyValue /\ m # None
         /\ m.value # TooHigh => m.value \in Values(m.key)
         /\ m \in [seq : Seqs, key : Keys, value : AnyValue]
  BY ProtocolAssumption DEF SetConfig, SetConfigOf, AnyValue, Seqs

\* The numbers that arithmetic modulo SEQ_SPACE yields.
LEMMA SeqsMod == \A n \in Int : n % SEQ_SPACE \in Seqs
  BY ProtocolAssumption DEF Seqs

\* The message after the first one moves up, a new one is put at the end.
LEMMA LinkOrder ==
  ASSUME NEW q \in Seq(SetConfig)
  PROVE  /\ q # <<>> => /\ 1 \in DOMAIN q /\ Head(q) = q[1] /\ q[1] \in SetConfig
                         /\ Tail(q) \in Seq(SetConfig)
                         /\ \A i \in DOMAIN Tail(q) : i + 1 \in DOMAIN q /\ Tail(q)[i] = q[i + 1]
         /\ \A m \in SetConfig :
              /\ Append(q, m) \in Seq(SetConfig)
              /\ \A i \in DOMAIN Append(q, m) :
                   \/ i \in DOMAIN q /\ Append(q, m)[i] = q[i]
                   \/ /\ i \notin DOMAIN q /\ Append(q, m)[i] = m
                      /\ \A j \in DOMAIN q : j < i
         /\ \A i \in DOMAIN q : i \in Nat /\ q[i] \in SetConfig
  <1>1. \A i \in DOMAIN q : i \in Nat /\ q[i] \in SetConfig
    OBVIOUS
  <1>2. ASSUME q # <<>>
        PROVE  /\ 1 \in DOMAIN q /\ Head(q) = q[1] /\ q[1] \in SetConfig
               /\ Tail(q) \in Seq(SetConfig)
               /\ \A i \in DOMAIN Tail(q) : i + 1 \in DOMAIN q /\ Tail(q)[i] = q[i + 1]
    BY <1>2
  <1>3. ASSUME NEW m \in SetConfig
        PROVE  /\ Append(q, m) \in Seq(SetConfig)
               /\ \A i \in DOMAIN Append(q, m) :
                    \/ i \in DOMAIN q /\ Append(q, m)[i] = q[i]
                    \/ /\ i \notin DOMAIN q /\ Append(q, m)[i] = m
                       /\ \A j \in DOMAIN q : j < i
    OBVIOUS
  <1> QED
    BY <1>1, <1>2, <1>3

LEMMA LinkInit == ProtocolInit => LinkType
  BY ProtocolAssumption DEF ProtocolInit, LinkType, Seqs, NothingAcked

\* The app after a restart of the device.
LEMMA RestartType ==
  ASSUME LinkType, DeviceRestarts
  PROVE  LinkType'
  <1> DEFINE AppType == [seq : Seqs, used : Nat, waits : SetConfig \cup {None},
                         acked : [Keys -> AnyValue \cup {None}]]
  <1>1. app \in AppType /\ 0 \in Seqs
    BY ProtocolAssumption DEF LinkType, Seqs
  <1>2. NothingAcked \in [Keys -> AnyValue \cup {None}]
    BY DEF NothingAcked
  <1>3. \A m \in SetConfig : [m EXCEPT !.seq = 0] \in SetConfig
    BY <1>1, MessageFields DEF SetConfig, SetConfigOf, AnyValue
  <1>4. (IF app.waits = None THEN None ELSE [app.waits EXCEPT !.seq = 0])
          \in SetConfig \cup {None}
    BY <1>1, <1>3
  <1>5. (IF dirty THEN NothingAcked ELSE app.acked) \in [Keys -> AnyValue \cup {None}]
    BY <1>1, <1>2
  <1>6. app' = [seq |-> 0, used |-> 0,
                waits |-> IF app.waits = None THEN None ELSE [app.waits EXCEPT !.seq = 0],
                acked |-> IF dirty THEN NothingAcked ELSE app.acked]
    BY <1>1 DEF DeviceRestarts, AfterRestart
  <1>7. app' \in AppType
    BY <1>1, <1>4, <1>5, <1>6
  <1> QED
    BY <1>7 DEF LinkType, DeviceRestarts

LEMMA LinkStep ==
  ASSUME LinkType, [ProtocolNext]_allVars PROVE LinkType'
  <1> DEFINE AppType == [seq : Seqs, used : Nat, waits : SetConfig \cup {None},
                         acked : [Keys -> AnyValue \cup {None}]]
  <1>0. up \in Seq(SetConfig) /\ app \in AppType
    BY DEF LinkType
  <1>1. CASE UNCHANGED allVars
    BY <1>1 DEF allVars, linkVars, LinkType
  <1>2. CASE \E m \in Range(up) : DropStale(m) \/ Refuse(m) \/ Keep(m) \/ Take(m)
    <2>1. app' = app /\ up # <<>> /\ up' = Tail(up)
      BY <1>2 DEF DropStale, Refuse, Keep, Take, Received
    <2>2. ack' => app.waits # None
      BY <1>2, Zenon DEF DropStale, Refuse, Keep, Take, sendAck, LinkType
    <2> QED
      BY <1>0, <2>1, <2>2, LinkOrder DEF LinkType
  <1>3. CASE Finish \/ InBackground
    <2>1. UNCHANGED <<up, app>>
      BY <1>3 DEF Finish, InBackground, linkVars
    <2>2. ack' => app.waits # None
      BY <1>3, Zenon DEF Finish, InBackground, linkVars, sendAck, LinkType
    <2> QED
      BY <1>0, <2>1, <2>2 DEF LinkType
  <1>4. CASE DeviceRestarts
    BY <1>4, RestartType
  <1>5. ASSUME NEW gap \in 1 .. MaxGap, NEW m \in SetConfigOf((app.seq + gap) % SEQ_SPACE),
               AppSends(m, gap)
        PROVE  LinkType'
    <2>1. m \in SetConfig
      <3>1. (app.seq + gap) % SEQ_SPACE \in Seqs
        <4>1. app.seq + gap \in Int
          BY <1>0 DEF Seqs
        <4> QED
          BY <4>1, SeqsMod
      <3> QED
        BY <3>1 DEF SetConfig
    <2>2. m.seq \in Seqs /\ m.key \in Keys /\ app.used + gap \in Nat
      BY <1>0, <2>1, MessageFields
    <2>3. app' = [seq |-> m.seq, used |-> app.used + gap, waits |-> m,
                  acked |-> [app.acked EXCEPT ![m.key] = None]]
      BY <1>0, <1>5 DEF AppSends
    <2>4. [app.acked EXCEPT ![m.key] = None] \in [Keys -> AnyValue \cup {None}]
      BY <1>0, <2>2
    <2>5. app' \in AppType
      BY <2>1, <2>2, <2>3, <2>4
    <2> QED
      BY <1>0, <1>5, <2>1, <2>5, LinkOrder DEF AppSends, LinkType
  <1>6. CASE AppRepeats
    BY <1>0, <1>6, LinkOrder DEF AppRepeats, LinkType
  <1>7. CASE AppAcked
    <2>1. app' = [seq |-> app.seq, used |-> 0, waits |-> None,
                  acked |-> [app.acked EXCEPT ![app.waits.key] = app.waits.value]]
      BY <1>0, <1>7 DEF AppAcked
    <2>a. app.waits \in SetConfig
      BY <1>0, <1>7 DEF AppAcked, LinkType
    <2>2. [app.acked EXCEPT ![app.waits.key] = app.waits.value]
            \in [Keys -> AnyValue \cup {None}]
      BY <1>0, <2>a, MessageFields
    <2>3. app' \in AppType
      BY <1>0, <2>1, <2>2
    <2> QED
      BY <1>0, <1>7, <2>3 DEF AppAcked, LinkType
  <1>8. CASE AppGivesUp
    BY <1>0, <1>8 DEF AppGivesUp, LinkType
  <1>9. CASE Lose
    <2>1. app' = app /\ (up' = up \/ (up # <<>> /\ up' = Tail(up)))
      BY <1>9 DEF Lose
    <2>2. ack' => app.waits # None
      BY <1>9 DEF Lose, LinkType
    <2>3. up' \in Seq(SetConfig)
      <3>1. CASE up' = up
        BY <1>0, <3>1
      <3>2. CASE up # <<>> /\ up' = Tail(up)
        BY <1>0, <3>2, LinkOrder
      <3> QED
        BY <2>1, <3>1, <3>2
    <2> QED
      BY <1>0, <2>1, <2>2, <2>3 DEF LinkType
  <1> QED
    BY <1>1, <1>2, <1>3, <1>4, <1>5, <1>6, <1>7, <1>8, <1>9 DEF ProtocolNext

LEMMA LinkAlways == ProtocolSpec => []LinkType
  <1>1. LinkType /\ [ProtocolNext]_allVars => LinkType'
    BY LinkStep
  <1> QED
    BY LinkInit, <1>1, PTL DEF ProtocolSpec

\* Whatever SET_CONFIG messages arrive, the settings change as ConfigService says: what
\* holds of ConfigService holds under every exchange of messages.
THEOREM ProtocolRefines == ProtocolSpec => Spec
  <1>1. ProtocolInit => Init
    BY DEF ProtocolInit
  <1>2. LinkType /\ [ProtocolNext]_allVars => [Next]_vars
    <2> SUFFICES ASSUME LinkType, [ProtocolNext]_allVars PROVE [Next]_vars
      OBVIOUS
    <2>1. CASE UNCHANGED allVars
      BY <2>1 DEF allVars
    <2>2. CASE \E m \in Range(up) : DropStale(m) \/ Refuse(m) \/ Keep(m)
      BY <2>2 DEF DropStale, Refuse, Keep
    <2>3. CASE \E m \in Range(up) : Take(m)
      <3>1. PICK m : Take(m) /\ up # <<>> /\ m = Head(up)
        BY <2>3 DEF Take, Received
      <3>2. m \in SetConfig /\ m.value # TooHigh
        BY <3>1, LinkOrder DEF LinkType, Take, Accepted
      <3>3. ChangeSetting(m.key, m.value) /\ m.key \in Keys /\ m.value \in Values(m.key)
        BY <3>1, <3>2, MessageFields DEF Take
      <3> QED
        BY <3>3 DEF Next
    <2>4. CASE Finish \/ InBackground \/ DeviceRestarts
      BY <2>4 DEF Finish, InBackground, DeviceRestarts, Next
    <2>5. CASE \/ \E gap \in 1 .. MaxGap :
                    \E m \in SetConfigOf((app.seq + gap) % SEQ_SPACE) : AppSends(m, gap)
               \/ AppRepeats \/ AppAcked \/ AppGivesUp \/ Lose
      BY <2>5 DEF AppSends, AppRepeats, AppAcked, AppGivesUp, Lose
    <2> QED
      BY <2>1, <2>2, <2>3, <2>4, <2>5 DEF ProtocolNext
  <1> QED
    BY <1>1, <1>2, LinkAlways, PTL DEF ProtocolSpec, Spec

-----------------------------------------------------------------------------
(* The window of sequence numbers *)

\* How many numbers back from top seq was used.
Back(top, seq) == IF top >= seq THEN top - seq ELSE top - seq + SEQ_SPACE

\* A number that handleSetConfig does not take for one it has seen.
Fresh(seq) == lastSeq # -1 => Back(app.seq, seq) < Back(app.seq, lastSeq)

\* The message is one of those since the last ACK, and the newest is the one that the
\* app waits for.
InWindow(m) ==
  /\ Back(app.seq, m.seq) <= app.used
  /\ m.seq = app.seq /\ app.waits # None => m = app.waits

\* Message m was sent no later than anything on the link.
Oldest(seq) == \A i \in DOMAIN up : Back(app.seq, up[i].seq) <= Back(app.seq, seq)

\* All numbers in use lie in a window of less than half of all numbers, on the link in
\* the order of sending, and none there is older than the last one handled.
WindowInv ==
  /\ 2 * app.used < SEQ_SPACE
  /\ app.waits # None => app.waits.seq = app.seq
  /\ lastSeq # -1 =>
       lastSeq \in Seqs /\ Back(app.seq, lastSeq) <= app.used /\ Oldest(lastSeq)
  /\ handled # None =>
       handled \in SetConfig /\ InWindow(handled) /\ Fresh(handled.seq) /\ Oldest(handled.seq)
  /\ \A i \in DOMAIN up :
       /\ InWindow(up[i])
       /\ \A j \in DOMAIN up : i <= j => Back(app.seq, up[j].seq) <= Back(app.seq, up[i].seq)

\* The host task applies the message it has taken, whose setting counts as not acked.
HandledInv ==
  /\ task["host"].at \in Keys <=> handled # None
  /\ handled # None => /\ running /\ task["host"].at = handled.key
                       /\ config[handled.key] = handled.value
                       /\ app.acked[handled.key] = None

\* An ACK is sent only for a message that was handled, and then its value is in force.
AckInv ==
  /\ lastSeq # -1 => running
  /\ ack => lastSeq = app.seq
  /\ lastSeq = app.seq /\ app.waits # None => config[app.waits.key] = app.waits.value
  /\ app.waits # None => app.acked[app.waits.key] = None

\* A message that is still to be handled concerns no setting that counts as acked.
FreshInv == \A i \in DOMAIN up : Fresh(up[i].seq) => app.acked[up[i].key] = None

\* What was acknowledged is in force, or will be restored.
KeptInv ==
  /\ \A key \in Keys : app.acked[key] # None =>
       app.acked[key] = IF running THEN config[key] ELSE Restored(nvs)[key]
  /\ running => hal = config.sensitivity \/ task["host"].at = "sensitivity"

AppliedInv == HandledInv /\ AckInv /\ FreshInv /\ KeptInv

\* The distance between two numbers.
LEMMA BackType ==
  ASSUME NEW top \in Seqs, NEW seq \in Seqs
  PROVE  Back(top, seq) \in Seqs /\ Back(top, seq) \in Nat /\ (Back(top, seq) = 0 <=> seq = top)
  BY ProtocolAssumption DEF Back, Seqs

\* Arithmetic modulo SEQ_SPACE within one turn.
LEMMA OneTurn ==
  ASSUME NEW n \in Int, -SEQ_SPACE < n, n < 2 * SEQ_SPACE
  PROVE  n % SEQ_SPACE = IF n < 0 THEN n + SEQ_SPACE
                         ELSE IF n < SEQ_SPACE THEN n ELSE n - SEQ_SPACE
  <1>1. CASE n < 0
    BY <1>1, ProtocolAssumption
  <1>2. CASE n \in 0 .. SEQ_SPACE - 1
    BY <1>2, ProtocolAssumption
  <1>3. CASE n >= SEQ_SPACE
    BY <1>3, ProtocolAssumption
  <1> QED
    BY <1>1, <1>2, <1>3, ProtocolAssumption

\* When the app goes on by gap numbers, every number that stays in the window is gap
\* numbers further back.
LEMMA BackShift ==
  ASSUME NEW top \in Seqs, NEW seq \in Seqs, NEW gap \in Nat,
         Back(top, seq) + gap < SEQ_SPACE
  PROVE  Back((top + gap) % SEQ_SPACE, seq) = Back(top, seq) + gap
  <1>1. gap < SEQ_SPACE
    BY BackType, ProtocolAssumption DEF Seqs
  <1>2. (top + gap) % SEQ_SPACE =
          IF top + gap < SEQ_SPACE THEN top + gap ELSE top + gap - SEQ_SPACE
    BY <1>1, OneTurn, ProtocolAssumption DEF Seqs
  <1> QED
    BY <1>2, ProtocolAssumption DEF Back, Seqs

\* The signed comparison of the code, inside the window.
LEMMA BackDifference ==
  ASSUME NEW top \in Seqs, NEW last \in Seqs, NEW seq \in Seqs,
         Back(top, seq) <= Back(top, last)
  PROVE  (seq - last) % SEQ_SPACE = Back(top, last) - Back(top, seq)
  <1>1. (seq - last) % SEQ_SPACE = IF seq - last < 0 THEN seq - last + SEQ_SPACE
                                   ELSE seq - last
    BY OneTurn, ProtocolAssumption DEF Seqs
  <1> QED
    BY <1>1, ProtocolAssumption DEF Back, Seqs

\* So handleSetConfig takes for seen exactly the last number handled: the cast to
\* int16_t never takes a new message for an old one, nor an old one for a new one.
LEMMA StaleIsSeen ==
  ASSUME LinkType, WindowInv, NEW i \in DOMAIN up
  PROVE  Stale(up[i].seq) <=> ~Fresh(up[i].seq)
  <1>1. up[i].seq \in Seqs /\ app.seq \in Seqs
    BY LinkOrder, MessageFields DEF LinkType
  <1>2. CASE lastSeq = -1
    BY <1>2 DEF Stale, Fresh
  <1>3. CASE lastSeq # -1
    <2>1. /\ lastSeq \in Seqs /\ 2 * app.used < SEQ_SPACE /\ app.used \in Nat
          /\ Back(app.seq, up[i].seq) <= Back(app.seq, lastSeq)
          /\ Back(app.seq, lastSeq) <= app.used
      BY <1>3 DEF WindowInv, Oldest, LinkType
    <2>2. (up[i].seq - lastSeq) % SEQ_SPACE = Back(app.seq, lastSeq) - Back(app.seq, up[i].seq)
      BY <1>1, <2>1, BackDifference
    <2>3. Back(app.seq, lastSeq) \in Nat /\ Back(app.seq, up[i].seq) \in Nat
      BY <1>1, <2>1, BackType
    <2> QED
      BY <1>3, <2>1, <2>2, <2>3, ProtocolAssumption DEF Stale, Fresh
  <1> QED
    BY <1>2, <1>3

\* Inside the window every distance is a number.
LEMMA WindowTypes ==
  ASSUME LinkType, WindowInv
  PROVE  /\ app.seq \in Seqs /\ app.used \in Nat
         /\ \A i \in DOMAIN up : /\ i \in Nat /\ up[i] \in SetConfig /\ up[i].seq \in Seqs
                                 /\ Back(app.seq, up[i].seq) \in Nat
         /\ lastSeq # -1 => Back(app.seq, lastSeq) \in Nat
         /\ handled # None => handled.seq \in Seqs /\ Back(app.seq, handled.seq) \in Nat
  <1>1. app.seq \in Seqs /\ app.used \in Nat
    BY DEF LinkType
  <1>2. \A i \in DOMAIN up : i \in Nat /\ up[i] \in SetConfig
    BY LinkOrder DEF LinkType
  <1>3. \A i \in DOMAIN up : up[i].seq \in Seqs
    BY <1>2, MessageFields
  <1>4. handled # None => handled.seq \in Seqs
    BY MessageFields DEF WindowInv
  <1>5. lastSeq # -1 => lastSeq \in Seqs
    BY DEF WindowInv
  <1> QED
    BY <1>1, <1>2, <1>3, <1>4, <1>5, BackType

\* A message leaves the link: it is handled, dropped or lost.
LEMMA WindowShrinks ==
  ASSUME LinkType, WindowInv, up # <<>>, up' = Tail(up), app' = app,
         \/ UNCHANGED <<lastSeq, handled>>
         \/ handled = None /\ handled' = None /\ lastSeq' = Head(up).seq
         \/ handled' = Head(up) /\ lastSeq' = lastSeq /\ ~Stale(Head(up).seq)
  PROVE  WindowInv'
  <1>1. /\ 1 \in DOMAIN up /\ Head(up) = up[1] /\ up[1] \in SetConfig
        /\ \A i \in DOMAIN up' : i + 1 \in DOMAIN up /\ up'[i] = up[i + 1] /\ i \in Nat
    <2>1. up \in Seq(SetConfig)
      BY DEF LinkType
    <2>2. up' \in Seq(SetConfig)
      BY <2>1, LinkOrder
    <2> QED
      BY <2>1, <2>2, LinkOrder
  <1>2. \A i \in DOMAIN up : i \in Nat
    BY WindowTypes
  <1>3. \A i \in DOMAIN up' :
          /\ InWindow(up[i])'
          /\ \A j \in DOMAIN up' : i <= j =>
               Back(app'.seq, up'[j].seq) <= Back(app'.seq, up'[i].seq)
    <2>1. ASSUME NEW i \in DOMAIN up' PROVE InWindow(up[i])'
      BY <1>1, <2>1 DEF WindowInv, InWindow
    <2>2. ASSUME NEW i \in DOMAIN up', NEW j \in DOMAIN up', i <= j
          PROVE  Back(app'.seq, up'[j].seq) <= Back(app'.seq, up'[i].seq)
      <3>1. i + 1 \in DOMAIN up /\ j + 1 \in DOMAIN up /\ i + 1 <= j + 1
        BY <1>1, <2>2
      <3> QED
        BY <1>1, <3>1 DEF WindowInv
    <2> QED
      BY <2>1, <2>2
  <1>4. \A i \in DOMAIN up' : Back(app'.seq, up'[i].seq) <= Back(app'.seq, up[1].seq)
    <2>1. ASSUME NEW i \in DOMAIN up'
          PROVE  Back(app.seq, up[i + 1].seq) <= Back(app.seq, up[1].seq)
      <3>1. 1 <= i + 1 /\ i + 1 \in DOMAIN up
        BY <1>1, <2>1
      <3> QED
        BY <1>1, <3>1 DEF WindowInv
    <2> QED
      BY <1>1, <2>1
  <1>5. \A seq : Oldest(seq) => Oldest(seq)'
    BY <1>1 DEF Oldest
  <1>6. InWindow(up[1])
    BY <1>1 DEF WindowInv
  <1>7. up[1].seq \in Seqs
    BY <1>1, MessageFields
  <1>8. CASE UNCHANGED <<lastSeq, handled>>
    <2>1. lastSeq' # -1 => lastSeq' \in Seqs /\ Back(app'.seq, lastSeq') <= app'.used
                           /\ Oldest(lastSeq)'
      BY <1>5, <1>8 DEF WindowInv, Oldest
    <2>2. handled' # None => /\ handled' \in SetConfig /\ InWindow(handled)'
                             /\ Fresh(handled.seq)' /\ Oldest(handled.seq)'
      BY <1>5, <1>8 DEF WindowInv, InWindow, Fresh, Oldest
    <2> QED
      BY <1>3, <2>1, <2>2 DEF WindowInv
  <1>9. CASE handled = None /\ handled' = None /\ lastSeq' = Head(up).seq
    <2>1. lastSeq' \in Seqs /\ Back(app'.seq, lastSeq') <= app'.used /\ Oldest(lastSeq)'
      BY <1>1, <1>4, <1>6, <1>7, <1>9 DEF InWindow, Oldest
    <2> QED
      BY <1>3, <1>9, <2>1 DEF WindowInv
  <1>10. CASE handled' = Head(up) /\ lastSeq' = lastSeq /\ ~Stale(Head(up).seq)
    <2>1. lastSeq' # -1 => lastSeq' \in Seqs /\ Back(app'.seq, lastSeq') <= app'.used
                           /\ Oldest(lastSeq)'
      BY <1>5, <1>10 DEF WindowInv, Oldest
    <2>2. Fresh(up[1].seq)
      BY <1>1, <1>10, StaleIsSeen
    <2>3. /\ handled' \in SetConfig /\ InWindow(handled)'
          /\ Fresh(handled.seq)' /\ Oldest(handled.seq)'
      BY <1>1, <1>4, <1>6, <1>10, <2>2 DEF InWindow, Fresh, Oldest
    <2> QED
      BY <1>3, <2>1, <2>3 DEF WindowInv
  <1> QED
    BY <1>8, <1>9, <1>10

\* A message is sent for the first time: what was in use is older by gap numbers, and
\* the new number is not one of those.
LEMMA Shift ==
  ASSUME LinkType, LinkType', WindowInv, NEW gap \in 1 .. MaxGap,
         NEW m \in SetConfigOf((app.seq + gap) % SEQ_SPACE), AppSends(m, gap)
  PROVE  /\ app.seq \in Seqs /\ app.used \in Nat /\ gap \in Nat /\ gap >= 1
         /\ 2 * (app.used + gap) < SEQ_SPACE
         /\ app'.seq = (app.seq + gap) % SEQ_SPACE /\ app'.used = app.used + gap
         /\ app'.waits = m /\ m.seq = app'.seq /\ app'.seq \in Seqs /\ m \in SetConfig
         /\ UNCHANGED <<lastSeq, handled>> /\ up' = Append(up, m)
         /\ \A seq \in Seqs : Back(app.seq, seq) <= app.used =>
              /\ Back(app'.seq, seq) = Back(app.seq, seq) + gap
              /\ Back(app'.seq, seq) <= app'.used /\ seq # app'.seq
  <1>1. /\ app.seq \in Seqs /\ app.used \in Nat /\ gap \in Nat /\ gap >= 1
        /\ 2 * (app.used + gap) < SEQ_SPACE
    BY WindowTypes, ProtocolAssumption DEF AppSends
  <1>2. /\ app'.seq = (app.seq + gap) % SEQ_SPACE /\ app'.used = app.used + gap
        /\ app'.waits = m /\ m.seq = app'.seq /\ app'.seq \in Seqs /\ m \in SetConfig
        /\ UNCHANGED <<lastSeq, handled>> /\ up' = Append(up, m)
    <2>1. m.seq = (app.seq + gap) % SEQ_SPACE
      BY DEF SetConfigOf
    <2>2. /\ app'.seq = m.seq /\ app'.used = app.used + gap /\ app'.waits = m
          /\ UNCHANGED <<lastSeq, handled>> /\ up' = Append(up, m)
      BY DEF AppSends, LinkType
    <2>3. app'.seq \in Seqs /\ app'.waits \in SetConfig \cup {None}
      BY DEF LinkType
    <2>4. m \in SetConfig
      <3>1. (app.seq + gap) % SEQ_SPACE \in Seqs
        BY <2>1, <2>2, <2>3
      <3> QED
        BY <3>1 DEF SetConfig
    <2> QED
      BY <2>1, <2>2, <2>3, <2>4
  <1>3. ASSUME NEW seq \in Seqs, Back(app.seq, seq) <= app.used
        PROVE  /\ Back(app'.seq, seq) = Back(app.seq, seq) + gap
               /\ Back(app'.seq, seq) <= app'.used /\ seq # app'.seq
    <2>1. Back(app.seq, seq) \in Nat
      BY <1>1, <1>3, BackType
    <2>2. Back(app.seq, seq) + gap < SEQ_SPACE
      BY <1>1, <1>3, <2>1, ProtocolAssumption
    <2>3. Back(app'.seq, seq) = Back(app.seq, seq) + gap
      BY <1>1, <1>2, <1>3, <2>2, BackShift
    <2>4. Back(app'.seq, seq) # 0
      BY <1>1, <2>1, <2>3
    <2> QED
      BY <1>1, <1>2, <1>3, <2>1, <2>3, <2>4, BackType
  <1> QED
    BY <1>1, <1>2, <1>3

\* The window moves on with the app.
LEMMA WindowMoves ==
  ASSUME LinkType, LinkType', WindowInv, NEW gap \in 1 .. MaxGap,
         NEW m \in SetConfigOf((app.seq + gap) % SEQ_SPACE), AppSends(m, gap)
  PROVE  WindowInv'
  <1>1. /\ app.seq \in Seqs /\ app.used \in Nat /\ gap \in Nat /\ gap >= 1
        /\ 2 * (app.used + gap) < SEQ_SPACE
    BY Shift
  <1>2. /\ app'.seq = (app.seq + gap) % SEQ_SPACE /\ app'.used = app.used + gap
        /\ app'.waits = m /\ m.seq = app'.seq /\ app'.seq \in Seqs /\ m \in SetConfig
        /\ UNCHANGED <<lastSeq, handled>> /\ up' = Append(up, m)
    BY Shift
  <1>3. ASSUME NEW seq \in Seqs, Back(app.seq, seq) <= app.used
        PROVE  /\ Back(app'.seq, seq) = Back(app.seq, seq) + gap
               /\ Back(app'.seq, seq) <= app'.used /\ seq # app'.seq
    BY <1>3, Shift
  <1>4. Back(app'.seq, m.seq) = 0
    BY <1>2, BackType
  <1>5. \A i \in DOMAIN up : /\ up[i].seq \in Seqs /\ Back(app.seq, up[i].seq) <= app.used
                             /\ Back(app.seq, up[i].seq) \in Nat
    BY WindowTypes DEF WindowInv, InWindow
  <1>6. \A i \in DOMAIN up' : \/ i \in DOMAIN up /\ up'[i] = up[i]
                              \/ /\ i \notin DOMAIN up /\ up'[i] = m
                                 /\ \A j \in DOMAIN up : j < i
    BY <1>2, LinkOrder DEF LinkType
  <1>7. \A i \in DOMAIN up : i \in Nat
    BY WindowTypes
  <1>8. \A i \in DOMAIN up' : i \in Nat
    BY LinkOrder DEF LinkType
  <1>9. ASSUME NEW seq \in Seqs, Back(app.seq, seq) <= app.used, Oldest(seq)
        PROVE  Oldest(seq)'
    <2>1. /\ Back(app'.seq, seq) = Back(app.seq, seq) + gap /\ Back(app.seq, seq) \in Nat
      BY <1>1, <1>3, <1>9, BackType
    <2>2. ASSUME NEW i \in DOMAIN up' PROVE Back(app'.seq, up'[i].seq) <= Back(app'.seq, seq)
      <3>1. CASE i \in DOMAIN up /\ up'[i] = up[i]
        <4>1. Back(app.seq, up[i].seq) <= Back(app.seq, seq)
          BY <1>9, <3>1 DEF Oldest
        <4>2. Back(app'.seq, up[i].seq) = Back(app.seq, up[i].seq) + gap
          BY <1>3, <1>5, <3>1
        <4> QED
          BY <1>1, <1>5, <2>1, <3>1, <4>1, <4>2
      <3>2. CASE up'[i] = m
        BY <1>1, <1>4, <2>1, <3>2
      <3> QED
        BY <1>6, <3>1, <3>2
    <2> QED
      BY <2>2 DEF Oldest
  <1>10. ASSUME NEW i \in DOMAIN up' PROVE InWindow(up[i])'
    <2>1. CASE up'[i] = m
      <3>1. 0 <= app'.used
        BY <1>1, <1>2
      <3> QED
        BY <1>2, <1>4, <2>1, <3>1 DEF InWindow
    <2>2. CASE i \in DOMAIN up /\ up'[i] = up[i]
      BY <1>3, <1>5, <2>2 DEF InWindow
    <2> QED
      BY <1>6, <2>1, <2>2
  <1>11. ASSUME NEW i \in DOMAIN up', NEW j \in DOMAIN up', i <= j
         PROVE  Back(app'.seq, up'[j].seq) <= Back(app'.seq, up'[i].seq)
    <2>1. CASE up'[j] = m
      <3>1. up'[i].seq \in Seqs
        BY <1>2, <1>5, <1>6
      <3>2. Back(app'.seq, up'[i].seq) \in Nat
        BY <1>2, <3>1, BackType
      <3> QED
        BY <1>4, <2>1, <3>2
    <2>2. CASE j \in DOMAIN up /\ up'[j] = up[j]
      <3>1. i \in DOMAIN up /\ up'[i] = up[i]
        BY <1>6, <1>7, <1>8, <1>11, <2>2
      <3>2. Back(app.seq, up[j].seq) <= Back(app.seq, up[i].seq)
        BY <1>11, <2>2, <3>1 DEF WindowInv
      <3> QED
        BY <1>1, <1>3, <1>5, <2>2, <3>1, <3>2
    <2> QED
      BY <1>6, <2>1, <2>2
  <1>12. ASSUME lastSeq' # -1
         PROVE  lastSeq' \in Seqs /\ Back(app'.seq, lastSeq') <= app'.used /\ Oldest(lastSeq)'
    BY <1>2, <1>3, <1>9, <1>12 DEF WindowInv, Oldest
  <1>13. ASSUME handled' # None
         PROVE  /\ handled' \in SetConfig /\ InWindow(handled)'
                /\ Fresh(handled.seq)' /\ Oldest(handled.seq)'
    <2>1. /\ handled \in SetConfig /\ InWindow(handled) /\ Fresh(handled.seq)
          /\ Oldest(handled.seq) /\ handled' = handled
      BY <1>2, <1>13 DEF WindowInv
    <2>2. /\ handled.seq \in Seqs /\ Back(app.seq, handled.seq) <= app.used
          /\ Back(app.seq, handled.seq) \in Nat
      BY <1>1, <2>1, MessageFields, BackType DEF InWindow
    <2>3. Oldest(handled.seq)' /\ InWindow(handled)'
      BY <1>3, <1>9, <2>1, <2>2 DEF InWindow, Oldest
    <2>4. Fresh(handled.seq)'
      <3> SUFFICES ASSUME lastSeq # -1
                   PROVE  Back(app'.seq, handled.seq) < Back(app'.seq, lastSeq)
        BY <1>2, <2>1 DEF Fresh
      <3>1. /\ lastSeq \in Seqs /\ Back(app.seq, lastSeq) <= app.used
            /\ Back(app.seq, handled.seq) < Back(app.seq, lastSeq)
            /\ Back(app.seq, lastSeq) \in Nat
        BY <2>1, WindowTypes DEF WindowInv, Fresh
      <3>2. Back(app'.seq, lastSeq) = Back(app.seq, lastSeq) + gap
        BY <1>3, <3>1
      <3>3. Back(app'.seq, handled.seq) = Back(app.seq, handled.seq) + gap
        BY <1>3, <2>2
      <3> QED
        BY <1>1, <2>2, <3>1, <3>2, <3>3
    <2> QED
      BY <2>1, <2>3, <2>4
  <1>14. 2 * app'.used < SEQ_SPACE
    BY <1>1, <1>2
  <1> QED
    BY <1>2, <1>10, <1>11, <1>12, <1>13, <1>14 DEF WindowInv

\* A message is sent again.
LEMMA WindowRepeats ==
  ASSUME LinkType, LinkType', WindowInv, AppRepeats PROVE WindowInv'
  <1>1. /\ app.waits \in SetConfig /\ app.waits.seq = app.seq /\ app' = app
        /\ UNCHANGED <<lastSeq, handled>> /\ up' = Append(up, app.waits)
    BY DEF AppRepeats, LinkType, WindowInv
  <1>2. /\ app.seq \in Seqs /\ app.used \in Nat
        /\ \A i \in DOMAIN up : i \in Nat /\ Back(app.seq, up[i].seq) \in Nat
    BY WindowTypes
  <1>3. Back(app.seq, app.waits.seq) = 0
    BY <1>1, <1>2, BackType
  <1>4. \A i \in DOMAIN up' : \/ i \in DOMAIN up /\ up'[i] = up[i]
                              \/ /\ i \notin DOMAIN up /\ up'[i] = app.waits
                                 /\ \A j \in DOMAIN up : j < i
    BY <1>1, LinkOrder DEF LinkType
  <1>5. \A i \in DOMAIN up' : i \in Nat
    BY LinkOrder DEF LinkType
  <1>6. ASSUME NEW seq \in Seqs, Oldest(seq) PROVE Oldest(seq)'
    <2>1. Back(app.seq, seq) \in Nat
      BY <1>2, BackType
    <2> QED
      BY <1>1, <1>3, <1>4, <1>6, <2>1 DEF Oldest
  <1>7. ASSUME NEW i \in DOMAIN up' PROVE InWindow(up[i])'
    BY <1>1, <1>2, <1>3, <1>4 DEF InWindow, WindowInv
  <1>8. ASSUME NEW i \in DOMAIN up', NEW j \in DOMAIN up', i <= j
        PROVE  Back(app'.seq, up'[j].seq) <= Back(app'.seq, up'[i].seq)
    <2>1. CASE up'[j] = app.waits
      <3>1. Back(app.seq, up'[i].seq) \in Nat
        BY <1>2, <1>3, <1>4
      <3> QED
        BY <1>1, <1>3, <2>1, <3>1
    <2>2. CASE j \in DOMAIN up /\ up'[j] = up[j]
      <3>1. i \in DOMAIN up /\ up'[i] = up[i]
        BY <1>2, <1>4, <1>5, <1>8, <2>2
      <3> QED
        BY <1>1, <1>8, <2>2, <3>1 DEF WindowInv
    <2> QED
      BY <1>4, <2>1, <2>2
  <1>9. ASSUME lastSeq' # -1
        PROVE  lastSeq' \in Seqs /\ Back(app'.seq, lastSeq') <= app'.used /\ Oldest(lastSeq)'
    BY <1>1, <1>6, <1>9 DEF WindowInv, Oldest
  <1>10. ASSUME handled' # None
         PROVE  /\ handled' \in SetConfig /\ InWindow(handled)'
                /\ Fresh(handled.seq)' /\ Oldest(handled.seq)'
    <2>1. handled.seq \in Seqs
      BY <1>1, <1>10, WindowTypes
    <2> QED
      BY <1>1, <1>6, <1>10, <2>1 DEF WindowInv, InWindow, Fresh, Oldest
  <1> QED
    BY <1>1, <1>7, <1>8, <1>9, <1>10 DEF WindowInv

\* When the last number handled is the app's last, everything on the link was handled,
\* and nothing is being handled.
LEMMA AllSeen ==
  ASSUME LinkType, WindowInv, lastSeq = app.seq
  PROVE  /\ lastSeq # -1 /\ handled = None
         /\ \A i \in DOMAIN up : ~Fresh(up[i].seq) /\ Back(app.seq, up[i].seq) = 0
         /\ Back(app.seq, lastSeq) = 0
  <1>1. lastSeq # -1 /\ Back(app.seq, lastSeq) = 0
    BY BackType DEF LinkType, Seqs
  <1>2. \A i \in DOMAIN up : Back(app.seq, up[i].seq) \in Nat
    BY WindowTypes
  <1>3. \A i \in DOMAIN up : ~Fresh(up[i].seq) /\ Back(app.seq, up[i].seq) = 0
    BY <1>1, <1>2 DEF WindowInv, Oldest, Fresh
  <1>4. handled # None => Back(app.seq, handled.seq) \in Nat
    BY WindowTypes
  <1>5. handled = None
    BY <1>1, <1>4 DEF WindowInv, Fresh
  <1> QED
    BY <1>1, <1>3, <1>5

LEMMA WindowInit == ProtocolInit => WindowInv
  BY ProtocolAssumption DEF ProtocolInit, WindowInv

LEMMA WindowStep ==
  ASSUME LinkType, LinkType', WindowInv, HandledInv, AckInv, [ProtocolNext]_allVars
  PROVE  WindowInv'
  <1>1. CASE UNCHANGED linkVars
    BY <1>1 DEF linkVars, WindowInv, InWindow, Fresh, Oldest
  <1>2. ASSUME NEW m \in Range(up), DropStale(m) \/ Refuse(m) \/ Keep(m) \/ Take(m)
        PROVE  WindowInv'
    <2>1. /\ up # <<>> /\ up' = Tail(up) /\ m = Head(up) /\ app' = app
          /\ task["host"].at = "idle"
      BY <1>2 DEF DropStale, Refuse, Keep, Take, Received
    <2>2. handled = None
      BY <2>1, ConfigAssumption DEF HandledInv
    <2> QED
      BY <1>2, <2>1, <2>2, WindowShrinks DEF DropStale, Refuse, Keep, Take
  <1>3. CASE Finish
    <2>1. /\ UNCHANGED <<up, app>> /\ lastSeq' = handled.seq /\ handled' = None
          /\ handled # None
      BY <1>3 DEF Finish, ApplySetting, HandledInv
    <2>2. lastSeq' \in Seqs /\ Back(app'.seq, lastSeq') <= app'.used /\ Oldest(lastSeq)'
      BY <2>1, WindowTypes DEF WindowInv, InWindow, Oldest
    <2> QED
      BY <2>1, <2>2 DEF WindowInv, InWindow
  <1>4. CASE DeviceRestarts
    <2>1. /\ up' = <<>> /\ lastSeq' = -1 /\ handled' = None
          /\ app'.used = 0 /\ app'.seq = 0
          /\ app'.waits = IF app.waits = None THEN None ELSE [app.waits EXCEPT !.seq = 0]
      BY <1>4 DEF DeviceRestarts, AfterRestart, LinkType
    <2>2. app'.waits # None => app'.waits.seq = 0
      BY <2>1, MessageFields DEF LinkType
    <2> QED
      BY <2>1, <2>2, ProtocolAssumption DEF WindowInv
  <1>5. CASE AppAcked
    <2>1. /\ UNCHANGED <<up, lastSeq, handled>> /\ app'.seq = app.seq /\ app'.used = 0
          /\ app'.waits = None /\ lastSeq = app.seq
      BY <1>5 DEF AppAcked, LinkType, AckInv
    <2>2. /\ lastSeq # -1 /\ handled = None
          /\ \A i \in DOMAIN up : Back(app.seq, up[i].seq) = 0
          /\ Back(app.seq, lastSeq) = 0
      BY <2>1, AllSeen
    <2> QED
      BY <2>1, <2>2, ProtocolAssumption DEF WindowInv, InWindow, Oldest
  <1>6. CASE AppGivesUp
    <2>1. /\ UNCHANGED <<up, lastSeq, handled>> /\ app'.seq = app.seq
          /\ app'.used = app.used /\ app'.waits = None
      BY <1>6 DEF AppGivesUp, LinkType
    <2> QED
      BY <2>1 DEF WindowInv, InWindow, Oldest, Fresh
  <1>7. CASE Lose
    <2>1. CASE up # <<>> /\ up' = Tail(up)
      BY <1>7, <2>1, WindowShrinks DEF Lose
    <2>2. CASE UNCHANGED up
      BY <1>7, <2>2 DEF Lose, WindowInv, InWindow, Fresh, Oldest
    <2> QED
      BY <1>7, <2>1, <2>2 DEF Lose
  <1>8. CASE UNCHANGED allVars \/ InBackground
    BY <1>1, <1>8 DEF allVars, InBackground
  <1> QED
    BY <1>2, <1>3, <1>4, <1>5, <1>6, <1>7, <1>8, WindowMoves, WindowRepeats
    DEF ProtocolNext

-----------------------------------------------------------------------------
(* Acknowledged settings *)

LEMMA AppliedInit == ProtocolInit => AppliedInv
  BY ConfigAssumption, ProtocolAssumption
  DEF ProtocolInit, Init, AppliedInv, HandledInv, AckInv, FreshInv, KeptInv, NothingAcked,
      Tasks, Idle, At, running, Seqs

\* What ConfigService does on its own concerns no setting of the app, but for a boot.
LEMMA BackgroundKeeps ==
  ASSUME TypeOK, Background
  PROVE  \/ Boot
         \/ /\ running /\ running'
            /\ \A key \in Keys : config'[key] = config[key]
            /\ config'.sensitivity = config.sensitivity /\ hal' = hal
            /\ \/ task'["host"].at = task["host"].at
               \/ task'["host"].at \notin Keys /\ task["host"].at \notin Keys
  <1> DEFINE Kept == /\ running /\ running'
                     /\ \A key \in Keys : config'[key] = config[key]
                     /\ config'.sensitivity = config.sensitivity /\ hal' = hal
                     /\ \/ task'["host"].at = task["host"].at
                        \/ task'["host"].at \notin Keys /\ task["host"].at \notin Keys
  <1>1. {"idle", "epoch", "timer"} \cap Keys = {}
    BY ConfigAssumption
  <1>2. ASSUME NEW t \in Tasks, UpdateEpoch(t) PROVE Kept
    <2>1. running /\ running' /\ hal' = hal
      BY <1>2 DEF UpdateEpoch, CompareEpoch, SetEpoch, StartTimer, running
    <2>2. config' = config \/ \E e \in 0 .. MaxEpoch : config' = [config EXCEPT !.epoch = e]
      BY <1>2 DEF UpdateEpoch, CompareEpoch, SetEpoch, StartTimer, TypeOK, TaskState
    <2>3. /\ \A key \in Keys : config'[key] = config[key]
          /\ config'.sensitivity = config.sensitivity
      BY <2>2, ConfigAssumption DEF TypeOK, UserConfig
    <2>4. ASSUME NEW step, NEW now, task' = [task EXCEPT ![t] = At(step, now)],
                 step \notin Keys, task[t].at \notin Keys
          PROVE  \/ task'["host"].at = task["host"].at
                 \/ task'["host"].at \notin Keys /\ task["host"].at \notin Keys
      BY <2>4 DEF TypeOK, Tasks, At
    <2>5. \/ task'["host"].at = task["host"].at
          \/ task'["host"].at \notin Keys /\ task["host"].at \notin Keys
      <3>1. CASE \E now \in 1 .. MaxEpoch : CompareEpoch(t, now)
        BY <1>1, <2>4, <3>1 DEF CompareEpoch
      <3>2. CASE SetEpoch(t)
        BY <1>1, <2>4, <3>2 DEF SetEpoch
      <3>3. CASE StartTimer(t)
        BY <1>1, <2>4, <3>3 DEF StartTimer, Idle
      <3> QED
        BY <1>2, <3>1, <3>2, <3>3 DEF UpdateEpoch
    <2> QED
      BY <2>1, <2>3, <2>5
  <1>3. ASSUME Save PROVE Kept
    BY <1>3 DEF Save, commitTimerCallback, WorkerWakes, WorkerSaves, running
  <1>4. ASSUME PrepareSleep PROVE Kept
    BY <1>4 DEF PrepareSleep, BeforeSleep, StopTimer, CheckDirty, FlushWrites, SleepAborted,
                running
  <1> HIDE DEF Kept
  <1>5. Boot \/ Kept
    BY <1>2, <1>3, <1>4 DEF Background
  <1> QED
    BY <1>5 DEF Kept

\* The host task is at a setting only if the app may change it.
LEMMA HostKeys ==
  ASSUME TypeOK, task["host"].at = "sensitivity" PROVE "sensitivity" \in Keys
  BY DEF TypeOK, Tasks, TaskState

LEMMA AppliedBackground ==
  ASSUME TypeOK, LinkType, AppliedInv, InBackground PROVE AppliedInv'
  <1>1. Background /\ UNCHANGED <<lastSeq, handled, up, ack, app>>
    BY DEF InBackground, linkVars
  <1>2. FreshInv'
    BY <1>1 DEF AppliedInv, FreshInv, Fresh
  <1>3. app.waits # None => app.waits.key \in Keys
    BY MessageFields DEF LinkType
  <1>4. CASE Boot
    <2>1. /\ ~running /\ running' /\ config' = Restored(nvs) /\ task' = task
          /\ hal' = config'.sensitivity
      BY <1>4 DEF Boot, running
    <2>2. lastSeq = -1 /\ handled = None
      BY <2>1 DEF AppliedInv, AckInv, HandledInv
    <2>3. lastSeq # app.seq
      BY <2>2 DEF LinkType, Seqs
    <2>4. HandledInv' /\ AckInv'
      BY <1>1, <2>1, <2>2, <2>3 DEF AppliedInv, AckInv, HandledInv
    <2>5. KeptInv'
      BY <1>1, <2>1 DEF AppliedInv, KeptInv
    <2> QED
      BY <1>2, <2>4, <2>5 DEF AppliedInv
  <1>5. CASE /\ running /\ running'
             /\ \A key \in Keys : config'[key] = config[key]
             /\ config'.sensitivity = config.sensitivity /\ hal' = hal
             /\ \/ task'["host"].at = task["host"].at
                \/ task'["host"].at \notin Keys /\ task["host"].at \notin Keys
    <2>1. HandledInv'
      BY <1>1, <1>5 DEF AppliedInv, HandledInv
    <2>2. AckInv'
      BY <1>1, <1>3, <1>5 DEF AppliedInv, AckInv
    <2>3. \A key \in Keys : app'.acked[key] # None =>
            app'.acked[key] = IF running' THEN config'[key] ELSE Restored(nvs')[key]
      BY <1>1, <1>5 DEF AppliedInv, KeptInv
    <2>4. hal' = config'.sensitivity \/ task'["host"].at = "sensitivity"
      <3>1. CASE hal = config.sensitivity
        BY <1>5, <3>1
      <3>2. CASE task["host"].at = "sensitivity" /\ task'["host"].at = task["host"].at
        BY <3>2
      <3>3. CASE task["host"].at = "sensitivity" /\ task["host"].at \notin Keys
        BY <3>3, HostKeys
      <3> QED
        BY <1>5, <3>1, <3>2, <3>3 DEF AppliedInv, KeptInv
    <2> QED
      BY <1>2, <2>1, <2>2, <2>3, <2>4 DEF AppliedInv, KeptInv
  <1> QED
    BY <1>1, <1>4, <1>5, BackgroundKeeps

\* What leaves the link concerns nobody any more.
LEMMA FreshShrinks ==
  ASSUME LinkType, FreshInv, up # <<>>, up' = Tail(up), app' = app,
         \A seq \in Seqs : Fresh(seq)' => Fresh(seq)
  PROVE  FreshInv'
  <1>1. \A i \in DOMAIN up' : /\ i + 1 \in DOMAIN up /\ up'[i] = up[i + 1]
                              /\ up[i + 1].seq \in Seqs
    BY LinkOrder, MessageFields DEF LinkType
  <1> SUFFICES ASSUME NEW i \in DOMAIN up', Fresh(up[i].seq)'
               PROVE  app'.acked[up'[i].key] = None
    BY DEF FreshInv
  <1>2. Fresh(up[i + 1].seq)
    BY <1>1 DEF Fresh
  <1> QED
    BY <1>1, <1>2 DEF FreshInv

\* Once a fresh number is handled, there is less that is fresh.
LEMMA FreshAfter ==
  ASSUME LinkType, WindowInv, app' = app, NEW last \in Seqs, lastSeq' = last, Fresh(last)
  PROVE  \A seq \in Seqs : Fresh(seq)' => Fresh(seq)
  <1>1. app.seq \in Seqs /\ last # -1
    BY DEF LinkType, Seqs
  <1>2. lastSeq # -1 => lastSeq \in Seqs
    BY DEF WindowInv
  <1> SUFFICES ASSUME NEW seq \in Seqs, Fresh(seq)', lastSeq # -1
               PROVE  Back(app.seq, seq) < Back(app.seq, lastSeq)
    BY DEF Fresh
  <1>3. Back(app.seq, seq) < Back(app.seq, last) /\ Back(app.seq, last) < Back(app.seq, lastSeq)
    BY <1>1 DEF Fresh
  <1>4. /\ Back(app.seq, seq) \in Nat /\ Back(app.seq, last) \in Nat
        /\ Back(app.seq, lastSeq) \in Nat
    BY <1>1, <1>2, BackType
  <1> QED
    BY <1>3, <1>4

\* handleSetConfig, for each of its ways through a message.
LEMMA AppliedReceive ==
  ASSUME TypeOK, LinkType, WindowInv, AppliedInv, NEW m \in Range(up),
         DropStale(m) \/ Refuse(m) \/ Keep(m) \/ Take(m)
  PROVE  AppliedInv'
  <1>1. /\ up # <<>> /\ up' = Tail(up) /\ m = Head(up) /\ app' = app
        /\ running /\ task["host"].at = "idle"
    BY DEF DropStale, Refuse, Keep, Take, Received
  <1>2. 1 \in DOMAIN up /\ m = up[1] /\ m \in SetConfig
    BY <1>1, LinkOrder DEF LinkType
  <1>3. m.seq \in Seqs /\ m.key \in Keys /\ app.seq \in Seqs
    BY <1>2, MessageFields DEF LinkType
  <1>4. Stale(m.seq) <=> ~Fresh(m.seq)
    BY <1>2, StaleIsSeen
  <1>5. handled = None
    BY <1>1, ConfigAssumption DEF AppliedInv, HandledInv
  <1>6. Fresh(m.seq) => lastSeq # app.seq
    BY <1>2, AllSeen
  <1>7. app.waits # None => app.waits.seq = app.seq
    BY DEF WindowInv
  <1>8. m.seq = app.seq /\ app.waits # None => m = app.waits
    BY <1>2 DEF WindowInv, InWindow
  <1>9. CASE DropStale(m) \/ Refuse(m)
    <2>1. UNCHANGED <<vars, lastSeq, handled, app>>
      BY <1>9 DEF DropStale, Refuse
    <2>2. FreshInv'
      <3>1. \A seq \in Seqs : Fresh(seq)' => Fresh(seq)
        BY <2>1 DEF Fresh
      <3> QED
        BY <1>1, <3>1, FreshShrinks DEF AppliedInv
    <2>3. ack' => lastSeq' = app'.seq
      <3>1. CASE ~ack /\ ack'
        <4>1. DropStale(m) /\ app.waits # None /\ app.waits.seq = m.seq
          BY <1>9, <3>1 DEF DropStale, Refuse, sendAck
        <4>2. ~Fresh(m.seq) /\ m.seq = app.seq
          BY <1>4, <1>7, <4>1 DEF DropStale
        <4>3. Back(app.seq, m.seq) = 0 /\ lastSeq # -1 /\ lastSeq \in Seqs
          BY <1>3, <4>2, BackType DEF Fresh, WindowInv
        <4>4. Back(app.seq, lastSeq) \in Nat
          BY <1>3, <4>3, BackType
        <4>5. Back(app.seq, lastSeq) = 0
          BY <4>2, <4>3, <4>4 DEF Fresh
        <4> QED
          BY <1>3, <2>1, <4>3, <4>5, BackType
      <3>2. CASE ack
        BY <2>1, <3>2 DEF AppliedInv, AckInv
      <3> QED
        BY <3>1, <3>2
    <2>4. AckInv'
      BY <2>1, <2>3 DEF vars, running, AppliedInv, AckInv
    <2>5. HandledInv' /\ KeptInv'
      BY <2>1 DEF vars, running, AppliedInv, HandledInv, KeptInv, Restored
    <2> QED
      BY <2>2, <2>4, <2>5 DEF AppliedInv
  <1>10. CASE Keep(m)
    <2>1. /\ UNCHANGED <<vars, handled, app>> /\ lastSeq' = m.seq
          /\ config[m.key] = m.value /\ Fresh(m.seq)
      BY <1>4, <1>10 DEF Keep
    <2>2. FreshInv'
      <3>1. \A seq \in Seqs : Fresh(seq)' => Fresh(seq)
        BY <1>3, <2>1, FreshAfter
      <3> QED
        BY <1>1, <3>1, FreshShrinks DEF AppliedInv
    <2>3. ~ack
      BY <1>6, <2>1 DEF AppliedInv, AckInv
    <2>4. ack' => app.waits # None /\ app.waits.seq = m.seq
      BY <1>10, <2>3, Zenon DEF Keep, sendAck
    <2>5. AckInv'
      <3>1. running' /\ (ack' => lastSeq' = app'.seq)
        BY <1>1, <1>7, <2>1, <2>4 DEF vars, running
      <3>2. lastSeq' = app'.seq /\ app'.waits # None =>
              config'[app'.waits.key] = app'.waits.value
        BY <1>8, <2>1 DEF vars
      <3> QED
        BY <2>1, <3>1, <3>2 DEF AppliedInv, AckInv
    <2>6. HandledInv' /\ KeptInv'
      BY <2>1 DEF vars, running, AppliedInv, HandledInv, KeptInv, Restored
    <2> QED
      BY <2>2, <2>5, <2>6 DEF AppliedInv
  <1>11. CASE Take(m)
    <2>1. /\ UNCHANGED <<lastSeq, ack, app, hal, loop, nvs>> /\ handled' = m /\ Fresh(m.seq)
          /\ config' = [config EXCEPT ![m.key] = m.value]
          /\ task' = [task EXCEPT !["host"] = At(m.key, 0)]
      BY <1>4, <1>11 DEF Take, ChangeSetting
    <2>2. /\ config'[m.key] = m.value
          /\ \A key \in Keys \ {m.key} : config'[key] = config[key]
          /\ "sensitivity" # m.key => config'.sensitivity = config.sensitivity
          /\ task'["host"].at = m.key
      BY <1>3, <2>1, ConfigAssumption DEF TypeOK, UserConfig, Tasks, At
    <2>3. running' /\ app.acked[m.key] = None /\ lastSeq # app.seq /\ m # None
      BY <1>1, <1>2, <1>6, <2>1, MessageFields DEF running, AppliedInv, FreshInv
    <2>4. HandledInv'
      BY <1>3, <2>1, <2>2, <2>3 DEF HandledInv
    <2>5. AckInv'
      BY <2>1, <2>3 DEF AppliedInv, AckInv
    <2>6. FreshInv'
      <3>1. \A seq \in Seqs : Fresh(seq)' => Fresh(seq)
        BY <2>1 DEF Fresh
      <3> QED
        BY <1>1, <3>1, FreshShrinks DEF AppliedInv
    <2>7. KeptInv'
      <3>1. \A key \in Keys : app.acked[key] # None => app.acked[key] = config'[key]
        BY <1>1, <2>2, <2>3 DEF AppliedInv, KeptInv
      <3>2. hal' = config'.sensitivity \/ task'["host"].at = "sensitivity"
        BY <1>1, <2>1, <2>2 DEF AppliedInv, KeptInv
      <3> QED
        BY <2>1, <2>3, <3>1, <3>2 DEF KeptInv
    <2> QED
      BY <2>4, <2>5, <2>6, <2>7 DEF AppliedInv
  <1> QED
    BY <1>9, <1>10, <1>11

\* The setting is applied and acknowledged.
LEMMA AppliedFinish ==
  ASSUME TypeOK, LinkType, WindowInv, AppliedInv, Finish PROVE AppliedInv'
  <1>1. /\ UNCHANGED <<up, app, config, loop, nvs>> /\ handled # None /\ handled' = None
        /\ lastSeq' = handled.seq /\ task' = [task EXCEPT !["host"] = Idle]
        /\ hal' = applySensitivityToHal(task["host"].at) /\ running
    BY DEF Finish, ApplySetting, AppliedInv, HandledInv
  <1>2. /\ handled.seq \in Seqs /\ handled.key \in Keys /\ Fresh(handled.seq)
        /\ InWindow(handled)
    BY <1>1, MessageFields DEF WindowInv
  <1>3. task["host"].at = handled.key /\ config[handled.key] = handled.value
    BY <1>1 DEF AppliedInv, HandledInv
  <1>4. task'["host"].at = "idle" /\ "idle" \notin Keys
    BY <1>1, ConfigAssumption DEF TypeOK, Tasks, Idle, At
  <1>5. ~ack
    BY <1>1, AllSeen DEF AppliedInv, AckInv
  <1>6. ack' => app.waits # None /\ app.waits.seq = handled.seq
    BY <1>5, Zenon DEF Finish, sendAck
  <1>7. running'
    BY <1>1 DEF running
  <1>8. HandledInv'
    BY <1>1, <1>4 DEF HandledInv
  <1>9. AckInv'
    <2>1. ack' => lastSeq' = app'.seq
      BY <1>1, <1>6 DEF WindowInv
    <2>2. lastSeq' = app'.seq /\ app'.waits # None =>
            config'[app'.waits.key] = app'.waits.value
      BY <1>1, <1>2, <1>3 DEF InWindow
    <2> QED
      BY <1>1, <1>7, <2>1, <2>2 DEF AppliedInv, AckInv
  <1>10. FreshInv'
    <2>1. \A seq \in Seqs : Fresh(seq)' => Fresh(seq)
      BY <1>1, <1>2, FreshAfter
    <2>2. \A i \in DOMAIN up : up[i].seq \in Seqs
      BY WindowTypes
    <2> QED
      BY <1>1, <2>1, <2>2 DEF AppliedInv, FreshInv, Fresh
  <1>11. KeptInv'
    <2>1. hal' = config'.sensitivity
      BY <1>1, <1>3 DEF applySensitivityToHal, AppliedInv, KeptInv
    <2> QED
      BY <1>1, <1>7, <2>1 DEF AppliedInv, KeptInv
  <1> QED
    BY <1>8, <1>9, <1>10, <1>11 DEF AppliedInv

\* What survives a restart is what was saved.
LEMMA AppliedRestart ==
  ASSUME TypeOK, LinkType, AppliedInv, CleanMeansSaved, DeviceRestarts PROVE AppliedInv'
  <1>1. /\ running /\ ~running' /\ nvs' = nvs /\ task' = [t \in Tasks |-> Idle]
        /\ lastSeq' = -1 /\ handled' = None /\ up' = <<>> /\ ~ack'
    BY DEF DeviceRestarts, Restart, DeepSleep, PowerLoss, Reset, running
  <1>2. /\ app'.seq = 0
        /\ app'.waits = IF app.waits = None THEN None ELSE [app.waits EXCEPT !.seq = 0]
        /\ app'.acked = IF dirty THEN NothingAcked ELSE app.acked
    BY DEF DeviceRestarts, AfterRestart, LinkType
  <1>3. \A key \in Keys : NothingAcked[key] = None
    BY DEF NothingAcked
  <1>4. app'.waits # None => app.waits # None /\ app'.waits.key = app.waits.key
                             /\ app.waits.key \in Keys
    BY <1>2, MessageFields DEF LinkType
  <1>5. HandledInv'
    BY <1>1, ConfigAssumption DEF HandledInv, Tasks, Idle, At
  <1>6. AckInv'
    BY <1>1, <1>2, <1>3, <1>4 DEF AppliedInv, AckInv
  <1>7. FreshInv'
    BY <1>1 DEF FreshInv
  <1>8. KeptInv'
    <2>1. ASSUME NEW key \in Keys, app'.acked[key] # None
          PROVE  app'.acked[key] = Restored(nvs)[key]
      <3>1. ~dirty /\ app'.acked[key] = app.acked[key]
        BY <1>2, <1>3, <2>1
      <3>2. Restored(nvs) = config
        BY <1>1, <3>1 DEF CleanMeansSaved
      <3> QED
        BY <1>1, <2>1, <3>1, <3>2 DEF AppliedInv, KeptInv
    <2> QED
      BY <1>1, <2>1 DEF KeptInv, Restored
  <1> QED
    BY <1>5, <1>6, <1>7, <1>8 DEF AppliedInv

\* A new request takes back what was acknowledged for its setting.
LEMMA AppliedSends ==
  ASSUME LinkType, LinkType', WindowInv, AppliedInv, NEW gap \in 1 .. MaxGap,
         NEW m \in SetConfigOf((app.seq + gap) % SEQ_SPACE), AppSends(m, gap)
  PROVE  AppliedInv'
  <1>1. /\ gap \in Nat /\ gap >= 1 /\ app'.waits = m /\ m.seq = app'.seq /\ m \in SetConfig
        /\ UNCHANGED <<lastSeq, handled>> /\ up' = Append(up, m)
        /\ \A seq \in Seqs : Back(app.seq, seq) <= app.used =>
             /\ Back(app'.seq, seq) = Back(app.seq, seq) + gap /\ seq # app'.seq
    BY Shift
  <1>2. /\ UNCHANGED <<config, nvs, hal, task, loop, ack>> /\ app.waits = None
        /\ app'.acked = [app.acked EXCEPT ![m.key] = None]
    BY DEF AppSends, LinkType, vars
  <1>3. m.key \in Keys /\ app.acked \in [Keys -> AnyValue \cup {None}]
    BY <1>1, MessageFields DEF LinkType
  <1>4. /\ app'.acked[m.key] = None
        /\ \A key \in Keys : app'.acked[key] \in {None, app.acked[key]}
    BY <1>2, <1>3
  <1>5. HandledInv'
    <2>1. handled # None => handled.key \in Keys
      BY MessageFields DEF WindowInv
    <2> QED
      BY <1>1, <1>2, <1>4, <2>1 DEF AppliedInv, HandledInv, running
  <1>6. lastSeq # app'.seq
    BY <1>1, Shift DEF WindowInv, Seqs
  <1>7. AckInv'
    BY <1>1, <1>2, <1>4, <1>6 DEF AppliedInv, AckInv, LinkType, running
  <1>8. FreshInv'
    <2> SUFFICES ASSUME NEW i \in DOMAIN up', Fresh(up[i].seq)'
                 PROVE  app'.acked[up'[i].key] = None
      BY DEF FreshInv
    <2>1. CASE up'[i] = m
      BY <1>4, <2>1
    <2>2. CASE i \in DOMAIN up /\ up'[i] = up[i]
      <3>1. /\ up[i].seq \in Seqs /\ up[i].key \in Keys /\ Back(app.seq, up[i].seq) \in Nat
            /\ Back(app.seq, up[i].seq) <= app.used
        BY <2>2, WindowTypes, MessageFields DEF WindowInv, InWindow
      <3>2. Back(app'.seq, up[i].seq) = Back(app.seq, up[i].seq) + gap
        BY <1>1, <3>1
      <3>3. Fresh(up[i].seq)
        <4> SUFFICES ASSUME lastSeq # -1
                     PROVE  Back(app.seq, up[i].seq) < Back(app.seq, lastSeq)
          BY DEF Fresh
        <4>1. /\ lastSeq \in Seqs /\ Back(app.seq, lastSeq) <= app.used
              /\ Back(app.seq, lastSeq) \in Nat
          BY WindowTypes DEF WindowInv
        <4>2. Back(app'.seq, lastSeq) = Back(app.seq, lastSeq) + gap
          BY <1>1, <4>1
        <4>3. Back(app'.seq, up[i].seq) < Back(app'.seq, lastSeq)
          BY <1>1, <2>2 DEF Fresh
        <4> QED
          BY <1>1, <3>1, <3>2, <4>1, <4>2, <4>3
      <3> QED
        BY <1>4, <2>2, <3>1, <3>3 DEF AppliedInv, FreshInv
    <2> QED
      BY <1>1, <2>1, <2>2, LinkOrder DEF LinkType
  <1>9. KeptInv'
    BY <1>2, <1>4 DEF AppliedInv, KeptInv, running, Restored
  <1> QED
    BY <1>5, <1>7, <1>8, <1>9 DEF AppliedInv

\* The rest of what the app and the link do.
LEMMA AppliedApp ==
  ASSUME LinkType, WindowInv, AppliedInv, AppRepeats \/ AppAcked \/ AppGivesUp \/ Lose
  PROVE  AppliedInv'
  <1>1. UNCHANGED <<config, nvs, hal, task, loop, lastSeq, handled>>
    BY DEF AppRepeats, AppAcked, AppGivesUp, Lose, vars
  <1>2. ASSUME app' = app, ack' => ack, FreshInv' PROVE AppliedInv'
    BY <1>1, <1>2 DEF AppliedInv, HandledInv, AckInv, KeptInv, running, Restored
  <1>3. CASE AppRepeats
    <2>1. app' = app /\ ack' = ack /\ app.waits \in SetConfig /\ up' = Append(up, app.waits)
          /\ app.acked[app.waits.key] = None
      BY <1>3 DEF AppRepeats, LinkType, AppliedInv, AckInv
    <2>2. \A i \in DOMAIN up' : up'[i] = app.waits \/ (i \in DOMAIN up /\ up'[i] = up[i])
      BY <2>1, LinkOrder DEF LinkType
    <2>3. FreshInv'
      BY <1>1, <2>1, <2>2 DEF AppliedInv, FreshInv, Fresh
    <2> QED
      BY <1>2, <2>1, <2>3
  <1>4. CASE AppAcked
    <2>1. /\ app'.seq = app.seq /\ app'.waits = None /\ ~ack' /\ up' = up
          /\ app'.acked = [app.acked EXCEPT ![app.waits.key] = app.waits.value]
          /\ lastSeq = app.seq /\ app.waits \in SetConfig
      BY <1>4 DEF AppAcked, LinkType, AppliedInv, AckInv
    <2>2. lastSeq # -1 /\ handled = None /\ \A i \in DOMAIN up : ~Fresh(up[i].seq)
      BY <2>1, AllSeen
    <2>3. /\ running /\ config[app.waits.key] = app.waits.value /\ app.waits.key \in Keys
          /\ app.acked \in [Keys -> AnyValue \cup {None}] /\ app.waits # None
      BY <2>1, <2>2, MessageFields DEF AppliedInv, AckInv, LinkType
    <2>4. HandledInv' /\ AckInv'
      BY <1>1, <2>1, <2>2, <2>3 DEF AppliedInv, HandledInv, AckInv, running
    <2>5. FreshInv'
      BY <1>1, <2>1, <2>2 DEF FreshInv, Fresh
    <2>6. KeptInv'
      BY <1>1, <2>1, <2>3 DEF AppliedInv, KeptInv, running
    <2> QED
      BY <2>4, <2>5, <2>6 DEF AppliedInv
  <1>5. CASE AppGivesUp
    <2>1. /\ app'.seq = app.seq /\ app'.acked = app.acked /\ app'.waits = None
          /\ ~ack' /\ up' = up
      BY <1>5 DEF AppGivesUp, LinkType
    <2>2. HandledInv' /\ AckInv' /\ FreshInv'
      BY <1>1, <2>1 DEF AppliedInv, HandledInv, AckInv, FreshInv, Fresh, running
    <2>3. KeptInv'
      BY <1>1, <2>1 DEF AppliedInv, KeptInv, running, Restored
    <2> QED
      BY <2>2, <2>3 DEF AppliedInv
  <1>6. CASE Lose
    <2>1. app' = app /\ (ack' => ack) /\ (up' = up \/ (up # <<>> /\ up' = Tail(up)))
      BY <1>6 DEF Lose
    <2>2. \A seq \in Seqs : Fresh(seq)' => Fresh(seq)
      BY <1>1, <2>1 DEF Fresh
    <2>3. CASE up' = up
      <3>1. FreshInv'
        BY <1>1, <2>1, <2>3 DEF AppliedInv, FreshInv, Fresh
      <3> QED
        BY <1>2, <2>1, <3>1
    <2>4. CASE up # <<>> /\ up' = Tail(up)
      BY <1>2, <2>1, <2>2, <2>4, FreshShrinks DEF AppliedInv
    <2> QED
      BY <2>1, <2>3, <2>4
  <1> QED
    BY <1>3, <1>4, <1>5, <1>6

\* What handleSetConfig has acknowledged is in force, in the settings and in the sensor,
\* and a restart brings it back unless it was not saved: for all settings and values,
\* every size of the number space, any number of messages on the link, losses, repeats,
\* failing writes and power loss.
THEOREM AckedCorrect == ProtocolSpec => []AckedIsApplied
  <1> DEFINE IInv == WindowInv /\ AppliedInv
  <1>1. ProtocolInit => IInv
    BY WindowInit, AppliedInit
  <1>2. TypeOK /\ CleanMeansSaved /\ LinkType /\ LinkType' /\ IInv /\ [ProtocolNext]_allVars
          => IInv'
    <2> SUFFICES ASSUME TypeOK, CleanMeansSaved, LinkType, LinkType', WindowInv, AppliedInv,
                        [ProtocolNext]_allVars
                 PROVE  WindowInv' /\ AppliedInv'
      OBVIOUS
    <2>1. WindowInv'
      BY WindowStep DEF AppliedInv
    <2>2. CASE UNCHANGED allVars
      <3>1. UNCHANGED <<config, hal, nvs, task, loop, lastSeq, handled, up, ack, app>>
        BY <2>2 DEF allVars, vars, linkVars
      <3>2. HandledInv' /\ AckInv' /\ FreshInv'
        BY <3>1 DEF AppliedInv, HandledInv, AckInv, FreshInv, Fresh, running
      <3>3. KeptInv'
        BY <3>1 DEF AppliedInv, KeptInv, running, Restored
      <3> QED
        BY <2>1, <3>2, <3>3 DEF AppliedInv
    <2>3. AppliedInv'
      BY <2>2, AppliedReceive, AppliedFinish, AppliedBackground, AppliedRestart, AppliedSends,
         AppliedApp DEF ProtocolNext
    <2> QED
      BY <2>1, <2>3
  <1>3. TypeOK /\ AppliedInv => AckedIsApplied
    <2> SUFFICES ASSUME TypeOK, AppliedInv, running PROVE AckedIsApplied
      BY DEF AckedIsApplied
    <2>1. \A key \in Keys : app.acked[key] \in {None, config[key]}
      BY DEF AppliedInv, KeptInv
    <2>2. "sensitivity" \in Keys /\ app.acked["sensitivity"] # None =>
            app.acked["sensitivity"] = hal
      BY <2>1 DEF AppliedInv, KeptInv, HandledInv
    <2> QED
      BY <2>1, <2>2 DEF AckedIsApplied
  <1> QED
    BY <1>1, <1>2, <1>3, LinkAlways, ProtocolRefines, TypeCorrect, FlagCorrect, PTL
    DEF ProtocolSpec

=============================================================================

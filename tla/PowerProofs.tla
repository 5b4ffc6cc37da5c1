----------------------------- MODULE PowerProofs -----------------------------
(***************************************************************************)
(* What PowerManager guarantees for every limit of cancelled sleeps and    *)
(* all faults, although three tasks change its state without a lock: the   *)
(* device is never awake in DEEP_SLEEP, it can be found by the app, and    *)
(* the counter of cancelled sleeps stays within its limit.                 *)
(***************************************************************************)
EXTENDS PowerManager, TLAPS

\* Advertising and the storage worker: who stops the one has stopped the other before,
\* and a connection that ends leaves the host task with advertising still to start.
AdvertisingInv ==
  /\ loop \in {"disconnect", "stopAdv", "check"} => ~worker
  /\ worker /\ ~connected /\ host \notin {"disconnected", "advertise"} => advertising

PowerInv == TypeOK /\ NoStuckDeepSleep /\ AdvertisingInv

-----------------------------------------------------------------------------
(* Operations of PowerManager *)

\* A transition leads to its state and keeps the types.
LEMMA TransitionFacts ==
  ASSUME NEW p \in Members, NEW new \in PowerState
  PROVE  transitionTo(p, new) \in Members /\ transitionTo(p, new).state = new
  <1>1. CASE p.state = new
    BY <1>1 DEF transitionTo
  <1>2. CASE p.state # new
    <2> DEFINE c == IF new \in {"ACTIVE", "DEEP_SLEEP"} THEN 0 ELSE p.cancels
               i == p.idle /\ new \notin {"WAKE_MODE", "ACTIVE"}
               o == p.prepOver /\ new # "SLEEP_PREP"
    <2>1. c \in 0 .. MAX_SLEEP_CANCEL_COUNT
      BY PowerAssumption DEF Members
    <2>2. i \in BOOLEAN /\ o \in BOOLEAN
      BY Zenon DEF Members
    <2>3. transitionTo(p, new) =
            [state |-> new, cancels |-> c, idle |-> i, prepOver |-> o, overdue |-> FALSE]
      BY <1>2 DEF transitionTo
    <2> HIDE DEF c, i, o
    <2> QED
      BY <2>1, <2>2, <2>3 DEF Members
  <1> QED
    BY <1>1, <1>2

LEMMA States ==
  /\ "WAKE_MODE" \in PowerState /\ "ACTIVE" \in PowerState
  /\ "DETECTION_ACTIVE" \in PowerState /\ "SLEEP_PREP" \in PowerState
  /\ "DEEP_SLEEP" \in PowerState
  BY DEF PowerState

\* No operation but enterDeepSleep leads to DEEP_SLEEP.
LEMMA CancelFacts ==
  ASSUME NEW p \in Members
  PROVE  /\ cancelSleep(p) \in Members
         /\ cancelSleep(p).state = "DEEP_SLEEP" => p.state = "DEEP_SLEEP"
  BY TransitionFacts, States DEF cancelSleep

LEMMA NotifyFacts ==
  ASSUME NEW p \in Members
  PROVE  /\ notifyActivity(p) \in Members
         /\ notifyActivity(p).state = "DEEP_SLEEP" => p.state = "DEEP_SLEEP"
  <1>1. [p EXCEPT !.idle = FALSE] \in Members /\ [p EXCEPT !.idle = FALSE].state = p.state
    BY DEF Members
  <1> QED
    BY <1>1, CancelFacts DEF notifyActivity

\* A sleep that noise cancels is counted up to the limit.
LEMMA CancelledFacts ==
  ASSUME NEW p \in Members, p.cancels < MAX_SLEEP_CANCEL_COUNT
  PROVE  /\ CancelledOnce(p) \in Members
         /\ CancelledOnce(p).state = "DEEP_SLEEP" => p.state = "DEEP_SLEEP"
  <1> DEFINE q == [p EXCEPT !.cancels = p.cancels + 1]
  <1>1. p.cancels + 1 \in 0 .. MAX_SLEEP_CANCEL_COUNT
    BY PowerAssumption DEF Members
  <1>2. q \in Members /\ q.state = p.state
    BY <1>1 DEF Members
  <1>3. CancelledOnce(p) \in {q, cancelSleep(q)}
    BY DEF CancelledOnce
  <1> HIDE DEF q
  <1> QED
    BY <1>2, <1>3, CancelFacts

-----------------------------------------------------------------------------
(* Steps *)

LEMMA BootedFacts ==
  /\ Booted \in Members /\ Booted.state = "WAKE_MODE"
  /\ SensorIdle \in [pc : {"idle", "promote", "sample", "detected"}, state : PowerState]
  <1>1. 0 \in 0 .. MAX_SLEEP_CANCEL_COUNT
    BY PowerAssumption
  <1> QED
    BY <1>1, States DEF Booted, Members, SensorIdle

LEMMA PowerInit == Init => PowerInv
  BY BootedFacts
  DEF Init, PowerInv, TypeOK, NoStuckDeepSleep, AdvertisingInv, LoopPc, HostPc

LEMMA LoopStep ==
  ASSUME PowerInv, LoopTask \/ Wake PROVE PowerInv'
  <1> USE DEF PowerInv, TypeOK, NoStuckDeepSleep, AdvertisingInv, Awake, LoopPc, Shutdown
  <1>1. CASE IdleExpired
    BY <1>1 DEF IdleExpired, ble, services
  <1>2. CASE HeartbeatExpired
    BY <1>2 DEF HeartbeatExpired, ble, services
  <1>3. CASE RequestSleep
    <2>1. pm' \in Members /\ pm'.state = "SLEEP_PREP"
      BY <1>3, TransitionFacts, States DEF RequestSleep, requestSleep
    <2> QED
      BY <1>3, <2>1 DEF RequestSleep, ble, services
  <1>4. CASE ProcessLock
    <2>1. pm' \in Members /\ pm'.state = pm.state
      BY <1>4 DEF ProcessLock, Members
    <2> QED
      BY <1>4, <2>1 DEF ProcessLock, ble, services
  <1>5. CASE EnterPrepCase
    BY <1>5 DEF EnterPrepCase, ble, services
  <1>6. CASE PrepCase
    <2>1. pm' \in Members /\ pm'.state = pm.state
      BY <1>6 DEF PrepCase, Members
    <2>2. loop' \in {"idle", "decided"}
      BY <1>6 DEF PrepCase
    <2> QED
      BY <1>6, <2>1, <2>2 DEF PrepCase, ble, services
  <1>7. CASE StartShutdown
    <2>1. pm' \in Members
      BY <1>7, TransitionFacts, States DEF StartShutdown
    <2> QED
      BY <1>7, <2>1 DEF StartShutdown, ble, services
  <1>8. CASE StopServices
    BY <1>8 DEF StopServices, ble
  <1>9. CASE DropConnection
    BY <1>9 DEF DropConnection, ble, services
  <1>10. CASE StopAdvertising
    BY <1>10 DEF StopAdvertising, services
  <1>11. CASE AbortSleep
    <2>1. PICK new \in {"WAKE_MODE", "DETECTION_ACTIVE"} : pm' = AfterAbort(new)
      BY <1>11 DEF AbortSleep
    <2>2. transitionTo(pm, new) \in Members /\ transitionTo(pm, new).state = new
      BY TransitionFacts, States
    <2>3. pm' \in Members /\ pm'.state = new
      BY <2>1, <2>2 DEF AfterAbort, Members
    <2> QED
      BY <1>11, <2>3 DEF AbortSleep, ble, services
  <1>12. CASE DeepSleepStart
    BY <1>12 DEF DeepSleepStart, ble, services
  <1>13. CASE Wake
    BY <1>13, BootedFacts DEF Wake, HostPc
  <1> QED
    BY <1>1, <1>2, <1>3, <1>4, <1>5, <1>6, <1>7, <1>8, <1>9, <1>10, <1>11, <1>12, <1>13
    DEF LoopTask

LEMMA SensorStep ==
  ASSUME PowerInv, SensorTask PROVE PowerInv'
  <1> USE DEF PowerInv, TypeOK, NoStuckDeepSleep, AdvertisingInv, Awake
  <1>0. [pm EXCEPT !.idle = FALSE] \in Members
    BY DEF Members
  <1>1. CASE SensorRead
    BY <1>1 DEF SensorRead, ble, services, Members
  <1>2. CASE Promote
    <2>1. pm' \in Members /\ pm'.state = "ACTIVE"
      BY <1>2, TransitionFacts, States DEF Promote
    <2> QED
      BY <1>2, <2>1, States DEF Promote, ble, services
  <1>3. CASE DetectionStarts
    <2>1. pm' \in Members /\ pm'.state = "DETECTION_ACTIVE"
      BY <1>0, <1>3, TransitionFacts, States DEF DetectionStarts
    <2> QED
      BY <1>3, <2>1 DEF DetectionStarts, ble, services
  <1>4. CASE DetectionEnds
    <2>1. pm' \in Members /\ pm'.state # "DEEP_SLEEP"
      BY <1>0, <1>4, TransitionFacts, States DEF DetectionEnds
    <2> QED
      BY <1>4, <2>1, BootedFacts DEF DetectionEnds, ble, services
  <1>5. CASE SampleDone
    <2>1. pm' \in Members /\ (pm'.state = "DEEP_SLEEP" => pm.state = "DEEP_SLEEP")
      <3>1. CASE UNCHANGED pm
        BY <3>1
      <3>2. CASE ~shouldForceSleep(pm) /\ pm' = CancelledOnce(pm)
        <4>1. pm.cancels < MAX_SLEEP_CANCEL_COUNT
          BY <3>2, PowerAssumption DEF shouldForceSleep, Members
        <4> QED
          BY <3>2, <4>1, CancelledFacts
      <3> QED
        BY <1>5, <3>1, <3>2 DEF SampleDone
    <2> QED
      BY <1>5, <2>1, BootedFacts DEF SampleDone, ble, services
  <1> QED
    BY <1>1, <1>2, <1>3, <1>4, <1>5 DEF SensorTask

LEMMA HostStep ==
  ASSUME PowerInv, HostTask PROVE PowerInv'
  <1> USE DEF PowerInv, TypeOK, NoStuckDeepSleep, AdvertisingInv, Awake, HostPc, HostReady
  <1>1. CASE Connect
    BY <1>1 DEF Connect
  <1>2. CASE Connected
    <2>1. pm' \in Members /\ pm'.state = "ACTIVE"
      BY <1>2, TransitionFacts, States DEF Connected
    <2> QED
      BY <1>2, <2>1 DEF Connected, ble, services
  <1>3. CASE Disconnect
    BY <1>3 DEF Disconnect
  <1>4. CASE Disconnected
    <2>1. pm' \in Members /\ pm'.state # "DEEP_SLEEP"
      BY <1>4, TransitionFacts, States DEF Disconnected
    <2> QED
      BY <1>4, <2>1 DEF Disconnected, ble, services
  <1>5. CASE StartAdvertising
    BY <1>5 DEF StartAdvertising, AdvertisingAfter, services
  <1>6. CASE Message
    <2>1. pm' \in Members /\ (pm'.state = "DEEP_SLEEP" => pm.state = "DEEP_SLEEP")
      BY <1>6, NotifyFacts DEF Message
    <2> QED
      BY <1>6, <2>1 DEF Message, ble, services
  <1>7. CASE SleepCommand
    <2>1. pm' \in Members /\ pm'.state = "SLEEP_PREP"
      BY <1>7, TransitionFacts, States DEF SleepCommand, requestSleep
    <2> QED
      BY <1>7, <2>1 DEF SleepCommand, ble, services
  <1>8. CASE OtaStart
    BY <1>8 DEF OtaStart, ble
  <1> QED
    BY <1>1, <1>2, <1>3, <1>4, <1>5, <1>6, <1>7, <1>8 DEF HostTask

LEMMA OtherStep ==
  ASSUME PowerInv, Services \/ Time PROVE PowerInv'
  <1> USE DEF PowerInv, TypeOK, NoStuckDeepSleep, AdvertisingInv, Awake
  <1>1. CASE Services
    <2>1. CASE FrameSent
      BY <2>1 DEF FrameSent, ble
    <2>2. CASE FramesSettled
      BY <2>2 DEF FramesSettled, ble
    <2>3. CASE OtaEnds
      BY <2>3 DEF OtaEnds, ble
    <2>4. CASE FlushRequested
      BY <2>4 DEF FlushRequested, ble
    <2>5. CASE FlushDone
      BY <2>5 DEF FlushDone, ble
    <2> QED
      BY <1>1, <2>1, <2>2, <2>3, <2>4, <2>5 DEF Services
  <1>2. ASSUME NEW flag \in {"idle", "prepOver", "overdue"}, TimePasses(flag)
        PROVE  PowerInv'
    <2>1. pm' \in Members /\ pm'.state = pm.state
      BY <1>2 DEF TimePasses, Members
    <2> QED
      BY <1>2, <2>1 DEF TimePasses, ble, services
  <1> QED
    BY <1>1, <1>2 DEF Time

LEMMA PowerAlways == Spec => []PowerInv
  <1>1. PowerInv /\ UNCHANGED vars => PowerInv'
    BY DEF PowerInv, TypeOK, NoStuckDeepSleep, AdvertisingInv, Awake, vars, ble, services
  <1>2. PowerInv /\ [Next]_vars => PowerInv'
    BY <1>1, LoopStep, SensorStep, HostStep, OtherStep DEF Next
  <1> QED
    BY <1>2, PowerInit, PTL DEF Spec

-----------------------------------------------------------------------------
(* Theorems *)

\* Every member keeps its type; the counter of cancelled sleeps stays within its limit.
THEOREM TypeCorrect == Spec => []TypeOK
  BY PowerAlways, PTL DEF PowerInv

\* Whatever the sensor and the host task do while the loop task shuts the device down or
\* gives that up, nobody is left awake in DEEP_SLEEP.
THEOREM DeepSleepCorrect == Spec => []NoStuckDeepSleep
  BY PowerAlways, PTL DEF PowerInv

\* A device that is awake with its services up and not connected advertises.
THEOREM ConnectableCorrect == Spec => []Connectable
  <1>1. PowerInv => Connectable
    BY DEF PowerInv, AdvertisingInv, Connectable
  <1> QED
    BY <1>1, PowerAlways, PTL
=============================================================================

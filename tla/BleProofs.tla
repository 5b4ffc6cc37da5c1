------------------------------ MODULE BleProofs ------------------------------
(***************************************************************************)
(* What the BLE link guarantees for every set of phones and every          *)
(* threshold, although the host task and the loop task share its flags     *)
(* and the counter of orphaned bonds: bonds survive sessions that proved   *)
(* their keys.                                                             *)
(***************************************************************************)
EXTENDS BleLink, TLAPS

\* What BLEManager knows of a connection: once onConnectInternal has run, the flag
\* stands for the connection, and nothing is authenticated before that.
ConnectedInv ==
  /\ Up /\ host.at # "connect" => ble.connected
  /\ host.at = "connect" => link.auth = "none"
  /\ host.at \in {"disconnect", "disconnected"} => ~Up

\* Nobody talks to a device that is off.
OffInv ==
  loop.at \in {"off", "lost"} => link = NoLink /\ ~advertising /\ host = IdleHost

\* The counter is at most one ahead of the sleeps without keys.  The one is the sleep
\* of the session that proved them, so that such a session, until it is closed, begins
\* its sleep with nothing counted.
GhostInv ==
  \/ lostReset
  \/ /\ failures <= unencrypted + 1
     /\ loop.at = "count" => loop.count <= unencrypted
     /\ /\ link.auth = "bonded" /\ ~link.closing
        /\ loop.at \notin {"count", "shutdown"}
        => failures = 0

BleInv == TypeOK /\ ConnectedInv /\ OffInv /\ GhostInv

-----------------------------------------------------------------------------
(* Data *)

LinkOK(l) == l \in Link /\ (l.phone = None => l = NoLink)

HostSteps == {"idle", "connect", "connected", "disconnect", "disconnected", "enable"}

LoopSteps == {"idle", "tune", "force", "mark", "count", "shutdown", "stop", "off", "lost"}

Hosts == [at : HostSteps, bonded : BOOLEAN]

Loops == [at : LoopSteps, count : 0 .. THRESHOLD, stale : BOOLEAN]

\* The type invariant in these terms.
TypeParts ==
  /\ ble \in Members /\ advertising \in BOOLEAN
  /\ bonds \subseteq Phones /\ keys \subseteq Phones
  /\ failures \in 0 .. THRESHOLD /\ unencrypted \in 0 .. THRESHOLD
  /\ LinkOK(link) /\ host \in Hosts /\ loop \in Loops
  /\ crossed \in BOOLEAN /\ lostReset \in BOOLEAN /\ setup \in BOOLEAN

LEMMA TypeFacts == (TypeOK <=> TypeParts) /\ (TypeOK' <=> TypeParts')
  BY Zenon DEF TypeOK, TypeParts, LinkOK, Hosts, Loops, HostSteps, LoopSteps

LEMMA InitialFacts ==
  /\ Initialized \in Members /\ LinkOK(NoLink) /\ IdleHost \in Hosts /\ IdleLoop \in Loops
  <1>1. 0 \in 0 .. THRESHOLD
    BY BleAssumption
  <1>2. /\ "never" \in {"never", "running", "over"} /\ None \in Phones \cup {None}
        /\ "none" \in {"none", "encrypted", "bonded"}
        /\ "idle" \in HostSteps /\ "idle" \in LoopSteps
    BY DEF HostSteps, LoopSteps
  <1> QED
    BY <1>1, <1>2 DEF Initialized, Members, LinkOK, NoLink, Link, IdleHost, Hosts, IdleLoop, Loops

\* Security starts on a link that is there, and is all that it changes of it.
LEMMA SecurityFacts ==
  ASSUME NEW l, LinkOK(l)
  PROVE  /\ LinkOK(startSecurity(l))
         /\ startSecurity(l).phone = l.phone /\ startSecurity(l).auth = l.auth
         /\ startSecurity(l).closing = l.closing
         /\ l = NoLink => startSecurity(l) = NoLink
  <1>1. CASE l.phone = None \/ l.closing \/ l.auth # "none"
    BY <1>1 DEF startSecurity
  <1>2. CASE ~(l.phone = None \/ l.closing \/ l.auth # "none")
    <2>1. startSecurity(l) = [l EXCEPT !.security = TRUE, !.tried = TRUE]
      BY <1>2 DEF startSecurity
    <2>2. [l EXCEPT !.security = TRUE, !.tried = TRUE] \in Link
      BY DEF LinkOK, Link
    <2>3. l # NoLink
      BY <1>2 DEF NoLink
    <2> QED
      BY <1>2, <2>1, <2>2, <2>3 DEF LinkOK, Link
  <1> QED
    BY <1>1, <1>2

LEMMA ClosedFacts ==
  ASSUME NEW l, LinkOK(l)
  PROVE  /\ LinkOK(Closed(l))
         /\ Closed(l).phone = l.phone /\ Closed(l).auth = l.auth
         /\ l.phone # None => Closed(l).closing
         /\ l = NoLink => Closed(l) = NoLink
  <1>1. CASE l.phone = None
    BY <1>1 DEF Closed
  <1>2. CASE l.phone # None
    <2>1. Closed(l) = [l EXCEPT !.closing = TRUE]
      BY <1>2 DEF Closed
    <2>2. [l EXCEPT !.closing = TRUE] \in Link
      BY DEF LinkOK, Link
    <2>3. l # NoLink
      BY <1>2 DEF NoLink
    <2> QED
      BY <1>2, <2>1, <2>2, <2>3 DEF LinkOK, Link
  <1> QED
    BY <1>1, <1>2

\* The end of an authentication.
LEMMA AuthenticatingFacts ==
  ASSUME NEW l, LinkOK(l), l.security
  PROVE  /\ l.phone # None /\ l # NoLink
         /\ LinkOK([l EXCEPT !.security = FALSE])
         /\ [l EXCEPT !.security = FALSE].phone = l.phone
         /\ [l EXCEPT !.security = FALSE].auth = l.auth
         /\ [l EXCEPT !.security = FALSE].closing = l.closing
  <1>1. l # NoLink
    BY DEF NoLink
  <1>2. l \in Link /\ l.phone # None
    BY <1>1 DEF LinkOK
  <1> DEFINE m == [l EXCEPT !.security = FALSE]
  <1>3. m \in Link /\ m.phone = l.phone /\ m.auth = l.auth /\ m.closing = l.closing
    BY <1>2 DEF Link
  <1> QED
    BY <1>1, <1>2, <1>3 DEF LinkOK

\* None of the flags' operations touches the connection.
LEMMA PairingFacts ==
  ASSUME NEW b \in Members
  PROVE  /\ PairingTimed(b) \in Members /\ PairingTimed(b).connected = b.connected
         /\ enablePairingMode(b) \in Members /\ enablePairingMode(b).connected = b.connected
         /\ disablePairingMode(b) \in Members /\ disablePairingMode(b).connected = b.connected
  <1>1. "running" \in {"never", "running", "over"}
    OBVIOUS
  <1> QED
    BY <1>1 DEF PairingTimed, enablePairingMode, disablePairingMode, Members

LEMMA AdvertisingFacts ==
  ASSUME TypeOK, NEW b, NEW l
  PROVE  AdvertisingStarted(b, l) \in BOOLEAN
  BY Zenon DEF AdvertisingStarted, TypeOK

\* A step of the loop task that begins from what is known.
LEMMA LookFacts ==
  ASSUME NEW step \in LoopSteps, Look(step)
  PROVE  loop' \in Loops /\ loop'.at = step
  BY InitialFacts DEF Look, Loops, IdleLoop

LEMMA AtMostNext == \A m, n \in Nat : m <= n => m <= n + 1
  OBVIOUS

LEMMA SaturatedFacts ==
  ASSUME NEW n \in Nat
  PROVE  /\ Saturated(n) \in 0 .. THRESHOLD /\ Saturated(n) <= n
         /\ n <= THRESHOLD => Saturated(n) = n
         /\ n > THRESHOLD => Saturated(n) = THRESHOLD
  BY BleAssumption DEF Saturated

-----------------------------------------------------------------------------
(* Types *)

\* The steps of the host task and of the app keep the types.
LEMMA HostTypes ==
  ASSUME TypeOK, Callback \/ App PROVE TypeOK'
  <1> USE TypeFacts, InitialFacts DEF TypeParts
  <1>0. /\ ble \in Members /\ LinkOK(link) /\ host \in Hosts /\ loop \in Loops
        /\ \A b, l : AdvertisingStarted(b, l) \in BOOLEAN
    BY AdvertisingFacts
  <1>1. ASSUME NEW p \in Phones, Connect(p) PROVE TypeOK'
    <2>1. LinkOK(link')
      <3>1. link' = [NoLink EXCEPT !.phone = p] /\ p # None /\ p \in Phones \cup {None}
        BY <1>1, BleAssumption DEF Connect
      <3> QED
        BY <3>1 DEF LinkOK, Link, NoLink
    <2>2. host' \in Hosts
      BY <1>1 DEF Connect, Hosts, HostSteps
    <2> QED
      BY <1>1, <2>1, <2>2 DEF Connect
  <1>2. ASSUME NEW p \in Phones, Forget(p) PROVE TypeOK'
    BY <1>2 DEF Forget
  <1>3. CASE OnConnect
    <2>1. ble' \in Members
      BY <1>0, <1>3 DEF OnConnect, Members
    <2>2. host' \in Hosts
      BY <1>0, <1>3 DEF OnConnect, Hosts, HostSteps
    <2> QED
      BY <1>3, <2>1, <2>2 DEF OnConnect
  <1>4. CASE InitiateSecurity
    <2>1. ble' \in Members
      <3>1. [ble EXCEPT !.requested = TRUE] \in Members
        BY <1>0 DEF Members
      <3> QED
        BY <1>0, <1>4, <3>1 DEF InitiateSecurity
    <2>2. LinkOK(link')
      BY <1>0, <1>4, SecurityFacts DEF InitiateSecurity
    <2> QED
      BY <1>4, <2>1, <2>2 DEF InitiateSecurity
  <1>5. CASE LinkDown
    <2>1. host' \in Hosts
      BY <1>5 DEF LinkDown, IdleHost, Hosts, HostSteps
    <2> QED
      BY <1>5, <2>1 DEF LinkDown
  <1>6. CASE OnDisconnect
    <2>1. ble' \in Members
      BY <1>0, <1>6 DEF OnDisconnect, Disconnected, Members
    <2>2. host' \in Hosts
      BY <1>0, <1>6 DEF OnDisconnect, Hosts, HostSteps
    <2>3. loop' \in Loops
      <3>1. (loop.at \in {"tune", "force", "mark"}) \in BOOLEAN
        OBVIOUS
      <3> QED
        BY <1>0, <1>6, <3>1 DEF OnDisconnect, Loops
    <2> QED
      BY <1>6, <2>1, <2>2, <2>3 DEF OnDisconnect
  <1>7. CASE AdvertiseAgain
    BY <1>0, <1>7 DEF AdvertiseAgain
  <1>8. CASE PhoneStarts \/ WriteRejected
    BY <1>0, <1>8, SecurityFacts DEF PhoneStarts, WriteRejected
  <1>9. CASE AuthenticationFailed
    <2>1. LinkOK(link')
      BY <1>0, <1>9, AuthenticatingFacts, ClosedFacts DEF AuthenticationFailed, Authenticating
    <2> QED
      BY <1>0, <1>9, <2>1 DEF AuthenticationFailed
  <1>10. ASSUME NEW outcome \in {"encrypted", "bonded"}, Authenticated(outcome) PROVE TypeOK'
    <2>1. link.phone # None /\ link.phone \in Phones
      BY <1>0, <1>10 DEF Authenticated, Authenticating, LinkOK, Link, NoLink
    <2>2. LinkOK(link')
      <3>1. outcome \in {"none", "encrypted", "bonded"}
        BY <1>10
      <3> QED
        BY <1>0, <1>10, <2>1, <3>1 DEF Authenticated, LinkOK, Link
    <2>3. ble' \in Members
      BY <1>0, <1>10 DEF Authenticated, Members
    <2>4. 0 \in 0 .. THRESHOLD
      BY BleAssumption
    <2>5. failures' \in 0 .. THRESHOLD
      BY <1>10, <2>4 DEF Authenticated, FailuresAfter
    <2>6. (loop.at = "count") \in BOOLEAN
      OBVIOUS
    <2>7. CASE outcome = "bonded"
      BY <1>10, <2>1, <2>2, <2>3, <2>4, <2>5, <2>6, <2>7 DEF Authenticated
    <2>8. CASE outcome # "bonded"
      BY <1>10, <2>2, <2>3, <2>5, <2>8 DEF Authenticated
    <2> QED
      BY <2>7, <2>8
  <1>11. ASSUME NEW clear \in BOOLEAN, PairingCommand(clear) PROVE TypeOK'
    <2>1. ble' \in Members
      BY <1>0, <1>11 DEF PairingCommand, Members
    <2>2. host' \in Hosts
      BY <1>11 DEF PairingCommand, IdleHost, Hosts, HostSteps
    <2> QED
      BY <1>11, <2>1, <2>2 DEF PairingCommand
  <1>12. CASE EnablePairing
    BY <1>0, <1>12, PairingFacts DEF EnablePairing
  <1> QED
    BY <1>1, <1>2, <1>3, <1>4, <1>5, <1>6, <1>7, <1>8, <1>9, <1>10, <1>11, <1>12
    DEF Callback, App

\* The steps of the loop task keep the types, and so does the passing of time.
LEMMA LoopTypes ==
  ASSUME TypeOK,
         \/ Update \/ LoopGoesOn \/ ShortPress \/ LongPress \/ EnterDeepSleep
         \/ (\E kept \in BOOLEAN : Off(kept)) \/ PairingTimePasses
  PROVE  TypeOK'
  <1> USE TypeFacts, InitialFacts DEF TypeParts
  <1>0. /\ ble \in Members /\ LinkOK(link) /\ host \in Hosts /\ loop \in Loops
        /\ \A b, l : AdvertisingStarted(b, l) \in BOOLEAN
    BY AdvertisingFacts
  <1>1. CASE CloseBootWindow
    <2>1. [ble EXCEPT !.window = FALSE] \in Members
      BY <1>0 DEF Members
    <2>2. ble' \in Members
      BY <1>1, <2>1, PairingFacts DEF CloseBootWindow
    <2>3. (bonds = {} /\ ble.start = "never") \in BOOLEAN
      OBVIOUS
    <2> QED
      BY <1>1, <2>2, <2>3 DEF CloseBootWindow
  <1>2. CASE PairingTimeout
    BY <1>0, <1>2, PairingFacts DEF PairingTimeout
  <1>3. CASE ParamsDue \/ LookAtSecurity
    <2>1. loop' \in Loops
      BY <1>3, LookFacts DEF ParamsDue, LookAtSecurity, LoopSteps
    <2> QED
      BY <1>3, <2>1 DEF ParamsDue, LookAtSecurity
  <1>4. CASE UpdateParams
    <2>1. LinkOK(link')
      <3>1. Up => LinkOK([link EXCEPT !.tuned = TRUE])
        BY <1>0 DEF Up, LinkOK, Link
      <3> QED
        BY <1>0, <1>4, <3>1 DEF UpdateParams
    <2>2. ble' \in Members
      BY <1>0, <1>4 DEF UpdateParams, Members
    <2>3. (crossed \/ loop.stale) \in BOOLEAN
      OBVIOUS
    <2> QED
      BY <1>4, <2>1, <2>2, <2>3 DEF UpdateParams
  <1>5. CASE MarkRequested
    <2>1. LinkOK(link')
      BY <1>0, <1>5, SecurityFacts DEF MarkRequested
    <2>2. ble' \in Members
      BY <1>0, <1>5 DEF MarkRequested, Members
    <2>3. (crossed \/ loop.stale) \in BOOLEAN
      OBVIOUS
    <2> QED
      BY <1>5, <2>1, <2>2, <2>3 DEF MarkRequested
  <1>6. CASE CountFailure
    <2>1. loop.count + 1 \in Nat
      BY <1>0, BleAssumption DEF Loops
    <2>2. failures' \in 0 .. THRESHOLD
      BY <1>6, <2>1, SaturatedFacts DEF CountFailure
    <2>3. loop' \in Loops
      BY <1>6, LookFacts DEF CountFailure, LoopSteps
    <2> QED
      BY <1>6, <2>2, <2>3 DEF CountFailure
  <1>7. CASE ShutDown
    <2>1. loop' \in Loops
      BY <1>7, LookFacts DEF ShutDown, LoopSteps
    <2> QED
      BY <1>0, <1>7, <2>1, ClosedFacts DEF ShutDown
  <1>8. CASE StopAdvertising
    <2>1. loop' \in Loops
      BY <1>8, LookFacts DEF StopAdvertising, LoopSteps
    <2> QED
      BY <1>8, <2>1 DEF StopAdvertising
  <1>9. CASE Boot
    <2>1. loop' \in Loops
      BY <1>9, LookFacts DEF Boot, LoopSteps
    <2>2. 0 \in 0 .. THRESHOLD
      BY BleAssumption
    <2>3. failures' \in 0 .. THRESHOLD /\ bonds' \subseteq Phones
      BY <1>9, <2>2 DEF Boot
    <2>4. lostReset' \in BOOLEAN
      BY <1>9 DEF Boot
    <2> QED
      BY <1>9, <2>1, <2>3, <2>4 DEF Boot
  <1>10. CASE ShortPress
    BY <1>0, <1>10, PairingFacts DEF ShortPress
  <1>11. CASE LongPress
    BY <1>0, <1>11, PairingFacts, ClosedFacts DEF LongPress
  <1>12. CASE EnterDeepSleep
    <2>1. CASE bonds # {} /\ ble.connected
      <3>1. loop' \in Loops
        BY <1>12, <2>1 DEF EnterDeepSleep, IdleLoop, Loops, LoopSteps
      <3>2. unencrypted + 1 \in Nat
        BY BleAssumption
      <3>3. unencrypted' \in 0 .. THRESHOLD
        BY <1>12, <2>1, <3>2, SaturatedFacts DEF EnterDeepSleep
      <3> QED
        BY <1>12, <3>1, <3>3 DEF EnterDeepSleep
    <2>2. CASE ~(bonds # {} /\ ble.connected)
      <3>1. loop' \in Loops
        BY <1>12, <2>2, LookFacts DEF EnterDeepSleep, LoopSteps
      <3> QED
        BY <1>12, <2>2, <3>1 DEF EnterDeepSleep
    <2> QED
      BY <2>1, <2>2
  <1>13. ASSUME NEW kept \in BOOLEAN, Off(kept) PROVE TypeOK'
    <2>1. loop' \in Loops
      BY <1>13, LookFacts DEF Off, LoopSteps
    <2> QED
      BY <1>13, <2>1 DEF Off
  <1>14. CASE PairingTimePasses
    <2>1. ble' \in Members
      BY <1>0, <1>14 DEF PairingTimePasses, Members
    <2> QED
      BY <1>14, <2>1 DEF PairingTimePasses
  <1> QED
    BY <1>1, <1>2, <1>3, <1>4, <1>5, <1>6, <1>7, <1>8, <1>9, <1>10, <1>11, <1>12, <1>13, <1>14
    DEF Update, LoopGoesOn

LEMMA TypeStep == ASSUME TypeOK, [Next]_vars PROVE TypeOK'
  <1>1. CASE UNCHANGED vars
    BY <1>1 DEF vars, TypeOK
  <1> QED
    BY <1>1, HostTypes, LoopTypes DEF Next

-----------------------------------------------------------------------------
(* Connections *)

\* BLEManager's flag follows the connection.
LEMMA ConnectedStep ==
  ASSUME TypeOK, ConnectedInv, Next PROVE ConnectedInv'
  <1> USE DEF ConnectedInv, Up
  <1>0. /\ ble \in Members /\ LinkOK(link) /\ host \in Hosts
    BY TypeFacts DEF TypeParts
  <1>1. ASSUME NEW p \in Phones, Connect(p) PROVE ConnectedInv'
    BY <1>1 DEF Connect, NoLink
  <1>2. CASE OnConnect
    <2>1. ble'.connected /\ host'.at = "connected"
      BY <1>0, <1>2 DEF OnConnect, Members, Hosts
    <2> QED
      BY <2>1
  <1>3. CASE LinkDown
    BY <1>3 DEF LinkDown, NoLink, IdleHost
  <1>4. CASE OnDisconnect
    <2>1. host'.at = "disconnected" /\ link'.phone = None
      BY <1>0, <1>4 DEF OnDisconnect, Hosts
    <2> QED
      BY <2>1
  <1>5. ASSUME NEW outcome \in {"encrypted", "bonded"}, Authenticated(outcome) PROVE ConnectedInv'
    <2>1. /\ link'.phone = link.phone /\ host' = host /\ host.at = "idle"
          /\ ble'.connected = ble.connected
      BY <1>0, <1>5 DEF Authenticated, Authenticating, LinkOK, Link, Members
    <2> QED
      BY <2>1
  <1>6. ASSUME NEW kept \in BOOLEAN, Off(kept) PROVE ConnectedInv'
    BY <1>6 DEF Off, NoLink, IdleHost
  <1>7. CASE /\ link'.phone = link.phone /\ link'.auth = link.auth
             /\ ble'.connected = ble.connected
             /\ \/ host' = host
                \/ host.at # "connect" /\ host'.at \in {"idle", "enable"}
    BY <1>7
  <1>8. CASE InitiateSecurity \/ PhoneStarts \/ WriteRejected
    <2>1. /\ link'.phone = link.phone /\ link'.auth = link.auth
      BY <1>0, <1>8, SecurityFacts DEF InitiateSecurity, PhoneStarts, WriteRejected
    <2>2. ble'.connected = ble.connected
      BY <1>0, <1>8 DEF InitiateSecurity, PhoneStarts, WriteRejected, Members
    <2> QED
      BY <1>7, <1>8, <2>1, <2>2 DEF InitiateSecurity, PhoneStarts, WriteRejected, IdleHost
  <1>9. CASE AdvertiseAgain
    BY <1>7, <1>9 DEF AdvertiseAgain, IdleHost
  <1>10. CASE AuthenticationFailed
    <2>1. link'.phone = link.phone /\ link'.auth = link.auth
      BY <1>0, <1>10, AuthenticatingFacts, ClosedFacts DEF AuthenticationFailed, Authenticating
    <2> QED
      BY <1>7, <1>10, <2>1 DEF AuthenticationFailed
  <1>11. ASSUME NEW clear \in BOOLEAN, PairingCommand(clear) PROVE ConnectedInv'
    <2>1. ble'.connected = ble.connected
      BY <1>0, <1>11 DEF PairingCommand, Members
    <2>2. host'.at = "enable" /\ host.at = "idle"
      BY <1>11 DEF PairingCommand, Writing, IdleHost
    <2> QED
      BY <1>7, <1>11, <2>1, <2>2 DEF PairingCommand
  <1>12. CASE EnablePairing
    BY <1>0, <1>7, <1>12, PairingFacts DEF EnablePairing, IdleHost
  <1>13. CASE Update
    <2>1. /\ [ble EXCEPT !.window = FALSE] \in Members
          /\ [ble EXCEPT !.window = FALSE].connected = ble.connected
      BY <1>0 DEF Members
    <2>2. ble'.connected = ble.connected
      BY <1>0, <1>13, <2>1, PairingFacts
      DEF Update, CloseBootWindow, PairingTimeout, ParamsDue, LookAtSecurity
    <2> QED
      BY <1>7, <1>13, <2>2
      DEF Update, CloseBootWindow, PairingTimeout, ParamsDue, LookAtSecurity
  <1>14. CASE UpdateParams \/ MarkRequested
    <2>1. /\ [link EXCEPT !.tuned = TRUE].phone = link.phone
          /\ [link EXCEPT !.tuned = TRUE].auth = link.auth
      BY <1>0 DEF LinkOK, Link
    <2>2. link'.phone = link.phone /\ link'.auth = link.auth
      <3>1. startSecurity(link).phone = link.phone /\ startSecurity(link).auth = link.auth
        BY <1>0, SecurityFacts
      <3>2. CASE UpdateParams
        BY <2>1, <3>2 DEF UpdateParams
      <3>3. CASE MarkRequested
        BY <3>1, <3>3 DEF MarkRequested
      <3> QED
        BY <1>14, <3>2, <3>3
    <2>3. ble'.connected = ble.connected
      BY <1>0, <1>14 DEF UpdateParams, MarkRequested, Members
    <2> QED
      BY <1>7, <1>14, <2>2, <2>3 DEF UpdateParams, MarkRequested
  <1>15. CASE CountFailure \/ StopAdvertising \/ Boot \/ EnterDeepSleep
    BY <1>7, <1>15 DEF CountFailure, StopAdvertising, Boot, EnterDeepSleep
  <1>16. CASE ShutDown
    BY <1>0, <1>7, <1>16, ClosedFacts DEF ShutDown
  <1>17. CASE ShortPress \/ LongPress
    BY <1>0, <1>7, <1>17, ClosedFacts, PairingFacts DEF ShortPress, LongPress
  <1>18. CASE PairingTimePasses
    <2>1. ble'.connected = ble.connected
      BY <1>0, <1>18 DEF PairingTimePasses, Members
    <2> QED
      BY <1>7, <1>18, <2>1 DEF PairingTimePasses
  <1>19. ASSUME NEW p \in Phones, Forget(p) PROVE ConnectedInv'
    BY <1>7, <1>19 DEF Forget
  <1> QED
    BY <1>1, <1>2, <1>3, <1>4, <1>5, <1>6, <1>8, <1>9, <1>10, <1>11, <1>12, <1>13, <1>14,
       <1>15, <1>16, <1>17, <1>18, <1>19
    DEF Next, Callback, App, LoopGoesOn

\* A device that is off only boots, while its phones may forget it.
LEMMA OffSteps ==
  ASSUME OffInv, loop.at \in {"off", "lost"}, Next
  PROVE  Boot \/ PairingTimePasses \/ (\E p \in Phones : Forget(p))
  <1>1. link = NoLink /\ ~advertising /\ host = IdleHost
    BY DEF OffInv
  <1>2. ~Up /\ ~link.security /\ host.at = "idle"
    BY <1>1 DEF Up, NoLink, IdleHost
  <1>3. ~Callback
    BY <1>2 DEF Callback, OnConnect, InitiateSecurity, OnDisconnect, AdvertiseAgain, EnablePairing
  <1>4. App => \E p \in Phones : Forget(p)
    BY <1>1, <1>2
    DEF App, Connect, LinkDown, PhoneStarts, AuthenticationFailed, Authenticated, Authenticating,
        WriteRejected, PairingCommand, Writing
  <1>5. ~Update /\ ~ShortPress /\ ~LongPress /\ ~EnterDeepSleep
    BY DEF Update, CloseBootWindow, PairingTimeout, ParamsDue, LookAtSecurity, ShortPress,
           LongPress, EnterDeepSleep, LoopIdle
  <1>6. LoopGoesOn => Boot
    BY DEF LoopGoesOn, UpdateParams, MarkRequested, CountFailure, ShutDown, StopAdvertising
  <1>7. ~\E kept \in BOOLEAN : Off(kept)
    BY DEF Off
  <1> QED
    BY <1>3, <1>4, <1>5, <1>6, <1>7 DEF Next

LEMMA OffStep ==
  ASSUME TypeOK, OffInv, Next PROVE OffInv'
  <1>1. CASE loop.at \in {"off", "lost"}
    <2>1. CASE Boot
      BY <2>1 DEF Boot, Look, IdleLoop, OffInv
    <2>2. CASE PairingTimePasses \/ (\E p \in Phones : Forget(p))
      BY <1>1, <2>2 DEF PairingTimePasses, Forget, OffInv
    <2> QED
      BY <1>1, <2>1, <2>2, OffSteps
  <1>2. ASSUME NEW kept \in BOOLEAN, Off(kept) PROVE OffInv'
    BY <1>2 DEF Off, OffInv
  <1>3. ASSUME loop.at \notin {"off", "lost"}, ~\E kept \in BOOLEAN : Off(kept)
        PROVE  loop'.at \notin {"off", "lost"}
    <2>0. loop \in Loops
      BY TypeFacts DEF TypeParts
    <2>1. CASE loop' = loop
      BY <1>3, <2>1
    <2>2. CASE OnDisconnect
      BY <1>3, <2>0, <2>2 DEF OnDisconnect, Loops
    <2>3. CASE ParamsDue \/ LookAtSecurity \/ EnterDeepSleep
      BY <2>3 DEF ParamsDue, LookAtSecurity, EnterDeepSleep, Look, IdleLoop
    <2>4. CASE UpdateParams \/ MarkRequested \/ CountFailure \/ ShutDown \/ StopAdvertising \/ Boot
      BY <2>4 DEF UpdateParams, MarkRequested, CountFailure, ShutDown, StopAdvertising, Boot, Look,
                  IdleLoop
    <2> QED
      BY <1>3, <2>1, <2>2, <2>3, <2>4
      DEF Next, Callback, App, Update, OnConnect, InitiateSecurity, AdvertiseAgain, EnablePairing,
          Connect, Forget, LinkDown, PhoneStarts, AuthenticationFailed, Authenticated,
          WriteRejected, PairingCommand, CloseBootWindow, PairingTimeout, ShortPress, LongPress,
          PairingTimePasses, LoopGoesOn
  <1> QED
    BY <1>1, <1>2, <1>3 DEF OffInv

-----------------------------------------------------------------------------
(* The counter of orphaned bonds *)

\* The counter stays within one of the sleeps without keys.
LEMMA GhostStep ==
  ASSUME TypeOK, ConnectedInv, GhostInv, Next PROVE GhostInv'
  <1>0. /\ ble \in Members /\ LinkOK(link) /\ host \in Hosts /\ loop \in Loops
        /\ failures \in Nat /\ unencrypted \in Nat /\ THRESHOLD \in Nat
        /\ failures <= THRESHOLD /\ unencrypted <= THRESHOLD /\ loop.count \in Nat
    BY TypeFacts, BleAssumption DEF TypeParts, Loops
  <1>1. CASE /\ UNCHANGED <<failures, unencrypted, lostReset>>
             /\ loop'.at = loop.at /\ loop'.count = loop.count
             /\ link'.auth = link.auth /\ (link.closing => link'.closing)
    BY <1>1 DEF GhostInv
  <1>2. CASE /\ UNCHANGED <<failures, unencrypted, lostReset>>
             /\ loop.at \notin {"count", "shutdown"} /\ loop'.at # "count"
             /\ link'.auth = link.auth /\ (link.closing => link'.closing)
    BY <1>2 DEF GhostInv
  <1>3. CASE /\ UNCHANGED <<failures, unencrypted, lostReset>>
             /\ loop' = loop \/ loop'.at # "count"
             /\ link'.auth = "none"
    BY <1>3 DEF GhostInv
  <1>4. ASSUME NEW outcome \in {"encrypted", "bonded"}, Authenticated(outcome) PROVE GhostInv'
    <2>1. CASE outcome = "bonded"
      <3>1. failures' = 0 /\ unencrypted' = 0 /\ loop' = loop /\ lostReset' = (loop.at = "count")
        BY <1>4, <2>1 DEF Authenticated, FailuresAfter
      <3>2. failures' <= unencrypted' + 1
        BY <3>1
      <3> QED
        BY <3>1, <3>2 DEF GhostInv
    <2>2. CASE outcome # "bonded"
      <3>1. link'.auth # "bonded"
        BY <1>0, <1>4, <2>2 DEF Authenticated, LinkOK, Link
      <3>2. UNCHANGED <<failures, unencrypted, lostReset, loop>>
        BY <1>4, <2>2 DEF Authenticated, FailuresAfter
      <3> QED
        BY <3>1, <3>2 DEF GhostInv
    <2> QED
      BY <2>1, <2>2
  <1>5. CASE EnterDeepSleep
    <2>1. CASE bonds # {} /\ ble.connected
      <3>1. /\ loop'.at = "count" /\ loop'.count = failures /\ UNCHANGED <<failures, link, lostReset>>
            /\ loop.at = "idle" /\ ~link.closing
        BY <1>5, <2>1 DEF EnterDeepSleep, IdleLoop, LoopIdle
      <3>2. CASE link.auth = "bonded"
        <4>1. unencrypted' = unencrypted
          BY <1>5, <2>1, <3>2 DEF EnterDeepSleep
        <4> QED
          BY <1>0, <3>1, <3>2, <4>1 DEF GhostInv
      <3>3. CASE link.auth # "bonded"
        <4>1. unencrypted' = Saturated(unencrypted + 1)
          BY <1>5, <2>1, <3>3 DEF EnterDeepSleep
        <4>2. /\ unencrypted' \in Nat
              /\ unencrypted' = unencrypted + 1 \/ unencrypted' = THRESHOLD
          BY <1>0, <4>1, SaturatedFacts
        <4>3. ~lostReset => failures <= unencrypted'
          BY <1>0, <4>2 DEF GhostInv
        <4>4. ~lostReset => failures <= unencrypted' + 1
          BY <1>0, <4>2, <4>3, AtMostNext
        <4> QED
          BY <3>1, <3>3, <4>3, <4>4 DEF GhostInv
      <3> QED
        BY <3>2, <3>3
    <2>2. CASE ~(bonds # {} /\ ble.connected)
      BY <1>2, <1>5, <2>2 DEF EnterDeepSleep, Look, IdleLoop, LoopIdle
    <2> QED
      BY <2>1, <2>2
  <1>6. CASE CountFailure
    <2>1. /\ failures' = Saturated(loop.count + 1) /\ loop.at = "count" /\ loop'.at = "shutdown"
          /\ UNCHANGED <<unencrypted, lostReset>>
      BY <1>6 DEF CountFailure, Look, IdleLoop
    <2>2. failures' \in Nat /\ failures' <= loop.count + 1
      BY <1>0, <2>1, SaturatedFacts
    <2> QED
      BY <1>0, <2>1, <2>2 DEF GhostInv
  <1>7. CASE ShutDown
    <2>1. link'.auth = "bonded" => link'.closing
      <3>1. link'.auth = "bonded" => link.auth = "bonded"
        BY <1>0, <1>7, ClosedFacts DEF ShutDown
      <3>2. link.auth = "bonded" => link.phone # None /\ ble.connected
        BY <1>0 DEF LinkOK, NoLink, ConnectedInv, Up
      <3> QED
        BY <1>0, <1>7, <3>1, <3>2, ClosedFacts DEF ShutDown
    <2> QED
      BY <1>7, <2>1 DEF ShutDown, Look, IdleLoop, GhostInv
  <1>8. CASE Boot
    <2>1. /\ loop'.at = "idle" /\ UNCHANGED <<link, unencrypted>>
          /\ failures' \in {0, failures} /\ lostReset' = (lostReset /\ failures' # 0)
          /\ loop.at \in {"off", "lost"}
      BY <1>8 DEF Boot, Look, IdleLoop
    <2>2. 0 <= unencrypted + 1
      BY <1>0
    <2>3. CASE failures' = 0
      BY <2>1, <2>2, <2>3 DEF GhostInv
    <2>4. CASE failures' = failures
      BY <2>1, <2>2, <2>3, <2>4, Zenon DEF GhostInv
    <2> QED
      BY <2>1, <2>3, <2>4
  <1>9. ASSUME NEW p \in Phones, Connect(p) PROVE GhostInv'
    BY <1>3, <1>9 DEF Connect, NoLink
  <1>10. CASE LinkDown \/ (\E kept \in BOOLEAN : Off(kept))
    BY <1>3, <1>10 DEF LinkDown, Off, NoLink, Look, IdleLoop
  <1>11. CASE OnConnect \/ AdvertiseAgain \/ EnablePairing \/ CloseBootWindow \/ PairingTimeout
              \/ ShortPress \/ PairingTimePasses \/ (\E p \in Phones : Forget(p))
              \/ (\E clear \in BOOLEAN : PairingCommand(clear))
    BY <1>1, <1>11
    DEF OnConnect, AdvertiseAgain, EnablePairing, CloseBootWindow, PairingTimeout, ShortPress,
        PairingTimePasses, Forget, PairingCommand
  <1>12. CASE InitiateSecurity \/ PhoneStarts \/ WriteRejected
    BY <1>0, <1>1, <1>12, SecurityFacts DEF InitiateSecurity, PhoneStarts, WriteRejected
  <1>13. CASE OnDisconnect
    <2>1. loop'.at = loop.at /\ loop'.count = loop.count
      BY <1>0, <1>13 DEF OnDisconnect, Loops
    <2> QED
      BY <1>1, <1>13, <2>1 DEF OnDisconnect
  <1>14. CASE AuthenticationFailed
    <2>1. link'.auth = link.auth /\ (link.closing => link'.closing)
      BY <1>0, <1>14, AuthenticatingFacts, ClosedFacts DEF AuthenticationFailed, Authenticating
    <2> QED
      BY <1>1, <1>14, <2>1 DEF AuthenticationFailed
  <1>15. CASE ParamsDue \/ LookAtSecurity \/ StopAdvertising
    BY <1>2, <1>15 DEF ParamsDue, LookAtSecurity, StopAdvertising, Look, IdleLoop, LoopIdle
  <1>16. CASE UpdateParams \/ MarkRequested
    <2>1. /\ [link EXCEPT !.tuned = TRUE].closing = link.closing
          /\ [link EXCEPT !.tuned = TRUE].auth = link.auth
      BY <1>0 DEF LinkOK, Link
    <2>2. link'.auth = link.auth /\ link'.closing = link.closing
      BY <1>0, <1>16, <2>1, SecurityFacts DEF UpdateParams, MarkRequested
    <2> QED
      BY <1>2, <1>16, <2>2 DEF UpdateParams, MarkRequested, IdleLoop
  <1>17. CASE LongPress
    <2>1. link'.auth = link.auth /\ (link.closing => link'.closing)
      BY <1>0, <1>17, ClosedFacts DEF LongPress, LinkOK, NoLink
    <2> QED
      BY <1>1, <1>17, <2>1 DEF LongPress
  <1> QED
    BY <1>4, <1>5, <1>6, <1>7, <1>8, <1>9, <1>10, <1>11, <1>12, <1>13, <1>14, <1>15, <1>16, <1>17
    DEF Next, Callback, App, Update, LoopGoesOn

LEMMA BleInit == Init => BleInv
  <1> SUFFICES ASSUME Init PROVE BleInv
    OBVIOUS
  <1>1. 0 \in 0 .. THRESHOLD
    BY BleAssumption
  <1>2. TypeOK
    BY <1>1, TypeFacts, InitialFacts DEF Init, TypeParts
  <1> QED
    BY <1>2 DEF Init, BleInv, ConnectedInv, OffInv, GhostInv, Up, NoLink, IdleHost, IdleLoop

LEMMA BleStep == BleInv /\ [Next]_vars => BleInv'
  <1> SUFFICES ASSUME BleInv, [Next]_vars PROVE BleInv'
    OBVIOUS
  <1>1. CASE UNCHANGED vars
    BY <1>1 DEF vars, BleInv, TypeOK, ConnectedInv, OffInv, GhostInv, Up
  <1>2. CASE Next
    BY <1>2, TypeStep, ConnectedStep, OffStep, GhostStep DEF BleInv
  <1> QED
    BY <1>1, <1>2

LEMMA BleAlways == Spec => []BleInv
  BY BleInit, BleStep, PTL DEF Spec

\* Only Boot takes a bond from a device that is off, and only with a full counter.
LEMMA ClearStep ==
  ASSUME BleInv, Next, loop.at \in {"off", "lost"}, bonds' # bonds
  PROVE  unencrypted >= THRESHOLD - 1 \/ lostReset
  <1>1. /\ failures \in Nat /\ unencrypted \in Nat /\ THRESHOLD \in Nat \ {0}
    BY BleAssumption DEF BleInv, TypeOK
  <1>2. Boot
    BY OffSteps DEF BleInv, PairingTimePasses, Forget
  <1>3. failures >= THRESHOLD
    BY <1>1, <1>2 DEF Boot, Orphaned
  <1> QED
    BY <1>1, <1>3 DEF BleInv, GhostInv

-----------------------------------------------------------------------------
(* Theorems *)

\* The members of BLEManager, the link and the counter keep their types and bounds in
\* every interleaving of the callbacks and the loop task, and nothing is left of a
\* connection that has ended.
THEOREM TypeCorrect == Spec => []TypeOK
  <1>1. BleInv => TypeOK
    BY DEF BleInv
  <1> QED
    BY <1>1, BleAlways, PTL

\* init (checkOrphanedBonds) clears bonds only after THRESHOLD - 1 sleeps without keys
\* in a row, or after an authentication that raced with incrementGhostBondCounter.
THEOREM BondsCorrect == Spec => BondsOutliveSessions
  <1>1. BleInv /\ [Next]_vars
        => [loop.at \in {"off", "lost"} /\ bonds' # bonds
              => unencrypted >= THRESHOLD - 1 \/ lostReset]_vars
    BY ClearStep DEF vars
  <1> QED
    BY <1>1, BleAlways, PTL DEF Spec, BondsOutliveSessions

=============================================================================

------------------------------- MODULE BleLink -------------------------------
(***************************************************************************)
(* The BLE link (src/src/Services/BLEManager.cpp): connections, security,  *)
(* bonds, the pairing mode and the counter of orphaned bonds.              *)
(*                                                                         *)
(* The callbacks run in the NimBLE host task; update, the button and the   *)
(* way to deep sleep in the loop task.  _mux guards the assignments of a   *)
(* connection and a disconnection only: what the loop task has read may    *)
(* be about a connection that is gone when it writes.                      *)
(*                                                                         *)
(* NimBLE and the phones are external: one connection at a time, pairing   *)
(* without a PIN, bonds kept in NVS.                                       *)
(***************************************************************************)
EXTENDS Naturals

CONSTANTS
  Phones,    \* the phones that may connect
  THRESHOLD, \* sleeps in unsuccessful sessions after which bonds are cleared (5)
  None       \* no phone

ASSUME BleAssumption ==
  THRESHOLD \in Nat \ {0} /\ None \notin Phones

VARIABLES
  ble,         \* the members of BLEManager
  advertising, \* external: NimBLE is advertising
  bonds,       \* external: the bonds in NVS
  failures,    \* g_consecutive_bond_failures, in RTC memory
  link,        \* external: the connection as NimBLE knows it
  keys,        \* external: the phones that hold keys of the device
  host,        \* where the host task is in a callback, and what it has read
  loop,        \* where the loop task is, what it has read, and whether that is stale
  unencrypted, \* history: sleeps in sessions without keys since the last with them
  crossed,     \* history: the loop task marked an earlier connection's flags
  lostReset,   \* history: a reset of the counter was overwritten
  setup        \* history: the boot window ended without a bond

vars == <<ble, advertising, bonds, failures, link, keys, host, loop,
          unencrypted, crossed, lostReset, setup>>

-----------------------------------------------------------------------------
(* Data *)

\* start: _pairingModeStartTime, whether it was ever set and PAIRING_WINDOW_MS have
\* passed.  The boot window, the deferred parameters and the security watchdog, which
\* nothing starts anew, wait for a time that may be over at any moment.
Members ==
  [connected : BOOLEAN, requested : BOOLEAN, need : BOOLEAN, updated : BOOLEAN,
   pairing : BOOLEAN, start : {"never", "running", "over"}, window : BOOLEAN]

\* After init: the pairing mode is on, but its start time is not set.
Initialized ==
  [connected |-> FALSE, requested |-> FALSE, need |-> FALSE, updated |-> FALSE,
   pairing |-> TRUE, start |-> "never", window |-> TRUE]

\* security: a pairing or encryption is going on; tried: one was started on this
\* connection; auth: what came of it; tuned: new parameters were requested.
Link ==
  [phone : Phones \cup {None}, closing : BOOLEAN, security : BOOLEAN, tried : BOOLEAN,
   auth : {"none", "encrypted", "bonded"}, tuned : BOOLEAN]

NoLink == [phone |-> None, closing |-> FALSE, security |-> FALSE, tried |-> FALSE,
           auth |-> "none", tuned |-> FALSE]

IdleHost == [at |-> "idle", bonded |-> FALSE]

IdleLoop == [at |-> "idle", count |-> 0, stale |-> FALSE]

Up == link.phone # None

\* Mutant: security starts on a connection that may be gone.
startSecurity_Blind(l) == [l EXCEPT !.security = TRUE, !.tried = TRUE]

\* NimBLEDevice::startSecurity: nothing without a connection, or when it is going on.
startSecurity(l) ==
  IF l.phone = None \/ l.closing \/ l.auth # "none" THEN l
  ELSE [l EXCEPT !.security = TRUE, !.tried = TRUE]

\* The server's disconnect: the disconnection is reported later.
Closed(l) == IF l.phone = None THEN l ELSE [l EXCEPT !.closing = TRUE]

\* startAdvertising; with a connection NimBLE cannot advertise another.
AdvertisingStarted(b, l) == IF b.connected \/ l.phone # None THEN advertising ELSE TRUE

\* Mutant: the pairing mode is switched on without a start time.
PairingTimed_Never(b) == b

PairingTimed(b) == [b EXCEPT !.start = "running"]

enablePairingMode(b) == PairingTimed([b EXCEPT !.pairing = TRUE])

disablePairingMode(b) == [b EXCEPT !.pairing = FALSE]

isPairingAllowed == bonds = {} \/ ble.pairing

-----------------------------------------------------------------------------
(* Host task: connections *)

\* External: a phone answers the advertising, which ends.
Connect(p) ==
  /\ ~Up /\ advertising /\ host.at = "idle"
  /\ link' = [NoLink EXCEPT !.phone = p] /\ advertising' = FALSE
  /\ host' = [at |-> "connect", bonded |-> bonds # {}]
  /\ UNCHANGED <<ble, bonds, failures, keys, loop, unencrypted, crossed, lostReset, setup>>

\* onConnectInternal: under _mux, after it has counted the bonds, ...
OnConnect ==
  /\ host.at = "connect"
  /\ ble' = [ble EXCEPT !.connected = TRUE]
  /\ host' = [host EXCEPT !.at = "connected"]
  /\ UNCHANGED <<advertising, bonds, failures, link, keys, loop,
                 unencrypted, crossed, lostReset, setup>>

\* ... and the rest of it: the device starts the security when it has no bond.
InitiateSecurity ==
  /\ host.at = "connected"
  /\ advertising' = FALSE
  /\ IF host.bonded THEN UNCHANGED <<ble, link>>
     ELSE ble' = [ble EXCEPT !.requested = TRUE] /\ link' = startSecurity(link)
  /\ host' = IdleHost
  /\ UNCHANGED <<bonds, failures, keys, loop, unencrypted, crossed, lostReset, setup>>

\* External: the phone leaves, the link breaks, or the disconnect is done.
LinkDown ==
  /\ Up /\ host.at = "idle"
  /\ link' = NoLink
  /\ host' = [IdleHost EXCEPT !.at = "disconnect"]
  /\ UNCHANGED <<ble, advertising, bonds, failures, keys, loop,
                 unencrypted, crossed, lostReset, setup>>

\* Mutant: a request for security is remembered over the connection.
Disconnected_Requested(b) ==
  [b EXCEPT !.connected = FALSE, !.need = FALSE, !.updated = FALSE]

Disconnected(b) ==
  [b EXCEPT !.connected = FALSE, !.requested = FALSE, !.need = FALSE, !.updated = FALSE]

\* onDisconnectInternal: under _mux, ...
OnDisconnect ==
  /\ host.at = "disconnect"
  /\ ble' = Disconnected(ble)
  /\ loop' = [loop EXCEPT !.stale = loop.at \in {"tune", "force", "mark"}]
  /\ crossed' = FALSE
  /\ host' = [host EXCEPT !.at = "disconnected"]
  /\ UNCHANGED <<advertising, bonds, failures, link, keys, unencrypted, lostReset, setup>>

\* ... and the end of it.
AdvertiseAgain ==
  /\ host.at = "disconnected"
  /\ advertising' = AdvertisingStarted(ble, link)
  /\ host' = IdleHost
  /\ UNCHANGED <<ble, bonds, failures, link, keys, loop,
                 unencrypted, crossed, lostReset, setup>>

-----------------------------------------------------------------------------
(* Host task: security *)

\* External: the phone starts the security itself.
PhoneStarts ==
  /\ Up /\ ~link.closing /\ link.auth = "none" /\ ~link.security /\ host.at = "idle"
  /\ link' = startSecurity(link)
  /\ UNCHANGED <<ble, advertising, bonds, failures, keys, host, loop,
                 unencrypted, crossed, lostReset, setup>>

Authenticating == link.security /\ host.at = "idle"

\* onAuthenticationComplete when it failed: with bonds and without pairing mode the
\* phone has to go.  startAdvertising does nothing while it is connected.
AuthenticationFailed ==
  /\ Authenticating
  /\ link' = IF isPairingAllowed THEN [link EXCEPT !.security = FALSE]
             ELSE Closed([link EXCEPT !.security = FALSE])
  /\ advertising' = AdvertisingStarted(ble, link)
  /\ UNCHANGED <<ble, bonds, failures, keys, host, loop,
                 unencrypted, crossed, lostReset, setup>>

\* Mutant: a session with keys leaves the counter alone.
FailuresAfter_Kept(outcome) == failures

FailuresAfter(outcome) == IF outcome = "bonded" THEN 0 ELSE failures

\* External: keys that both have, or new ones: a phone whose keys the device has lost
\* cannot succeed, a phone that has lost its keys pairs again.
KeysAgree(p) == p \in keys => p \in bonds

\* onAuthenticationComplete otherwise.  Left out is a phone that is bonded and yet not
\* encrypted, as when the keys are renewed within a connection and that fails: it would
\* only set ble.need and leave the counter alone.
Authenticated(outcome) ==
  /\ Authenticating /\ KeysAgree(link.phone)
  /\ link' = [link EXCEPT !.security = FALSE, !.auth = outcome]
  /\ IF outcome = "bonded"
     THEN /\ bonds' = bonds \cup {link.phone} /\ keys' = keys \cup {link.phone}
          /\ unencrypted' = 0
          /\ lostReset' = (loop.at = "count")
     ELSE link.phone \notin bonds /\ UNCHANGED <<bonds, keys, unencrypted, lostReset, setup>>
  /\ failures' = FailuresAfter(outcome)
  /\ ble' = [ble EXCEPT !.need = TRUE]
  /\ UNCHANGED <<advertising, host, loop, crossed, setup>>

-----------------------------------------------------------------------------
(* Host task: messages of the app *)

Writing == Up /\ ~link.closing /\ host.at = "idle"

\* onWrite: without encryption only the handshake passes; anything else makes the
\* device ask for it.
WriteRejected ==
  /\ Writing /\ link.auth = "none" /\ ~link.security
  /\ link' = startSecurity(link)
  /\ UNCHANGED <<ble, advertising, bonds, failures, keys, host, loop,
                 unencrypted, crossed, lostReset, setup>>

\* handlePairingMode, and handleClearBonds before it.
PairingCommand(clear) ==
  /\ Writing /\ link.auth # "none"
  /\ bonds' = IF clear THEN {} ELSE bonds
  /\ ble' = [ble EXCEPT !.pairing = TRUE]
  /\ host' = [IdleHost EXCEPT !.at = "enable"]
  /\ UNCHANGED <<advertising, failures, link, keys, loop,
                 unencrypted, crossed, lostReset, setup>>

\* The start time is set after the pairing mode, and update may look in between.
EnablePairing ==
  /\ host.at = "enable"
  /\ ble' = PairingTimed(ble)
  /\ advertising' = AdvertisingStarted(ble, link)
  /\ setup' = FALSE
  /\ host' = IdleHost
  /\ UNCHANGED <<bonds, failures, link, keys, loop, unencrypted, crossed, lostReset>>

-----------------------------------------------------------------------------
(* Loop task: update *)

LoopIdle == loop.at = "idle"

Look(step) == loop' = [IdleLoop EXCEPT !.at = step]

\* The boot window closes; without a bond the pairing mode stays on.
CloseBootWindow ==
  /\ LoopIdle /\ ble.window
  /\ LET closed == [ble EXCEPT !.window = FALSE] IN
       ble' = IF bonds # {} THEN disablePairingMode(closed) ELSE closed
  /\ setup' = (bonds = {} /\ ble.start = "never")
  /\ UNCHANGED <<advertising, bonds, failures, link, keys, host, loop,
                 unencrypted, crossed, lostReset>>

PairingTimeout ==
  /\ LoopIdle /\ ble.pairing /\ ~ble.window /\ ble.start = "over"
  /\ ble' = disablePairingMode(ble)
  /\ UNCHANGED <<advertising, bonds, failures, link, keys, host, loop,
                 unencrypted, crossed, lostReset, setup>>

\* The deferred connection parameters are due ...
ParamsDue ==
  /\ LoopIdle /\ ble.connected /\ ble.need /\ ~ble.updated
  /\ Look("tune")
  /\ UNCHANGED <<ble, advertising, bonds, failures, link, keys, host,
                 unencrypted, crossed, lostReset, setup>>

\* ... and requested, on whatever connection there is by now.
UpdateParams ==
  /\ loop.at = "tune"
  /\ link' = IF Up THEN [link EXCEPT !.tuned = TRUE] ELSE link
  /\ ble' = [ble EXCEPT !.updated = TRUE, !.need = FALSE]
  /\ crossed' = (crossed \/ loop.stale)
  /\ loop' = IdleLoop
  /\ UNCHANGED <<advertising, bonds, failures, keys, host, unencrypted,
                 lostReset, setup>>

\* The security watchdog looks at the connection: it is encrypted, or overdue, ...
LookAtSecurity ==
  /\ LoopIdle /\ ble.connected /\ ~ble.requested /\ Up
  /\ \/ link.auth # "none" /\ Look("mark")
     \/ link.auth = "none" /\ Look("force")
  /\ UNCHANGED <<ble, advertising, bonds, failures, link, keys, host,
                 unencrypted, crossed, lostReset, setup>>

\* ... which it marks, and in the second case starts the security.
MarkRequested ==
  /\ loop.at \in {"mark", "force"}
  /\ ble' = [ble EXCEPT !.requested = TRUE]
  /\ link' = IF loop.at = "force" THEN startSecurity(link) ELSE link
  /\ crossed' = (crossed \/ loop.stale)
  /\ loop' = IdleLoop
  /\ UNCHANGED <<advertising, bonds, failures, keys, host, unencrypted,
                 lostReset, setup>>

-----------------------------------------------------------------------------
(* Loop task: handleButtonInput *)

ShortPress ==
  /\ LoopIdle
  /\ IF ble.pairing
     THEN ble' = disablePairingMode(ble) /\ UNCHANGED advertising
     ELSE ble' = enablePairingMode(ble) /\ advertising' = AdvertisingStarted(ble, link)
  /\ setup' = FALSE
  /\ UNCHANGED <<bonds, failures, link, keys, host, loop,
                 unencrypted, crossed, lostReset>>

LongPress ==
  /\ LoopIdle
  /\ bonds' = {}
  /\ link' = IF ble.connected THEN Closed(link) ELSE link
  /\ ble' = enablePairingMode(ble) /\ advertising' = AdvertisingStarted(ble, link)
  /\ setup' = FALSE
  /\ UNCHANGED <<failures, keys, host, loop, unencrypted, crossed, lostReset>>

-----------------------------------------------------------------------------
(* Loop task: enterDeepSleep, and init after a reset *)

Saturated(n) == IF n < THRESHOLD THEN n ELSE THRESHOLD

\* incrementGhostBondCounter reads the counter ...  PowerManager tries again only
\* after a disconnection takes effect.
EnterDeepSleep ==
  /\ LoopIdle /\ ~link.closing
  /\ IF bonds # {} /\ ble.connected
     THEN /\ loop' = [IdleLoop EXCEPT !.at = "count", !.count = failures]
          /\ unencrypted' =
               IF link.auth = "bonded" THEN unencrypted ELSE Saturated(unencrypted + 1)
     ELSE Look("shutdown") /\ UNCHANGED unencrypted
  /\ UNCHANGED <<ble, advertising, bonds, failures, link, keys, host,
                 crossed, lostReset, setup>>

\* ... and writes it: what the host task did to it in between is lost.
CountFailure ==
  /\ loop.at = "count"
  /\ failures' = Saturated(loop.count + 1)
  /\ Look("shutdown")
  /\ UNCHANGED <<ble, advertising, bonds, link, keys, host,
                 unencrypted, crossed, lostReset, setup>>

ShutDown ==
  /\ loop.at = "shutdown"
  /\ link' = IF ble.connected THEN Closed(link) ELSE link
  /\ Look("stop")
  /\ UNCHANGED <<ble, advertising, bonds, failures, keys, host,
                 unencrypted, crossed, lostReset, setup>>

\* The last checks of the sensor may end it here; otherwise Off follows.
StopAdvertising ==
  /\ loop.at = "stop"
  /\ advertising' = FALSE
  /\ Look("idle")
  /\ UNCHANGED <<ble, bonds, failures, link, keys, host,
                 unencrypted, crossed, lostReset, setup>>

\* Deep sleep, a crash, or (kept = FALSE) a loss of power, which loses RTC memory.
Off(kept) ==
  /\ loop.at \notin {"off", "lost"}
  /\ Look(IF kept THEN "off" ELSE "lost")
  /\ link' = NoLink /\ advertising' = FALSE /\ host' = IdleHost
  /\ ble' = Initialized /\ setup' = FALSE /\ crossed' = FALSE
  /\ UNCHANGED <<bonds, failures, keys, unencrypted, lostReset>>

Orphaned(n) == bonds # {} /\ n >= THRESHOLD

\* init: the counter is set when the magic number is lost, and an orphaned bond is
\* cleared.
Boot ==
  /\ loop.at \in {"off", "lost"}
  /\ LET n == IF loop.at = "lost" THEN 0 ELSE failures IN
       /\ bonds' = IF Orphaned(n) THEN {} ELSE bonds
       /\ failures' = IF Orphaned(n) THEN 0 ELSE n
       /\ lostReset' = (lostReset /\ failures' # 0)
  /\ advertising' = TRUE
  /\ Look("idle")
  /\ UNCHANGED <<ble, link, keys, host, unencrypted, crossed, setup>>

-----------------------------------------------------------------------------
(* Time and the phones *)

PairingTimePasses ==
  /\ ble.start = "running"
  /\ ble' = [ble EXCEPT !.start = "over"]
  /\ UNCHANGED <<advertising, bonds, failures, link, keys, host, loop,
                 unencrypted, crossed, lostReset, setup>>

\* The user makes the phone forget the device.
Forget(p) ==
  /\ p \in keys /\ link.phone # p
  /\ keys' = keys \ {p}
  /\ UNCHANGED <<ble, advertising, bonds, failures, link, host, loop,
                 unencrypted, crossed, lostReset, setup>>

-----------------------------------------------------------------------------
Init ==
  /\ ble = Initialized /\ advertising = TRUE /\ bonds = {} /\ failures = 0
  /\ link = NoLink /\ keys = {} /\ host = IdleHost
  /\ loop = IdleLoop /\ unencrypted = 0
  /\ crossed = FALSE /\ lostReset = FALSE /\ setup = FALSE

Callback == OnConnect \/ InitiateSecurity \/ OnDisconnect \/ AdvertiseAgain \/ EnablePairing

App ==
  \/ \E p \in Phones : Connect(p) \/ Forget(p)
  \/ LinkDown \/ PhoneStarts \/ AuthenticationFailed
  \/ \E outcome \in {"encrypted", "bonded"} : Authenticated(outcome)
  \/ WriteRejected
  \/ \E clear \in BOOLEAN : PairingCommand(clear)

Update == CloseBootWindow \/ PairingTimeout \/ ParamsDue \/ LookAtSecurity

LoopGoesOn ==
  \/ UpdateParams \/ MarkRequested \/ CountFailure \/ ShutDown \/ StopAdvertising
  \/ Boot

Next ==
  \/ Callback \/ App \/ Update \/ LoopGoesOn \/ ShortPress \/ LongPress
  \/ EnterDeepSleep \/ (\E kept \in BOOLEAN : Off(kept)) \/ PairingTimePasses

\* Both tasks run on, time passes, and update looks at everything again and again,
\* although it is not called while the loop task is shutting down.
Fairness ==
  /\ WF_vars(Callback) /\ WF_vars(LoopGoesOn) /\ WF_vars(link.closing /\ LinkDown)
  /\ WF_vars(PairingTimePasses)
  /\ SF_vars(CloseBootWindow) /\ SF_vars(PairingTimeout)
  /\ SF_vars(ParamsDue) /\ SF_vars(LookAtSecurity)

Spec == Init /\ [][Next]_vars

FairSpec == Spec /\ Fairness

-----------------------------------------------------------------------------
(* Properties *)

\* Every variable has its type, and without a phone nothing is left of a connection.
TypeOK ==
  /\ ble \in Members /\ advertising \in BOOLEAN
  /\ bonds \subseteq Phones /\ keys \subseteq Phones
  /\ failures \in 0 .. THRESHOLD /\ unencrypted \in 0 .. THRESHOLD
  /\ link \in Link /\ (link.phone = None => link = NoLink)
  /\ host \in [at : {"idle", "connect", "connected", "disconnect", "disconnected", "enable"},
               bonded : BOOLEAN]
  /\ loop \in [at : {"idle", "tune", "force", "mark", "count", "shutdown", "stop",
                     "off", "lost"},
               count : 0 .. THRESHOLD, stale : BOOLEAN]
  /\ crossed \in BOOLEAN /\ lostReset \in BOOLEAN
  /\ setup \in BOOLEAN

\* init clears the bonds only after THRESHOLD sleeps in a row with a phone that did not
\* prove its keys, less one, because enterDeepSleep counts the session that proved
\* them, too.  The exception is an authentication that completes between the read and
\* the write of the counter.
BondsOutliveSessions ==
  [][loop.at \in {"off", "lost"} /\ bonds' # bonds
       => unencrypted >= THRESHOLD - 1 \/ lostReset]_vars

\* The pairing mode, which defers every flush of the history (HistoryService::flushToNvs),
\* ends, unless it is asked for again and again.  The exception is a boot window that
\* ends without a bond: the pairing mode then stays on for ever, after the first bond,
\* too.
PairingCloses ==
  \/ []<>(ble.start = "running")
  \/ ble.pairing ~> ~ble.pairing \/ setup \/ loop.at \in {"off", "lost"}

\* A connection is settled: somebody starts the security (the phone, the device without
\* a bond, or the watchdog of update), and once authenticated it gets its parameters,
\* although the flags are those of the connection before.  The exception is an update
\* that has looked at the connection before and marks this one.
ConnectionSettles ==
  /\ Up ~> link.tried \/ ~Up \/ link.closing \/ crossed
  /\ link.auth # "none" ~> link.tuned \/ ~Up \/ crossed
=============================================================================

-------------------------- MODULE ReliableDelivery --------------------------
(***************************************************************************)
(* What the firmware promises about a detection: it is kept until it is    *)
(* overwritten by newer ones, it counts as synced only once the app has    *)
(* stored it, and it stays synced.  Detections are numbered as they occur. *)
(* Stored means that the app has received it intact and acknowledged it:   *)
(* what the app then does with it is not the firmware's promise.           *)
(***************************************************************************)
EXTENDS Naturals, FiniteSets

CONSTANT CAPACITY  \* detections the device keeps

VARIABLES
  detected,  \* how many detections there were
  kept,      \* the detections that the device still has
  synced,    \* those of them that it will not send again
  stored     \* the detections that the app has stored

vars == <<detected, kept, synced, stored>>

Init == detected = 0 /\ kept = {} /\ synced = {} /\ stored = {}

\* A detection when there is room, or in the place of the oldest one.
Detect ==
  /\ detected' = detected + 1
  /\ \E old \in SUBSET kept :
       /\ IF Cardinality(kept) < CAPACITY THEN old = {}
          ELSE Cardinality(old) = 1 /\ \A o \in old, k \in kept : o <= k
       /\ kept' = (kept \ old) \cup {detected + 1}
       /\ synced' = synced \ old
  /\ UNCHANGED stored

\* The app stores a detection.
Store(n) ==
  /\ n \in 1 .. detected /\ n \notin stored
  /\ stored' = stored \cup {n}
  /\ UNCHANGED <<detected, kept, synced>>

\* The device learns that the app has stored a detection.
Sync(n) ==
  /\ n \in kept \cap stored
  /\ synced' = synced \cup {n}
  /\ UNCHANGED <<detected, kept, stored>>

Next == Detect \/ \E n \in 1 .. detected : Store(n) \/ Sync(n)

Spec == Init /\ [][Next]_vars
=============================================================================

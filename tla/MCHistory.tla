------------------------------ MODULE MCHistory ------------------------------
(* Instance of HistoryService for TLC: the bounds are given by the cfgs.      *)
EXTENDS HistoryService

\* Uninitialized stack: zeroes, or the bytes of an event of an earlier call.
MCStackGarbage ==
  {NoEvent, [id |-> MaxEventId, synced |-> FALSE, overflow |-> FALSE]}
=============================================================================

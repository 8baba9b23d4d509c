---------------------------- MODULE MCEventsPoller ----------------------------
(* The finalize step of the issue flow is the one PATCH clients send.        *)
EXTENDS EventsPoller

CONSTANTS r1, r2

FinalizePatches == {[status |-> None, token |-> TRUE]}
=============================================================================

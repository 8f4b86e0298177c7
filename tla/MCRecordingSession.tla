------------------------- MODULE MCRecordingSession -------------------------
(***************************************************************************)
(* The sets of failures with which TLC explores RecordingSession: every    *)
(* kind of failure when starts and resets do not overlap, at most a failed *)
(* load when they do, and one failure of each coroutine for the liveness   *)
(* properties.                                                             *)
(***************************************************************************)
EXTENDS RecordingSession

NoFaults == {}
LoadFault == {"load"}
SomeFaults == {"read", "load", "decode"}
AllFaults == FaultKinds
=============================================================================

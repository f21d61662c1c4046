---------------------------- MODULE MCSseClient ----------------------------
(***************************************************************************)
(* Instances of SseClient for TLC.                                         *)
(***************************************************************************)
EXTENDS SseClient, TLC

TwoReads   == {1, 2}
ThreeTimers == {1, 2, 3}
=============================================================================

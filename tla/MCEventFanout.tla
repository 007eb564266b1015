---------------------------- MODULE MCEventFanout ----------------------------
(***************************************************************************)
(* Two receivers, one of which may stop receiving and thereby block the    *)
(* rest, whereas the other one waits for Ready first, and the two          *)
(* goroutines that notify.                                                 *)
(***************************************************************************)
EXTENDS EventFanout

CONSTANTS r1, r2, watch, list
=============================================================================

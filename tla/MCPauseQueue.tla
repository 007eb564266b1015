---------------------------- MODULE MCPauseQueue -----------------------------
(***************************************************************************)
(* Four IDs: enough for a hole at the front, in the middle and at the end. *)
(***************************************************************************)
EXTENDS PauseQueue

CONSTANTS c1, c2, c3, c4
=============================================================================

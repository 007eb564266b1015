---------------------------- MODULE MCEventPump ------------------------------
(***************************************************************************)
(* Capacities of 0, as with Docker and containerd, and of 2: as with CRI,  *)
(* whose larger buffer behaves alike when it is empty, partly filled, full.*)
(***************************************************************************)
EXTENDS EventPump
=============================================================================

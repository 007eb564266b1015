--------------------------- MODULE MCEngineQueries ---------------------------
(***************************************************************************)
(* Two IDs: for CRI a pod's sandbox and a container in it, for containerd  *)
(* a container of the same ID in each of two namespaces.                   *)
(***************************************************************************)
EXTENDS EngineQueries

CONSTANTS pod, c1, default, k8s

OnePod == [id \in IDs \ Sandboxes |-> pod]
SameID == [id \in IDs |-> c1]
TwoSpaces == [id \in IDs |-> IF id = pod THEN k8s ELSE default]
=============================================================================

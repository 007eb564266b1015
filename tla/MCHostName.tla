------------------------------ MODULE MCHostName ------------------------------
(***************************************************************************)
(* Visitors of two engines on other hosts, one of which has no host name,  *)
(* and one who asks about the own host; M0 and two more threads.           *)
(***************************************************************************)
EXTENDS HostName

CONSTANTS v1, v2, v3, m1, m2, home, pod, bare

Targets == [v \in Visitors |-> CASE v = v1 -> pod [] v = v2 -> bare [] v = v3 -> Own]
===============================================================================

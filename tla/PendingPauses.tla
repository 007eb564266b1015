---------------------------- MODULE PendingPauses ----------------------------
(***************************************************************************)
(* What the watcher wants of its pending pause states (watcher/state.go):  *)
(* for each container ID the most recent state that was added, unless the  *)
(* ID was removed since.  Nothing depends on an order of the IDs.          *)
(***************************************************************************)
CONSTANT IDs

VARIABLES pending,  \* the pending state of each ID: a set of at most one Boolean
          call      \* the most recent call

vars == <<pending, call>>

Init == pending = [id \in IDs |-> {}] /\ call = <<"none">>

Add(id, paused) == /\ pending' = [pending EXCEPT ![id] = {paused}]
                   /\ call' = <<"add", id, paused>>
Remove(id) == pending' = [pending EXCEPT ![id] = {}] /\ call' = <<"remove", id>>
Clear == pending' = [id \in IDs |-> {}] /\ call' = <<"clear">>

Next == \/ \E id \in IDs, paused \in BOOLEAN : Add(id, paused)
        \/ \E id \in IDs : Remove(id)
        \/ Clear

Spec == Init /\ [][Next]_vars
=============================================================================

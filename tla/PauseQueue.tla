----------------------------- MODULE PauseQueue ------------------------------
(***************************************************************************)
(* pendingPauseStates of watcher/state.go: a slice of (un)pause states, in *)
(* which an addition overwrites the state of an ID that is there already   *)
(* and a removal moves the last element into the hole.  All its users hold *)
(* the watcher's event gate, so that each operation is one step.           *)
(***************************************************************************)
EXTENDS Naturals, Sequences

CONSTANT IDs

VARIABLES pauses,
          call     \* the most recent call, so that the map answers the same one

vars == <<pauses, call>>

PauseStates == [id : IDs, paused : BOOLEAN]

\* The indices of an ID, and the one that the range loops find first.
Holding(q, id) == {i \in 1..Len(q) : q[i].id = id}
First(q, id) == CHOOSE i \in Holding(q, id) : \A j \in Holding(q, id) : i <= j

Added_Appends(q, id, paused) == Append(q, [id |-> id, paused |-> paused])
Added(q, id, paused) ==
    IF Holding(q, id) = {} THEN Append(q, [id |-> id, paused |-> paused])
    ELSE [q EXCEPT ![First(q, id)].paused = paused]

Removed_DropsLast(q, id) ==
    IF Holding(q, id) = {} THEN q ELSE SubSeq(q, 1, Len(q) - 1)
Removed(q, id) ==
    IF Holding(q, id) = {} THEN q
    ELSE [i \in 1..(Len(q) - 1) |->
            IF i = First(q, id) THEN q[Len(q)] ELSE q[i]]

Init == pauses = <<>> /\ call = <<"none">>

Add(id, paused) == /\ pauses' = Added(pauses, id, paused)
                   /\ call' = <<"add", id, paused>>
Remove(id) == pauses' = Removed(pauses, id) /\ call' = <<"remove", id>>

\* By the listing that has replayed them.
Clear == pauses' = <<>> /\ call' = <<"clear">>

Next == \/ \E id \in IDs, paused \in BOOLEAN : Add(id, paused)
        \/ \E id \in IDs : Remove(id)
        \/ Clear

Spec == Init /\ [][Next]_vars
-----------------------------------------------------------------------------
\* An ID is in the queue at most once, so that overwriting, removing and replaying
\* the first hit is enough (state_test.go:24, "never adds twice"): the shuffling
\* of elements in Remove never leaves a second one behind.
NoDuplicates ==
    \A i, j \in 1..Len(pauses) : pauses[i].id = pauses[j].id => i = j

PendingOf(q) == [id \in IDs |-> {q[i].paused : i \in Holding(q, id)}]
Abstract == INSTANCE PendingPauses WITH pending <- PendingOf(pauses)

\* The queue implements the map from IDs to pending states that the watcher's
\* handlers rely on (watcher.go:359, 394, 451, 481): each call has the same effect
\* on the map, and no state of another ID is lost or brought back.
ImplementsPendingPauses == Abstract!Spec
=============================================================================

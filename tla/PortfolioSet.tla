----------------------------- MODULE PortfolioSet -----------------------------
(***************************************************************************)
(* What a whalewatcher.Portfolio promises its users: a set of container    *)
(* descriptions that every call finds or leaves as if it were alone.       *)
(*                                                                         *)
(* A description is identified by ID, name and composer project together.  *)
(* While names do not change this is the set of module Containers, one     *)
(* container per ID and project; one that is renamed may be in it twice.   *)
(***************************************************************************)
CONSTANTS Births,  \* identities of containers: records of id, name and proj
          Zero     \* the name of the zero project

VARIABLES stored,  \* the containers: identities, with a paused state
          call     \* the call that has just taken effect, with its result, if any

vars == <<stored, call>>

Identity(c) == [id |-> c.id, name |-> c.name, proj |-> c.proj]
Description(b, paused) ==
    [id |-> b.id, name |-> b.name, proj |-> b.proj, paused |-> paused]
Known(c) == \E d \in stored : Identity(d) = Identity(c)

\* The containers that a name or ID stands for; some calls tell the project.
Named(nameorid) == {c \in stored : nameorid \in {c.id, c.name}}
NamedIn(nameorid, proj) == {c \in Named(nameorid) : c.proj = proj}
Keys == UNION {{b.id, b.name} : b \in Births}
Projects == {b.proj : b \in Births} \union {Zero}

Init == /\ stored \in SUBSET {Description(b, paused) : b \in Births, paused \in BOOLEAN}
        /\ \A c, d \in stored : Identity(c) = Identity(d) => c = d
        /\ call = <<"none">>

Add(c) == /\ call' = <<"add", c, ~Known(c)>>
          /\ stored' = IF Known(c) THEN stored ELSE stored \union {c}

\* Exactly one of the containers that the name or ID stands for, if there is one.
Remove(nameorid, proj) ==
    \/ /\ call' = <<"remove", nameorid, proj, {}>>
       /\ NamedIn(nameorid, proj) = {} /\ UNCHANGED stored
    \/ \E c \in NamedIn(nameorid, proj) :
         /\ call' = <<"remove", nameorid, proj, {c}>>
         /\ stored' = stored \ {c}

SetPaused(nameorid, proj, paused) ==
    \/ /\ call' = <<"setpaused", nameorid, proj, {}>>
       /\ NamedIn(nameorid, proj) = {} /\ UNCHANGED stored
    \/ \E c \in NamedIn(nameorid, proj) :
         LET d == [c EXCEPT !.paused = paused]
         IN  /\ call' = <<"setpaused", nameorid, proj, {d}>>
             /\ stored' = (stored \ {c}) \union {d}

Container(nameorid) ==
    /\ \/ call' = <<"container", nameorid, {}>> /\ Named(nameorid) = {}
       \/ \E c \in Named(nameorid) : call' = <<"container", nameorid, {c}>>
    /\ UNCHANGED stored

\* Composer projects come and go with their containers.
Names == /\ call' = <<"names", {c.proj : c \in stored} \ {Zero}>>
         /\ UNCHANGED stored

\* Nothing takes effect.
Quiet == call' = <<"none">> /\ UNCHANGED stored

Next == \/ Quiet
        \/ \E b \in Births, paused \in BOOLEAN : Add(Description(b, paused))
        \/ \E q \in Keys : \/ Container(q)
                           \/ \E proj \in Projects :
                                \/ Remove(q, proj)
                                \/ \E p \in BOOLEAN : SetPaused(q, proj, p)
        \/ Names

Spec == Init /\ [][Next]_vars
=============================================================================

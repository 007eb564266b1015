------------------------------ MODULE Containers ------------------------------
(***************************************************************************)
(* What a whalewatcher.Portfolio promises the watcher that keeps it: a set *)
(* of container descriptions, at most one per identity and composer        *)
(* project.  Every operation runs under the portfolio's own lock           *)
(* (Portfolio.m), so each is one operator on the set.                      *)
(*                                                                         *)
(* A container is a record with its id, the composer project it belongs    *)
(* to, its incarnation (its process: a container that is stopped and       *)
(* started again keeps its ID and gets a new PID) and its paused state.    *)
(* Names are left out: the watcher only ever passes IDs.  An empty project *)
(* needs no representation: to the watcher a missing project and a project *)
(* without the container are the same.                                     *)
(***************************************************************************)

\* The containers with the given ID.  Two can share it only when the ID was
\* reused for a container of another composer project.
ByID(pf, id) == {c \in pf : c.id = id}

\* The container with the given ID in the given composer project, if any.
InProject(pf, id, proj) == {c \in pf : c.id = id /\ c.proj = proj}

\* Portfolio.Add keeps what it already has; PfAdds is its boolean result.
PfAdds(pf, c) == InProject(pf, c.id, c.proj) = {}
PfAdd(pf, c) == IF PfAdds(pf, c) THEN pf \union {c} ELSE pf

PfRemove(pf, id, proj) == pf \ InProject(pf, id, proj)

\* Containers are immutable: the one in the portfolio is replaced by a copy.
PfSetPaused(pf, id, proj, paused) ==
    PfRemove(pf, id, proj)
      \union {[c EXCEPT !.paused = paused] : c \in InProject(pf, id, proj)}
===============================================================================

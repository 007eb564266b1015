----------------------------- MODULE MCPortfolio -----------------------------
(***************************************************************************)
(* Two containers of a composer project, one of them with an old and a new *)
(* name, and one container that belongs to none; the others go by their    *)
(* IDs only, as it is with containerd.                                     *)
(***************************************************************************)
EXTENDS Portfolio

CONSTANTS c1, c2, c3, srv, srv2, app, listing

Cntr(id, name, proj, paused) ==
    [id |-> id, name |-> name, proj |-> proj, paused |-> paused]
ThreeContainers ==
    {Cntr(c1, c1, app, FALSE), Cntr(c2, srv, app, FALSE), Cntr(c2, srv2, app, TRUE),
     Cntr(c3, c3, Zero, FALSE)}

\* In the beginning there is a container in each project.
OneEach == {[p \in {app, Zero} |-> IF p = app THEN <<Cntr(c1, c1, app, FALSE)>>
                                   ELSE <<Cntr(c3, c3, Zero, FALSE)>>]}
=============================================================================

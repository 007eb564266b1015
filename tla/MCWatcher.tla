------------------------------ MODULE MCWatcher ------------------------------
(***************************************************************************)
(* Small instances of Watcher for TLC.                                     *)
(***************************************************************************)
EXTENDS WatcherInvariant, TLC

CONSTANTS c1, c2, web, app

\* Engines where an ID belongs to one composer project for good: Docker's, and
\* the Kubernetes engines, where there are no projects.
OneProject == [id \in IDs |-> {web}]

\* containerd, where the user picks the ID: it may come back in another project.
AnyProject == [id \in IDs |-> Projects]

Symmetry == Permutations(IDs)
=============================================================================

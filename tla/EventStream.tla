----------------------------- MODULE EventStream -----------------------------
(***************************************************************************)
(* What Watcher takes LifecycleEvents of an engine client to be: one queue *)
(* of the events the engine has sent since it was subscribed to.           *)
(***************************************************************************)
EXTENDS Sequences

CONSTANT Events

VARIABLES sub,     \* "pending", "live", "broken", or "off" once Watch has left
          stream   \* the events sent and not yet received

vars == <<sub, stream>>

Init == sub = "pending" /\ stream = <<>>

Subscribe == sub = "pending" /\ sub' = "live" /\ UNCHANGED stream

Emit(e) == sub = "live" /\ stream' = Append(stream, e) /\ UNCHANGED sub

Break == sub \in {"pending", "live"} /\ sub' = "broken" /\ UNCHANGED stream

Recv == /\ sub \in {"live", "broken"} /\ stream # <<>>
        /\ stream' = Tail(stream) /\ UNCHANGED sub

\* Watch leaves its loop, for an error of the stream or of the listing.
Leave == sub' = "off" /\ stream' = <<>>

Next == Subscribe \/ (\E e \in Events : Emit(e)) \/ Break \/ Recv \/ Leave

Spec == Init /\ [][Next]_vars
=============================================================================

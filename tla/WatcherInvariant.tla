-------------------------- MODULE WatcherInvariant --------------------------
(***************************************************************************)
(* Why Watcher keeps in step with its engine: the inductive invariant from *)
(* which WatcherProofs proves its properties, and which TLC checks, too.   *)
(***************************************************************************)
EXTENDS Watcher

\* Where Watch is between receiving an event and being done with it.
HandlingPCs == {"born", "add", "demise", "remove", "pausing", "setpaused", "notify"}

\* Watch handles an event that fits where it is.
EventFits ==
    /\ wpc \in HandlingPCs => evt \in Events
    /\ wpc \in {"pausing", "setpaused"} => evt.type \in {Paused, Unpaused}

\* The event gate is held by the one listing that is merging, if any.
GateHeldByMerger ==
    \A n \in Lists : lpc[n] \in {"merge", "announce"} <=> gate = n

\* Behind the gate the pauses to replay stay as they are.
ReplaysPauses ==
    \A n \in Lists : lpc[n] \in {"merge", "announce"}
                       => \A id \in todo[n] : pauses[id] # "none"

\* The listing of an attempt does nothing before the attempt.
NotBegun == \A n \in Lists : n > attempt => lpc[n] = "none"

\* TypeOK alone is not inductive: the type of what a listing announces rests on
\* the gate.
TypeInv == TypeOK /\ EventFits /\ GateHeldByMerger /\ ReplaysPauses /\ NotBegun

\* Unless the ghost says otherwise, only the listing of this attempt is at work.
OnlyThisListing ==
    "overlap" \notin gap => \A n \in Lists : n # attempt => ~Active(n)

\* The listing of this attempt merges into the portfolio that is being written.
MergesIntoWritten ==
    \A n \in Lists :
      n = attempt /\ lpc[n] \in {"merge", "announce", "publish", "done"}
        => lpf[n] = writepf

PublishInv == TypeInv /\ OnlyThisListing /\ MergesIntoWritten
-----------------------------------------------------------------------------
(***************************************************************************)
(* What is still to be handled.                                            *)
(***************************************************************************)
PauseTypes == {Paused, Unpaused}

\* The events still to be handled: the one that Watch is handling, unless it is only
\* to be announced, and those that it has not received.
InWork == HandlingPCs \ {"notify"}
Agenda == IF wpc \in InWork THEN <<evt>> \o stream ELSE stream

\* An event about id, of one of some types, is among those in s that come after i.
Coming(s, i, id, types) ==
    \E j \in 1..Len(s) : j > i /\ s[j].id = id /\ s[j].type \in types

\* After i, no start of a container precedes its exit.
ExitFirst(s, i, id) ==
    \A m \in 1..Len(s) : m > i /\ s[m].id = id /\ s[m].type = Started =>
      \E j \in 1..Len(s) : j > i /\ j < m /\ s[j].id = id /\ s[j].type = Exited

\* Event i of s, and what comes after it, fit the state e that the engine has now.
SoundAt(s, i, e) ==
    /\ s[i].type = Exited /\ e.alive => Coming(s, i, s[i].id, {Started})
    /\ s[i].type \in PauseTypes =>
         /\ ExitFirst(s, i, s[i].id)
         /\ \/ Coming(s, i, s[i].id, {Exited})
            \/ /\ e.alive
               /\ \/ Coming(s, i, s[i].id, PauseTypes)
                  \/ e.paused = (s[i].type = Paused)
SoundOn(s, eng) == \A i \in 1..Len(s) : SoundAt(s, i, eng[s[i].id])

(***************************************************************************)
(* The invariant.                                                          *)
(***************************************************************************)

\* Each ID has one project for good.
FixedProjects == \A id \in IDs : \A p, q \in ProjectsOf[id] : p = q

\* What is known of an ID, wherever it is kept, names a project of the ID, and a
\* portfolio has one container of the ID at most.
Filed(c) == c.proj \in ProjectsOf[c.id]
Told(e) == e.proj \in ProjectsOf[e.id] \union {ProjectUnknown}
OneEach(pf) == \A c, d \in pf : c.id = d.id => c = d
PfsFiled(ps) == \A p \in Portfolios : OneEach(ps[p]) /\ \A c \in ps[p] : Filed(c)
StreamFiled(s) == \A i \in 1..Len(s) : Told(s[i])
FoundFiled(f) == \A n \in Lists : \A c \in f[n] : Filed(c)
FiledOK ==
    /\ \A id \in IDs : engine[id].proj \in ProjectsOf[id]
    /\ PfsFiled(pfs) /\ FoundFiled(found) /\ \A c \in held : Filed(c)
    /\ StreamFiled(stream) /\ (wpc \in HandlingPCs => Told(evt))

\* What is not yet there: portfolios of attempts to come, and anything before the
\* first one.
NotYet ==
    /\ \A p \in Portfolios : p > attempt => pfs[p] = {}
    /\ writepf <= attempt /\ \A n \in Lists : lpf[n] <= attempt
    /\ attempt = 0 => view = {} /\ pfs[writepf] = {} /\ ~listinprogress
    /\ attempt <= 1 => "overlap" \notin gap /\ "leftover" \notin gap
    /\ sub = "off" <=> wpc \in {"trial", "backoff", "returned"}
    /\ sub # "off" => attempt \in Lists /\ lpc[attempt] # "none"

\* Where Watch is fits the event, and the container in its hands.
HandOK ==
    /\ wpc \in {"born", "add"} => evt.type = Started
    /\ wpc \in {"demise", "remove"} => evt.type = Exited
    /\ wpc \in {"add", "notify"} => \E c \in held : held = {c} /\ c.id = evt.id

\* A listing has found only what it has inspected.
ListingOK ==
    \A n \in Lists :
      /\ found[n] # {} => lpc[n] \in {"inspect", "merge", "announce"}
      /\ lpc[n] = "inspect" => \A c \in found[n] : c.id \notin todo[n]

ShapeInv == /\ PublishInv /\ AsideOnlyWhileListing
            /\ FiledOK /\ NotYet /\ HandOK /\ ListingOK

\* The attempt is connected, its listing has not failed, and nothing of an earlier
\* attempt gets in its way.
Clean == /\ sub \in {"pending", "live"} /\ lpc[attempt] # "failed"
         /\ "overlap" \notin gap /\ "leftover" \notin gap

\* The events before it that Watch has taken through the event gate.
Gated == IF wpc \in {"remove", "setpaused"} THEN 1 ELSE 0

\* The pause of an ID is set aside and not yet replayed.
Waits(id) == /\ pauses[id] # "none"
             /\ lpc[attempt] \in {"merge", "announce"} => id \in todo[attempt]

\* A listing is flagged while it is at work; a connection that is not yet made has
\* brought nothing; what has been listed is online.
FlagOK ==
    /\ listinprogress <=> lpc[attempt] \in {"query", "inspect", "merge", "announce"}
    /\ sub = "pending" => /\ stream = <<>> /\ wpc = "loop"
                          /\ bluenorwegians = {} /\ pauses = NoPauses
    /\ lpc[attempt] = "done" => readpf = writepf

\* What is set aside is the latest known of the ID, unless it has an exit to come.
AsideOK ==
    \A id \in IDs : pauses[id] # "none" =>
      /\ \/ Coming(Agenda, Gated, id, {Exited})
         \/ /\ engine[id].alive
            /\ \/ Coming(Agenda, Gated, id, PauseTypes)
               \/ engine[id].paused = (pauses[id] = Paused)
      /\ ExitFirst(Agenda, Gated, id)
      /\ wpc = "remove" => evt.id # id

\* A container c is what the engine, in state e, has of it, unless it is leaving, or
\* but for its pause if that is changing.
Right(c, e, leaving, changing) ==
    \/ leaving
    \/ /\ e.alive /\ c.inc = e.inc
       /\ changing \/ c.paused = e.paused

\* The container that Watch is about to add is right.
HeldOK ==
    wpc = "add" => \A c \in held :
      Right(c, engine[c.id], Coming(Agenda, 0, c.id, {Exited}),
                             Coming(Agenda, 0, c.id, PauseTypes))

\* The events to come lead to the state of the engine.
EventsOK == SoundOn(Agenda, engine) /\ FlagOK /\ AsideOK /\ HeldOK
EventsInv == Clean => EventsOK

\* The listing of this attempt has yet to look at the ID.
Undecided(id) == \/ lpc[attempt] \in {"start", "query"}
                 \/ lpc[attempt] = "inspect" /\ id \in todo[attempt]

\* What the listing has found is right, unless a death or a pause since is set aside
\* or still to come.
FoundOK ==
    \A c \in found[attempt] :
      Right(c, engine[c.id],
            c.id \in bluenorwegians \/ Coming(Agenda, Gated, c.id, {Exited}),
            Coming(Agenda, Gated, c.id, PauseTypes) \/ Waits(c.id))

\* So is what is in the portfolio.
KeptOK ==
    \A c \in pfs[writepf] :
      /\ Right(c, engine[c.id], Coming(Agenda, 0, c.id, {Exited}),
               Coming(Agenda, 0, c.id, PauseTypes) \/ Waits(c.id))
      /\ sub = "pending" => ~Undecided(c.id)

\* A container that is missing is on its way.
OnItsWay(id) ==
    \/ Coming(Agenda, 0, id, {Exited}) \/ Coming(Agenda, 0, id, {Started})
    \/ /\ id \notin bluenorwegians
       /\ Undecided(id) \/ \E c \in found[attempt] : c.id = id
MissingOK ==
    \A id \in AliveIDs : ByID(pfs[writepf], id) # {} \/ OnItsWay(id)

\* What is in the portfolio, and what is to come, add up to what the engine runs.
ContentOK == FoundOK /\ KeptOK /\ ("inspect" \notin gap => MissingOK)
ContentInv == Clean /\ "missed" \notin gap => ContentOK

\* Watch and the listing do not announce the same container at the same time.
ApartOK ==
    /\ wpc = "setpaused" => ~listinprogress
    /\ wpc = "remove" /\ listinprogress => evt.id \in bluenorwegians
    /\ wpc = "notify" =>
         /\ pauses[evt.id] = "none"
         /\ evt.type \in PauseTypes => ~listinprogress
         /\ evt.type = Exited /\ listinprogress => evt.id \in bluenorwegians
         /\ ByID(pfs[writepf], evt.id) = IF evt.type = Exited THEN {} ELSE held
    /\ lpc[attempt] = "announce" =>
         \E e \in note[attempt] :
           /\ note[attempt] = {e} /\ e.type # Exited
           /\ ByID(pfs[writepf], e.cntr.id) = {e.cntr}
           /\ wpc \in {"remove", "notify"} => evt.id # e.cntr.id

\* Something about the ID is about to be announced.
Announcing(id) ==
    \/ wpc = "notify" /\ evt.id = id
    \/ lpc[attempt] = "announce" /\ \E e \in note[attempt] : e.cntr.id = id
\* What the receivers of Events were told of an ID is what is in the portfolio.
ViewOK ==
    \A id \in IDs :
      \/ Announcing(id)
      \/ /\ ByID(pfs[writepf], id) \subseteq view
         /\ attempt = 1 => ByID(view, id) \subseteq ByID(pfs[writepf], id)

\* The announcements are in step with the portfolio, unless an event handler straddles
\* the beginning of the listing.
ViewInv == Clean /\ "straddle" \notin gap => ApartOK /\ ViewOK

\* At any moment, not only when all is quiet: what is in the portfolio, found by the
\* listing or set aside for it is what the engine has, or an event or inspection that
\* corrects it is still to come; and the announcements are in step with it
\* (watcher.go:264-495).
SyncInv == ShapeInv /\ EventsInv /\ ContentInv /\ ViewInv
=============================================================================

------------------------------- MODULE Watcher -------------------------------
(***************************************************************************)
(* The watcher of watcher/watcher.go: a portfolio of the containers alive  *)
(* in an engine, kept in step with the engine by listing its containers    *)
(* and by consuming its stream of lifecycle events at the same time.       *)
(*                                                                         *)
(* Three kinds of actors take steps:                                       *)
(*   - the engine, whose containers start, die, pause and unpause, together*)
(*     with the engine client that subscribes to the stream of its events; *)
(*   - the goroutine in Watch, which starts an attempt (a subscription and *)
(*     a listing), consumes events, and retries when an attempt fails;     *)
(*   - the listing goroutines, one per attempt.  Nothing stops the one of  *)
(*     a failed attempt: it runs along with those of later attempts.       *)
(***************************************************************************)
EXTENDS Naturals, Sequences, FiniteSets, Containers

CONSTANTS IDs,                \* container IDs
          Projects,           \* composer project names
          ProjectUnknown,     \* what an event says that does not tell the project
          ProjectsOf,         \* the projects containers of an ID can belong to
          EventsNameProject,  \* do the engine's events tell the project?
          MaxOps,             \* bound: container state changes in a behavior
          MaxAttempts         \* bound: attempts (subscription and listing)

ASSUME ProjectsAssumption == ProjectsOf \in [IDs -> (SUBSET Projects) \ {{}}]
ASSUME UnknownAssumption == ProjectUnknown \notin Projects
ASSUME EventsAssumption == EventsNameProject \in BOOLEAN
ASSUME BoundsAssumption == MaxOps \in Nat /\ MaxAttempts \in Nat \ {0}

Lists == 1..MaxAttempts       \* the listing goroutine of each attempt
Portfolios == 0..MaxAttempts  \* 0 from New, n made by attempt n

VARIABLES
    \* The engine and the stream of its events.
    engine,          \* what runs under each ID
    ops,             \* container state changes so far
    sub,             \* "off", "pending", "live", or "broken"
    stream,          \* events sent and not yet received
    cancelled,       \* the context passed to Watch
    \* Watch.
    wpc,             \* where Watch is
    evt,             \* the event it handles
    held,            \* the container it is about to add or to announce
    attempt,         \* the number of attempts begun
    \* The fields of the watcher.
    pfs,             \* the portfolios ever made
    readpf, writepf, \* readportfolio and writeportfolio
    gate,            \* eventgate: the listing that holds it, or 0
    listinprogress,
    bluenorwegians,
    pauses,
    ready,
    \* The listing goroutines.
    lpc,             \* where each is
    todo,            \* IDs it still has to inspect, later those to replay
    found,           \* alive containers it has found and not yet merged
    lpf,             \* the portfolio it merges into
    note,            \* the container it is about to announce
    \* Outside the watcher.
    view,            \* what a receiver of Events has been told
    gap              \* why the watcher may have missed something (a ghost)

engineVars == <<engine, ops>>
streamVars == <<sub, stream>>
watchVars == <<wpc, evt, held>>
gateVars == <<gate, listinprogress, bluenorwegians, pauses>>
pfVars == <<pfs, readpf, writepf>>
listVars == <<lpc, todo, found, lpf, note>>
vars == <<engineVars, streamVars, cancelled, watchVars, attempt, pfVars,
          gateVars, ready, listVars, view, gap>>
-----------------------------------------------------------------------------
Containers == [id : IDs, inc : Nat, proj : Projects, paused : BOOLEAN]
Started == "started"
Exited == "exited"
Paused == "paused"
Unpaused == "unpaused"
EventTypes == {Started, Exited, Paused, Unpaused}
Events == [type : EventTypes, id : IDs, proj : Projects \union {ProjectUnknown}]
NoEvent == [type |-> "none"]
Reasons == {"overlap", "leftover", "straddle", "missed", "inspect"}
NoPauses == [id \in IDs |-> "none"]

ListPCs == {"none", "start", "query", "inspect", "merge", "announce",
            "publish", "done", "failed"}
WatchPCs == {"trial", "loop", "born", "add", "demise", "remove", "pausing",
             "setpaused", "notify", "backoff", "returned"}
Active(n) == lpc[n] \notin {"none", "done", "failed"}

\* What inspecting a container returns while it is alive.
Snapshot(id) == [id |-> id, inc |-> engine[id].inc, proj |-> engine[id].proj,
                 paused |-> engine[id].paused]
AliveIDs == {id \in IDs : engine[id].alive}

\* The receiver of Events keeps what it was last told about each ID.
Heard(v, type, c) == (v \ ByID(v, c.id)) \union (IF type = Exited THEN {} ELSE {c})

Init ==
    /\ engine \in [IDs -> [alive : BOOLEAN, inc : {0}, proj : Projects,
                           paused : BOOLEAN]]
    /\ \A id \in IDs : /\ engine[id].proj \in ProjectsOf[id]
                       /\ engine[id].paused => engine[id].alive
    /\ ops = 0
    /\ sub = "off" /\ stream = <<>> /\ cancelled = FALSE
    /\ wpc = "trial" /\ evt = NoEvent /\ held = {} /\ attempt = 0
    /\ pfs = [p \in Portfolios |-> {}] /\ readpf = 0 /\ writepf = 0
    /\ gate = 0 /\ listinprogress = FALSE /\ bluenorwegians = {}
    /\ pauses = NoPauses
    /\ ready = FALSE
    /\ lpc = [n \in Lists |-> "none"]
    /\ todo = [n \in Lists |-> {}] /\ found = [n \in Lists |-> {}]
    /\ lpf = [n \in Lists |-> 0] /\ note = [n \in Lists |-> {}]
    /\ view = {} /\ gap = {}
-----------------------------------------------------------------------------
(***************************************************************************)
(* The engine, and the engine client's subscription to its events.         *)
(***************************************************************************)

\* Has the listing of this attempt already decided what it knows of id?
Decided(id) == /\ attempt > 0
               /\ \/ lpc[attempt] = "inspect" /\ id \notin todo[attempt]
                  \/ lpc[attempt] \in {"merge", "announce", "publish", "done"}

\* Note why this attempt may have missed something; without its event stream it
\* is lost anyway.
Missing(reason) == gap \union (IF sub \in {"pending", "live"} THEN {reason} ELSE {})
AttemptLost == gap \intersect {"overlap"}

\* A change of a container, and the event the engine sends about it to those
\* that are subscribed right now.
Change(id, type, state) ==
    /\ ops < MaxOps
    /\ ops' = ops + 1
    /\ engine' = [engine EXCEPT ![id] = state]
    /\ stream' = IF sub = "live"
                 THEN Append(stream, [type |-> type, id |-> id,
                        proj |-> IF EventsNameProject THEN state.proj
                                                      ELSE ProjectUnknown])
                 ELSE stream
    /\ gap' = IF sub # "live" /\ Decided(id) THEN Missing("missed") ELSE gap
    /\ UNCHANGED <<sub, cancelled, watchVars, attempt, pfVars, gateVars, ready,
                   listVars, view>>

EngineStart(id) ==
    /\ ~engine[id].alive
    /\ \E proj \in ProjectsOf[id] :
         Change(id, Started, [alive |-> TRUE, inc |-> engine[id].inc + 1,
                              proj |-> proj, paused |-> FALSE])

EngineDie(id) ==
    /\ engine[id].alive
    /\ Change(id, Exited, [engine[id] EXCEPT !.alive = FALSE, !.paused = FALSE])

EnginePause(id) ==
    /\ engine[id].alive /\ ~engine[id].paused
    /\ Change(id, Paused, [engine[id] EXCEPT !.paused = TRUE])

EngineUnpause(id) ==
    /\ engine[id].alive /\ engine[id].paused
    /\ Change(id, Unpaused, [engine[id] EXCEPT !.paused = FALSE])

\* LifecycleEvents returns at once; its goroutine subscribes some time later.
Subscribe ==
    /\ sub = "pending"
    /\ sub' = "live"
    /\ UNCHANGED <<engineVars, stream, cancelled, watchVars, attempt, pfVars,
                   gateVars, ready, listVars, view, gap>>

\* The connection is lost, or the engine client has seen the cancelled context.
StreamBreak ==
    /\ sub \in {"pending", "live"}
    /\ sub' = "broken"
    /\ gap' = AttemptLost
    /\ UNCHANGED <<engineVars, stream, cancelled, watchVars, attempt, pfVars,
                   gateVars, ready, listVars, view>>

Cancel ==
    /\ ~cancelled
    /\ cancelled' = TRUE
    /\ UNCHANGED <<engineVars, streamVars, watchVars, attempt, pfVars, gateVars,
                   ready, listVars, view, gap>>

EngineStep == \E id \in IDs : \/ EngineStart(id) \/ EngineDie(id)
                              \/ EnginePause(id) \/ EngineUnpause(id)
-----------------------------------------------------------------------------
(***************************************************************************)
(* Watch: attempts and retries.                                            *)
(***************************************************************************)

\* Try, where an engine client has one, refuses the attempt.
TryFail ==
    /\ wpc = "trial"
    /\ wpc' = "backoff"
    /\ UNCHANGED <<engineVars, streamVars, cancelled, evt, held, attempt, pfVars,
                   gateVars, ready, listVars, view, gap>>

\* The swap at the start of attempt n: a portfolio with containers in it is not
\* written to again, and users keep the one they have unless it is empty.
WrittenFrom_KeepsOld(n) == writepf
WrittenFrom(n) == IF pfs[writepf] # {} THEN n ELSE writepf
ReadFrom_Newest(n) == WrittenFrom(n)
ReadFrom(n) == IF pfs[readpf] = {} THEN WrittenFrom(n) ELSE readpf

\* A new attempt: swap the portfolios, subscribe, and fire off a listing.
BeginAttempt ==
    LET n == attempt + 1
    IN  /\ wpc = "trial"
        /\ attempt < MaxAttempts
        /\ attempt' = n
        /\ writepf' = WrittenFrom(n)
        /\ readpf' = ReadFrom(n)
        /\ sub' = "pending" /\ stream' = <<>>
        /\ lpc' = [lpc EXCEPT ![n] = "start"]
        /\ wpc' = "loop"
        /\ gap' = (IF \E m \in Lists : Active(m) THEN {"overlap"} ELSE {})
                    \union (IF listinprogress THEN {"leftover"} ELSE {})
        /\ UNCHANGED <<engineVars, cancelled, evt, held, pfs, gateVars, ready,
                       todo, found, lpf, note, view>>

\* The event stream failed: for good when the context was cancelled.
RecvErr ==
    /\ wpc = "loop" /\ sub = "broken"
    /\ wpc' = IF cancelled THEN "returned" ELSE "backoff"
    /\ sub' = "off" /\ stream' = <<>>
    /\ UNCHANGED <<engineVars, cancelled, evt, held, attempt, pfVars, gateVars,
                   ready, listVars, view, gap>>

\* The listing failed: Watch drops the event stream, too.
RecvListErr ==
    /\ wpc = "loop" /\ lpc[attempt] = "failed"
    /\ wpc' = "backoff"
    /\ sub' = "off" /\ stream' = <<>>
    /\ gap' = AttemptLost
    /\ UNCHANGED <<engineVars, cancelled, evt, held, attempt, pfVars, gateVars,
                   ready, listVars, view>>

Retry ==
    /\ wpc = "backoff" /\ attempt < MaxAttempts
    /\ wpc' = "trial"
    /\ UNCHANGED <<engineVars, streamVars, cancelled, evt, held, attempt, pfVars,
                   gateVars, ready, listVars, view, gap>>

GiveUp ==
    /\ wpc = "backoff"
    /\ wpc' = "returned"
    /\ UNCHANGED <<engineVars, streamVars, cancelled, evt, held, attempt, pfVars,
                   gateVars, ready, listVars, view, gap>>
-----------------------------------------------------------------------------
(***************************************************************************)
(* Watch: lifecycle events.  Events left over in a broken stream may still *)
(* be received before its error is.                                        *)
(***************************************************************************)
RecvEvent ==
    /\ wpc = "loop" /\ stream # <<>>
    /\ evt' = Head(stream)
    /\ stream' = Tail(stream)
    /\ wpc' = CASE evt'.type = Started -> "born"
                [] evt'.type = Exited -> "demise"
                [] OTHER -> "pausing"
    /\ UNCHANGED <<engineVars, sub, cancelled, held, attempt, pfVars, gateVars,
                   ready, listVars, view, gap>>

\* Back to the select, with nothing in hand.
ToLoop == wpc' = "loop" /\ evt' = NoEvent /\ held' = {}

\* Announce the container in c, unless there is none.
ToNotify_Forgets(c) == ToLoop
ToNotify(c) ==
    IF c = {} THEN ToLoop ELSE wpc' = "notify" /\ held' = c /\ evt' = evt

\* born: the container may be gone by now, and the inspection may fail.
BornInspect ==
    /\ wpc = "born"
    /\ \/ /\ engine[evt.id].alive
          /\ wpc' = "add" /\ held' = {Snapshot(evt.id)}
          /\ UNCHANGED <<evt, gap>>
       \/ /\ ~engine[evt.id].alive
          /\ ToLoop
          /\ UNCHANGED gap
       \/ /\ engine[evt.id].alive
          /\ ToLoop
          /\ gap' = Missing("inspect")
    /\ UNCHANGED <<engineVars, streamVars, cancelled, attempt, pfVars, gateVars,
                   ready, listVars, view>>

BornAdd ==
    /\ wpc = "add"
    /\ \E c \in held :
         /\ pfs' = [pfs EXCEPT ![writepf] = PfAdd(@, c)]
         /\ ToNotify(IF PfAdds(pfs[writepf], c) THEN held ELSE {})
    /\ UNCHANGED <<engineVars, streamVars, cancelled, attempt, readpf, writepf,
                   gateVars, ready, listVars, view, gap>>

\* demised, first half: under the event gate.
DemiseGate ==
    /\ wpc = "demise" /\ gate = 0
    /\ bluenorwegians' = IF listinprogress
                         THEN bluenorwegians \union {evt.id} ELSE bluenorwegians
    /\ pauses' = [pauses EXCEPT ![evt.id] = "none"]
    /\ wpc' = "remove"
    /\ UNCHANGED <<engineVars, streamVars, cancelled, evt, held, attempt, pfVars,
                   gate, listinprogress, ready, listVars, view, gap>>

\* The project of the container an event is about; when the event does not
\* tell, that of some container with its ID.
EventProjects ==
    IF evt.proj # ProjectUnknown THEN {evt.proj}
    ELSE {c.proj : c \in ByID(pfs[writepf], evt.id)}

\* demised, second half: not gated any longer.
DemiseRemove ==
    /\ wpc = "remove"
    /\ \/ /\ EventProjects = {}
          /\ ToLoop
          /\ UNCHANGED pfs
       \/ \E proj \in EventProjects :
            /\ pfs' = [pfs EXCEPT ![writepf] = PfRemove(@, evt.id, proj)]
            /\ ToNotify(InProject(pfs[writepf], evt.id, proj))
    /\ UNCHANGED <<engineVars, streamVars, cancelled, attempt, readpf, writepf,
                   gateVars, ready, listVars, view, gap>>

\* paused, first half: while a listing is in progress the state is put aside.
PauseGate ==
    /\ wpc = "pausing" /\ gate = 0
    /\ \/ /\ listinprogress
          /\ pauses' = [pauses EXCEPT ![evt.id] = evt.type]
          /\ ToLoop
       \/ /\ ~listinprogress
          /\ wpc' = "setpaused"
          /\ UNCHANGED <<pauses, evt, held>>
    /\ UNCHANGED <<engineVars, streamVars, cancelled, attempt, pfVars, gate,
                   listinprogress, bluenorwegians, ready, listVars, view, gap>>

PauseApply ==
    /\ wpc = "setpaused"
    /\ \/ /\ EventProjects = {}
          /\ ToLoop
          /\ UNCHANGED pfs
       \/ \E proj \in EventProjects :
            /\ pfs' = [pfs EXCEPT ![writepf] =
                         PfSetPaused(@, evt.id, proj, evt.type = Paused)]
            /\ ToNotify(InProject(pfs'[writepf], evt.id, proj))
    /\ UNCHANGED <<engineVars, streamVars, cancelled, attempt, readpf, writepf,
                   gateVars, ready, listVars, view, gap>>

Notify ==
    /\ wpc = "notify"
    /\ \E c \in held : view' = Heard(view, evt.type, c)
    /\ ToLoop
    /\ UNCHANGED <<engineVars, streamVars, cancelled, attempt, pfVars, gateVars,
                   ready, listVars, gap>>

HandleEvent == \/ RecvEvent \/ BornInspect \/ BornAdd \/ DemiseGate
               \/ DemiseRemove \/ PauseGate \/ PauseApply \/ Notify
WatchStep == \/ TryFail \/ BeginAttempt \/ RecvErr \/ RecvListErr
             \/ Retry \/ GiveUp \/ HandleEvent
-----------------------------------------------------------------------------
(***************************************************************************)
(* list, and the publication of its result: the goroutine of attempt n.    *)
(***************************************************************************)

\* The listing begins.  From now on the deaths and pauses that Watch learns of
\* are put aside for it; the handler of an event that is past the event gate
\* already straddles the beginning.
ListBegin(n) ==
    /\ lpc[n] = "start" /\ gate = 0
    /\ listinprogress' = TRUE
    /\ lpc' = [lpc EXCEPT ![n] = "query"]
    /\ gap' = IF wpc \in {"remove", "setpaused", "notify"}
              THEN Missing("straddle") ELSE gap
    /\ UNCHANGED <<engineVars, streamVars, cancelled, watchVars, attempt, pfVars,
                   gate, bluenorwegians, pauses, ready, todo, found, lpf, note, view>>

\* engine.List: first what there is, then an inspection of each.
ListQuery(n) ==
    /\ lpc[n] = "query"
    /\ todo' = [todo EXCEPT ![n] = AliveIDs]
    /\ lpc' = [lpc EXCEPT ![n] = "inspect"]
    /\ UNCHANGED <<engineVars, streamVars, cancelled, watchVars, attempt, pfVars,
                   gateVars, ready, found, lpf, note, view, gap>>

\* One inspection.  A container gone since is left out; so is, by containerd's
\* and CRI's clients, one whose details could not be fetched.
ListInspect(n) ==
    /\ lpc[n] = "inspect"
    /\ \E id \in todo[n] :
         /\ todo' = [todo EXCEPT ![n] = @ \ {id}]
         /\ \/ /\ engine[id].alive
               /\ found' = [found EXCEPT ![n] = @ \union {Snapshot(id)}]
               /\ UNCHANGED gap
            \/ /\ ~engine[id].alive
               /\ UNCHANGED <<found, gap>>
            \/ /\ engine[id].alive
               /\ gap' = Missing("inspect")
               /\ UNCHANGED found
    /\ UNCHANGED <<engineVars, streamVars, cancelled, watchVars, attempt, pfVars,
                   gateVars, ready, lpc, lpf, note, view>>

\* Closing the ready channel, for the first or a further time.
CloseReady_Forgets == ready' = ready
CloseReady == ready' = TRUE

\* engine.List fails: nothing of what the listing has set up is taken back.
ListFail(n) ==
    /\ lpc[n] \in {"query", "inspect"}
    /\ CloseReady
    /\ lpc' = [lpc EXCEPT ![n] = "failed"]
    /\ todo' = [todo EXCEPT ![n] = {}]
    /\ found' = [found EXCEPT ![n] = {}]
    /\ UNCHANGED <<engineVars, streamVars, cancelled, watchVars, attempt, pfVars,
                   gateVars, lpf, note, view, gap>>

\* The containers with a pause state set aside.
PausesPending_All == IDs
PausesPending == {id \in IDs : pauses[id] # "none"}

\* The listing shuts the event gate, to merge what it has found.
ListLock(n) ==
    /\ lpc[n] = "inspect" /\ todo[n] = {} /\ gate = 0
    /\ gate' = n
    /\ lpf' = [lpf EXCEPT ![n] = writepf]
    /\ lpc' = [lpc EXCEPT ![n] = "merge"]
    /\ todo' = [todo EXCEPT ![n] = PausesPending]
    /\ UNCHANGED <<engineVars, streamVars, cancelled, watchVars, attempt, pfVars,
                   listinprogress, bluenorwegians, pauses, ready, found, note,
                   view, gap>>

\* A container that is not known to have died meanwhile, and that is news.
Merges_Dead(n, c) == PfAdds(pfs[lpf[n]], c)
Merges(n, c) == c.id \notin bluenorwegians /\ PfAdds(pfs[lpf[n]], c)

ListMerge(n) ==
    /\ lpc[n] = "merge"
    /\ \E c \in found[n] :
         /\ found' = [found EXCEPT ![n] = @ \ {c}]
         /\ IF Merges(n, c)
            THEN /\ pfs' = [pfs EXCEPT ![lpf[n]] = PfAdd(@, c)]
                 /\ note' = [note EXCEPT ![n] = {[type |-> Started, cntr |-> c]}]
                 /\ lpc' = [lpc EXCEPT ![n] = "announce"]
            ELSE UNCHANGED <<pfs, note, lpc>>
    /\ UNCHANGED <<engineVars, streamVars, cancelled, watchVars, attempt, readpf,
                   writepf, gateVars, ready, todo, lpf, view, gap>>

\* After all containers are merged: replay the pauses that were put aside.
ListReplay(n) ==
    /\ lpc[n] = "merge" /\ found[n] = {}
    /\ \E id \in todo[n] :
         /\ todo' = [todo EXCEPT ![n] = @ \ {id}]
         /\ \/ /\ ByID(pfs[lpf[n]], id) = {}
               /\ UNCHANGED <<pfs, note, lpc>>
            \/ \E proj \in {c.proj : c \in ByID(pfs[lpf[n]], id)} :
                 /\ pfs' = [pfs EXCEPT ![lpf[n]] =
                              PfSetPaused(@, id, proj, pauses[id] = Paused)]
                 /\ note' = [note EXCEPT ![n] =
                               {[type |-> pauses[id], cntr |-> c]
                                  : c \in InProject(pfs'[lpf[n]], id, proj)}]
                 /\ lpc' = [lpc EXCEPT ![n] = "announce"]
    /\ UNCHANGED <<engineVars, streamVars, cancelled, watchVars, attempt, readpf,
                   writepf, gateVars, ready, found, lpf, view, gap>>

ListAnnounce(n) ==
    /\ lpc[n] = "announce"
    /\ \E e \in note[n] : view' = Heard(view, e.type, e.cntr)
    /\ note' = [note EXCEPT ![n] = {}]
    /\ lpc' = [lpc EXCEPT ![n] = "merge"]
    /\ UNCHANGED <<engineVars, streamVars, cancelled, watchVars, attempt, pfVars,
                   gateVars, ready, todo, found, lpf, gap>>

\* The deferred function of list, and its return.
ClearAside_KeepsPauses ==
    bluenorwegians' = {} /\ listinprogress' = FALSE /\ UNCHANGED pauses
ClearAside ==
    bluenorwegians' = {} /\ listinprogress' = FALSE /\ pauses' = NoPauses
OpenGate_Forgets == gate' = gate
OpenGate == gate' = 0

ListUnlock(n) ==
    /\ lpc[n] = "merge" /\ found[n] = {} /\ todo[n] = {}
    /\ ClearAside
    /\ OpenGate
    /\ CloseReady
    /\ lpc' = [lpc EXCEPT ![n] = "publish"]
    /\ UNCHANGED <<engineVars, streamVars, cancelled, watchVars, attempt, pfVars,
                   todo, found, lpf, note, view, gap>>

\* The goroutine that called list brings the synchronized portfolio online.
Publish(n) ==
    /\ lpc[n] = "publish"
    /\ readpf' = writepf
    /\ lpc' = [lpc EXCEPT ![n] = "done"]
    /\ UNCHANGED <<engineVars, streamVars, cancelled, watchVars, attempt, pfs,
                   writepf, gateVars, ready, todo, found, lpf, note, view, gap>>

ListStep(n) == \/ ListBegin(n) \/ ListQuery(n) \/ ListInspect(n) \/ ListFail(n)
               \/ ListLock(n) \/ ListMerge(n) \/ ListReplay(n) \/ ListAnnounce(n)
               \/ ListUnlock(n) \/ Publish(n)
-----------------------------------------------------------------------------
\* Watch has returned and every listing goroutine has ended.
Terminated ==
    /\ wpc = "returned"
    /\ \A n \in Lists : ~Active(n)
    /\ UNCHANGED vars

Next == \/ EngineStep \/ Subscribe \/ StreamBreak \/ Cancel
        \/ WatchStep
        \/ \E n \in Lists : ListStep(n)
        \/ Terminated

Spec == Init /\ [][Next]_vars

\* Goroutines that can run do run, and the engine answers.  The engine's
\* containers, the connection and the caller's context owe nothing; but an engine
\* client notices that its context was cancelled.
Fairness == /\ WF_vars(Subscribe)
            /\ WF_vars(cancelled /\ StreamBreak)
            /\ WF_vars(WatchStep)
            /\ \A n \in Lists : WF_vars(ListStep(n))
FairSpec == Spec /\ Fairness
-----------------------------------------------------------------------------
(***************************************************************************)
(* Properties.                                                             *)
(***************************************************************************)

EngineOK ==
    /\ engine \in [IDs -> [alive : BOOLEAN, inc : Nat, proj : Projects,
                           paused : BOOLEAN]]
    /\ ops \in 0..MaxOps
    /\ sub \in {"off", "pending", "live", "broken"}
    /\ stream \in Seq(Events)
    /\ cancelled \in BOOLEAN

WatchOK ==
    /\ wpc \in WatchPCs
    /\ evt \in Events \union {NoEvent}
    /\ held \in SUBSET Containers
    /\ attempt \in 0..MaxAttempts

FieldsOK ==
    /\ pfs \in [Portfolios -> SUBSET Containers]
    /\ readpf \in Portfolios /\ writepf \in Portfolios
    /\ gate \in 0..MaxAttempts
    /\ listinprogress \in BOOLEAN
    /\ bluenorwegians \in SUBSET IDs
    /\ pauses \in [IDs -> {"none", Paused, Unpaused}]
    /\ ready \in BOOLEAN

ListsOK ==
    /\ lpc \in [Lists -> ListPCs]
    /\ todo \in [Lists -> SUBSET IDs]
    /\ found \in [Lists -> SUBSET Containers]
    /\ lpf \in [Lists -> Portfolios]
    /\ note \in [Lists -> SUBSET [type : EventTypes, cntr : Containers]]

GhostsOK == view \in SUBSET Containers /\ gap \in SUBSET Reasons

\* Every variable keeps to its type: a listing announces only containers, and
\* replays only pauses that are still there when it gets to them.
TypeOK == EngineOK /\ WatchOK /\ FieldsOK /\ ListsOK /\ GhostsOK

\* What is set aside for a listing (the deaths in bluenorwegians and the pending
\* pauses) exists only while a listing is flagged: however the listings of several
\* attempts overlap, once one of them has completed nothing stale waits for the
\* next (watcher.go, the fields at 95-97, used at 361-364, 385-397, 449-454).
AsideOnlyWhileListing ==
    ~listinprogress => bluenorwegians = {} /\ pauses = NoPauses

\* The subscription and the listing of the attempt are through, and every event
\* sent has been handled.
Quiescent ==
    /\ attempt > 0 /\ lpc[attempt] = "done"
    /\ wpc = "loop" /\ sub = "live" /\ stream = <<>>

EngineContainers == {Snapshot(id) : id \in AliveIDs}

\* What users read is what the engine runs: containers, processes, pauses.
Exact == readpf = writepf /\ pfs[readpf] = EngineContainers

\* Whatever the reasons for missing something, unless it is one of these.
ExactUnless(reasons) == Quiescent /\ gap \intersect reasons = {} => Exact

\* The listing and the events, however they interleave, add up to the truth:
\* no container that died is added back by the listing, none is lost, and no
\* pause state is stale, except for the reasons in gap (watcher.go:319-495).
SyncedExact == ExactUnless(Reasons \ {"straddle"})

\* An inspection that fails is taken for a container that is gone (watcher.go:321,
\* and the clients' List): nothing looks again.  That the container is missing then
\* is all: what comes of its later events, with nothing to apply them to, is no
\* container that is dead and no state that is stale.
OnlyMissing ==
    Quiescent /\ gap \subseteq {"straddle", "inspect"} =>
      readpf = writepf /\ pfs[readpf] \subseteq EngineContainers

\* A portfolio into which a completed listing was merged.
Synced(p) == \E n \in Lists : lpc[n] \in {"publish", "done"} /\ lpf[n] = p
BreaksOnlyWhenMade ==
    readpf' # readpf => pfs[readpf] = {} \/ Synced(readpf')

\* Make before break: once users have a portfolio with containers, they are not
\* given another one before it has been synchronized (watcher.go:213-223,
\* 253-257); a listing left over from an earlier attempt breaks the promise.
MakeBeforeBreak == [][BreaksOnlyWhenMade \/ "overlap" \in gap]_vars

\* In the first attempt, a receiver of Events has been told of exactly what is in
\* the portfolio (README.md:30-34): the announcements of the listing and of the
\* event handlers do not get out of order, unless a handler that is already past
\* the event gate straddles the beginning of the listing (watcher.go:366-376).
AnnouncedExact ==
    Quiescent /\ attempt = 1 /\ "straddle" \notin gap => view = pfs[writepf]

\* After a reconnect, receivers of Events are told of all containers again: who
\* missed nothing since the subscription knows of all that are in the portfolio, in
\* their latest state.  What died while the watcher was not connected, though, they
\* are never told of: the old portfolio is just left behind (watcher.go:213-222).
AnnouncedAgain ==
    Quiescent /\ gap \intersect {"overlap", "leftover", "straddle"} = {} =>
      pfs[writepf] \subseteq view

\* While an attempt stays connected, the watcher catches up with the engine: no
\* gate and no queue keeps it from having handled everything, and then it is exact
\* unless it has missed something (doc.go:15-18).
CatchesUp ==
    wpc = "loop" /\ sub = "live"
      ~> (Quiescent /\ (gap \subseteq {"straddle"} => Exact)) \/ sub # "live"

\* Whoever waits for Ready gets to go on once a listing has begun: no listing is
\* stuck at the event gate, whatever happens to its attempt (watcher.go:149-156).
EventuallyReady == (\E n \in Lists : lpc[n] = "start") ~> ready
-----------------------------------------------------------------------------
(***************************************************************************)
(* What the documentation says and the code does not keep up.              *)
(***************************************************************************)

\* bluenorwegians and pauses hold what happens "while list in progress"
\* (watcher.go:96-97).  After a failed listing they also hold what happened before
\* the next one, which then believes it.
AsideIsOfThisListing == ExactUnless(Reasons \ {"straddle", "leftover"})
=============================================================================

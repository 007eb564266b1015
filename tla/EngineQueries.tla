---------------------------- MODULE EngineQueries ----------------------------
(***************************************************************************)
(* List and Inspect of the engine clients (engineclient/moby, containerd,  *)
(* cri): what they answer is put together from several calls of the        *)
(* engine's API, between which the engine's containers go on changing.     *)
(* The client and the query are chosen in the beginning, as queries share  *)
(* nothing but the engine.                                                 *)
(***************************************************************************)
EXTENDS Naturals, Sequences, FiniteSets

CONSTANTS Clients,    \* those to look at, of "moby", "containerd", "cri"
          IDs,        \* container IDs
          Sandboxes,  \* for CRI: the IDs that are pod sandboxes
          PodOf,      \* for CRI: the pod sandbox of each other container
          Spaces,     \* containerd's namespaces, without the ignored ones
          Default,    \* the one that displayed IDs leave out
          SpaceOf,    \* for containerd: the namespace of each container
          RawOf,      \* for containerd: its ID, unique in its namespace only
          Projects,   \* composer project names
          NoProject,  \* the zero project name
          MaxOps      \* bound: changes of containers in a behavior

ASSUME ClientsAssumption == Clients \subseteq {"moby", "containerd", "cri"}
ASSUME SandboxesAssumption == /\ Sandboxes \subseteq IDs
                              /\ PodOf \in [IDs \ Sandboxes -> Sandboxes]
ASSUME SpacesAssumption ==
    /\ Default \in Spaces
    /\ SpaceOf \in [IDs -> Spaces]
    /\ \A i, j \in IDs : SpaceOf[i] = SpaceOf[j] /\ RawOf[i] = RawOf[j] => i = j
ASSUME ProjectsAssumption == NoProject \notin Projects /\ MaxOps \in Nat

VARIABLES
    client,     \* whose List or Inspect this is
    engine,     \* what the engine has under each ID
    ops,        \* changes so far
    query,      \* "list" or "inspect"
    asked,      \* the IDs it is about: all of them, or one
    pc,         \* the engine call to be made next
    todo,       \* what is still to be looked at: IDs, or containerd's namespaces
    hand,       \* the container being looked at by several calls, in a set
    labels,     \* for containerd: the projects by ID, as far as they are known
    answer,     \* the containers found so far
    seen,       \* a ghost: what containers there were since the query began
    throughout, \* a ghost: the IDs alive since then without a break
    recreated,  \* a ghost: the IDs created or deleted since then
    excused     \* a ghost: the IDs about which a call of the engine failed

engineVars == <<client, engine, ops, query, asked, seen, throughout, recreated>>
vars == <<engineVars, pc, todo, hand, labels, answer, excused>>
-----------------------------------------------------------------------------
(***************************************************************************)
(* containerd's IDs, as they are shown and asked for: the parts between    *)
(* the delimiters, which are not allowed in a namespace or an ID.          *)
(***************************************************************************)
displayID_Plain(ns, raw) == <<raw>>
displayID(ns, raw) == IF ns = Default THEN <<raw>> ELSE <<ns, raw>>
decodeDisplayID(shown) ==
    IF Len(shown) < 2 THEN [ns |-> Default, id |-> shown[1]]
                      ELSE [ns |-> shown[1], id |-> shown[2]]

Shown(id) == IF client = "containerd" THEN displayID(SpaceOf[id], RawOf[id]) ELSE <<id>>

\* The container that goes by an ID in a namespace.
Named(ns, raw) == {id \in IDs : SpaceOf[id] = ns /\ RawOf[id] = raw}
-----------------------------------------------------------------------------
NoPID == 0
AliveIDs == {id \in IDs : engine[id].alive}

\* What the engine says about a container: with no process it has no PID.
Described(e, id, proj) ==
    [id |-> Shown(id), pid |-> IF e[id].alive THEN e[id].pid ELSE NoPID,
     proj |-> proj, paused |-> e[id].paused]
Snapshots(e) == {Described(e, id, e[id].proj) : id \in {i \in IDs : e[i].alive}}
Found(id, proj) == {Described(engine, id, proj)}

\* There are neither composer projects nor pauses in CRI.
ProjectsNow == IF client = "cri" THEN {NoProject} ELSE Projects \union {NoProject}

\* A container that is alive has been created, and one in a pod has its sandbox.
Sound(e) ==
    \A id \in IDs :
      /\ e[id].alive => e[id].exists
      /\ e[id].paused => e[id].alive /\ client # "cri"
      /\ client = "cri" /\ id \notin Sandboxes /\ e[id].exists => e[PodOf[id]].exists

Init ==
    /\ client \in Clients
    /\ engine \in [IDs -> [exists : BOOLEAN, alive : BOOLEAN, paused : BOOLEAN,
                           pid : {1}, proj : ProjectsNow]]
    /\ Sound(engine)
    /\ ops = 0
    /\ \/ query = "list" /\ asked = IDs
       \/ query = "inspect" /\ \E id \in IDs : asked = {id}
    /\ pc = query
    /\ todo = {} /\ hand = {} /\ labels = <<>> /\ answer = {}
    /\ seen = Snapshots(engine) /\ throughout = AliveIDs
    /\ recreated = {} /\ excused = {}
-----------------------------------------------------------------------------
(***************************************************************************)
(* The engine.                                                             *)
(***************************************************************************)
Change(id, state) ==
    /\ ops < MaxOps /\ pc \notin {"done", "failed"}
    /\ ops' = ops + 1
    /\ engine' = [engine EXCEPT ![id] = state]
    /\ Sound(engine')
    /\ seen' = seen \union Snapshots(engine')
    /\ throughout' = throughout \intersect {i \in IDs : engine'[i].alive}
    /\ recreated' = IF state.exists # engine[id].exists
                    THEN recreated \union {id} ELSE recreated
    /\ UNCHANGED <<client, query, asked, pc, todo, hand, labels, answer,
                   excused>>

EngineCreate(id) ==
    /\ ~engine[id].exists
    /\ \E proj \in ProjectsNow :
         Change(id, [engine[id] EXCEPT !.exists = TRUE, !.proj = proj])
EngineDelete(id) ==
    /\ engine[id].exists /\ ~engine[id].alive
    /\ Change(id, [engine[id] EXCEPT !.exists = FALSE])
EngineStart(id) ==
    /\ engine[id].exists /\ ~engine[id].alive
    /\ Change(id, [engine[id] EXCEPT !.alive = TRUE, !.pid = @ + 1])
EngineDie(id) ==
    /\ engine[id].alive
    /\ Change(id, [engine[id] EXCEPT !.alive = FALSE, !.paused = FALSE])
EnginePause(id) ==
    /\ engine[id].alive
    /\ Change(id, [engine[id] EXCEPT !.paused = ~@])

EngineStep == \E id \in IDs : \/ EngineCreate(id) \/ EngineDelete(id)
                              \/ EngineStart(id) \/ EngineDie(id) \/ EnginePause(id)
-----------------------------------------------------------------------------
(***************************************************************************)
(* How calls end and queries go on.  A query that passes an error on has   *)
(* failed; one that does not leaves out what the call was about.           *)
(***************************************************************************)
Continue == UNCHANGED engineVars
Fail == pc' = "failed" /\ UNCHANGED <<todo, hand, labels, answer, excused>>
Answer(cs) == /\ pc' = "done" /\ answer' = cs
              /\ UNCHANGED <<todo, hand, labels, excused>>

\* Leave out a container that is gone, and go on with the next one.
Skip_Breaks(id) == todo' = {} /\ UNCHANGED answer
Skip(id) == todo' = todo \ {id} /\ UNCHANGED answer
Keep(id, c) == todo' = todo \ {id} /\ answer' = answer \union c

AllDone(next) == /\ todo = {} /\ pc' = next
                 /\ UNCHANGED <<todo, hand, labels, answer, excused>>
-----------------------------------------------------------------------------
(***************************************************************************)
(* Docker: one call for the list, and one for each container.              *)
(***************************************************************************)
MobyList ==
    /\ pc = "list"
    /\ \/ /\ todo' = AliveIDs /\ pc' = "each"
          /\ UNCHANGED <<hand, labels, answer, excused>>
       \/ Fail

MobyEach ==
    /\ pc = "each"
    /\ \/ \E id \in todo :
            /\ IF engine[id].alive THEN Keep(id, Found(id, engine[id].proj))
                                   ELSE Skip(id)
            /\ UNCHANGED <<pc, hand, labels, excused>>
       \/ todo # {} /\ Fail
       \/ AllDone("done")

MobyInspect ==
    /\ pc = "inspect"
    /\ \/ \E id \in asked : engine[id].alive /\ Answer(Found(id, engine[id].proj))
       \/ Fail

Moby == client = "moby" /\ (MobyList \/ MobyEach \/ MobyInspect) /\ Continue
-----------------------------------------------------------------------------
(***************************************************************************)
(* containerd: in each namespace, the containers with their labels, then   *)
(* the tasks, which tell those that are alive.                             *)
(***************************************************************************)
InSpace(ns) == {id \in IDs : SpaceOf[id] = ns}

SpacesList ==
    /\ pc = "list"
    /\ \/ /\ todo' = Spaces /\ pc' = "labels"
          /\ UNCHANGED <<hand, labels, answer, excused>>
       \/ Fail

\* The labels of the containers in a namespace.
Labels(ns) == [raw \in {RawOf[i] : i \in {i \in InSpace(ns) : engine[i].exists}} |->
                 engine[CHOOSE i \in Named(ns, raw) : TRUE].proj]

\* A namespace whose containers or tasks cannot be listed is left out.
SkipSpace_GoesOn(ns) == /\ pc' = "tasks" /\ labels' = <<>>
                        /\ UNCHANGED <<todo, excused>>
SkipSpace_KeepsLabels(ns) == /\ pc' = "labels" /\ UNCHANGED labels
                             /\ todo' = todo \ {ns}
                             /\ excused' = excused \union InSpace(ns)
SkipSpace(ns) == /\ pc' = "labels" /\ labels' = <<>> /\ todo' = todo \ {ns}
                 /\ excused' = excused \union InSpace(ns)

LabelsList ==
    /\ pc = "labels"
    /\ \/ \E ns \in todo :
            /\ hand' = {ns}
            /\ \/ pc' = "tasks" /\ labels' = Labels(ns) /\ UNCHANGED <<todo, excused>>
               \/ SkipSpace(ns)
            /\ UNCHANGED answer
       \/ AllDone("done")

TasksList ==
    /\ pc = "tasks"
    /\ \E ns \in hand :
         \/ /\ answer' = answer \union UNION
                 {Found(id, IF RawOf[id] \in DOMAIN labels THEN labels[RawOf[id]]
                                                            ELSE NoProject)
                    : id \in InSpace(ns) \intersect AliveIDs}
            /\ todo' = todo \ {ns} /\ pc' = "labels" /\ labels' = <<>>
            /\ UNCHANGED excused
         \/ SkipSpace(ns) /\ UNCHANGED answer
    /\ UNCHANGED hand

\* Inspect: the container with its labels, then its task.
ContainerGet ==
    /\ pc = "inspect"
    /\ \/ \E parts \in {decodeDisplayID(Shown(i)) : i \in asked} :
            \E id \in Named(parts.ns, parts.id) :
              /\ engine[id].exists
              /\ hand' = {id} /\ labels' = Labels(parts.ns) /\ pc' = "task"
              /\ UNCHANGED <<todo, answer, excused>>
       \/ Fail

TaskGet ==
    /\ pc = "task"
    /\ \/ \E id \in hand : engine[id].alive /\ Answer(Found(id, labels[RawOf[id]]))
       \/ Fail

Containerd ==
    /\ client = "containerd"
    /\ SpacesList \/ LabelsList \/ TasksList \/ ContainerGet \/ TaskGet
    /\ Continue
-----------------------------------------------------------------------------
(***************************************************************************)
(* CRI: first the containers, for each its pod and its status; then the    *)
(* pod sandboxes, which are containers, too, for each its status.          *)
(***************************************************************************)
ContainersList ==
    /\ pc = "list"
    /\ \/ /\ todo' = AliveIDs \ Sandboxes /\ pc' = "container"
          /\ UNCHANGED <<hand, labels, answer, excused>>
       \/ Fail

\* newContainer, as seen by List and by Inspect: its pod, ...
ContainerPod ==
    /\ pc = "container"
    /\ \E id \in todo :
         \/ /\ engine[PodOf[id]].exists
            /\ hand' = {id} /\ pc' = "status" /\ UNCHANGED <<todo, answer, excused>>
         \/ Skip(id) /\ excused' = excused \union {id} /\ UNCHANGED <<hand, pc>>
    /\ UNCHANGED labels

\* ... and its status, with the PID that it has by now.
ContainerStatus ==
    /\ pc = "status"
    /\ \E id \in hand :
         \/ engine[id].exists /\ Keep(id, Found(id, NoProject)) /\ UNCHANGED excused
         \/ Skip(id) /\ excused' = excused \union {id}
    /\ pc' = "container" /\ hand' = {} /\ UNCHANGED labels

\* No more containers.  Inspect turns "no container" into an error.
ContainersEnd_Unchecked == IF query = "list" THEN "sandboxes" ELSE "done"
ContainersEnd == IF query = "list" THEN "sandboxes"
                 ELSE IF answer = {} THEN "failed" ELSE "done"
ContainersDone == pc = "container" /\ AllDone(ContainersEnd)

SandboxesList ==
    /\ pc = "sandboxes"
    /\ \/ /\ todo' = AliveIDs \intersect Sandboxes /\ pc' = "sandbox"
          /\ UNCHANGED <<hand, labels, answer, excused>>
       \/ Fail

\* newSandboxContainer, as seen by List and by Inspect: both go on without one.
SandboxStatus ==
    /\ pc = "sandbox"
    /\ \/ \E id \in todo :
            /\ \/ /\ engine[id].exists
                  /\ Keep(id, Found(id, NoProject)) /\ UNCHANGED excused
               \/ Skip(id) /\ excused' = excused \union {id}
            /\ UNCHANGED <<pc, hand, labels>>
       \/ AllDone("done")

\* Inspect: a container in any state has that ID, or else a sandbox may have it.
CRIInspect ==
    /\ pc = "inspect"
    /\ \/ \E id \in asked \ Sandboxes :
            /\ engine[id].exists /\ engine[id].alive
            /\ todo' = {id} /\ pc' = "container"
            /\ UNCHANGED <<hand, labels, answer, excused>>
       \/ \E id \in asked :
            /\ id \in Sandboxes \/ ~engine[id].exists
            /\ pc' = "inspectpod"
            /\ UNCHANGED <<todo, hand, labels, answer, excused>>
       \/ Fail

SandboxInspect ==
    /\ pc = "inspectpod"
    /\ \/ \E id \in asked \intersect Sandboxes :
            /\ engine[id].exists
            /\ todo' = IF engine[id].alive THEN {id} ELSE {}
            /\ pc' = "sandbox"
            /\ UNCHANGED <<hand, labels, answer, excused>>
       \/ Fail

CRI == /\ client = "cri"
       /\ \/ ContainersList \/ ContainerPod \/ ContainerStatus \/ ContainersDone
          \/ SandboxesList \/ SandboxStatus \/ CRIInspect \/ SandboxInspect
       /\ Continue
-----------------------------------------------------------------------------
Terminated == pc \in {"done", "failed"} /\ UNCHANGED vars

Next == EngineStep \/ Moby \/ Containerd \/ CRI \/ Terminated

Spec == Init /\ [][Next]_vars
-----------------------------------------------------------------------------
PCs == {"list", "inspect", "each", "labels", "tasks", "task", "container",
        "status", "sandboxes", "sandbox", "inspectpod", "done", "failed"}
Descriptions == [id : {Shown(id) : id \in IDs}, pid : Nat, proj : Projects \union {NoProject},
                 paused : BOOLEAN]

\* Every variable keeps to its type; labels are kept for the namespace at hand
\* only, as IDs are unique within one but not beyond (containerd.go:192-210).
TypeOK ==
    /\ client \in Clients /\ ops \in 0..MaxOps
    /\ engine \in [IDs -> [exists : BOOLEAN, alive : BOOLEAN, paused : BOOLEAN,
                           pid : Nat, proj : Projects \union {NoProject}]]
    /\ query \in {"list", "inspect"} /\ asked \subseteq IDs /\ pc \in PCs
    /\ todo \subseteq IF pc \in {"labels", "tasks"} THEN Spaces ELSE IDs
    /\ hand \subseteq IF pc = "tasks" THEN Spaces ELSE IDs \union Spaces
    /\ pc = "labels" => labels = <<>>
    /\ pc = "tasks" => \E ns \in hand : DOMAIN labels \subseteq {RawOf[i] : i \in InSpace(ns)}
    /\ answer \subseteq Descriptions /\ seen \subseteq Descriptions
    /\ throughout \subseteq IDs /\ recreated \subseteq IDs /\ excused \subseteq IDs

\* A query answers with every container it was asked about that has been alive all
\* the time, unless a call about it failed: one that is gone in the meantime does
\* not take others with it (moby.go:161-173, containerd.go:184-223, cri.go:168-191).
Complete ==
    pc = "done" =>
      {Shown(id) : id \in (asked \intersect throughout) \ excused}
        \subseteq {c.id : c \in answer}

OtherProject(c) ==
    client = "containerd" /\ (\E id \in recreated : c.id = Shown(id))
      /\ \E s \in seen : s = [c EXCEPT !.proj = s.proj]
JustDied(c) == client = "cri" /\ c.pid = NoPID
                 /\ \E id \in IDs \ throughout : c.id = Shown(id)

\* What an answer says of a container is true: at some moment since the query began
\* it had this process, this project and this pause, all at once.  The exceptions:
\* containerd's labels may be those of a container that had the ID before, or be
\* missing; and CRI may list a container that has just lost its process.
Truthful ==
    pc = "done" => \A c \in answer : c \in seen \/ OtherProject(c) \/ JustDied(c)

\* Inspect answers with the container it was asked for or with an error, pod
\* sandboxes aside (moby.go:177-186, containerd.go:227-243, cri.go:205-211): the ID
\* of an event, or of a listing, leads back to the container that it was given to.
ContainerOrError ==
    query = "inspect" /\ pc = "done" =>
      \/ \E c \in answer, id \in asked : answer = {c} /\ c.id = Shown(id)
      \/ client = "cri" /\ asked \subseteq Sandboxes /\ answer = {}

\* No two containers of a listing share an ID, although the engine's IDs are the
\* same in two namespaces (containerd.go:257-258, 384-401): a portfolio would take
\* them for one container, and the end of one for the end of the other.
DistinctIDs ==
    pc = "done" => \A c, d \in answer : c.id = d.id => c = d

\* "If inspection fails, it returns an error instead" (moby.go:178), which is what
\* born relies on (watcher.go:320-331): with no error there is a container to add.
AnswerOrError == query = "inspect" /\ pc = "done" => answer # {}
=============================================================================

------------------------------ MODULE Portfolio ------------------------------
(***************************************************************************)
(* portfolio.go and project.go: a map of composer projects under a         *)
(* readers/writer lock, and in each project a slice of containers under a  *)
(* lock of its own.  What a project does under its own lock is one step;   *)
(* what the portfolio does under its lock is as many as there are steps of *)
(* projects in it.                                                         *)
(*                                                                         *)
(* Three kinds of actors call: the goroutine in Watch, with the calls of   *)
(* born, demised and paused; the goroutines of listings, which add, and    *)
(* replay pauses; and a user of the watcher's portfolio, who asks.         *)
(***************************************************************************)
EXTENDS Naturals, Sequences, FiniteSets

CONSTANTS Inspected, \* what List and Inspect may find: records of id, name, proj
                     \* and paused
          Stocks,    \* what may be in the portfolio in the beginning: for some
                     \* projects, the sequences of their containers
          Zero,      \* the name of the zero project
          Unknown,   \* what an event says that does not tell the project
          Watch,     \* the goroutine in Watch
          Listings,  \* the goroutines of listings
          User,      \* a user
          MaxCalls   \* bound: calls of Watch and of the listings together

Identity(c) == [id |-> c.id, name |-> c.name, proj |-> c.proj]
Identities(cs) == {Identity(c) : c \in cs}
Births == Identities(Inspected)
Containers == [id : {b.id : b \in Births}, name : {b.name : b \in Births},
               proj : {b.proj : b \in Births}, paused : BOOLEAN]
Projects == {b.proj : b \in Births} \union {Zero}
IDs == {b.id : b \in Births}
Keys == IDs \union {b.name : b \in Births}
Writers == {Watch} \union Listings
Callers == Writers \union {User}

ASSUME InspectedAssumption == Inspected \subseteq Containers
ASSUME UnknownAssumption == Unknown \notin Projects
ASSUME StocksAssumption ==
    \A s \in Stocks :
      /\ Zero \in DOMAIN s /\ DOMAIN s \subseteq Projects /\ IsFiniteSet(DOMAIN s)
      /\ \A p \in DOMAIN s :
           /\ s[p] \in Seq({c \in Inspected : c.proj = p})
           /\ \A i, j \in 1..Len(s[p]) : Identity(s[p][i]) = Identity(s[p][j]) => i = j
           /\ p # Zero => s[p] # <<>>
ASSUME CallersAssumption == Watch \notin Listings /\ User \notin Writers
ASSUME BoundAssumption == MaxCalls \in Nat

\* Project objects: one of each project in the beginning, and one for each call.
Objects == Projects \X (0..MaxCalls)

VARIABLES
    projects,    \* the map: the object of each composer project
    slices,      \* the containers in each object
    pc, arg,     \* where each caller is, and in which call
    todo,        \* what its loop has not visited yet
    obj,         \* the object it has a reference to
    calls,       \* calls of the writers so far
    answer,      \* what the user has been told so far: containers, or how many
    call,        \* a ghost: the call that has just taken effect, with its result
    gone,        \* a ghost: the pauses that are too late for their container
    raced,       \* has the map changed while the user ranges over it unlocked?
    ever,        \* a ghost: all containers there were since the query began
    throughout   \* a ghost: the identities that were there all the time

vars == <<projects, slices, pc, arg, todo, obj, calls, answer, call, gone, raced,
          ever, throughout>>
-----------------------------------------------------------------------------
NoArg == [op |-> "none"]
NoObject == <<>>

Elements(s) == {s[i] : i \in 1..Len(s)}
StoredIn(map, objects) == UNION {Elements(objects[map[p]]) : p \in DOMAIN map}
Stored == StoredIn(projects, slices)

\* The indices of a name or ID, and the one that the range loops find first.
Hits(s, nameorid) == {i \in 1..Len(s) : nameorid \in {s[i].id, s[i].name}}
First(s, nameorid) == CHOOSE i \in Hits(s, nameorid) :
                        \A j \in Hits(s, nameorid) : i <= j
Hit(s, nameorid) == IF Hits(s, nameorid) = {} THEN {} ELSE {s[First(s, nameorid)]}

Init ==
    /\ \E s \in Stocks :
         /\ projects = [p \in DOMAIN s |-> <<p, 0>>]
         /\ slices = [o \in Objects |->
                        IF o[1] \in DOMAIN s /\ o[2] = 0 THEN s[o[1]] ELSE <<>>]
    /\ pc = [w \in Callers |-> "idle"] /\ arg = [w \in Callers |-> NoArg]
    /\ todo = [w \in Callers |-> {}] /\ obj = [w \in Callers |-> NoObject]
    /\ calls = 0 /\ answer = {} /\ call = <<"none">>
    /\ gone = {} /\ raced = FALSE /\ ever = {} /\ throughout = {}
-----------------------------------------------------------------------------
(***************************************************************************)
(* The portfolio's lock, and what the callers' steps have in common.       *)
(***************************************************************************)
NoWriter == \A w \in Callers : pc[w] \notin {"adding", "removing"}
NoReader == \A w \in Callers : pc[w] # "looking"

At(w, here, next) == pc[w] = here /\ pc' = [pc EXCEPT ![w] = next]
Begins(w, a) == /\ calls < MaxCalls /\ calls' = calls + 1
                /\ arg' = [arg EXCEPT ![w] = a]
Returns(w) == /\ arg' = [arg EXCEPT ![w] = NoArg]
              /\ obj' = [obj EXCEPT ![w] = NoObject]

\* No call takes effect, and no container comes, goes or changes.
Quiet == call' = <<"none">> /\ UNCHANGED slices

\* Every step is watched: by the user, for as long as a query that takes several
\* steps is under way, and by those about to pause a container.
Watched == pc[User] \in {"collect", "count"}
Observed ==
    /\ raced' = (pc'[User] = "count" /\ (raced \/ (Watched /\ projects' # projects)))
    /\ IF Watched'
       THEN \E now \in {Stored'} :
              /\ ever' = ever \union now
              /\ throughout' = Identities(now) \intersect
                                 IF Watched THEN throughout ELSE Births
       ELSE ever' = {} /\ throughout' = {}
    /\ gone' = {w \in Writers : /\ pc'[w] = "setting"
                                /\ w \in gone \/ Hits(slices'[obj'[w]], arg'[w].id) = {}}
-----------------------------------------------------------------------------
(***************************************************************************)
(* Portfolio.Add, as called by born and by list: the portfolio is locked,  *)
(* the project found or made, and left to deal with the container.         *)
(***************************************************************************)
MakesProject_Always(proj) == TRUE
MakesProject(proj) == proj \notin DOMAIN projects

AddBegin(w, c) ==
    /\ Begins(w, [op |-> "add", cntr |-> c])
    /\ At(w, "idle", "adding") /\ NoWriter /\ NoReader
    /\ LET o == IF MakesProject(c.proj) THEN <<c.proj, calls'>> ELSE projects[c.proj]
       IN  /\ projects' = [p \in DOMAIN projects \union {c.proj} |->
                             IF p = c.proj THEN o ELSE projects[p]]
           /\ obj' = [obj EXCEPT ![w] = o]
    /\ Quiet /\ UNCHANGED <<todo, answer>> /\ Observed

Knows(s, c) == \E i \in 1..Len(s) : Identity(s[i]) = Identity(c)

AddContainer(w) ==
    /\ At(w, "adding", "idle") /\ Returns(w)
    /\ LET c == arg[w].cntr
           new == ~Knows(slices[obj[w]], c)
       IN  /\ slices' = [slices EXCEPT ![obj[w]] = IF new THEN Append(@, c) ELSE @]
           /\ call' = <<"add", c, new>>
    /\ UNCHANGED <<projects, todo, calls, answer>> /\ Observed
-----------------------------------------------------------------------------
(***************************************************************************)
(* Portfolio.Container: the portfolio is locked for reading while one      *)
(* project after the other is asked, in any order.                         *)
(***************************************************************************)
LookBegin(w) ==
    /\ At(w, "lookup", "looking") /\ NoWriter
    /\ todo' = [todo EXCEPT ![w] = DOMAIN projects]
    /\ Quiet /\ UNCHANGED <<projects, arg, obj, calls, answer>> /\ Observed

\* Where the callers go on once they have the container, or know it is not there.
AfterFound(w) == CASE arg[w].op = "remove" -> "remove"
                   [] arg[w].op = "setpaused" -> "project"
                   [] arg[w].op = "container" -> "idle"

LookHit(w) ==
    /\ At(w, "looking", AfterFound(w))
    /\ \E p \in todo[w] : \E c \in Hit(slices[projects[p]], arg[w].id) :
         /\ call' = <<"container", arg[w].id, {c}>>
         /\ arg' = IF w = User THEN [arg EXCEPT ![w] = NoArg]
                   ELSE [arg EXCEPT ![w].proj = c.proj]
    /\ todo' = [todo EXCEPT ![w] = {}]
    /\ UNCHANGED <<projects, slices, obj, calls, answer>> /\ Observed

LookOn(w) ==
    /\ pc[w] = "looking"
    /\ \E p \in todo[w] : /\ Hits(slices[projects[p]], arg[w].id) = {}
                          /\ todo' = [todo EXCEPT ![w] = @ \ {p}]
    /\ Quiet /\ UNCHANGED <<projects, pc, arg, obj, calls, answer>> /\ Observed

LookMissed(w) ==
    /\ At(w, "looking", "idle") /\ todo[w] = {} /\ Returns(w)
    /\ call' = <<"container", arg[w].id, {}>>
    /\ UNCHANGED <<projects, slices, todo, calls, answer>> /\ Observed
-----------------------------------------------------------------------------
(***************************************************************************)
(* Portfolio.Remove, as called by demised; with an event that does not     *)
(* tell the project, the container is looked up first.                     *)
(***************************************************************************)
ProjectsTold(id) == {Unknown} \union {b.proj : b \in {b \in Births : b.id = id}}

Demise(id, proj) ==
    /\ Begins(Watch, [op |-> "remove", id |-> id, proj |-> proj])
    /\ At(Watch, "idle", IF proj = Unknown THEN "lookup" ELSE "remove")
    /\ Quiet /\ UNCHANGED <<projects, todo, obj, answer>> /\ Observed

\* The last element moves into the hole.
SwapDelete_DropsLast(s, i) == SubSeq(s, 1, Len(s) - 1)
SwapDelete(s, i) == [j \in 1..(Len(s) - 1) |-> IF j = i THEN s[Len(s)] ELSE s[j]]

RemoveContainer(w) ==
    /\ At(w, "remove", "removing") /\ NoWriter /\ NoReader
    /\ arg[w].proj \in DOMAIN projects
    /\ LET id == arg[w].id
           o == projects[arg[w].proj]
       IN  /\ slices' = [slices EXCEPT ![o] = IF Hits(@, id) = {} THEN @
                                              ELSE SwapDelete(@, First(@, id))]
           /\ call' = <<"remove", id, arg[w].proj, Hit(slices[o], id)>>
           /\ obj' = [obj EXCEPT ![w] = o]
    /\ UNCHANGED <<projects, arg, todo, calls, answer>> /\ Observed

\* A project that has become empty goes, unless it is the zero project.
DropsProject_Early(proj, s) == proj # Zero /\ Len(s) <= 1
DropsProject(proj, s) == proj # Zero /\ Len(s) = 0

RemoveProject(w) ==
    /\ At(w, "removing", "idle") /\ Returns(w)
    /\ projects' = IF DropsProject(arg[w].proj, slices[obj[w]])
                   THEN [p \in DOMAIN projects \ {arg[w].proj} |-> projects[p]]
                   ELSE projects
    /\ Quiet /\ UNCHANGED <<todo, calls, answer>> /\ Observed

\* There is no such project.
RemoveNothing(w) ==
    /\ At(w, "remove", "idle") /\ NoWriter /\ NoReader /\ Returns(w)
    /\ arg[w].proj \notin DOMAIN projects
    /\ call' = <<"remove", arg[w].id, arg[w].proj, {}>>
    /\ UNCHANGED <<projects, slices, todo, calls, answer>> /\ Observed
-----------------------------------------------------------------------------
(***************************************************************************)
(* Project and SetPaused, as called by paused and by list, which always    *)
(* looks up the container first.  The project may be dropped in between.   *)
(***************************************************************************)
Pause(w, id, proj, paused) ==
    /\ Begins(w, [op |-> "setpaused", id |-> id, proj |-> proj, paused |-> paused])
    /\ w # Watch => proj = Unknown
    /\ At(w, "idle", IF proj = Unknown THEN "lookup" ELSE "project")
    /\ Quiet /\ UNCHANGED <<projects, todo, obj, answer>> /\ Observed

GetProject(w) ==
    /\ pc[w] = "project" /\ NoWriter
    /\ IF arg[w].proj \in DOMAIN projects
       THEN /\ At(w, "project", "setting")
            /\ obj' = [obj EXCEPT ![w] = projects[arg[w].proj]]
            /\ UNCHANGED arg
       ELSE At(w, "project", "idle") /\ Returns(w)
    /\ Quiet /\ UNCHANGED <<projects, todo, calls, answer>> /\ Observed

Attached(o) == \E p \in DOMAIN projects : projects[p] = o

SetPaused(w) ==
    /\ At(w, "setting", "idle") /\ Returns(w)
    /\ LET id == arg[w].id
           o == obj[w]
       IN  /\ slices' = IF Hits(slices[o], id) = {} THEN slices
                        ELSE [slices EXCEPT ![o][First(slices[o], id)].paused =
                                                                arg[w].paused]
           /\ call' = IF Attached(o)
                      THEN <<"setpaused", id, arg[w].proj, Hit(slices'[o], id)>>
                      ELSE <<"none">>
    /\ UNCHANGED <<projects, todo, calls, answer>> /\ Observed

WriterStep ==
    \/ \E w \in Writers :
         \/ \E c \in Inspected : AddBegin(w, c)
         \/ \E id \in IDs, paused \in BOOLEAN :
              \E proj \in ProjectsTold(id) : Pause(w, id, proj, paused)
         \/ AddContainer(w) \/ GetProject(w) \/ SetPaused(w)
         \/ RemoveContainer(w) \/ RemoveProject(w) \/ RemoveNothing(w)
    \/ \E id \in IDs : \E proj \in ProjectsTold(id) : Demise(id, proj)
-----------------------------------------------------------------------------
(***************************************************************************)
(* The user, with one query after the other.                               *)
(***************************************************************************)
Query(a, next) == /\ At(User, "idle", next)
                  /\ arg' = [arg EXCEPT ![User] = a]
                  /\ Quiet /\ UNCHANGED <<projects, obj, calls>> /\ Observed

AskContainer(nameorid) ==
    /\ Query([op |-> "container", id |-> nameorid], "lookup")
    /\ UNCHANGED <<todo, answer>>

AskNames ==
    /\ NoWriter /\ pc[User] = "idle"
    /\ call' = <<"names", DOMAIN projects \ {Zero}>>
    /\ UNCHANGED <<projects, slices, pc, arg, todo, obj, calls, answer>> /\ Observed

\* The objects of the projects asked for: AllContainers clones the map under the
\* lock; Project picks one of it, for Containers, ContainerNames or String.
Cloned_Named(projs) == {projects[p] : p \in (DOMAIN projects \intersect projs) \ {Zero}}
Cloned(projs) == {projects[p] : p \in DOMAIN projects \intersect projs}

AskProjects(projs) ==
    /\ NoWriter
    /\ Query([op |-> "containers", projs |-> projs], "collect")
    /\ todo' = [todo EXCEPT ![User] = Cloned(projs)]
    /\ UNCHANGED answer

\* Each is asked later, under its own lock only.
CollectProject ==
    /\ pc[User] = "collect"
    /\ \E o \in todo[User] : /\ answer' = answer \union Elements(slices[o])
                             /\ todo' = [todo EXCEPT ![User] = @ \ {o}]
    /\ Quiet /\ UNCHANGED <<projects, pc, arg, obj, calls>> /\ Observed

\* ContainerTotal: ranges over the map without the portfolio's lock.
AskTotal ==
    /\ Query([op |-> "total"], "count")
    /\ todo' = [todo EXCEPT ![User] = DOMAIN projects]
    /\ answer' = 0

Tallied_Last(n, s) == Len(s)
Tallied(n, s) == n + Len(s)

\* When the map has changed meanwhile, what the range loop does is undefined: it
\* may end at any time, with any number.
CountProject ==
    /\ pc[User] = "count" /\ ~raced
    /\ \E p \in todo[User] : /\ answer' = Tallied(answer, slices[projects[p]])
                             /\ todo' = [todo EXCEPT ![User] = @ \ {p}]
    /\ Quiet /\ UNCHANGED <<projects, pc, arg, obj, calls>> /\ Observed

QueryEnd ==
    /\ pc[User] \in {"collect", "count"} /\ (todo[User] = {} \/ raced)
    /\ At(User, pc[User], "idle") /\ Returns(User)
    /\ todo' = [todo EXCEPT ![User] = {}] /\ answer' = {}
    /\ Quiet /\ UNCHANGED <<projects, calls>> /\ Observed

UserStep == \/ \E nameorid \in Keys : AskContainer(nameorid)
            \/ AskNames
            \/ AskProjects(Projects) \/ \E proj \in Projects : AskProjects({proj})
            \/ AskTotal \/ CollectProject \/ CountProject \/ QueryEnd
-----------------------------------------------------------------------------
Next == \/ WriterStep
        \/ \E w \in Callers : \/ LookBegin(w) \/ LookHit(w)
                              \/ LookOn(w) \/ LookMissed(w)
        \/ UserStep

Spec == Init /\ [][Next]_vars
-----------------------------------------------------------------------------
(***************************************************************************)
(* Properties.                                                             *)
(***************************************************************************)
PCs == {"idle", "adding", "lookup", "looking", "remove", "removing", "project",
        "setting", "collect", "count"}

\* Every variable keeps to its type.  A project object that is in the map holds
\* only its own project's containers, and none at all once it is not: a reference
\* to it is harmless (portfolio.go:136-141).
TypeOK ==
    /\ DOMAIN projects \subseteq Projects /\ Zero \in DOMAIN projects
    /\ \A p \in DOMAIN projects :
         /\ projects[p] \in Objects
         /\ \A c \in Elements(slices[projects[p]]) : c \in Containers /\ c.proj = p
    /\ \A o \in Objects : ~Attached(o) => slices[o] = <<>>
    /\ calls \in 0..MaxCalls /\ pc \in [Callers -> PCs]
    /\ obj \in [Callers -> Objects \union {NoObject}]
    /\ gone \subseteq Writers /\ raced \in BOOLEAN
    /\ ever \subseteq Containers /\ throughout \subseteq Births

Abstract == INSTANCE PortfolioSet WITH stored <- Stored

\* Two levels of locks, projects that come and go, and the swap-delete add up to a
\* set on which Add, Remove, SetPaused, Container and Names are atomic
\* (watcher.go:322-323, "properly handles concurrency operations").
ImplementsPortfolioSet == Abstract!Spec

Ends(here) == pc[User] = here /\ pc'[User] = "idle"
Asked == {b \in Births : b.proj \in arg[User].projs}
Told == Identities(answer)

\* AllContainers, and the containers of a project, take no lock that keeps others
\* out between one project and the next.  Still they tell of each container that
\* was there all the time, of none twice, and only what was true at some moment
\* (portfolio.go:88-104, project.go:48-67).
AllSeen ==
    [][Ends("collect") =>
         /\ throughout \intersect Asked \subseteq Told
         /\ Told \subseteq Asked /\ answer \subseteq ever
         /\ \A c, d \in answer : Identity(c) = Identity(d) => c = d]_vars

\* ContainerTotal ranges over the map without the lock (portfolio.go:79-86).  When
\* no project comes or goes in the meantime, its sum is that of the containers
\* there all the time, and of some of those that came or went.
TotalRight ==
    [][Ends("count") /\ ~raced =>
         /\ Cardinality(throughout) <= answer
         /\ answer <= Cardinality(Identities(ever))]_vars

Has(objects, map, id, proj, paused) ==
    \E c \in StoredIn(map, objects) :
      c.id = id /\ c.proj = proj /\ c.paused = paused

\* paused and list get hold of a project and set the state later, with no lock in
\* between (watcher.go:413-414, 483-484).  The state is lost only when the container
\* itself has been removed in between, never because its project was.
PauseNotLost ==
    [][\A w \in Writers :
         pc[w] = "setting" /\ pc'[w] = "idle" /\ w \notin gone =>
           Has(slices', projects', arg[w].id, arg[w].proj, arg[w].paused)]_vars
=============================================================================

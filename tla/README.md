# whalewatcher in TLA+

Specifications of [whalewatcher](../src/README.md), a Go module that keeps an
in-memory list ("portfolio") of the containers alive in a container engine, and
tells its users about containers that come and go. The modules model the
concurrent core of the program, TLC checks them on small instances, and TLAPS
proves their safety properties for every instance.

All line numbers refer to the sources under `src/`; `watcher.go` is
`src/watcher/watcher.go`.

## The system

| Component | State | Operations | Talks to |
|---|---|---|---|
| Watcher (`watcher/watcher.go`) | two portfolio references, the event gate and what it guards (`listinprogress`, `bluenorwegians`, `pauses`), the ready channel | `Watch` (attempts, event loop, retries), `list`, `born`, `demised`, `paused`, `Portfolio`, `Ready` | engine client (calls, event and error channels), portfolio, `notify` |
| Event fan-out (`watcher/watcher.go`) | `eventchs`, `eventchmux`, a buffered channel per receiver | `Events`, `notify`, `Close` | called by the event loop, by the listing, by users |
| Pending pause states (`watcher/state.go`) | a slice of (ID, paused) | `Add`, `Remove`, clearing | used by `paused`, `demised`, `list` under the event gate |
| Portfolio (`portfolio.go`, `project.go`, `container.go`) | a map of composer projects, each with a slice of immutable containers; a lock on each level | `Add`, `Remove`, `Container`, `Project`, `SetPaused`, `Names`, `ContainerTotal`, `AllContainers`, `Containers`, `ContainerNames` | written by the watcher, read by users |
| Engine clients (`engineclient/{moby,containerd,cri}`) | the goroutine of each `LifecycleEvents` with its two channels | `List`, `Inspect`, `LifecycleEvents`, optional `Try` and `Preflight` | the engine's API |
| CRI host name (`engineclient/cri/hostname.go`) | the UTS namespace of each OS thread | `ID` (`hostname`, `visitUTS`) | the kernel, the Go scheduler |
| Constructors, connection set-up | none that changes | `New` | pure I/O or wiring |

One watcher runs several goroutines at once: the caller's in `Watch` (which
also handles every event), one per attempt in `list`, one per attempt in the
engine client's `LifecycleEvents`, and any number of users. What is hard about
it, and what the models are for:

* A listing takes many round trips to the engine while containers go on
  changing. Events that arrive meanwhile must be combined with its results so
  that the portfolio ends up exact: no container that has died is added back, no
  stale pause state survives.
* A failed attempt is followed by another one, but nothing stops the listing
  goroutine of the failed one. Listings overlap and share the watcher's fields.
* During a resynchronization users keep the old portfolio until the new one is
  synchronized (make before break).
* Events are passed on over bounded channels, with a mutex held.
* The clients' goroutines, the engine's library and Watch pass on events and
  one final error over channels, two of them unbuffered.
* A portfolio has locks on two levels, and lets go of the upper one before it is
  through: users iterate over projects that vanish, and a project is changed after
  it was looked up.
* To learn the host name of an engine, a goroutine takes an OS thread into another
  namespace, and must not let anyone else have it there.

`PROJECT.json` lists these hazards line by line, with the properties that
cover each.

## The modules

| Module | Models | Kind |
|---|---|---|
| `Containers` | what the watcher uses of a portfolio, as operators on a set of containers | operators |
| `Watcher` | `Watch`, `list`, the event handlers, and the engine around them | specification |
| `MCWatcher` | instances of `Watcher` | TLC |
| `WatcherInvariant` | the inductive invariant of `Watcher`, for TLC and for the proofs | definitions |
| `WatcherProofs` | theorems of `Watcher` | proofs |
| `PauseQueue` | the slice of pending pause states | specification |
| `PendingPauses` | what it promises: a map from IDs to states | abstract specification |
| `MCPauseQueue`, `PauseQueueProofs` | instance, theorems | TLC, proofs |
| `EventFanout`, `MCEventFanout`, `EventFanoutProofs` | `Events`, `notify`, `Close`, receivers | specification, TLC, proofs |
| `EventPump`, `MCEventPump`, `EventPumpProofs` | the goroutine of `LifecycleEvents`, its channels, and Watch's `select` | specification, TLC, proofs |
| `EventStream` | what `Watcher` assumes of an event stream | abstract specification |
| `EngineQueries`, `MCEngineQueries`, `EngineQueriesProofs` | `List` and `Inspect` of the three clients, call by call, and containerd's display IDs | specification, TLC, proofs |
| `Portfolio`, `MCPortfolio`, `PortfolioProofs` | the portfolio and its projects with their locks, and its callers | specification, TLC, proofs |
| `PortfolioSet` | what a portfolio promises: a set with atomic operations | abstract specification |
| `HostName`, `MCHostName`, `HostNameProofs` | `hostname` and `visitUTS`, OS threads | specification, TLC, proofs |
| `Induction` | induction over natural numbers | lemmas for the proofs |

### How they fit together

`Watcher` is the center. It takes five things from its surroundings to be
simpler than they are, and each is justified by a module of its own:

* the pending pauses are a map from IDs to states (`pauses`): `PauseQueue` is
  shown to implement `PendingPauses`, which is that map, call by call (the variable
  `call` records which operation a step was, so that `Add` cannot pass for `Clear`);
* an attempt's event stream is one queue that is first `pending`, then `live`,
  then perhaps `broken`: `EventPump` is shown to implement `EventStream`, which
  is that queue;
* `List` asks for the IDs alive and then looks at each container at a moment of its
  own (`ListQuery`, `ListInspect`), and `Inspect` gives a container as it is or fails
  (`BornInspect`): `EngineQueries` takes the clients' calls one by one and shows
  that an answer leaves out nothing that was alive throughout and says nothing
  that was never true, and where a client falls short of that;
* telling the receivers of `Events` is one step that does not block: that is
  right as long as receivers receive, which is what `EventFanout` is about. It
  also shows what happens otherwise;
* the operations of a portfolio are atomic, on a set of containers (`Containers`):
  `Portfolio` is shown to implement `PortfolioSet`, which is such a set. Two of
  `Watcher`'s actions are two or three calls in the code, a look-up and what
  follows from it (`DemiseRemove`, `PauseApply`, and `ListReplay`); `Portfolio` has
  these calls one by one, with other goroutines in between, and what can come of
  that is a call that finds nothing any more (`PauseNotLost`), which `Watcher` has
  as well when the two are in the other order. `ContainerTotal` takes no lock, see
  below.

`HostName` stands alone: `ID` is the only part of a client that has any
concurrency of its own, and the watcher just passes it on.

### Watcher: state and actions

| Variable | Code |
|---|---|
| `engine`, `ops` | the engine's containers; the bound on their changes |
| `sub`, `stream` | the current attempt's subscription and the events not yet received |
| `cancelled` | the context passed to `Watch` |
| `wpc`, `evt`, `held` | where `Watch` is, the event it handles, the container in hand |
| `attempt` | how many attempts were begun |
| `pfs`, `readpf`, `writepf` | every portfolio made so far, `readportfolio` and `writeportfolio` |
| `gate`, `listinprogress`, `bluenorwegians`, `pauses`, `ready` | the fields of the same names (`gate` is 0 or the listing that holds it) |
| `lpc`, `todo`, `found`, `lpf`, `note` | per listing goroutine: where it is, the IDs left to inspect (later: to replay), its results, its `pf`, what it announces |
| `view` | what a receiver of `Events` believes |
| `gap` | a ghost: why the current attempt may have missed something |

| Actions | Code |
|---|---|
| `EngineStart`, `EngineDie`, `EnginePause`, `EngineUnpause` | the engine; the event goes to `stream` if and only if the subscription is live |
| `Subscribe`, `StreamBreak`, `Cancel` | the client's subscription takes effect; its stream ends with an error; the caller cancels |
| `TryFail`, `BeginAttempt`, `RecvErr`, `RecvListErr`, `Retry`, `GiveUp` | the operation that `Watch` passes to `backoff.Retry` (205-296), and the back-off |
| `RecvEvent`, `BornInspect`, `BornAdd`, `DemiseGate`, `DemiseRemove`, `PauseGate`, `PauseApply`, `Notify` | the event loop and `born`, `demised`, `paused`, split wherever a lock is released or the engine is called |
| `ListBegin`, `ListQuery`, `ListInspect`, `ListFail`, `ListLock`, `ListMerge`, `ListReplay`, `ListAnnounce`, `ListUnlock`, `Publish` | `list`, the client's `List`, the deferred clean-up, and the goroutine's last three lines |

A container is a record of its ID, its incarnation (a container that is started
again is another process), its project, and whether it is paused. The order in
which a listing returns containers and the pending pauses are replayed is
arbitrary. An inspection that fails although the container is alive is possible
at any time; so is a listing that fails.

The ghost `gap` names the reasons for which the code, as it stands, may miss
something, so that the properties can say exactly when they hold:

* `missed`: a container changed after the listing had decided about it and
  before the subscription was live;
* `inspect`: an inspection failed although the container was alive;
* `leftover`: an earlier, failed listing has left its flag set;
* `overlap`: a listing of an earlier attempt was still running;
* `straddle`: a handler was past the event gate when the listing began.

### EngineQueries: state and actions

One `List` or `Inspect` of one client, chosen in the initial state; queries share
nothing but the engine. `pc` is the engine call to be made next, `todo` what the
loop has still to look at, `hand` what the calls of one round are about, `labels`
is containerd's `cntrlabels` (reduced to the project), `answer` the result. Each
call is an action, named for the client's function and the call (`TasksList`,
`ContainerStatus`, ...), with an alternative for its failure; any number of
changes of the engine may come between two calls. A container exists from its
creation to its deletion, and is alive in between when it has a process. The
ghosts `seen`, `throughout`, `recreated` and `excused` record the engine's history
during the query, for the properties.

Containers, their IDs and containerd's display IDs are three things here: a
container is a member of `IDs`; `RawOf` is its ID in its namespace, which another
one may have elsewhere; `Shown` is the ID that a listing gives it, and that `Inspect`
and the events are about.

### Portfolio: state and actions

`projects` is the map, from names to project objects; `slices` has the containers of
each object, so that a reference to a project (`obj`) may outlive its place in the
map; an object is named by its project and the call that made it. What a project does under its own lock is one step. The portfolio's lock is
in the positions of its callers: `NoWriter` and `NoReader` are its two sides.
Watch and the listings make the calls of `born`, `demised`, `paused` and `list`,
as `watcher.go` has them: `demised` and `paused` start with a look-up when the event
does not tell the project. A user asks for a container, the names, all containers,
one project's, or the total. The ghost `call` says which operation has just taken
effect and with what result, for the refinement; `ever` and `throughout` are what
the user could, and must, have seen; `gone` are the pauses whose container was
removed between the look-up and the change; `raced` says that the map changed while
`ContainerTotal` ranged over it, after which Go promises nothing.

### HostName: state and actions

Each thread is `unborn`, `open` to the scheduler, `locked` to a goroutine or `dead`;
`space` is the namespace it is in. `/proc/self/ns/uts` is M0's. Each visitor calls
`hostname` once, with a PID or with zero; every system call may fail. The
namespaces that have no host name make the code fall back to `/etc/hostname`.

## What is checked

| Run | Instance | Properties |
|---|---|---|
| `once` | 2 IDs, 3 changes, 1 attempt | `SyncInv`; `TypeOK`; `SyncedExact`; `AnnouncedExact`; `OnlyMissing` |
| `resync` | 1 ID, 3 changes, 2 attempts | `SyncInv`; `AsideOnlyWhileListing`; `SyncedExact`; `AnnouncedAgain`; `MakeBeforeBreak` |
| `live` | 1 ID, 1 change, 2 attempts, with fairness | `CatchesUp`; `EventuallyReady` |
| `pauses` | 4 IDs | `NoDuplicates`; `ImplementsPendingPauses` |
| `fanout` | 2 receivers (one may desert, one waits for `Ready`), 2 notifiers, 4 events, room for 2, with fairness | `TypeOK`; `NoSendToClosed`; `InOrderWithoutLoss`; `CloseReturns`; `NotifyReturns`; `ReadyCloses` |
| `pump` | no buffer or one of 2, 4 messages, with fairness | `TypeOK`; `IsEventStream`; `ErrorReachesWatch`; `GoroutineEnds`; `NeverNilError` |
| `queries` | 3 clients, 2 IDs (for CRI a pod sandbox and a container in it, for containerd one of the same ID in each of 2 namespaces), 4 changes | `TypeOK`; `Complete`; `Truthful`; `ContainerOrError`; `DistinctIDs` |
| `portfolio` | 3 containers (2 in a project, one of them under two names), Watch, a listing and a user, 3 calls of the former | `TypeOK`; `ImplementsPortfolioSet`; `AllSeen`; `TotalRight`; `PauseNotLost` |
| `hostname` | 3 threads, 3 visitors (one about the own host), 3 namespaces (one without a name) | `TypeOK`; `NoForeignThread`; `NameOfTarget` |

* `SyncInv`: what holds all the time, not only when all is quiet, so that the next
  properties hold in the end; see the proofs below.
* `SyncedExact`: once a listing is through, the subscription is live and all
  events are handled, the portfolio that users read is exactly what the engine
  runs, with the right processes, projects and pauses, unless `gap` has a reason
  (a straddling handler is none: it does not spoil the portfolio).
* `AnnouncedExact`: in the first attempt a receiver that has followed the events
  believes exactly what is in the portfolio.
* `OnlyMissing`: an inspection that fails without need leaves its container out
  until the next attempt, and does no other harm: whatever comes of the
  container's later events, nothing dead and nothing stale gets into the portfolio.
* `AnnouncedAgain`: in a later attempt, a receiver is told again of all that is in
  the new portfolio, in its latest state. It excludes `leftover`: a pause left by a
  failed listing is replayed on a container that Watch has added but not yet
  announced, and the receiver hears of the pause first and of the start, with the
  state before it, last.
* `AsideOnlyWhileListing`: what is set aside for a listing (deaths, pauses) never
  outlives the flag, however listings overlap.
* `MakeBeforeBreak`: readers who have containers are given another portfolio
  only when a listing was completed into it, unless listings overlap.
* `CatchesUp`, `EventuallyReady`: nothing gets stuck at the event gate; a
  connected watcher comes to have handled everything and is then exact, and
  whoever waits for `Ready` goes on.
* `NoDuplicates`, `ImplementsPendingPauses`: the swap-delete in the slice of
  pending states is right.
* `NoSendToClosed`: `Close` never pulls a channel away from under a notifier. `notify`
  evaluates the slice that it ranges over once, so what `Close` does to `eventchs`
  does not reach it (`ranged`); only the mutex keeps the two apart, and without
  it in `Close` TLC finds the property violated.
* `InOrderWithoutLoss`: every receiver gets all events since its call of `Events`, in
  the one order in which they were notified, whichever goroutine notified them.
* `CloseReturns`, `NotifyReturns`, `ReadyCloses`: Close, notify and the listing get
  through, as long as no receiver deserts, or waits for `Ready` with a full channel
  (`Stuck`). The latter is a deadlock of the documented uses put together:
  `list` announces up to any number of containers before it closes `Ready`, and a
  receiver that has called `Events` and first waits for `Ready` has room for ten. It
  takes the event gate with it, and so Watch.
* `IsEventStream`, `ErrorReachesWatch`, `NeverNilError`: the clients' goroutine,
  the channels and Watch's `select` implement the queue that `Watcher` assumes;
  the final error arrives, and never as the `nil` of a closed channel (`Watch`
  would take that for success and end without a retry). Sending the error
  (`PumpReport`) and closing the channel, which is deferred to the goroutine's return
  (`PumpReturn`), are two steps, and Watch may select between them: with the two in
  the other order the property is violated.
* `Complete`: an answer has every container it was asked about that was alive from
  the beginning of the query to its end, unless a call about it failed where the
  client goes on without it (a container's pod or status in CRI, a whole namespace
  in containerd: `excused`).
* `Truthful`: whatever an answer says of a container held at one moment of the
  query, process, project and pause together. Two exceptions are written into it.
  `OtherProject`: containerd's labels are older than its tasks, so a container
  created in between has no project, or that of its predecessor with the same ID;
  it is then filed in another project than the one its events name. `JustDied`: CRI
  may describe a container that has lost its process since it was listed, with the
  PID 0. `Watcher` leaves both out: the event of the change corrects the second one,
  whereas the first may leave a container in the portfolio twice, as in `reuse`.
* `ContainerOrError`: `Inspect` answers with the container it was asked about or with
  an error, except of a pod sandbox (see below). For containerd this takes the ID
  through `displayID` and `decodeDisplayID`.
* `DistinctIDs`: no two containers of an answer go by one ID, though containerd has
  the same ID in two namespaces.
* `GoroutineEnds`: once Watch has left, the client's goroutine ends and its
  subscription with it, unless it is about to hand over an event.
* `ImplementsPortfolioSet`: the calls of a portfolio are atomic operations on a set.
  `Remove` and `SetPaused` find some container that has the name or ID.
* `AllSeen`: a user who iterates sees everything that was there throughout, nothing
  twice and nothing made up, although projects are asked one after the other.
* `TotalRight`: the same of the number that `ContainerTotal` gives, unless the map
  changed under it.
* `PauseNotLost`: the state that `paused` or `list` sets on a project is seen in the
  portfolio, unless the container went in between: a project that was dropped
  had nothing in it, so whoever holds a reference to it loses nothing. `TypeOK` has
  that, too.
* `NoForeignThread`: in an application that keeps M0 to its initial goroutine, no
  goroutine but the visitor ever runs in a foreign namespace. Without that it is
  false, as the comment at `hostname.go:79-85` suggests: a visitor on M0 makes
  another one take the namespace it visits for the one to return to.
* `NameOfTarget`: who asks about an engine gets its host's name or none.

### Bounds

`MaxOps` bounds the changes of containers, `MaxAttempts` the attempts,
`MaxEvents` and `MaxMessages` the events. Three changes are enough for the
sequences that matter for one ID: die, start again and pause, in any order around
the listing, from any initial state (each container may be alive, dead or paused
in the beginning). Two IDs let one listing merge one container while events of
the other one arrive. Two attempts let a listing overlap a later one, and a
failed one leave its fields to the next. The run `live` has one change only, as a
behavior has to end in peace for its properties to say anything; it is the
attempts, failures and cancellations that can get stuck, and it has two attempts.
Buffers of 2 can be empty, partly full and full; the code's are of 10 and 16.
Four IDs allow a hole at the front, in the middle and at the end of the slice.
Four changes let a container die, go, come back under another project and start
between two calls of one query; the second ID is the pod or the other namespace.
In `portfolio` three calls are one more than there are goroutines making them: a
look-up, a removal that drops the project and an addition that makes it anew can
fall between any two steps of each other, or of a user's query, of which there
are as many as the user likes. Two names of one ID let a name or ID have two hits.
In `hostname` two visitors can be in different namespaces at once, or one can die on
the thread that another one needs; each visitor calls once, as calls share
nothing but the threads.

### Fairness

Weak fairness of every step of a goroutine in the watcher (`WatchStep`,
`ListStep(n)`), since Go runs what can run and the engine answers or fails each
call; of `Subscribe`, and of the end of the stream once the context is cancelled,
as the engines' libraries watch the context they are given. The containers of the
engine, the loss of the connection and the caller owe nothing. In `EventFanout`,
`Close` is strongly fair: it competes for `eventchmux` with notifiers that take it
again and again, and Go's mutex hands over to a goroutine that has waited for
more than a millisecond. Receivers are fair until they desert.

## Where the code does less than it says

Each of these has a run that TLC ends with a counterexample, and an entry under
`findings` in `PROJECT.json`.

| Run | Property | What happens |
|---|---|---|
| `leftover` | `AsideIsOfThisListing` | A listing that fails keeps `listinprogress`, the dead and the pauses; the next one believes them, and leaves out a container that has been started again (`watcher.go:440-443`). |
| `reuse` | `SyncedExact` | When containerd's ID comes back in another project, two containers share it and the dead one may stay (`watcher.go:367-374`). Here `ProjectsOf` allows an ID any project; in the other runs it has one for good (`FixedProjects`), as with Docker and Kubernetes. That an event names the project does not help: a pause set aside for the old container is then replayed on the new one. |
| `nil_inspect` | `AnswerOrError` | CRI's `Inspect` of a pod sandbox that is not ready any more gives neither a container nor an error, and `born` adds that to the portfolio (`cri.go:219`, `watcher.go:320-331`). |

Noticed on the way, without a run of their own:

* The listing is not ordered after the subscription: `LifecycleEvents` returns
  before its goroutine has subscribed, though `watcher/doc.go:55-56` says
  "immediately". A container that changes after the listing has looked and before
  the subscription is live is wrong for as long as the connection lasts (`missed`).
* A left-over listing publishes the next attempt's portfolio before that is
  synchronized (`watcher.go:253-257`; `overlap`), against `watcher.go:138-140`.
* A failing listing closes `Ready` (`watcher.go:441`), and a listing of more
  containers than an event channel has room for may never do (`ReadyCloses`).
* A retry loop in which `Try` fails each time does not notice that the context is
  cancelled (`watcher.go:208-212`). No client in the repository has a `Try`.
* Receivers of `Events` are not told after a reconnect which containers are gone. A
  channel handed out by `Events` after `Close` stays open. One receiver that
  does not receive any longer blocks the watcher, the other receivers and `Close`.
* `ContainerTotal` takes no lock (`portfolio.go:81-86`), and is called on a portfolio
  that a left-over listing may be adding to (`watcher.go:217`), although
  `watcher.go:322-323` counts on the portfolio to handle concurrency.
* `add` compares name and ID, `remove` and the look-ups name or ID
  (`project.go:134`, `153`), and take the first hit, which need not be the
  "(preferably) ID" of `project.go:142`: a container inspected under two names is in
  the portfolio twice, and its end removes one of the two.
* containerd's `List` looks for a container's labels before its task
  (`containerd.go:198-217`): one created in between is listed without its project, and
  added once more by the event of its start, with it.
* `/tasks/exit` is also sent for a process that was executed in a container
  (`containerd.go:343-353`), and taken for the end of the container.
* The rucksack packer given to the CRI client is never called (`cri.go:106-110`).

## What is proved

TLAPS checks these theorems for all values of the constants, from the assumptions
named in the modules. Every safety property and every refinement that a run checks
has one; `PROJECT.json` lists them. Each proof rests on an inductive invariant: the
initial states satisfy it, every step preserves it (one proof step per action), and
it implies the property. All these invariants were checked by TLC before.

### Watcher

Any sets of IDs and projects, any number of attempts and changes. Assumptions:
`ProjectsAssumption` (each ID has some project), `UnknownAssumption` (`ProjectUnknown`
is not a project), `EventsAssumption`, `BoundsAssumption` (there is at least one attempt).

* `TypeCorrect` (`TypeOK`). `TypeOK` is not inductive: a listing announces
  what it replays with the type `pauses[id]`, which is an event type only because
  the pauses of the IDs in `todo` stay put while it replays them. That in turn
  holds because every change of `pauses` needs the event gate, and a merging
  listing holds it. `TypeInv` adds just this: `ReplaysPauses`, `GateHeldByMerger`
  (a listing that merges or announces holds the gate), `EventFits` (the event
  in hand has the type that Watch's position asks for) and `NotBegun`
  (listings of future attempts have not begun).
* `AsideCorrect` (`AsideOnlyWhileListing`). Inductive as it stands: what is set aside is
  added only under the gate while the flag is set, and the flag is taken back only
  together with it.
* `MakeBeforeBreakCorrect` (`MakeBeforeBreak`). `PublishInv` strengthens `TypeInv` by
  `OnlyThisListing` (without `overlap` in `gap`, only the current attempt's
  listing is active) and `MergesIntoWritten` (it merges into `writepf`); so what
  `Publish` brings online is the portfolio it has merged into.
* `SyncCorrect` (`SyncInv`) and what follows from it once all is quiet:
  `SyncedExactCorrect`, `OnlyMissingCorrect`, `AnnouncedExactCorrect`,
  `AnnouncedAgainCorrect`.

`SyncInv` (module `WatcherInvariant`) says why a listing that takes many round trips
and events that arrive meanwhile add up to the truth. The `Agenda` is the event
Watch is handling followed by those it has not received, and `Coming(Agenda, i, id, T)`
says that an event about `id` of a type in `T` comes after the first `i` of them (`i`
is 1 for those who look at what Watch has taken through the event gate already).

* `ShapeInv`: types; every ID has one project in all that is kept, and one container
  per portfolio; where Watch is fits its event; a listing has found only what it has
  inspected.
* `EventsInv`: the agenda leads to the state that the engine has now (`SoundOn`: after
  an exit of a container that is alive, its start is to come; after a pause, the exit,
  or another pause, or the engine has that state). `AsideOK` says the same of a pause
  that was set aside, and that no start of the container comes before its exit: so
  the pause can only be replayed on the container it was about.
* `ContentInv`: every container in the portfolio (`KeptOK`) and every one that the
  listing has found (`FoundOK`) is alive and the same process, unless its exit is to
  come or, for those found, is in `bluenorwegians`; and has the right pause state,
  unless a pause is to come or set aside. Whatever is alive and not in the portfolio
  is on its way (`MissingOK`): its start is to come, or the listing has yet to look, or
  has found it and does not hold it for dead.
* `ViewInv`: receivers know what is in the portfolio, but for the container that is
  just about to be announced (`ViewOK`), and Watch and the listing never are about
  to announce the same one (`ApartOK`); the latter is what a straddling handler breaks.

The parts hold while the attempt is connected, its listing has not failed, and
nothing of an earlier attempt gets in its way (`Clean`, in terms of `gap`); the
lemma `CleanBack` shows that only a new attempt makes it so, so that for every other
step the parts can be used. When all is quiet the agenda is empty, the listing has
found nothing that it has not merged, and nothing is set aside: what remains of
`ContentInv` and `ViewInv` are the properties.

The theorems have one hypothesis on a constant, `FixedProjects`: each ID has one
project for good. Without it `SyncedExact` is false, as the run `reuse` shows: the
code looks for a container in the project that an event names. IDs of Docker,
and of CRI where there are no projects, are never given twice; those of containerd
can be.

### Event fan-out and event streams

* `EventFanout`, for any number of receivers and notifiers and any `Cap`: `TypeCorrect`,
  `NoSendToClosedCorrect`, `InOrderWithoutLossCorrect`. `Registered` is what makes them
  inductive: no receiver is registered twice, a closed channel was registered, and no
  receiver has been sent events that have not been told. `Ranging` adds that the
  slice a notifier ranges over is still `eventchs`, because it holds
  `eventchmux` from its look at `eventchs` to its last send.
* `EventPump`, for any capacities and any number of messages: `TypeCorrect`,
  `NeverNilErrorCorrect`, and `EventStreamRefined`, which shows that every step is one
  of `EventStream` or none. The map from the library's messages, the client's hand, the
  channel and Watch's hand to one queue needs that selecting the messages of interest
  is compatible with taking the first and adding a last one. `Selected` is a recursive
  function, so this is an induction over the length of the sequence, done with
  `SetInduction` (see below).

### List and Inspect

`EngineQueries`, for any containers, namespaces and projects, any number of changes
between two calls, and any failures: `TypeCorrect`, `CompleteCorrect`,
`TruthfulCorrect`, `ContainerOrErrorCorrect`, `DistinctIDsCorrect`. Assumptions: an ID in
a namespace stands for one container (`SpacesAssumption`), pod sandboxes are containers,
`NoProject` is not a project. The invariant relates the answer so far to what is still
to be asked: every container that the query is about is `ToCome` or `Covered`, never
both (`DistinctSoFar`), unless it is excused or was not alive throughout
(`CompleteSoFar`); each part of the answer was seen (`TruthfulSoFar`), because the ghost
`seen` has the engine's present state (`Witnessed`) and containerd's labels are those
of the containers they were asked for, but for those that were recreated
(`LabelsKnown`). `Phases` and `AtHand` say where each client gets to. That the display
IDs lead back to where they came from is the lemma `DisplayIDDecoded`.

### Portfolio

`Portfolio`, for any containers, any number of listings and calls, from any stock that
the code could have built (`StocksAssumption`: projects hold their own containers, none
twice, and only the one without a name may be empty). Its `Inv` says that every
project in the map is an object made for it, with a slice of its own containers, none
twice (`MapOK`, `SlicesOK`); that a project not in the map is empty; that a writer is
alone behind the lock (`LockOK`); that an empty project in the map is in somebody's
hands (`NamesOK`); and what each caller knows at each step of its call (`CallerOK`).

* `PortfolioSetImplemented`: every step is a step of `PortfolioSet`, with the set of all
  containers in the map's projects; a call takes effect where the ghost `call` changes.
  The lemmas on `SwapDelete`, `Append` and the look-ups (`SliceRemove`, `SliceAppend`,
  `SliceHit`) say what slices do in terms of sets.
* `TypeCorrect` adds `GhostsOK` (the ghosts bound what is there), `AllSeenCorrect` and
  `TotalRightCorrect` add `QueriesOK`: what a user has been told so far and what it has
  still to ask for covers what was there throughout. The total is a sum of lengths, so
  `FiniteOK` and the cardinality of disjoint sets come in.
* `PauseNotLostCorrect` adds `GoneOK`: a pause that is not too late finds its container
  in the object that it holds. Its hypothesis is that no container's name is
  another one's ID. The code compares both with the ID of the event
  (`project.go:92`), so without it a pause could go to the wrong container.

### Pending pauses, host names

* `NoDuplicatesCorrect` and `QueueImplementsMap`, for any number of IDs. Without
  duplicates, overwriting or removing the first hit is overwriting or removing
  the only one; the lemmas `AddedPending` and `RemovedPending` say so.
* `TypeCorrect`, `NoForeignThreadCorrect` and `NameOfTargetCorrect` of `HostName`, for any
  numbers of threads, visitors and namespaces. `TypeOK` is inductive
  together with `OnlyEngines` (who asks with a PID of zero visits nothing): a thread
  is locked by one visitor, which gives it back or away when it ends. The other two need to know where a visitor's thread is: `WayBack` (with M0 locked,
  `orig` is the home namespace, and so is where a thread goes on return),
  and `OnItsWay` (after `Enter` the thread is in the target namespace until `Leave`),
  from which the name that `Visit` reads is the right one (`RightName`).

### Only model-checked

Everything under fairness, which is out of the prover's reach: `CatchesUp`,
`EventuallyReady`, `CloseReturns`, `NotifyReturns`, `ReadyCloses`, `ErrorReachesWatch`,
`GoroutineEnds`. The theorems about induction in the library take an operator as a
parameter, which none of the provers can instantiate; `Induction` states what the
proofs need about sets of natural numbers instead, from the well-foundedness of `<`.

## What is not modelled

* Names of containers outside of `Portfolio`: the watcher asks by ID only.
* Processes executed in a container (containerd), see above.
* `Preflight`, the accessors of a watcher (`Type`, `Version`, `API`, `PID`,
  `Client`), labels, rucksacks and time stamps: data that nothing depends on.
* The back-off's timing: a retry happens or does not.
* Connection set-up and constructors: I/O and wiring. The example,
  mocks and test matchers are not part of the program.

## Plan

1. Done: all modules of the table with their runs, and a theorem for each safety
   property that a run checks, the two refinements of `Watcher`'s surroundings that
   are state machines of their own (`EventPump`, `Portfolio`) and that of `PauseQueue`
   included.
2. Next: `CatchesUp` and the other properties under fairness rest on facts that are
   safety properties and can be proved: that at any moment somebody can take a
   step, and that each step brings Watch or the listing nearer to the end of what it
   is at. `OtherProject` (`EngineQueries`) in `Watcher`, so that `reuse` covers it.

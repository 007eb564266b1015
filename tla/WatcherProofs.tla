---------------------------- MODULE WatcherProofs ----------------------------
(***************************************************************************)
(* Proofs about Watcher, for any number of containers, projects, changes   *)
(* of the engine and attempts.                                             *)
(***************************************************************************)
EXTENDS WatcherInvariant, SequenceTheorems, TLAPS

-----------------------------------------------------------------------------
LEMMA PortfolioTypes ==
    ASSUME NEW pf \in SUBSET Containers, NEW id \in IDs, NEW proj,
           NEW b \in BOOLEAN, NEW c \in Containers
    PROVE  /\ PfAdd(pf, c) \in SUBSET Containers
           /\ PfRemove(pf, id, proj) \in SUBSET Containers
           /\ InProject(pf, id, proj) \in SUBSET Containers
           /\ PfSetPaused(pf, id, proj, b) \in SUBSET Containers
<1>1. InProject(pf, id, proj) \in SUBSET Containers
  BY DEF InProject
<1>2. \A d \in Containers : [d EXCEPT !.paused = b] \in Containers
  BY DEF Containers
<1> QED
  BY <1>1, <1>2 DEF PfAdd, PfRemove, PfSetPaused

LEMMA HeardType ==
    ASSUME NEW v \in SUBSET Containers, NEW type, NEW c \in Containers
    PROVE  Heard(v, type, c) \in SUBSET Containers
BY DEF Heard

LEMMA SnapshotType ==
    ASSUME EngineOK, NEW id \in IDs
    PROVE  Snapshot(id) \in Containers
BY DEF EngineOK, Snapshot, Containers

LEMMA EngineKept ==
    ASSUME EngineOK, UNCHANGED <<engine, ops, cancelled>>,
           sub' \in {"off", "pending", "live", "broken"}, stream' \in Seq(Events)
    PROVE  EngineOK'
BY DEF EngineOK

LEMMA TypeInit == Init => TypeInv
<1> SUFFICES ASSUME Init PROVE TypeInv
  OBVIOUS
<1> USE DEF Init
<1>1. 0 \in 0..MaxOps /\ 0 \in 0..MaxAttempts
  BY BoundsAssumption
<1>2. EngineOK
  <2>1. engine \in [IDs -> [alive : BOOLEAN, inc : Nat, proj : Projects,
                            paused : BOOLEAN]]
    <3> DEFINE Fresh == [alive : BOOLEAN, inc : {0}, proj : Projects, paused : BOOLEAN]
               Any == [alive : BOOLEAN, inc : Nat, proj : Projects, paused : BOOLEAN]
    <3>1. engine \in [IDs -> Fresh]
      OBVIOUS
    <3>2. Fresh \subseteq Any
      OBVIOUS
    <3> HIDE DEF Fresh, Any, Init
    <3>3. engine \in [IDs -> Any]
      BY <3>1, <3>2
    <3> QED
      BY <3>3 DEF Any
  <2>2. /\ ops \in 0..MaxOps /\ sub = "off" /\ stream = <<>> /\ cancelled = FALSE
    BY <1>1
  <2> HIDE DEF Init
  <2>3. cancelled \in BOOLEAN
    BY <2>2, Zenon
  <2>4. stream \in Seq(Events)
    BY <2>2
  <2> QED
    BY <2>1, <2>2, <2>3, <2>4 DEF EngineOK
<1>3. WatchOK
  BY <1>1 DEF WatchOK, WatchPCs
<1>4. FieldsOK
  BY <1>1 DEF FieldsOK, Portfolios, NoPauses
<1>5. ListsOK
  BY <1>1 DEF ListsOK, ListPCs, Portfolios
<1>6. GhostsOK
  BY DEF GhostsOK
<1>7. EventFits /\ GateHeldByMerger /\ ReplaysPauses /\ NotBegun
  BY BoundsAssumption
  DEF EventFits, HandlingPCs, GateHeldByMerger, ReplaysPauses, NotBegun, Lists
<1> QED
  BY <1>2, <1>3, <1>4, <1>5, <1>6, <1>7 DEF TypeInv, TypeOK

LEMMA TypeEngine ==
    ASSUME TypeInv, EngineStep \/ Subscribe \/ StreamBreak \/ Cancel
    PROVE  TypeInv'
<1> USE DEF TypeInv, TypeOK, engineVars, streamVars, watchVars, gateVars, pfVars, listVars
<1>1. /\ UNCHANGED <<watchVars, attempt, pfVars, gateVars, ready, listVars, view>>
      /\ gap' \in SUBSET Reasons
  BY DEF EngineStep, EngineStart, EngineDie, EnginePause, EngineUnpause, Change,
         Subscribe, StreamBreak, Cancel, Missing, AttemptLost, GhostsOK, Reasons
<1>2. EngineOK'
  <2>1. ASSUME NEW id \in IDs, NEW type \in EventTypes,
               NEW state \in [alive : BOOLEAN, inc : Nat, proj : Projects,
                              paused : BOOLEAN],
               Change(id, type, state)
        PROVE  EngineOK'
    <3>1. engine' \in [IDs -> [alive : BOOLEAN, inc : Nat, proj : Projects,
                               paused : BOOLEAN]]
      BY <2>1 DEF EngineOK, Change
    <3>2. ops' \in 0..MaxOps
      BY <2>1, BoundsAssumption DEF EngineOK, Change
    <3>3. stream' \in Seq(Events)
      <4>1. [type |-> type, id |-> id,
               proj |-> IF EventsNameProject THEN state.proj ELSE ProjectUnknown]
              \in Events
        BY DEF Events
      <4> QED
        BY <2>1, <4>1 DEF EngineOK, Change
    <3> QED
      BY <2>1, <3>1, <3>2, <3>3 DEF EngineOK, Change
  <2>2. CASE EngineStep
    <3> PICK id \in IDs : EngineStart(id) \/ EngineDie(id) \/ EnginePause(id) \/ EngineUnpause(id)
      BY <2>2 DEF EngineStep
    <3> engine[id] \in [alive : BOOLEAN, inc : Nat, proj : Projects, paused : BOOLEAN]
      BY DEF EngineOK
    <3>1. CASE EngineStart(id)
      <4> PICK proj \in ProjectsOf[id] :
             Change(id, Started, [alive |-> TRUE, inc |-> engine[id].inc + 1,
                                  proj |-> proj, paused |-> FALSE])
        BY <3>1 DEF EngineStart
      <4>1. proj \in Projects
        BY ProjectsAssumption
      <4>2. [alive |-> TRUE, inc |-> engine[id].inc + 1, proj |-> proj,
             paused |-> FALSE]
              \in [alive : BOOLEAN, inc : Nat, proj : Projects, paused : BOOLEAN]
        BY <4>1
      <4> QED
        BY <2>1, <4>2 DEF EventTypes
    <3>2. CASE EngineDie(id)
      BY <2>1, <3>2 DEF EngineDie, EventTypes
    <3>3. CASE EnginePause(id)
      BY <2>1, <3>3 DEF EnginePause, EventTypes
    <3>4. CASE EngineUnpause(id)
      BY <2>1, <3>4 DEF EngineUnpause, EventTypes
    <3> QED
      BY <3>1, <3>2, <3>3, <3>4
  <2>3. CASE Subscribe \/ StreamBreak \/ Cancel
    BY <2>3 DEF Subscribe, StreamBreak, Cancel, EngineOK
  <2> QED
    BY <2>2, <2>3
<1>3. WatchOK' /\ FieldsOK' /\ ListsOK' /\ GhostsOK'
  BY <1>1 DEF WatchOK, FieldsOK, ListsOK, GhostsOK
<1>4. EventFits' /\ GateHeldByMerger' /\ ReplaysPauses' /\ NotBegun'
  BY <1>1 DEF EventFits, GateHeldByMerger, ReplaysPauses, NotBegun
<1> QED
  BY <1>2, <1>3, <1>4

LEMMA TypeControl ==
    ASSUME TypeInv,
           TryFail \/ BeginAttempt \/ RecvErr \/ RecvListErr \/ Retry \/ GiveUp
    PROVE  TypeInv'
<1> USE DEF TypeInv, TypeOK, engineVars, streamVars, watchVars, gateVars, pfVars, listVars
<1>1. CASE TryFail \/ Retry \/ GiveUp \/ RecvErr \/ RecvListErr
  <2> USE <1>1 DEF TryFail, Retry, GiveUp, RecvErr, RecvListErr
  <2>1. EngineOK'
    <3>1. UNCHANGED <<engine, ops, cancelled>>
      OBVIOUS
    <3>2. sub' \in {"off", "pending", "live", "broken"}
      BY DEF EngineOK
    <3>3. stream \in Seq(Events) /\ <<>> \in Seq(Events)
      BY DEF EngineOK
    <3>4. stream' \in Seq(Events)
      BY <3>3
    <3> QED
      BY <3>1, <3>2, <3>4, EngineKept
  <2>2. WatchOK'
    BY DEF WatchOK, WatchPCs
  <2>3. FieldsOK' /\ ListsOK'
    BY DEF FieldsOK, ListsOK
  <2>4. GhostsOK'
    BY DEF GhostsOK, AttemptLost
  <2>5. EventFits' /\ GateHeldByMerger' /\ ReplaysPauses' /\ NotBegun'
    BY DEF EventFits, HandlingPCs, GateHeldByMerger, ReplaysPauses, NotBegun
  <2> QED
    BY <2>1, <2>2, <2>3, <2>4, <2>5
<1>2. CASE BeginAttempt
  <2> USE <1>2 DEF BeginAttempt, WrittenFrom, ReadFrom
  <2>0. attempt + 1 \in Lists /\ attempt + 1 \in Portfolios
    BY BoundsAssumption DEF WatchOK, Lists, Portfolios
  <2>1. EngineOK'
    BY DEF EngineOK
  <2>2. WatchOK'
    BY <2>0 DEF WatchOK, WatchPCs, Lists
  <2>3. FieldsOK'
    BY <2>0 DEF FieldsOK
  <2>4. ListsOK'
    BY <2>0 DEF ListsOK, ListPCs
  <2>5. GhostsOK'
    BY DEF GhostsOK, Reasons
  <2>6. lpc[attempt + 1] = "none" /\ gate # attempt + 1
    BY <2>0 DEF NotBegun, GateHeldByMerger, WatchOK
  <2>7. EventFits' /\ GateHeldByMerger' /\ ReplaysPauses'
    BY <2>0, <2>6 DEF EventFits, HandlingPCs, GateHeldByMerger, ReplaysPauses, ListsOK
  <2>8. NotBegun'
    BY <2>0 DEF NotBegun, ListsOK, WatchOK, Lists
  <2> QED
    BY <2>1, <2>2, <2>3, <2>4, <2>5, <2>7, <2>8
<1> QED
  BY <1>1, <1>2

\* The steps on an event leave the engine, the gate's holder and the listings
\* alone; what remains to show is stated here once.
LEMMA TypeHandling ==
    ASSUME TypeInv,
           UNCHANGED <<engineVars, cancelled, attempt, readpf, writepf, gate,
                       listinprogress, ready, listVars>>,
           sub' = sub, stream' \in Seq(Events),
           WatchOK', EventFits', GhostsOK', ReplaysPauses',
           pfs' \in [Portfolios -> SUBSET Containers],
           bluenorwegians' \in SUBSET IDs,
           pauses' \in [IDs -> {"none", Paused, Unpaused}]
    PROVE  TypeInv'
<1> USE DEF TypeInv, TypeOK, engineVars, listVars
<1>1. EngineOK'
  <2>1. UNCHANGED <<engine, ops, cancelled>> /\ sub' \in {"off", "pending", "live", "broken"}
    BY DEF EngineOK
  <2> QED
    BY <2>1, EngineKept
<1>2. FieldsOK'
  BY DEF FieldsOK
<1>3. ListsOK' /\ GateHeldByMerger' /\ NotBegun'
  BY DEF ListsOK, GateHeldByMerger, NotBegun
<1> QED
  BY <1>1, <1>2, <1>3

LEMMA TypeHandle == ASSUME TypeInv, HandleEvent PROVE TypeInv'
<1> USE DEF TypeInv, TypeOK, engineVars, streamVars, watchVars, gateVars, pfVars, listVars
<1>1. stream \in Seq(Events) /\ evt \in Events \union {NoEvent}
  BY DEF EngineOK, WatchOK
<1>2. CASE RecvEvent
  <2> USE <1>2 DEF RecvEvent
  <2>1. Head(stream) \in Events /\ Tail(stream) \in Seq(Events)
    BY <1>1
  <2>2. Head(stream).type \in EventTypes
    BY <2>1 DEF Events
  <2>3. WatchOK' /\ EventFits'
    BY <2>1, <2>2 DEF WatchOK, WatchPCs, EventFits, HandlingPCs, EventTypes,
                      Started, Exited, Paused, Unpaused
  <2>4. GhostsOK' /\ ReplaysPauses' /\ FieldsOK'
    BY DEF GhostsOK, ReplaysPauses, FieldsOK
  <2> QED
    BY <2>1, <2>3, <2>4, TypeHandling DEF FieldsOK
<1>3. CASE BornInspect
  <2> USE <1>3 DEF BornInspect
  <2>1. evt \in Events /\ evt.id \in IDs
    BY DEF EventFits, HandlingPCs, Events
  <2>2. Snapshot(evt.id) \in Containers
    BY <2>1, SnapshotType
  <2>3. WatchOK' /\ EventFits'
    BY <2>1, <2>2 DEF WatchOK, WatchPCs, EventFits, HandlingPCs, ToLoop
  <2>4. GhostsOK'
    BY DEF GhostsOK, Missing, Reasons
  <2>5. ReplaysPauses' /\ FieldsOK'
    BY DEF ReplaysPauses, FieldsOK
  <2> QED
    BY <1>1, <2>3, <2>4, <2>5, TypeHandling DEF FieldsOK
<1>4. CASE BornAdd
  <2> USE <1>4 DEF BornAdd
  <2> PICK c \in held :
        /\ pfs' = [pfs EXCEPT ![writepf] = PfAdd(@, c)]
        /\ ToNotify(IF PfAdds(pfs[writepf], c) THEN held ELSE {})
    OBVIOUS
  <2>1. c \in Containers /\ pfs[writepf] \in SUBSET Containers
    BY DEF WatchOK, FieldsOK
  <2>2. pfs' \in [Portfolios -> SUBSET Containers]
    BY <2>1 DEF FieldsOK, PfAdd
  <2>3. WatchOK' /\ EventFits'
    BY DEF WatchOK, WatchPCs, EventFits, HandlingPCs, ToNotify, ToLoop
  <2>4. GhostsOK' /\ ReplaysPauses'
    BY DEF GhostsOK, ReplaysPauses
  <2> QED
    BY <1>1, <2>2, <2>3, <2>4, TypeHandling DEF FieldsOK
<1>5. CASE DemiseGate
  <2> USE <1>5 DEF DemiseGate
  <2>1. evt \in Events /\ evt.id \in IDs
    BY DEF EventFits, HandlingPCs, Events
  <2>2. bluenorwegians' \in SUBSET IDs /\ pauses' \in [IDs -> {"none", Paused, Unpaused}]
    BY <2>1 DEF FieldsOK
  <2>3. WatchOK' /\ EventFits'
    BY <2>1 DEF WatchOK, WatchPCs, EventFits, HandlingPCs
  <2>4. GhostsOK'
    BY DEF GhostsOK
  <2>5. ReplaysPauses'
    BY DEF ReplaysPauses, GateHeldByMerger, Lists
  <2> QED
    BY <1>1, <2>2, <2>3, <2>4, <2>5, TypeHandling DEF FieldsOK
<1>6. CASE DemiseRemove
  <2> USE <1>6 DEF DemiseRemove
  <2>1. evt \in Events /\ evt.id \in IDs /\ pfs[writepf] \in SUBSET Containers
    BY DEF EventFits, HandlingPCs, Events, FieldsOK
  <2>2. /\ pfs' \in [Portfolios -> SUBSET Containers]
        /\ WatchOK' /\ EventFits'
    <3>1. CASE ToLoop /\ UNCHANGED pfs
      BY <3>1 DEF ToLoop, FieldsOK, WatchOK, WatchPCs, EventFits, HandlingPCs
    <3>2. ASSUME NEW proj,
                 pfs' = [pfs EXCEPT ![writepf] = PfRemove(@, evt.id, proj)],
                 ToNotify(InProject(pfs[writepf], evt.id, proj))
          PROVE  /\ pfs' \in [Portfolios -> SUBSET Containers]
                 /\ WatchOK' /\ EventFits'
      <4>1. /\ PfRemove(pfs[writepf], evt.id, proj) \in SUBSET Containers
            /\ InProject(pfs[writepf], evt.id, proj) \in SUBSET Containers
        BY <2>1 DEF PfRemove, InProject
      <4> HIDE DEF DemiseRemove
      <4>2. pfs' \in [Portfolios -> SUBSET Containers]
        BY <3>2, <4>1 DEF FieldsOK
      <4>3. WatchOK' /\ EventFits'
        BY <3>2, <4>1, <2>1
        DEF DemiseRemove, ToNotify, ToLoop, WatchOK, WatchPCs, EventFits, HandlingPCs
      <4> QED
        BY <4>2, <4>3
    <3> QED
      BY <3>1, <3>2
  <2>3. GhostsOK' /\ ReplaysPauses'
    BY DEF GhostsOK, ReplaysPauses
  <2> QED
    BY <1>1, <2>2, <2>3, TypeHandling DEF FieldsOK
<1>7. CASE PauseGate
  <2> USE <1>7 DEF PauseGate
  <2>1. evt \in Events /\ evt.id \in IDs /\ evt.type \in {Paused, Unpaused}
    BY DEF EventFits, HandlingPCs, Events
  <2>2. pauses' \in [IDs -> {"none", Paused, Unpaused}]
    BY <2>1 DEF FieldsOK
  <2>3. WatchOK' /\ EventFits'
    BY <2>1 DEF WatchOK, WatchPCs, EventFits, HandlingPCs, ToLoop
  <2>4. GhostsOK'
    BY DEF GhostsOK
  <2>5. ReplaysPauses'
    BY DEF ReplaysPauses, GateHeldByMerger, Lists
  <2> QED
    BY <1>1, <2>2, <2>3, <2>4, <2>5, TypeHandling DEF FieldsOK
<1>8. CASE PauseApply
  <2> USE <1>8 DEF PauseApply
  <2>1. evt \in Events /\ evt.id \in IDs /\ pfs[writepf] \in SUBSET Containers
    BY DEF EventFits, HandlingPCs, Events, FieldsOK
  <2>2. /\ pfs' \in [Portfolios -> SUBSET Containers]
        /\ WatchOK' /\ EventFits'
    <3>1. CASE ToLoop /\ UNCHANGED pfs
      BY <3>1 DEF ToLoop, FieldsOK, WatchOK, WatchPCs, EventFits, HandlingPCs
    <3>2. ASSUME NEW proj,
                 pfs' = [pfs EXCEPT ![writepf] =
                           PfSetPaused(@, evt.id, proj, evt.type = Paused)],
                 ToNotify(InProject(pfs'[writepf], evt.id, proj))
          PROVE  /\ pfs' \in [Portfolios -> SUBSET Containers]
                 /\ WatchOK' /\ EventFits'
      <4>1. (evt.type = Paused) \in BOOLEAN
        OBVIOUS
      <4>2. PfSetPaused(pfs[writepf], evt.id, proj, evt.type = Paused) \in SUBSET Containers
        <5> DEFINE b == evt.type = Paused
        <5> HIDE DEF b
        <5>1. b \in BOOLEAN
          BY DEF b
        <5>2. \A d \in Containers : [d EXCEPT !.paused = b] \in Containers
          BY <5>1 DEF Containers
        <5>3. PfSetPaused(pfs[writepf], evt.id, proj, b) \in SUBSET Containers
          BY <2>1, <5>2 DEF PfSetPaused, PfRemove, InProject
        <5> QED
          BY <5>3 DEF b
      <4> HIDE DEF PauseApply
      <4>3. pfs' \in [Portfolios -> SUBSET Containers]
        BY <3>2, <4>2 DEF FieldsOK
      <4>4. InProject(pfs'[writepf], evt.id, proj) \in SUBSET Containers
        BY <4>3 DEF InProject, FieldsOK
      <4>5. WatchOK' /\ EventFits'
        BY <3>2, <4>4, <2>1
        DEF PauseApply, ToNotify, ToLoop, WatchOK, WatchPCs, EventFits, HandlingPCs
      <4> QED
        BY <4>3, <4>5
    <3> QED
      BY <3>1, <3>2
  <2>3. GhostsOK' /\ ReplaysPauses'
    BY DEF GhostsOK, ReplaysPauses
  <2> QED
    BY <1>1, <2>2, <2>3, TypeHandling DEF FieldsOK
<1>9. CASE Notify
  <2> USE <1>9 DEF Notify
  <2>1. GhostsOK'
    BY HeardType DEF GhostsOK, WatchOK
  <2>2. WatchOK' /\ EventFits'
    BY DEF WatchOK, WatchPCs, EventFits, HandlingPCs, ToLoop
  <2>3. ReplaysPauses' /\ FieldsOK'
    BY DEF ReplaysPauses, FieldsOK
  <2> QED
    BY <1>1, <2>1, <2>2, <2>3, TypeHandling DEF FieldsOK
<1> QED
  BY <1>2, <1>3, <1>4, <1>5, <1>6, <1>7, <1>8, <1>9 DEF HandleEvent

\* The steps of a listing leave the engine, its events and Watch alone.
LEMMA TypeListing ==
    ASSUME TypeInv,
           UNCHANGED <<engineVars, streamVars, cancelled, watchVars, attempt, writepf>>,
           FieldsOK', ListsOK', GhostsOK', GateHeldByMerger', ReplaysPauses', NotBegun'
    PROVE  TypeInv'
<1> USE DEF TypeInv, TypeOK, engineVars, streamVars, watchVars
<1>1. EngineOK'
  <2>1. UNCHANGED <<engine, ops, cancelled>> /\ sub' \in {"off", "pending", "live", "broken"}
    BY DEF EngineOK
  <2>2. stream' \in Seq(Events)
    BY DEF EngineOK
  <2> QED
    BY <2>1, <2>2, EngineKept
<1>2. WatchOK' /\ EventFits'
  BY DEF WatchOK, EventFits
<1> QED
  BY <1>1, <1>2

LEMMA TypeList == ASSUME TypeInv, NEW n \in Lists, ListStep(n) PROVE TypeInv'
<1> USE DEF TypeInv, TypeOK, engineVars, streamVars, watchVars, gateVars, pfVars, listVars
<1>1. n # 0 /\ n \in 0..MaxAttempts /\ 0 \in 0..MaxAttempts
  BY BoundsAssumption DEF Lists
<1>2. lpf[n] \in Portfolios /\ pfs[lpf[n]] \in SUBSET Containers
  BY DEF ListsOK, FieldsOK
<1>3. CASE ListBegin(n)
  <2> USE <1>3 DEF ListBegin
  <2>1. FieldsOK' /\ ListsOK'
    BY DEF FieldsOK, ListsOK, ListPCs
  <2>2. GhostsOK'
    BY DEF GhostsOK, Missing, Reasons
  <2>3. GateHeldByMerger' /\ ReplaysPauses' /\ NotBegun'
    BY <1>1 DEF GateHeldByMerger, ReplaysPauses, NotBegun, ListsOK
  <2> QED
    BY <2>1, <2>2, <2>3, TypeListing
<1>4. CASE ListQuery(n)
  <2> USE <1>4 DEF ListQuery
  <2>1. FieldsOK' /\ ListsOK' /\ GhostsOK'
    BY DEF FieldsOK, ListsOK, ListPCs, GhostsOK, AliveIDs
  <2>2. GateHeldByMerger' /\ ReplaysPauses' /\ NotBegun'
    BY <1>1 DEF GateHeldByMerger, ReplaysPauses, NotBegun, ListsOK
  <2> QED
    BY <2>1, <2>2, TypeListing
<1>5. CASE ListInspect(n)
  <2> USE <1>5 DEF ListInspect
  <2>1. FieldsOK'
    BY DEF FieldsOK
  <2>2. ListsOK'
    <3> PICK id \in todo[n] :
          /\ todo' = [todo EXCEPT ![n] = @ \ {id}]
          /\ found' = [found EXCEPT ![n] = @ \union {Snapshot(id)}] \/ UNCHANGED found
      OBVIOUS
    <3>1. Snapshot(id) \in Containers
      BY SnapshotType DEF ListsOK
    <3> QED
      BY <3>1 DEF ListsOK
  <2>3. GhostsOK'
    BY DEF GhostsOK, Missing, Reasons
  <2>4. GateHeldByMerger' /\ ReplaysPauses' /\ NotBegun'
    BY <1>1 DEF GateHeldByMerger, ReplaysPauses, NotBegun, ListsOK
  <2> QED
    BY <2>1, <2>2, <2>3, <2>4, TypeListing
<1>6. CASE ListFail(n)
  <2> USE <1>6 DEF ListFail, CloseReady
  <2>1. FieldsOK' /\ ListsOK' /\ GhostsOK'
    BY DEF FieldsOK, ListsOK, ListPCs, GhostsOK
  <2>2. GateHeldByMerger' /\ ReplaysPauses' /\ NotBegun'
    BY <1>1 DEF GateHeldByMerger, ReplaysPauses, NotBegun, ListsOK
  <2> QED
    BY <2>1, <2>2, TypeListing
<1>7. CASE ListLock(n)
  <2> USE <1>7 DEF ListLock, PausesPending
  <2>1. FieldsOK' /\ ListsOK' /\ GhostsOK'
    BY <1>1 DEF FieldsOK, ListsOK, ListPCs, GhostsOK
  <2>2. GateHeldByMerger'
    BY <1>1 DEF GateHeldByMerger, ListsOK, Lists
  <2>3. ReplaysPauses' /\ NotBegun'
    BY <1>1 DEF GateHeldByMerger, ReplaysPauses, NotBegun, ListsOK, Lists
  <2> QED
    BY <2>1, <2>2, <2>3, TypeListing
<1>8. CASE ListMerge(n)
  <2> USE <1>8 DEF ListMerge
  <2> PICK c \in found[n] :
        /\ found' = [found EXCEPT ![n] = @ \ {c}]
        /\ IF Merges(n, c)
           THEN /\ pfs' = [pfs EXCEPT ![lpf[n]] = PfAdd(@, c)]
                /\ note' = [note EXCEPT ![n] = {[type |-> Started, cntr |-> c]}]
                /\ lpc' = [lpc EXCEPT ![n] = "announce"]
           ELSE UNCHANGED <<pfs, note, lpc>>
    OBVIOUS
  <2>1. c \in Containers
    BY DEF ListsOK
  <2>2. PfAdd(pfs[lpf[n]], c) \in SUBSET Containers
    BY <1>2, <2>1 DEF PfAdd
  <2>3. FieldsOK'
    BY <1>2, <2>2 DEF FieldsOK
  <2>4. [type |-> Started, cntr |-> c] \in [type : EventTypes, cntr : Containers]
    BY <2>1 DEF EventTypes
  <2>5. ListsOK'
    BY <2>4 DEF ListsOK, ListPCs
  <2>6. GhostsOK'
    BY DEF GhostsOK
  <2>7. GateHeldByMerger' /\ ReplaysPauses' /\ NotBegun'
    BY <1>1 DEF GateHeldByMerger, ReplaysPauses, NotBegun, ListsOK
  <2> QED
    BY <2>3, <2>5, <2>6, <2>7, TypeListing
<1>9. CASE ListReplay(n)
  <2> USE <1>9 DEF ListReplay
  <2> PICK id \in todo[n] :
        /\ todo' = [todo EXCEPT ![n] = @ \ {id}]
        /\ \/ UNCHANGED <<pfs, note, lpc>>
           \/ \E proj \in {c.proj : c \in ByID(pfs[lpf[n]], id)} :
                /\ pfs' = [pfs EXCEPT ![lpf[n]] =
                             PfSetPaused(@, id, proj, pauses[id] = Paused)]
                /\ note' = [note EXCEPT ![n] =
                              {[type |-> pauses[id], cntr |-> c]
                                 : c \in InProject(pfs'[lpf[n]], id, proj)}]
                /\ lpc' = [lpc EXCEPT ![n] = "announce"]
    OBVIOUS
  <2>1. id \in IDs /\ pauses[id] \in EventTypes
    BY DEF ListsOK, FieldsOK, ReplaysPauses, EventTypes
  <2>2. ASSUME NEW proj,
               pfs' = [pfs EXCEPT ![lpf[n]] =
                         PfSetPaused(@, id, proj, pauses[id] = Paused)]
        PROVE  /\ pfs' \in [Portfolios -> SUBSET Containers]
               /\ {[type |-> pauses[id], cntr |-> c]
                    : c \in InProject(pfs'[lpf[n]], id, proj)}
                   \in SUBSET [type : EventTypes, cntr : Containers]
    <3> HIDE DEF ListReplay
    <3> DEFINE b == pauses[id] = Paused
    <3> HIDE DEF b
    <3>1. b \in BOOLEAN
      BY DEF b
    <3>2. \A d \in Containers : [d EXCEPT !.paused = b] \in Containers
      BY <3>1 DEF Containers
    <3>3. PfSetPaused(pfs[lpf[n]], id, proj, b) \in SUBSET Containers
      BY <1>2, <3>2 DEF PfSetPaused, PfRemove, InProject
    <3>4. pfs' \in [Portfolios -> SUBSET Containers]
      BY <2>2, <3>3 DEF b, FieldsOK
    <3>5. InProject(pfs'[lpf[n]], id, proj) \in SUBSET Containers
      BY <1>2, <3>4 DEF InProject
    <3> QED
      BY <2>1, <3>4, <3>5
  <2>3. FieldsOK'
    BY <2>2 DEF FieldsOK
  <2>4. ListsOK'
    BY <2>2 DEF ListsOK, ListPCs
  <2>5. GhostsOK'
    BY DEF GhostsOK
  <2>6. GateHeldByMerger' /\ ReplaysPauses' /\ NotBegun'
    BY <1>1 DEF GateHeldByMerger, ReplaysPauses, NotBegun, ListsOK
  <2> QED
    BY <2>3, <2>4, <2>5, <2>6, TypeListing
<1>10. CASE ListAnnounce(n)
  <2> USE <1>10 DEF ListAnnounce
  <2>1. FieldsOK' /\ ListsOK'
    BY DEF FieldsOK, ListsOK, ListPCs
  <2>2. GhostsOK'
    <3> PICK e \in note[n] : view' = Heard(view, e.type, e.cntr)
      OBVIOUS
    <3>1. e.cntr \in Containers
      BY DEF ListsOK
    <3> QED
      BY <3>1, HeardType DEF GhostsOK
  <2>3. GateHeldByMerger' /\ ReplaysPauses' /\ NotBegun'
    BY <1>1 DEF GateHeldByMerger, ReplaysPauses, NotBegun, ListsOK
  <2> QED
    BY <2>1, <2>2, <2>3, TypeListing
<1>11. CASE ListUnlock(n)
  <2> USE <1>11 DEF ListUnlock, ClearAside, OpenGate, CloseReady
  <2>1. FieldsOK'
    BY <1>1 DEF FieldsOK, NoPauses
  <2>2. ListsOK' /\ GhostsOK'
    BY DEF ListsOK, ListPCs, GhostsOK
  <2>3. GateHeldByMerger'
    BY <1>1 DEF GateHeldByMerger, ListsOK, Lists
  <2>4. ReplaysPauses' /\ NotBegun'
    BY <1>1, <2>3 DEF GateHeldByMerger, ReplaysPauses, NotBegun, ListsOK, Lists
  <2> QED
    BY <2>1, <2>2, <2>3, <2>4, TypeListing
<1>12. CASE Publish(n)
  <2> USE <1>12 DEF Publish
  <2>1. FieldsOK' /\ ListsOK' /\ GhostsOK'
    BY DEF FieldsOK, ListsOK, ListPCs, GhostsOK
  <2>2. GateHeldByMerger' /\ ReplaysPauses' /\ NotBegun'
    BY <1>1 DEF GateHeldByMerger, ReplaysPauses, NotBegun, ListsOK
  <2> QED
    BY <2>1, <2>2, TypeListing
<1> QED
  BY <1>3, <1>4, <1>5, <1>6, <1>7, <1>8, <1>9, <1>10, <1>11, <1>12 DEF ListStep

LEMMA TypeNext == ASSUME TypeInv, [Next]_vars PROVE TypeInv'
<1>1. CASE EngineStep \/ Subscribe \/ StreamBreak \/ Cancel
  BY <1>1, TypeEngine
<1>2. CASE WatchStep
  BY <1>2, TypeControl, TypeHandle DEF WatchStep
<1>3. CASE \E n \in Lists : ListStep(n)
  BY <1>3, TypeList
<1>4. CASE Terminated \/ UNCHANGED vars
  <2>1. UNCHANGED vars
    BY <1>4 DEF Terminated
  <2> QED
    BY <2>1
    DEF TypeInv, TypeOK, EngineOK, WatchOK, FieldsOK, ListsOK, GhostsOK, EventFits,
        GateHeldByMerger, ReplaysPauses, NotBegun, vars, engineVars, streamVars,
        watchVars, gateVars, pfVars, listVars
<1> QED
  BY <1>1, <1>2, <1>3, <1>4 DEF Next

\* Every variable keeps to its type, in particular what a listing announces:
\* the event gate keeps the pauses it replays from changing under it.
THEOREM TypeCorrect == Spec => []TypeOK
<1>1. Spec => []TypeInv
  BY TypeInit, TypeNext, PTL DEF Spec
<1> QED
  BY <1>1, PTL DEF TypeInv
-----------------------------------------------------------------------------
\* The steps that touch what is set aside for a listing are few.
LEMMA AsideSteps ==
    ASSUME [Next]_vars
    PROVE  \/ UNCHANGED <<listinprogress, bluenorwegians, pauses>>
           \/ DemiseGate \/ PauseGate
           \/ \E n \in Lists : ListBegin(n) \/ ListUnlock(n)
<1> USE DEF gateVars
<1>1. CASE EngineStep \/ Subscribe \/ StreamBreak \/ Cancel
  BY <1>1 DEF EngineStep, EngineStart, EngineDie, EnginePause, EngineUnpause, Change,
              Subscribe, StreamBreak, Cancel
<1>2. CASE WatchStep
  BY <1>2 DEF WatchStep, TryFail, BeginAttempt, RecvErr, RecvListErr, Retry, GiveUp,
              HandleEvent, RecvEvent, BornInspect, BornAdd, DemiseRemove, PauseApply,
              Notify
<1>3. CASE \E n \in Lists : ListStep(n)
  BY <1>3 DEF ListStep, ListQuery, ListInspect, ListFail, ListLock, ListMerge,
              ListReplay, ListAnnounce, Publish
<1>4. CASE Terminated \/ UNCHANGED vars
  BY <1>4 DEF Terminated, vars
<1> QED
  BY <1>1, <1>2, <1>3, <1>4 DEF Next

LEMMA AsideNext ==
    ASSUME AsideOnlyWhileListing, [Next]_vars
    PROVE  AsideOnlyWhileListing'
<1> USE DEF AsideOnlyWhileListing
<1>1. CASE UNCHANGED <<listinprogress, bluenorwegians, pauses>>
  BY <1>1 DEF NoPauses
<1>2. CASE DemiseGate
  BY <1>2 DEF DemiseGate, NoPauses
<1>3. CASE PauseGate
  BY <1>3 DEF PauseGate, NoPauses
<1>4. CASE \E n \in Lists : ListBegin(n) \/ ListUnlock(n)
  BY <1>4 DEF ListBegin, ListUnlock, ClearAside, NoPauses
<1> QED
  BY <1>1, <1>2, <1>3, <1>4, AsideSteps

\* However listings overlap, once one completes nothing stale is left for the
\* next: clearing under the event gate is enough, and nobody adds afterwards.
THEOREM AsideCorrect == Spec => []AsideOnlyWhileListing
<1>1. Init => AsideOnlyWhileListing
  BY DEF Init, AsideOnlyWhileListing
<1>2. AsideOnlyWhileListing /\ [Next]_vars => AsideOnlyWhileListing'
  BY AsideNext
<1> QED
  BY <1>1, <1>2, PTL DEF Spec
-----------------------------------------------------------------------------
LEMMA PublishInit == Init => OnlyThisListing /\ MergesIntoWritten
BY DEF Init, OnlyThisListing, MergesIntoWritten, Active

LEMMA PublishNext ==
    ASSUME PublishInv, [Next]_vars
    PROVE  OnlyThisListing' /\ MergesIntoWritten'
<1> USE DEF PublishInv, OnlyThisListing, MergesIntoWritten, Active, listVars, pfVars
<1>1. CASE UNCHANGED <<lpc, lpf, attempt, writepf>> /\ ("overlap" \in gap => "overlap" \in gap')
  BY <1>1
<1>2. CASE EngineStep \/ Subscribe \/ StreamBreak \/ Cancel
  <2>1. UNCHANGED <<lpc, lpf, attempt, writepf>> /\ ("overlap" \in gap => "overlap" \in gap')
    BY <1>2 DEF EngineStep, EngineStart, EngineDie, EnginePause, EngineUnpause, Change,
                Subscribe, StreamBreak, Cancel, Missing, AttemptLost
  <2> QED
    BY <2>1, <1>1
<1>3. CASE BeginAttempt
  <2>1. attempt + 1 \in Lists /\ attempt \in Nat
    BY <1>3, BoundsAssumption DEF BeginAttempt, TypeInv, TypeOK, WatchOK, Lists
  <2> USE DEF TypeInv, TypeOK, ListsOK
  <2>2. OnlyThisListing'
    BY <1>3, <2>1 DEF BeginAttempt
  <2>3. MergesIntoWritten'
    BY <1>3, <2>1 DEF BeginAttempt
  <2> QED
    BY <2>2, <2>3
<1>4. CASE WatchStep /\ ~BeginAttempt
  <2>1. UNCHANGED <<lpc, lpf, attempt, writepf>> /\ ("overlap" \in gap => "overlap" \in gap')
    BY <1>4 DEF WatchStep, TryFail, RecvErr, RecvListErr, Retry, GiveUp,
                HandleEvent, RecvEvent, BornInspect, BornAdd, DemiseGate, DemiseRemove,
                PauseGate, PauseApply, Notify, Missing, AttemptLost
  <2> QED
    BY <2>1, <1>1
<1>5. ASSUME NEW n \in Lists, ListStep(n) PROVE OnlyThisListing' /\ MergesIntoWritten'
  <2> USE DEF TypeInv, TypeOK, ListsOK
  <2>1. /\ UNCHANGED <<attempt, writepf>>
        /\ "overlap" \in gap => "overlap" \in gap'
        /\ \A m \in Lists : m # n => lpc'[m] = lpc[m] /\ lpf'[m] = lpf[m]
        /\ Active(n)
    BY <1>5 DEF ListStep, ListBegin, ListQuery, ListInspect, ListFail, ListLock,
                ListMerge, ListReplay, ListAnnounce, ListUnlock, Publish, Missing
  <2>2. \/ lpf'[n] = writepf
        \/ lpc'[n] \notin {"merge", "announce", "publish", "done"}
        \/ lpf'[n] = lpf[n] /\ lpc[n] \in {"merge", "announce", "publish", "done"}
    BY <1>5 DEF ListStep, ListBegin, ListQuery, ListInspect, ListFail, ListLock,
                ListMerge, ListReplay, ListAnnounce, ListUnlock, Publish
  <2> QED
    BY <2>1, <2>2
<1>6. CASE Terminated \/ UNCHANGED vars
  BY <1>1, <1>6 DEF Terminated, vars
<1> QED
  BY <1>2, <1>3, <1>4, <1>5, <1>6 DEF Next

LEMMA ReaderSteps ==
    ASSUME [Next]_vars
    PROVE  UNCHANGED readpf \/ BeginAttempt \/ \E n \in Lists : Publish(n)
<1> USE DEF pfVars
<1>1. CASE EngineStep \/ Subscribe \/ StreamBreak \/ Cancel
  BY <1>1 DEF EngineStep, EngineStart, EngineDie, EnginePause, EngineUnpause, Change,
              Subscribe, StreamBreak, Cancel
<1>2. CASE WatchStep
  BY <1>2 DEF WatchStep, TryFail, RecvErr, RecvListErr, Retry, GiveUp,
              HandleEvent, RecvEvent, BornInspect, BornAdd, DemiseGate, DemiseRemove,
              PauseGate, PauseApply, Notify
<1>3. CASE \E n \in Lists : ListStep(n)
  BY <1>3 DEF ListStep, ListBegin, ListQuery, ListInspect, ListFail, ListLock,
              ListMerge, ListReplay, ListAnnounce, ListUnlock
<1>4. CASE Terminated \/ UNCHANGED vars
  BY <1>4 DEF Terminated, vars
<1> QED
  BY <1>1, <1>2, <1>3, <1>4 DEF Next

\* Make before break: unless a listing of an earlier attempt still runs, readers
\* who have containers are only given another portfolio once it is synchronized.
THEOREM MakeBeforeBreakCorrect == Spec => MakeBeforeBreak
<1>1. Init => PublishInv
  BY PublishInit, TypeInit DEF PublishInv
<1>2. PublishInv /\ [Next]_vars => PublishInv'
  BY PublishNext, TypeNext DEF PublishInv
<1>3. PublishInv /\ [Next]_vars => [BreaksOnlyWhenMade \/ "overlap" \in gap]_vars
  <2> SUFFICES ASSUME PublishInv, [Next]_vars, "overlap" \notin gap
               PROVE  BreaksOnlyWhenMade
    OBVIOUS
  <2> USE DEF BreaksOnlyWhenMade
  <2>1. CASE UNCHANGED readpf
    BY <2>1
  <2>2. CASE BeginAttempt
    BY <2>2 DEF BeginAttempt, ReadFrom
  <2>3. ASSUME NEW n \in Lists, Publish(n)
        PROVE  BreaksOnlyWhenMade
    <3>1. lpc[n] = "publish" /\ readpf' = writepf
      BY <2>3 DEF Publish
    <3>2. n = attempt
      BY <3>1 DEF PublishInv, OnlyThisListing, Active
    <3>3. Synced(readpf')
      BY <3>1, <3>2 DEF PublishInv, MergesIntoWritten, Synced
    <3> QED
      BY <3>3
  <2> QED
    BY <2>1, <2>2, <2>3, ReaderSteps
<1> QED
  BY <1>1, <1>2, <1>3, PTL DEF Spec, MakeBeforeBreak
-----------------------------------------------------------------------------
\* A further event.
LEMMA ComingAppend ==
    ASSUME NEW s \in Seq(Events), NEW e \in Events, NEW i \in 0..Len(s), NEW id, NEW T
    PROVE  Coming(Append(s, e), i, id, T)
             <=> Coming(s, i, id, T) \/ (e.id = id /\ e.type \in T)
<1> DEFINE t == Append(s, e)
<1>1. /\ Len(s) \in Nat /\ Len(t) = Len(s) + 1 /\ t[Len(s) + 1] = e
      /\ \A j \in 1..Len(s) : t[j] = s[j]
  BY AppendProperties, LenProperties
<1> HIDE DEF t
<1>2. ASSUME Coming(s, i, id, T) PROVE Coming(t, i, id, T)
  BY <1>1, <1>2 DEF Coming
<1>3. ASSUME e.id = id, e.type \in T PROVE Coming(t, i, id, T)
  <2>1. Len(s) + 1 \in 1..Len(t) /\ Len(s) + 1 > i
    BY <1>1
  <2> QED
    BY <1>1, <1>3, <2>1 DEF Coming
<1>4. ASSUME Coming(t, i, id, T) PROVE Coming(s, i, id, T) \/ (e.id = id /\ e.type \in T)
  <2>1. PICK j \in 1..Len(t) : j > i /\ t[j].id = id /\ t[j].type \in T
    BY <1>4 DEF Coming
  <2>2. j \in 1..Len(s) \/ j = Len(s) + 1
    BY <1>1, <2>1
  <2> QED
    BY <1>1, <2>1, <2>2 DEF Coming
<1> QED
  BY <1>2, <1>3, <1>4 DEF t

\* Without the first event.
LEMMA TailOf ==
    ASSUME NEW s \in Seq(Events), s # <<>>
    PROVE  /\ Tail(s) \in Seq(Events) /\ Len(Tail(s)) \in Nat
           /\ Len(s) = Len(Tail(s)) + 1
           /\ \A j \in 1..Len(Tail(s)) : Tail(s)[j] = s[j + 1]
BY HeadTailProperties, LenProperties

LEMMA ComingTail ==
    ASSUME NEW s \in Seq(Events), s # <<>>, NEW i \in Nat, NEW id, NEW T
    PROVE  Coming(Tail(s), i, id, T) <=> Coming(s, i + 1, id, T)
<1> DEFINE t == Tail(s)
<1>1. /\ Len(t) \in Nat /\ Len(s) = Len(t) + 1 /\ \A j \in 1..Len(t) : t[j] = s[j + 1]
  BY TailOf
<1> HIDE DEF t
<1>2. ASSUME Coming(t, i, id, T) PROVE Coming(s, i + 1, id, T)
  <2>1. PICK j \in 1..Len(t) : j > i /\ t[j].id = id /\ t[j].type \in T
    BY <1>2 DEF Coming
  <2>2. j + 1 \in 1..Len(s) /\ j + 1 > i + 1 /\ s[j + 1] = t[j]
    BY <1>1, <2>1
  <2> QED
    BY <2>1, <2>2 DEF Coming
<1>3. ASSUME Coming(s, i + 1, id, T) PROVE Coming(t, i, id, T)
  <2>1. PICK j \in 1..Len(s) : j > i + 1 /\ s[j].id = id /\ s[j].type \in T
    BY <1>3 DEF Coming
  <2>2. j - 1 \in 1..Len(t) /\ j - 1 > i /\ (j - 1) + 1 = j
    BY <1>1, <2>1
  <2>3. t[j - 1] = s[j]
    BY <1>1, <2>2
  <2> QED
    BY <2>1, <2>2, <2>3 DEF Coming
<1> QED
  BY <1>2, <1>3 DEF t

\* The first one, and the others.
LEMMA ComingFirst ==
    ASSUME NEW s \in Seq(Events), s # <<>>, NEW id, NEW T
    PROVE  Coming(s, 0, id, T)
             <=> Coming(s, 1, id, T) \/ (s[1].id = id /\ s[1].type \in T)
<1>1. Len(s) \in Nat /\ 1 \in 1..Len(s)
  BY TailOf
<1>2. \A j \in 1..Len(s) : j > 0 /\ (j > 1 \/ j = 1)
  BY <1>1
<1> QED
  BY <1>1, <1>2 DEF Coming

LEMMA ExitFirstAppend ==
    ASSUME NEW s \in Seq(Events), NEW e \in Events, NEW i \in 0..Len(s), NEW id,
           ExitFirst(s, i, id),
           e.id = id /\ e.type = Started => Coming(s, i, id, {Exited})
    PROVE  ExitFirst(Append(s, e), i, id)
<1> DEFINE t == Append(s, e)
<1>1. /\ Len(s) \in Nat /\ Len(t) = Len(s) + 1 /\ t[Len(s) + 1] = e
      /\ \A j \in 1..Len(s) : t[j] = s[j] /\ j \in 1..Len(t) /\ j < Len(s) + 1
  BY AppendProperties, LenProperties
<1> HIDE DEF t
<1> SUFFICES ASSUME NEW m \in 1..Len(t), m > i, t[m].id = id, t[m].type = Started
             PROVE  \E j \in 1..Len(t) : j > i /\ j < m /\ t[j].id = id
                                           /\ t[j].type = Exited
  BY DEF ExitFirst, t
<1>2. CASE m \in 1..Len(s)
  <2>1. PICK j \in 1..Len(s) : j > i /\ j < m /\ s[j].id = id /\ s[j].type = Exited
    BY <1>1, <1>2 DEF ExitFirst
  <2> QED
    BY <1>1, <2>1
<1>3. CASE m = Len(s) + 1
  <2>1. PICK j \in 1..Len(s) : j > i /\ s[j].id = id /\ s[j].type \in {Exited}
    BY <1>1, <1>3 DEF Coming
  <2> QED
    BY <1>1, <1>3, <2>1
<1> QED
  BY <1>1, <1>2, <1>3

LEMMA ExitFirstTail ==
    ASSUME NEW s \in Seq(Events), s # <<>>, NEW i \in Nat, NEW id
    PROVE  ExitFirst(Tail(s), i, id) <=> ExitFirst(s, i + 1, id)
<1> DEFINE t == Tail(s)
<1>1. /\ Len(t) \in Nat /\ Len(s) = Len(t) + 1 /\ \A j \in 1..Len(t) : t[j] = s[j + 1]
  BY TailOf
<1> HIDE DEF t
<1>2. ASSUME NEW m \in 1..Len(t), m > i
      PROVE  m + 1 \in 1..Len(s) /\ m + 1 > i + 1 /\ s[m + 1] = t[m]
  BY <1>1, <1>2
<1>3. ASSUME NEW m \in 1..Len(s), m > i + 1
      PROVE  /\ m - 1 \in 1..Len(t) /\ m - 1 > i /\ t[m - 1] = s[m]
  <2>1. m - 1 \in 1..Len(t) /\ m - 1 > i /\ (m - 1) + 1 = m
    BY <1>1, <1>3
  <2> QED
    BY <1>1, <2>1
<1>4. ASSUME ExitFirst(t, i, id) PROVE ExitFirst(s, i + 1, id)
  <2> SUFFICES ASSUME NEW m \in 1..Len(s), m > i + 1, s[m].id = id, s[m].type = Started
               PROVE  \E j \in 1..Len(s) : j > i + 1 /\ j < m /\ s[j].id = id
                                             /\ s[j].type = Exited
    BY DEF ExitFirst
  <2>1. PICK j \in 1..Len(t) : j > i /\ j < m - 1 /\ t[j].id = id /\ t[j].type = Exited
    BY <1>3, <1>4 DEF ExitFirst
  <2>2. j + 1 < m
    BY <2>1
  <2> QED
    BY <1>2, <2>1, <2>2
<1>5. ASSUME ExitFirst(s, i + 1, id) PROVE ExitFirst(t, i, id)
  <2> SUFFICES ASSUME NEW m \in 1..Len(t), m > i, t[m].id = id, t[m].type = Started
               PROVE  \E j \in 1..Len(t) : j > i /\ j < m /\ t[j].id = id
                                             /\ t[j].type = Exited
    BY DEF ExitFirst
  <2>1. PICK j \in 1..Len(s) : j > i + 1 /\ j < m + 1 /\ s[j].id = id /\ s[j].type = Exited
    BY <1>2, <1>5 DEF ExitFirst
  <2>2. j - 1 < m
    BY <2>1
  <2> QED
    BY <1>3, <2>1, <2>2
<1> QED
  BY <1>4, <1>5 DEF t

\* Unless the first one is an exit.
LEMMA ExitFirstOthers ==
    ASSUME NEW s \in Seq(Events), s # <<>>, NEW id, ExitFirst(s, 0, id),
           ~(s[1].id = id /\ s[1].type = Exited)
    PROVE  /\ ExitFirst(s, 1, id)
           /\ ~(s[1].id = id /\ s[1].type = Started)
<1>1. Len(s) \in Nat /\ 1 \in 1..Len(s)
  BY TailOf
<1>2. \A j \in 1..Len(s) : j > 0 /\ (j > 1 \/ j = 1) /\ ~(j < 1)
  BY <1>1
<1>3. ExitFirst(s, 1, id)
  <2> SUFFICES ASSUME NEW m \in 1..Len(s), m > 1, s[m].id = id, s[m].type = Started
               PROVE  \E j \in 1..Len(s) : j > 1 /\ j < m /\ s[j].id = id
                                             /\ s[j].type = Exited
    BY DEF ExitFirst
  <2>1. PICK j \in 1..Len(s) : j > 0 /\ j < m /\ s[j].id = id /\ s[j].type = Exited
    BY <1>2 DEF ExitFirst
  <2>2. j # 1
    BY <2>1
  <2> QED
    BY <1>2, <2>1, <2>2
<1>4. ~(s[1].id = id /\ s[1].type = Started)
  <2> SUFFICES ASSUME s[1].id = id, s[1].type = Started PROVE FALSE
    OBVIOUS
  <2>1. PICK j \in 1..Len(s) : j > 0 /\ j < 1
    BY <1>1, <1>2 DEF ExitFirst
  <2> QED
    BY <1>2, <2>1
<1> QED
  BY <1>3, <1>4

\* What is sound stays so without its first event.
LEMMA SoundTail ==
    ASSUME NEW s \in Seq(Events), s # <<>>, NEW eng, SoundOn(s, eng)
    PROVE  SoundOn(Tail(s), eng)
<1> DEFINE t == Tail(s)
<1>1. /\ Len(t) \in Nat /\ Len(s) = Len(t) + 1 /\ \A j \in 1..Len(t) : t[j] = s[j + 1]
  BY TailOf
<1>2. \A i \in 1..Len(t) : \A id, T : Coming(t, i, id, T) <=> Coming(s, i + 1, id, T)
  BY <1>1, ComingTail
<1>3. \A i \in 1..Len(t) : \A id : ExitFirst(t, i, id) <=> ExitFirst(s, i + 1, id)
  BY <1>1, ExitFirstTail
<1> HIDE DEF t
<1> SUFFICES ASSUME NEW i \in 1..Len(t) PROVE SoundAt(t, i, eng[t[i].id])
  BY DEF SoundOn, t
<1>4. i + 1 \in 1..Len(s) /\ t[i] = s[i + 1]
  BY <1>1
<1>5. SoundAt(s, i + 1, eng[t[i].id])
  BY <1>4 DEF SoundOn
<1> QED
  BY <1>2, <1>3, <1>4, <1>5 DEF SoundAt
-----------------------------------------------------------------------------
(***************************************************************************)
(* Portfolios, when each ID has one project.                               *)
(***************************************************************************)
Copy(c, b) == [c EXCEPT !.paused = b]
Without(pf, id) == {c \in pf : c.id # id}
Repaused(pf, id, b) ==
    Without(pf, id) \union {Copy(c, b) : c \in ByID(pf, id)}
FiledPf(pf) == pf \in SUBSET Containers /\ OneEach(pf) /\ \A c \in pf : Filed(c)

\* The operations on a portfolio need not be told the project.
LEMMA OneProjectOps ==
    ASSUME FixedProjects, NEW pf, FiledPf(pf), NEW id \in IDs,
           NEW proj \in ProjectsOf[id], NEW b
    PROVE  /\ InProject(pf, id, proj) = ByID(pf, id)
           /\ PfRemove(pf, id, proj) = Without(pf, id)
           /\ PfSetPaused(pf, id, proj, b) = Repaused(pf, id, b)
<1>1. \A c \in pf : c.id = id => c.proj = proj
  BY DEF FixedProjects, FiledPf, Filed
<1>2. InProject(pf, id, proj) = ByID(pf, id)
  BY <1>1 DEF InProject, ByID
<1>3. PfRemove(pf, id, proj) = Without(pf, id)
  BY <1>2 DEF PfRemove, Without, ByID
<1> QED
  BY <1>2, <1>3 DEF PfSetPaused, Repaused, Copy

\* A container is news if there is none with its ID.
LEMMA OneProjectAdds ==
    ASSUME FixedProjects, NEW pf, FiledPf(pf), NEW c \in Containers, Filed(c)
    PROVE  PfAdds(pf, c) <=> ByID(pf, c.id) = {}
<1>1. c.id \in IDs /\ c.proj \in ProjectsOf[c.id]
  BY DEF Filed, Containers
<1>2. InProject(pf, c.id, c.proj) = ByID(pf, c.id)
  BY <1>1, OneProjectOps
<1> QED
  BY <1>2 DEF PfAdds

\* A copy differs in the pause state only.
LEMMA PausedCopy ==
    ASSUME NEW c \in Containers, NEW b \in BOOLEAN
    PROVE  LET d == Copy(c, b)
           IN  /\ d \in Containers /\ d.id = c.id /\ d.inc = c.inc /\ d.proj = c.proj
               /\ d.paused = b
BY DEF Containers, Copy

\* What a portfolio has of each ID, after removing one,
LEMMA WithoutIs ==
    ASSUME NEW pf, FiledPf(pf), NEW id
    PROVE  /\ FiledPf(Without(pf, id)) /\ Without(pf, id) \subseteq pf
           /\ \A i : ByID(Without(pf, id), i) = IF i = id THEN {} ELSE ByID(pf, i)
BY DEF Without, FiledPf, OneEach, ByID

\* after adding a container,
LEMMA AddedIs ==
    ASSUME NEW pf, FiledPf(pf), NEW c \in Containers, Filed(c), ByID(pf, c.id) = {}
    PROVE  /\ FiledPf(pf \union {c})
           /\ \A i : ByID(pf \union {c}, i) = IF i = c.id THEN {c} ELSE ByID(pf, i)
BY DEF FiledPf, OneEach, ByID

\* and after setting the pause state of one.
LEMMA RepausedIs ==
    ASSUME NEW pf, FiledPf(pf), NEW id, NEW b \in BOOLEAN
    PROVE  /\ FiledPf(Repaused(pf, id, b))
           /\ \A i : ByID(Repaused(pf, id, b), i) =
                      IF i = id THEN {Copy(c, b) : c \in ByID(pf, id)}
                      ELSE ByID(pf, i)
<1> DEFINE new == {Copy(c, b) : c \in ByID(pf, id)}
<1>1. ByID(pf, id) \subseteq Containers
  BY DEF FiledPf, ByID
<1>2. \A d \in new : \E c \in ByID(pf, id) :
         d = Copy(c, b) /\ d \in Containers /\ d.id = c.id /\ d.proj = c.proj
  <2> TAKE d \in new
  <2>1. PICK c \in ByID(pf, id) : d = Copy(c, b)
    OBVIOUS
  <2> QED
    BY <1>1, <2>1, PausedCopy
<1>3. \A d \in new : d \in Containers /\ d.id = id /\ Filed(d)
  BY <1>2 DEF FiledPf, Filed, ByID
<1>4. \A d, e \in new : d = e
  BY <1>2 DEF FiledPf, OneEach, ByID
<1> HIDE DEF new
<1>5. FiledPf(Without(pf, id) \union new)
  BY <1>3, <1>4 DEF FiledPf, OneEach, Without
<1>6. ASSUME NEW i
      PROVE  ByID(Without(pf, id) \union new, i) = IF i = id THEN new ELSE ByID(pf, i)
  BY <1>3 DEF ByID, Without
<1> QED
  BY <1>5, <1>6 DEF new, Repaused
-----------------------------------------------------------------------------
(***************************************************************************)
(* What the steps that change a portfolio do, when each ID has one project.*)
(***************************************************************************)
Written == pfs[writepf]

\* The portfolios keep to their types, and have one container per ID.
LEMMA PfTypes ==
    ASSUME ShapeInv
    PROVE  /\ pfs \in [Portfolios -> SUBSET Containers] /\ writepf \in Portfolios
           /\ \A n \in Lists : lpf[n] \in Portfolios
           /\ \A p \in Portfolios : FiledPf(pfs[p])
<1>1. /\ pfs \in [Portfolios -> SUBSET Containers] /\ writepf \in Portfolios
      /\ \A n \in Lists : lpf[n] \in Portfolios
  BY DEF ShapeInv, PublishInv, TypeInv, TypeOK, FieldsOK, ListsOK
<1>2. PfsFiled(pfs)
  BY DEF ShapeInv, FiledOK
<1>3. \A p \in Portfolios : FiledPf(pfs[p])
  BY <1>1, <1>2 DEF PfsFiled, FiledPf
<1> QED
  BY <1>1, <1>3

\* The event at hand is about an ID, and fits its projects.
LEMMA HandIs ==
    ASSUME ShapeInv, wpc \in HandlingPCs
    PROVE  /\ evt \in Events /\ evt.id \in IDs /\ evt.type \in EventTypes
           /\ \A proj \in EventProjects : proj \in ProjectsOf[evt.id]
           /\ EventProjects = {} => ByID(Written, evt.id) = {}
<1>1. evt \in Events /\ evt.id \in IDs /\ evt.type \in EventTypes
  BY DEF ShapeInv, PublishInv, TypeInv, EventFits, Events
<1>2. Told(evt)
  BY DEF ShapeInv, FiledOK
<1>3. \A c \in ByID(Written, evt.id) : c.proj \in ProjectsOf[evt.id]
  BY PfTypes DEF FiledPf, Filed, ByID, Written
<1> QED
  BY <1>1, <1>2, <1>3 DEF EventProjects, Told, Written

\* The steps of Watch that change the portfolio that is written,
LEMMA DemiseRemoveDoes ==
    ASSUME FixedProjects, ShapeInv, DemiseRemove
    PROVE  /\ pfs' = [pfs EXCEPT ![writepf] = Without(Written, evt.id)]
           /\ ToNotify(ByID(Written, evt.id))
<1>1. FiledPf(Written) /\ Written \subseteq Containers
  BY PfTypes DEF Written, FiledPf
<1>2. wpc \in HandlingPCs
  BY DEF DemiseRemove, HandlingPCs
<1>3. CASE EventProjects = {} /\ ToLoop /\ UNCHANGED pfs
  <2>1. ByID(Written, evt.id) = {}
    BY <1>2, <1>3, HandIs
  <2>2. Without(Written, evt.id) = Written
    BY <2>1 DEF Without, ByID
  <2>3. pfs' = [pfs EXCEPT ![writepf] = Without(Written, evt.id)]
    BY <1>3, <2>2, PfTypes DEF Written
  <2> QED
    BY <1>3, <2>1, <2>3 DEF ToNotify
<1>4. ASSUME NEW proj \in EventProjects,
             pfs' = [pfs EXCEPT ![writepf] = PfRemove(@, evt.id, proj)],
             ToNotify(InProject(pfs[writepf], evt.id, proj))
      PROVE  /\ pfs' = [pfs EXCEPT ![writepf] = Without(Written, evt.id)]
             /\ ToNotify(ByID(Written, evt.id))
  <2>1. /\ InProject(Written, evt.id, proj) = ByID(Written, evt.id)
        /\ PfRemove(Written, evt.id, proj) = Without(Written, evt.id)
    BY <1>1, <1>2, HandIs, OneProjectOps
  <2> QED
    BY <1>4, <2>1 DEF Written
<1> QED
  BY <1>3, <1>4 DEF DemiseRemove

LEMMA PauseApplyDoes ==
    ASSUME FixedProjects, ShapeInv, PauseApply
    PROVE  /\ pfs' = [pfs EXCEPT ![writepf] =
                        Repaused(Written, evt.id, evt.type = Paused)]
           /\ ToNotify(ByID(pfs'[writepf], evt.id))
<1>1. FiledPf(Written) /\ Written \subseteq Containers
  BY PfTypes DEF Written, FiledPf
<1>2. wpc \in HandlingPCs
  BY DEF PauseApply, HandlingPCs
<1>3. CASE EventProjects = {} /\ ToLoop /\ UNCHANGED pfs
  <2>1. ByID(Written, evt.id) = {}
    BY <1>2, <1>3, HandIs
  <2>2. Repaused(Written, evt.id, evt.type = Paused) = Written
    BY <2>1 DEF Without, ByID, Repaused
  <2>3. pfs' = [pfs EXCEPT ![writepf] = Repaused(Written, evt.id, evt.type = Paused)]
    BY <1>3, <2>2, PfTypes DEF Written
  <2>4. ByID(pfs'[writepf], evt.id) = {}
    BY <1>3, <2>1 DEF Written
  <2> QED
    BY <1>3, <2>3, <2>4 DEF ToNotify
<1>4. ASSUME NEW proj \in EventProjects,
             pfs' = [pfs EXCEPT ![writepf] =
                      PfSetPaused(@, evt.id, proj, evt.type = Paused)],
             ToNotify(InProject(pfs'[writepf], evt.id, proj))
      PROVE  /\ pfs' = [pfs EXCEPT ![writepf] =
                          Repaused(Written, evt.id, evt.type = Paused)]
             /\ ToNotify(ByID(pfs'[writepf], evt.id))
  <2> DEFINE b == evt.type = Paused
  <2>1. b \in BOOLEAN /\ evt.id \in IDs /\ proj \in ProjectsOf[evt.id]
    BY <1>2, HandIs
  <2> HIDE DEF b
  <2>2. PfSetPaused(Written, evt.id, proj, b) = Repaused(Written, evt.id, b)
    BY <1>1, <2>1, OneProjectOps
  <2>3. pfs' = [pfs EXCEPT ![writepf] = Repaused(Written, evt.id, b)]
    BY <1>4, <2>2 DEF Written, b
  <2>4. pfs'[writepf] = Repaused(Written, evt.id, b)
    BY <2>3, PfTypes
  <2>5. FiledPf(pfs'[writepf])
    BY <1>1, <2>1, <2>4, RepausedIs
  <2>6. InProject(pfs'[writepf], evt.id, proj) = ByID(pfs'[writepf], evt.id)
    BY <2>1, <2>5, OneProjectOps
  <2> QED
    BY <1>4, <2>3, <2>6 DEF b
<1> QED
  BY <1>3, <1>4 DEF PauseApply

LEMMA BornAddDoes ==
    ASSUME FixedProjects, ShapeInv, BornAdd
    PROVE  \E c \in held :
             /\ held = {c} /\ c.id = evt.id /\ c \in Containers /\ Filed(c)
             /\ \/ /\ ByID(Written, evt.id) = {}
                   /\ pfs' = [pfs EXCEPT ![writepf] = Written \union {c}]
                   /\ wpc' = "notify" /\ held' = held /\ evt' = evt
                \/ ByID(Written, evt.id) # {} /\ pfs' = pfs /\ ToLoop
<1>1. PICK c \in held : held = {c} /\ c.id = evt.id
  BY DEF BornAdd, ShapeInv, HandOK
<1>2. c \in Containers /\ Filed(c)
  BY DEF ShapeInv, FiledOK, PublishInv, TypeInv, TypeOK, WatchOK
<1>3. PfAdds(Written, c) <=> ByID(Written, evt.id) = {}
  BY <1>1, <1>2, PfTypes, OneProjectAdds DEF Written
<1>4. /\ pfs' = [pfs EXCEPT ![writepf] = PfAdd(@, c)]
      /\ ToNotify(IF PfAdds(Written, c) THEN held ELSE {})
  BY <1>1 DEF BornAdd, Written
<1>5. CASE PfAdds(Written, c)
  BY <1>1, <1>2, <1>3, <1>4, <1>5 DEF ToNotify, PfAdd, Written
<1>6. CASE ~PfAdds(Written, c)
  <2>1. pfs' = pfs
    BY <1>4, <1>6, PfTypes DEF PfAdd, Written
  <2> QED
    BY <1>1, <1>2, <1>3, <1>4, <1>6, <2>1 DEF ToNotify
<1> QED
  BY <1>5, <1>6

\* and those of a listing.
LEMMA ListMergeDoes ==
    ASSUME FixedProjects, ShapeInv, NEW n \in Lists, ListMerge(n)
    PROVE  \E c \in found[n] :
             /\ c \in Containers /\ Filed(c)
             /\ found' = [found EXCEPT ![n] = @ \ {c}]
             /\ \/ /\ c.id \notin bluenorwegians /\ ByID(pfs[lpf[n]], c.id) = {}
                   /\ pfs' = [pfs EXCEPT ![lpf[n]] = pfs[lpf[n]] \union {c}]
                   /\ note' = [note EXCEPT ![n] = {[type |-> Started, cntr |-> c]}]
                   /\ lpc' = [lpc EXCEPT ![n] = "announce"]
                \/ /\ c.id \in bluenorwegians \/ ByID(pfs[lpf[n]], c.id) # {}
                   /\ UNCHANGED <<pfs, note, lpc>>
<1>1. PICK c \in found[n] :
        /\ found' = [found EXCEPT ![n] = @ \ {c}]
        /\ IF Merges(n, c)
           THEN /\ pfs' = [pfs EXCEPT ![lpf[n]] = PfAdd(@, c)]
                /\ note' = [note EXCEPT ![n] = {[type |-> Started, cntr |-> c]}]
                /\ lpc' = [lpc EXCEPT ![n] = "announce"]
           ELSE UNCHANGED <<pfs, note, lpc>>
  BY DEF ListMerge
<1>2. c \in Containers /\ Filed(c)
  BY DEF ShapeInv, FiledOK, FoundFiled, PublishInv, TypeInv, TypeOK, ListsOK
<1>3. PfAdds(pfs[lpf[n]], c) <=> ByID(pfs[lpf[n]], c.id) = {}
  BY <1>2, PfTypes, OneProjectAdds
<1>4. CASE Merges(n, c)
  <2>1. PfAdds(pfs[lpf[n]], c) /\ c.id \notin bluenorwegians
    BY <1>4 DEF Merges
  <2>2. pfs' = [pfs EXCEPT ![lpf[n]] = pfs[lpf[n]] \union {c}]
    BY <1>1, <1>4, <2>1 DEF PfAdd
  <2> QED
    BY <1>1, <1>2, <1>3, <1>4, <2>1, <2>2
<1>5. CASE ~Merges(n, c)
  BY <1>1, <1>2, <1>3, <1>5 DEF Merges
<1> QED
  BY <1>4, <1>5

LEMMA ListReplayDoes ==
    ASSUME FixedProjects, ShapeInv, NEW n \in Lists, ListReplay(n)
    PROVE  \E id \in todo[n] :
             /\ id \in IDs /\ pauses[id] \in PauseTypes
             /\ todo' = [todo EXCEPT ![n] = @ \ {id}]
             /\ \/ ByID(pfs[lpf[n]], id) = {} /\ UNCHANGED <<pfs, note, lpc>>
                \/ \E c \in Containers :
                      /\ ByID(pfs[lpf[n]], id) # {}
                      /\ pfs' = [pfs EXCEPT ![lpf[n]] =
                                   Repaused(pfs[lpf[n]], id, pauses[id] = Paused)]
                      /\ ByID(pfs'[lpf[n]], id) = {c}
                      /\ note' = [note EXCEPT ![n] = {[type |-> pauses[id], cntr |-> c]}]
                      /\ lpc' = [lpc EXCEPT ![n] = "announce"]
<1> DEFINE pf == pfs[lpf[n]]
<1>1. lpc[n] = "merge" /\ FiledPf(pf) /\ lpf[n] \in Portfolios
  BY PfTypes DEF ListReplay
<1> HIDE DEF pf
<1>2. PICK id \in todo[n] :
        /\ todo' = [todo EXCEPT ![n] = @ \ {id}]
        /\ \/ ByID(pf, id) = {} /\ UNCHANGED <<pfs, note, lpc>>
           \/ \E proj \in {c.proj : c \in ByID(pf, id)} :
                /\ pfs' = [pfs EXCEPT ![lpf[n]] =
                              PfSetPaused(pf, id, proj, pauses[id] = Paused)]
                /\ note' = [note EXCEPT ![n] =
                               {[type |-> pauses[id], cntr |-> c]
                                  : c \in InProject(pfs'[lpf[n]], id, proj)}]
                /\ lpc' = [lpc EXCEPT ![n] = "announce"]
  BY DEF ListReplay, pf
<1>3. id \in IDs
  BY DEF ShapeInv, PublishInv, TypeInv, TypeOK, ListsOK
<1>4. pauses[id] \in PauseTypes
  <2>1. pauses[id] \in {"none", Paused, Unpaused} /\ pauses[id] # "none"
    BY <1>1, <1>3 DEF ShapeInv, PublishInv, TypeInv, ReplaysPauses, TypeOK, FieldsOK
  <2> QED
    BY <2>1 DEF PauseTypes
<1>5. ASSUME NEW proj \in {c.proj : c \in ByID(pf, id)},
             pfs' = [pfs EXCEPT ![lpf[n]] =
                      PfSetPaused(pf, id, proj, pauses[id] = Paused)],
             note' = [note EXCEPT ![n] =
                       {[type |-> pauses[id], cntr |-> c]
                          : c \in InProject(pfs'[lpf[n]], id, proj)}]
      PROVE  \E c \in Containers :
               /\ ByID(pf, id) # {}
               /\ pfs' = [pfs EXCEPT ![lpf[n]] =
                            Repaused(pf, id, pauses[id] = Paused)]
               /\ ByID(pfs'[lpf[n]], id) = {c}
               /\ note' = [note EXCEPT ![n] = {[type |-> pauses[id], cntr |-> c]}]
  <2> DEFINE b == pauses[id] = Paused
  <2>1. b \in BOOLEAN
    OBVIOUS
  <2> HIDE DEF b
  <2>2. PICK d \in ByID(pf, id) : proj = d.proj
    BY <1>5
  <2>3. d \in Containers /\ d.id = id /\ proj \in ProjectsOf[id]
    BY <1>1, <2>2 DEF FiledPf, Filed, ByID
  <2>4. ByID(pf, id) = {d}
    BY <1>1, <2>2 DEF FiledPf, OneEach, ByID
  <2>5. PfSetPaused(pf, id, proj, b) = Repaused(pf, id, b)
    BY <1>1, <1>3, <2>3, OneProjectOps
  <2>6. pfs' = [pfs EXCEPT ![lpf[n]] = Repaused(pf, id, b)]
    BY <1>5, <2>5 DEF b
  <2>7. pfs'[lpf[n]] = Repaused(pf, id, b)
    BY <1>1, <2>6, PfTypes
  <2>8. FiledPf(pfs'[lpf[n]]) /\ ByID(pfs'[lpf[n]], id) = {Copy(c, b) : c \in ByID(pf, id)}
    BY <1>1, <2>1, <2>7, RepausedIs
  <2>9. ByID(pfs'[lpf[n]], id) = {Copy(d, b)}
    BY <2>4, <2>8
  <2>10. Copy(d, b) \in Containers
    BY <2>1, <2>3, PausedCopy
  <2>11. InProject(pfs'[lpf[n]], id, proj) = {Copy(d, b)}
    BY <1>3, <2>3, <2>8, <2>9, OneProjectOps
  <2>12. note' = [note EXCEPT ![n] = {[type |-> pauses[id], cntr |-> Copy(d, b)]}]
    BY <1>5, <2>11
  <2> QED
    BY <2>2, <2>6, <2>9, <2>10, <2>12 DEF b
<1> QED
  BY <1>2, <1>3, <1>4, <1>5 DEF pf
-----------------------------------------------------------------------------
\* How the engine's state e of an ID becomes f, by a change of some type.
Follows(e, type, f) ==
    /\ type = Started => ~e.alive /\ f.alive
    /\ type = Exited => e.alive /\ ~f.alive
    /\ type \in PauseTypes =>
         e.alive /\ f.alive /\ f.inc = e.inc /\ f.paused = (type = Paused)

\* Events that follow the changes of the engine stay sound.
LEMMA SoundAppend ==
    ASSUME NEW s \in Seq(Events), NEW ev \in Events, NEW eng, NEW eng2,
           SoundOn(s, eng), \A id \in IDs : id # ev.id => eng2[id] = eng[id],
           Follows(eng[ev.id], ev.type, eng2[ev.id])
    PROVE  SoundOn(Append(s, ev), eng2)
<1> DEFINE t == Append(s, ev)
<1>1. /\ Len(s) \in Nat /\ Len(t) = Len(s) + 1 /\ t[Len(s) + 1] = ev
      /\ \A j \in 1..Len(s) : t[j] = s[j] /\ s[j] \in Events
  BY AppendProperties, LenProperties, ElementOfSeq
<1>2. \A i \in 1..Len(s) : \A id, T :
        Coming(t, i, id, T) <=> Coming(s, i, id, T) \/ (ev.id = id /\ ev.type \in T)
  <2> TAKE i \in 1..Len(s)
  <2>1. i \in 0..Len(s)
    BY <1>1
  <2> QED
    BY <2>1, ComingAppend
<1>3. \A i \in 1..Len(s) : \A id :
        /\ ExitFirst(s, i, id)
        /\ ev.id = id /\ ev.type = Started => Coming(s, i, id, {Exited})
        => ExitFirst(t, i, id)
  <2> TAKE i \in 1..Len(s)
  <2>1. i \in 0..Len(s)
    BY <1>1
  <2> QED
    BY <2>1, ExitFirstAppend
<1> HIDE DEF t
<1> SUFFICES ASSUME NEW i \in 1..Len(t) PROVE SoundAt(t, i, eng2[t[i].id])
  BY DEF SoundOn, t
<1>4. CASE i \in 1..Len(s)
  <2> DEFINE id == s[i].id
  <2>1. t[i] = s[i] /\ id \in IDs
    BY <1>1, <1>4 DEF Events
  <2>2. SoundAt(s, i, eng[id])
    BY <1>4 DEF SoundOn
  <2>3. CASE id # ev.id
    <3>1. eng2[id] = eng[id]
      BY <2>1, <2>3
    <3> QED
      BY <1>2, <1>3, <1>4, <2>1, <2>2, <2>3, <3>1 DEF SoundAt
  <2>4. CASE id = ev.id
    <3> DEFINE e == eng[id]
               f == eng2[id]
    <3>1. Follows(e, ev.type, f) /\ SoundAt(s, i, e) /\ ev.type \in EventTypes
      BY <2>2, <2>4 DEF Events
    <3>2. \A T : Coming(t, i, id, T) <=> Coming(s, i, id, T) \/ ev.type \in T
      BY <1>2, <1>4, <2>4
    <3>3. /\ ExitFirst(s, i, id)
          /\ ev.type = Started => Coming(s, i, id, {Exited})
          => ExitFirst(t, i, id)
      BY <1>3, <1>4
    <3> HIDE DEF e, f, id
    <3>4. s[i].id = id
      BY DEF id
    <3>5. s[i].type = Exited /\ f.alive => Coming(t, i, id, {Started})
      BY <3>1, <3>2, <3>4
      DEF SoundAt, Follows, EventTypes, PauseTypes, Started, Exited, Paused, Unpaused
    <3>6. s[i].type \in PauseTypes =>
            /\ ExitFirst(t, i, id)
            /\ \/ Coming(t, i, id, {Exited})
               \/ /\ f.alive
                  /\ Coming(t, i, id, PauseTypes) \/ f.paused = (s[i].type = Paused)
      BY <3>1, <3>2, <3>3, <3>4
      DEF SoundAt, Follows, EventTypes, PauseTypes, Started, Exited, Paused, Unpaused
    <3>7. SoundAt(t, i, f)
      BY <2>1, <3>4, <3>5, <3>6 DEF SoundAt
    <3> QED
      BY <2>1, <3>7 DEF f, id
  <2> QED
    BY <2>3, <2>4
<1>5. CASE i = Len(s) + 1
  <2>1. t[i] = ev
    BY <1>1, <1>5
  <2>2. ExitFirst(t, i, ev.id)
    BY <1>1, <1>5 DEF ExitFirst
  <2> QED
    BY <2>1, <2>2 DEF SoundAt, Follows, PauseTypes, Started, Exited, Paused, Unpaused
<1> QED
  BY <1>1, <1>4, <1>5
-----------------------------------------------------------------------------
(***************************************************************************)
(* What a change of the engine does.                                       *)
(***************************************************************************)
LEMMA ChangeDoes ==
    ASSUME ShapeInv, EngineStep
    PROVE  \E ev \in Events :
             /\ Told(ev) /\ Follows(engine[ev.id], ev.type, engine'[ev.id])
             /\ \A id \in IDs : id # ev.id => engine'[id] = engine[id]
             /\ engine'[ev.id].proj \in ProjectsOf[ev.id]
             /\ stream' = IF sub = "live" THEN Append(stream, ev) ELSE stream
             /\ gap' = IF sub # "live" /\ Decided(ev.id) THEN Missing("missed") ELSE gap
             /\ UNCHANGED <<sub, cancelled, watchVars, attempt, pfVars, gateVars,
                            ready, listVars, view>>
<1>1. /\ engine \in [IDs -> [alive : BOOLEAN, inc : Nat, proj : Projects,
                             paused : BOOLEAN]]
      /\ \A id \in IDs : engine[id].proj \in ProjectsOf[id]
  BY DEF ShapeInv, PublishInv, TypeInv, TypeOK, EngineOK, FiledOK
<1>2. ASSUME NEW id \in IDs, NEW type \in EventTypes, NEW state,
             state.proj \in ProjectsOf[id],
             Follows(engine[id], type, state), Change(id, type, state)
      PROVE  \E ev \in Events :
             /\ Told(ev) /\ Follows(engine[ev.id], ev.type, engine'[ev.id])
             /\ \A i \in IDs : i # ev.id => engine'[i] = engine[i]
             /\ engine'[ev.id].proj \in ProjectsOf[ev.id]
             /\ stream' = IF sub = "live" THEN Append(stream, ev) ELSE stream
             /\ gap' = IF sub # "live" /\ Decided(ev.id) THEN Missing("missed") ELSE gap
             /\ UNCHANGED <<sub, cancelled, watchVars, attempt, pfVars, gateVars,
                            ready, listVars, view>>
  <2> DEFINE ev == [type |-> type, id |-> id,
                    proj |-> IF EventsNameProject THEN state.proj ELSE ProjectUnknown]
  <2>1. ev \in Events
    BY <1>2, ProjectsAssumption DEF Events
  <2>2. ev.id = id /\ ev.type = type /\ Told(ev)
    BY <1>2 DEF Told
  <2>3. engine'[id] = state /\ \A i \in IDs : i # id => engine'[i] = engine[i]
    BY <1>1, <1>2 DEF Change
  <2>4. stream' = IF sub = "live" THEN Append(stream, ev) ELSE stream
    BY <1>2 DEF Change
  <2> HIDE DEF ev
  <2>5. /\ gap' = IF sub # "live" /\ Decided(ev.id) THEN Missing("missed") ELSE gap
        /\ UNCHANGED <<sub, cancelled, watchVars, attempt, pfVars, gateVars,
                       ready, listVars, view>>
    BY <1>2, <2>2 DEF Change
  <2> QED
    BY <1>2, <2>1, <2>2, <2>3, <2>4, <2>5
<1>3. PICK id \in IDs : EngineStart(id) \/ EngineDie(id) \/ EnginePause(id) \/ EngineUnpause(id)
  BY DEF EngineStep
<1> USE DEF Follows, PauseTypes, EventTypes, Started, Exited, Paused, Unpaused
<1>4. CASE EngineStart(id)
  <2> PICK proj \in ProjectsOf[id] :
         Change(id, Started, [alive |-> TRUE, inc |-> engine[id].inc + 1,
                              proj |-> proj, paused |-> FALSE])
    BY <1>4 DEF EngineStart
  <2> DEFINE state == [alive |-> TRUE, inc |-> engine[id].inc + 1,
                       proj |-> proj, paused |-> FALSE]
  <2>1. ~engine[id].alive /\ Change(id, Started, state)
    BY <1>4 DEF EngineStart
  <2>2. Follows(engine[id], Started, state) /\ state.proj \in ProjectsOf[id]
    BY <2>1
  <2> HIDE DEF state
  <2> QED
    BY <1>2, <2>1, <2>2
<1>5. CASE EngineDie(id)
  <2> DEFINE state == [engine[id] EXCEPT !.alive = FALSE, !.paused = FALSE]
  <2>1. engine[id].alive /\ Change(id, Exited, state)
    BY <1>5 DEF EngineDie
  <2>2. Follows(engine[id], Exited, state) /\ state.proj \in ProjectsOf[id]
    BY <1>1, <2>1
  <2> HIDE DEF state
  <2> QED
    BY <1>2, <2>1, <2>2
<1>6. CASE EnginePause(id)
  <2> DEFINE state == [engine[id] EXCEPT !.paused = TRUE]
  <2>1. engine[id].alive /\ Change(id, Paused, state)
    BY <1>6 DEF EnginePause
  <2>2. Follows(engine[id], Paused, state) /\ state.proj \in ProjectsOf[id]
    BY <1>1, <2>1
  <2> HIDE DEF state
  <2> QED
    BY <1>2, <2>1, <2>2
<1>7. CASE EngineUnpause(id)
  <2> DEFINE state == [engine[id] EXCEPT !.paused = FALSE]
  <2>1. engine[id].alive /\ Change(id, Unpaused, state)
    BY <1>7 DEF EngineUnpause
  <2>2. Follows(engine[id], Unpaused, state) /\ state.proj \in ProjectsOf[id]
    BY <1>1, <2>1
  <2> HIDE DEF state
  <2> QED
    BY <1>2, <2>1, <2>2
<1> QED
  BY <1>3, <1>4, <1>5, <1>6, <1>7
-----------------------------------------------------------------------------
(***************************************************************************)
(* The agenda.                                                             *)
(***************************************************************************)
LEMMA OneMore ==
    ASSUME NEW e \in Events, NEW s \in Seq(Events)
    PROVE  LET t == <<e>> \o s
           IN  t \in Seq(Events) /\ t # <<>> /\ t[1] = e /\ Tail(t) = s
<1> DEFINE t == <<e>> \o s
<1>1. <<e>> \in Seq(Events) /\ Len(<<e>>) = 1 /\ <<e>>[1] = e
  OBVIOUS
<1>2. /\ t \in Seq(Events) /\ Len(t) = 1 + Len(s) /\ Len(s) \in Nat
      /\ \A i \in 1..Len(t) : t[i] = IF i <= 1 THEN <<e>>[i] ELSE s[i - 1]
  BY <1>1, ConcatProperties, LenProperties
<1> HIDE DEF t
<1>3. t # <<>> /\ 1 \in 1..Len(t)
  BY <1>2
<1>4. t[1] = e
  BY <1>1, <1>2, <1>3
<1>5. /\ Tail(t) \in Seq(Events) /\ Len(Tail(t)) = Len(s)
      /\ \A i \in 1..Len(s) : Tail(t)[i] = t[i + 1]
  BY <1>2, <1>3, TailOf
<1>6. \A i \in 1..Len(s) : i + 1 \in 1..Len(t) /\ ~(i + 1 <= 1) /\ (i + 1) - 1 = i
  BY <1>2
<1>7. \A i \in 1..Len(s) : Tail(t)[i] = s[i]
  BY <1>2, <1>5, <1>6
<1>8. Tail(t) = s
  BY <1>5, <1>7, SeqEqual
<1> QED
  BY <1>2, <1>3, <1>4, <1>8 DEF t

\* The event being handled is the first on the agenda.
LEMMA AgendaIs ==
    ASSUME ShapeInv
    PROVE  /\ Agenda \in Seq(Events) /\ stream \in Seq(Events)
           /\ wpc \in InWork => /\ Agenda # <<>> /\ Agenda[1] = evt
                                /\ Tail(Agenda) = stream
                                /\ evt \in Events /\ evt.id \in IDs
           /\ wpc \notin InWork => Agenda = stream
           /\ Gated \in 0..Len(Agenda)
           /\ Gated = 1 => wpc \in InWork
<1>1. stream \in Seq(Events)
  BY DEF ShapeInv, PublishInv, TypeInv, TypeOK, EngineOK
<1>2. wpc \in InWork => evt \in Events /\ evt.id \in IDs
  BY DEF ShapeInv, PublishInv, TypeInv, EventFits, InWork, Events
<1>3. wpc \in InWork => /\ Agenda \in Seq(Events) /\ Agenda # <<>> /\ Agenda[1] = evt
                        /\ Tail(Agenda) = stream
  BY <1>1, <1>2, OneMore DEF Agenda
<1>4. wpc \notin InWork => Agenda = stream
  BY DEF Agenda
<1>5. Gated = 1 => wpc \in InWork
  BY DEF Gated, InWork, HandlingPCs
<1>6. Agenda \in Seq(Events)
  BY <1>1, <1>3, <1>4
<1>7. Len(Agenda) \in Nat /\ (Agenda # <<>> => Len(Agenda) >= 1)
  BY <1>6
<1>8. Gated \in 0..Len(Agenda)
  BY <1>3, <1>5, <1>7 DEF Gated
<1> QED
  BY <1>1, <1>2, <1>3, <1>4, <1>5, <1>6, <1>8

\* Watch goes on with the event it has, or without one.
LEMMA AgendaStays ==
    ASSUME stream' = stream,
           \/ wpc' = wpc /\ evt' = evt
           \/ wpc \in InWork /\ wpc' \in InWork /\ evt' = evt
           \/ wpc \notin InWork /\ wpc' \notin InWork
    PROVE  Agenda' = Agenda
BY DEF Agenda, InWork, HandlingPCs

\* Watch is done with the event, but perhaps for an announcement.
LEMMA AgendaNext ==
    ASSUME ShapeInv, wpc \in InWork, wpc' \notin InWork, stream' = stream
    PROVE  Agenda' = Tail(Agenda) /\ Gated' = 0
<1>1. Agenda' = stream'
  BY DEF Agenda, InWork, HandlingPCs
<1>2. Gated' = 0
  BY DEF Gated, InWork, HandlingPCs
<1> QED
  BY <1>1, <1>2, AgendaIs

\* Receiving an event does not change what is still to be handled.
LEMMA AgendaTaken ==
    ASSUME ShapeInv, RecvEvent
    PROVE  Agenda' = Agenda /\ Gated' = 0 /\ Gated = 0 /\ wpc' \in InWork
<1>1. stream # <<>> /\ wpc' \in InWork /\ wpc \notin InWork /\ evt' = Head(stream)
      /\ stream' = Tail(stream) /\ stream \in Seq(Events)
  BY AgendaIs DEF RecvEvent, InWork, HandlingPCs
<1>2. <<Head(stream)>> \o Tail(stream) = stream
  <2> DEFINE e == Head(stream)
             r == Tail(stream)
  <2>1. e \in Events /\ r \in Seq(Events) /\ e = stream[1]
    BY <1>1, HeadTailProperties
  <2>2. <<e>> \o r \in Seq(Events) /\ <<e>> \o r # <<>>
        /\ (<<e>> \o r)[1] = stream[1] /\ Tail(<<e>> \o r) = r
    BY <2>1, OneMore
  <2> DEFINE t == <<e>> \o r
  <2> HIDE DEF t, e, r
  <2>3. t \in Seq(Events) /\ t # <<>> /\ t[1] = stream[1] /\ Tail(t) = Tail(stream)
    BY <2>2 DEF t, r
  <2>4. t = stream
    <3>1. Len(t) = Len(stream)
      BY <1>1, <2>3, TailOf
    <3>2. /\ Len(stream) = Len(Tail(stream)) + 1 /\ Len(Tail(stream)) \in Nat
          /\ \A j \in 1..Len(Tail(stream)) : t[j + 1] = stream[j + 1]
      <4>1. \A j \in 1..Len(Tail(t)) : Tail(t)[j] = t[j + 1]
        BY <2>3, TailOf
      <4>2. /\ Len(stream) = Len(Tail(stream)) + 1 /\ Len(Tail(stream)) \in Nat
            /\ \A j \in 1..Len(Tail(stream)) : Tail(stream)[j] = stream[j + 1]
        BY <1>1, TailOf
      <4> QED
        BY <2>3, <4>1, <4>2
    <3>3. \A i \in 1..Len(stream) :
             i = 1 \/ (i - 1 \in 1..Len(Tail(stream)) /\ (i - 1) + 1 = i)
      BY <3>2
    <3>4. \A i \in 1..Len(stream) : t[i] = stream[i]
      BY <2>3, <3>2, <3>3
    <3> QED
      BY <1>1, <2>3, <3>1, <3>4, SeqEqual
  <2> QED
    BY <2>4 DEF t, e, r
<1>3. Agenda' = <<evt'>> \o stream'
  BY <1>1 DEF Agenda, InWork, HandlingPCs
<1>4. Agenda = stream
  BY <1>1 DEF Agenda
<1>5. Gated' = 0 /\ Gated = 0
  BY DEF Gated, RecvEvent
<1> QED
  BY <1>1, <1>2, <1>3, <1>4, <1>5

\* What is to come once the first is done with.
LEMMA Remaining ==
    ASSUME ShapeInv, wpc \in InWork, NEW id, NEW T
    PROVE  /\ Coming(Tail(Agenda), 0, id, T) <=> Coming(Agenda, 1, id, T)
           /\ Coming(Agenda, 0, id, T)
                <=> Coming(Agenda, 1, id, T) \/ (evt.id = id /\ evt.type \in T)
           /\ ExitFirst(Tail(Agenda), 0, id) <=> ExitFirst(Agenda, 1, id)
           /\ ExitFirst(Agenda, 0, id) /\ ~(evt.id = id /\ evt.type = Exited)
                => ExitFirst(Agenda, 1, id) /\ ~(evt.id = id /\ evt.type = Started)
<1>1. Agenda \in Seq(Events) /\ Agenda # <<>> /\ Agenda[1] = evt
  BY AgendaIs
<1>2. Coming(Tail(Agenda), 0, id, T) <=> Coming(Agenda, 1, id, T)
  <2>1. Coming(Tail(Agenda), 0, id, T) <=> Coming(Agenda, 0 + 1, id, T)
    BY <1>1, ComingTail
  <2> QED
    BY <2>1
<1>3. ExitFirst(Tail(Agenda), 0, id) <=> ExitFirst(Agenda, 1, id)
  <2>1. ExitFirst(Tail(Agenda), 0, id) <=> ExitFirst(Agenda, 0 + 1, id)
    BY <1>1, ExitFirstTail
  <2> QED
    BY <2>1
<1> QED
  BY <1>1, <1>2, <1>3, ComingFirst, ExitFirstOthers
-----------------------------------------------------------------------------
(***************************************************************************)
(* The shape is invariant.                                                 *)
(***************************************************************************)
LEMMA ShapeTypes ==
    ASSUME ShapeInv
    PROVE  /\ attempt \in 0..MaxAttempts /\ attempt \in Nat
           /\ sub # "off" => attempt \in Lists
           /\ \A n \in Lists : n \in Nat /\ n # 0 /\ (lpc[n] # "none" => n <= attempt)
           /\ \A n \in Lists : lpf[n] \in Portfolios
           /\ \A p \in Portfolios : p \in Nat
           /\ writepf \in Portfolios /\ writepf <= attempt
           /\ wpc \in HandlingPCs \union {"loop"} => sub # "off"
           /\ lpc \in [Lists -> ListPCs] /\ found \in [Lists -> SUBSET Containers]
           /\ todo \in [Lists -> SUBSET IDs]
           /\ pfs \in [Portfolios -> SUBSET Containers]
           /\ engine \in [IDs -> [alive : BOOLEAN, inc : Nat, proj : Projects,
                                  paused : BOOLEAN]]
           /\ pauses \in [IDs -> {"none", Paused, Unpaused}]
<1>1. /\ TypeOK /\ NotYet /\ NotBegun
  BY DEF ShapeInv, PublishInv, TypeInv
<1>2. /\ attempt \in 0..MaxAttempts /\ attempt \in Nat
      /\ \A n \in Lists : n \in Nat /\ n # 0
      /\ \A p \in Portfolios : p \in Nat
  BY <1>1, BoundsAssumption DEF TypeOK, WatchOK, Lists, Portfolios
<1>3. \A n \in Lists : lpc[n] # "none" => n <= attempt
  BY <1>1, <1>2 DEF NotBegun
<1>4. wpc \in HandlingPCs \union {"loop"} => sub # "off"
  BY <1>1 DEF NotYet, HandlingPCs
<1> QED
  BY <1>1, <1>2, <1>3, <1>4 DEF TypeOK, EngineOK, FieldsOK, ListsOK, NotYet

\* One lemma for each kind of step.
LEMMA ShapeEngine ==
    ASSUME ShapeInv, EngineStep \/ Subscribe \/ StreamBreak \/ Cancel
    PROVE  FiledOK' /\ NotYet' /\ HandOK' /\ ListingOK'
<1> USE DEF watchVars, pfVars, gateVars, listVars, engineVars, streamVars
<1>1. /\ UNCHANGED <<watchVars, attempt, pfVars, gateVars, listVars, view>>
      /\ "overlap" \in gap' => "overlap" \in gap
      /\ "leftover" \in gap' => "leftover" \in gap
      /\ sub' = "off" <=> sub = "off"
  BY DEF EngineStep, EngineStart, EngineDie, EnginePause, EngineUnpause, Change,
         Subscribe, StreamBreak, Cancel, Missing, AttemptLost
<1>2. HandOK' /\ ListingOK'
  BY <1>1 DEF ShapeInv, HandOK, ListingOK
<1>3. NotYet'
  BY <1>1 DEF ShapeInv, NotYet
<1>4. (\A id \in IDs : engine'[id].proj \in ProjectsOf[id]) /\ StreamFiled(stream')
  <2>1. (\A id \in IDs : engine[id].proj \in ProjectsOf[id]) /\ StreamFiled(stream)
    BY DEF ShapeInv, FiledOK
  <2>2. CASE EngineStep
    <3>1. PICK ev \in Events :
             /\ Told(ev)
             /\ \A id \in IDs : id # ev.id => engine'[id] = engine[id]
             /\ engine'[ev.id].proj \in ProjectsOf[ev.id]
             /\ stream' = IF sub = "live" THEN Append(stream, ev) ELSE stream
      BY <2>2, ChangeDoes
    <3>2. \A id \in IDs : engine'[id].proj \in ProjectsOf[id]
      BY <2>1, <3>1
    <3>3. StreamFiled(Append(stream, ev))
      <4>1. stream \in Seq(Events)
        BY AgendaIs
      <4>2. /\ Len(stream) \in Nat /\ Len(Append(stream, ev)) = Len(stream) + 1
            /\ Append(stream, ev)[Len(stream) + 1] = ev
            /\ \A j \in 1..Len(stream) : Append(stream, ev)[j] = stream[j]
        BY <4>1, AppendProperties, LenProperties
      <4>3. \A i \in 1..Len(Append(stream, ev)) : i \in 1..Len(stream) \/ i = Len(stream) + 1
        BY <4>2
      <4> QED
        BY <2>1, <3>1, <4>2, <4>3 DEF StreamFiled
    <3> QED
      BY <2>1, <3>1, <3>2, <3>3
  <2>3. CASE Subscribe \/ StreamBreak \/ Cancel
    BY <2>1, <2>3 DEF Subscribe, StreamBreak, Cancel
  <2> QED
    BY <2>2, <2>3
<1>5. FiledOK'
  BY <1>1, <1>4 DEF ShapeInv, FiledOK
<1> QED
  BY <1>2, <1>3, <1>5

LEMMA ShapeControl ==
    ASSUME ShapeInv, TryFail \/ RecvErr \/ RecvListErr \/ Retry \/ GiveUp
    PROVE  FiledOK' /\ NotYet' /\ HandOK' /\ ListingOK'
<1> USE DEF watchVars, pfVars, gateVars, listVars, engineVars, streamVars
<1>1. /\ UNCHANGED <<engine, evt, held, attempt, pfVars, gateVars, listVars, view>>
      /\ gap' \subseteq gap
      /\ sub' = "off" /\ wpc' \in {"trial", "backoff", "returned"}
      /\ stream' = stream \/ stream' = <<>>
  BY DEF ShapeInv, NotYet, TryFail, RecvErr, RecvListErr, Retry, GiveUp, AttemptLost
<1>2. HandOK'
  BY <1>1 DEF HandOK
<1>3. ListingOK'
  BY <1>1 DEF ShapeInv, ListingOK
<1>4. NotYet'
  BY <1>1 DEF ShapeInv, NotYet
<1>5. StreamFiled(stream')
  <2>1. StreamFiled(<<>>)
    BY DEF StreamFiled
  <2> QED
    BY <1>1, <2>1 DEF ShapeInv, FiledOK
<1>6. wpc' \notin HandlingPCs
  BY <1>1 DEF HandlingPCs
<1>7. FiledOK'
  BY <1>1, <1>5, <1>6 DEF ShapeInv, FiledOK
<1> QED
  BY <1>2, <1>3, <1>4, <1>7

LEMMA ShapeAttempt ==
    ASSUME ShapeInv, BeginAttempt
    PROVE  FiledOK' /\ NotYet' /\ HandOK' /\ ListingOK'
<1> USE DEF watchVars, pfVars, gateVars, listVars, engineVars, streamVars
<1> DEFINE n == attempt + 1
<1>1. /\ UNCHANGED <<engine, evt, held, pfs, gateVars, todo, found, lpf, note, view>>
      /\ attempt' = n /\ sub' = "pending" /\ stream' = <<>> /\ wpc' = "loop"
      /\ lpc' = [lpc EXCEPT ![n] = "start"]
      /\ writepf' = IF pfs[writepf] # {} THEN n ELSE writepf
      /\ attempt < MaxAttempts
      /\ gap' = (IF \E m \in Lists : Active(m) THEN {"overlap"} ELSE {})
                    \union (IF listinprogress THEN {"leftover"} ELSE {})
  BY DEF BeginAttempt, WrittenFrom
<1>2. n \in Lists /\ n \in Nat /\ n > attempt /\ attempt \in Nat
  BY <1>1, ShapeTypes, BoundsAssumption DEF Lists
<1>3. lpc[n] = "none" /\ found[n] = {}
  <2>1. lpc[n] = "none"
    BY <1>2, ShapeTypes
  <2> QED
    BY <1>2, <2>1 DEF ShapeInv, ListingOK
<1> HIDE DEF n
<1>4. lpc'[n] = "start" /\ \A m \in Lists : m # n => lpc'[m] = lpc[m]
  BY <1>1, <1>2, ShapeTypes
<1>5. HandOK'
  BY <1>1 DEF HandOK
<1>6. ListingOK'
  BY <1>1, <1>3, <1>4 DEF ShapeInv, ListingOK
<1>7. NotYet'
  <2>1. \A p \in Portfolios : p > n => pfs[p] = {}
    BY <1>2, ShapeTypes DEF ShapeInv, NotYet
  <2>2. writepf' <= n /\ \A m \in Lists : lpf[m] <= n
    <3>1. \A m \in Lists : lpf[m] \in Nat /\ lpf[m] <= attempt
      BY ShapeTypes DEF ShapeInv, NotYet
    <3> QED
      BY <1>1, <1>2, <3>1, ShapeTypes
  <2>3. n <= 1 => "overlap" \notin gap' /\ "leftover" \notin gap'
    <3> SUFFICES ASSUME n <= 1 PROVE "overlap" \notin gap' /\ "leftover" \notin gap'
      OBVIOUS
    <3>1. attempt = 0
      BY <1>2
    <3>2. \A m \in Lists : ~Active(m)
      BY <3>1, ShapeTypes DEF Active
    <3>3. ~listinprogress
      BY <3>1 DEF ShapeInv, NotYet
    <3> QED
      BY <1>1, <3>2, <3>3
  <2>4. n # 0
    BY <1>2
  <2> QED
    BY <1>1, <1>2, <1>4, <2>1, <2>2, <2>3, <2>4 DEF NotYet
<1>8. FiledOK'
  <2>1. StreamFiled(<<>>)
    BY DEF StreamFiled
  <2>2. wpc' \notin HandlingPCs
    BY <1>1 DEF HandlingPCs
  <2> QED
    BY <1>1, <2>1, <2>2 DEF ShapeInv, FiledOK
<1> QED
  BY <1>5, <1>6, <1>7, <1>8
-----------------------------------------------------------------------------
\* The steps on an event: what remains to show is stated here once.
LEMMA ShapeHandling ==
    ASSUME ShapeInv,
           UNCHANGED <<engine, sub, attempt, writepf, lpc, lpf, found, todo, listinprogress>>,
           wpc \in HandlingPCs \union {"loop"}, wpc' \in HandlingPCs \union {"loop"},
           gap' \subseteq gap \union {"inspect"},
           PfsFiled(pfs'), \A p \in Portfolios : p # writepf => pfs'[p] = pfs[p],
           StreamFiled(stream'), \A c \in held' : Filed(c),
           wpc' \in HandlingPCs => Told(evt'), HandOK'
    PROVE  FiledOK' /\ NotYet' /\ HandOK' /\ ListingOK'
<1>1. FiledOK'
  BY DEF ShapeInv, FiledOK
<1>2. attempt # 0 /\ sub # "off"
  BY ShapeTypes
<1>3. \A p \in Portfolios : p > attempt => p # writepf
  BY ShapeTypes
<1>4. NotYet'
  BY <1>2, <1>3 DEF ShapeInv, NotYet, HandlingPCs
<1>5. ListingOK'
  BY DEF ShapeInv, ListingOK
<1> QED
  BY <1>1, <1>4, <1>5

\* The same, when it has changed no more than the portfolio that is written.
LEMMA ShapeWriting ==
    ASSUME ShapeInv, NEW pf, FiledPf(pf), pfs' = [pfs EXCEPT ![writepf] = pf]
    PROVE  /\ PfsFiled(pfs') /\ pfs'[writepf] = pf
           /\ \A p \in Portfolios : p # writepf => pfs'[p] = pfs[p]
<1>1. /\ pfs'[writepf] = pf
      /\ \A p \in Portfolios : p # writepf => pfs'[p] = pfs[p]
  BY ShapeTypes
<1>2. PfsFiled(pfs')
  BY <1>1, PfTypes DEF PfsFiled, FiledPf
<1> QED
  BY <1>1, <1>2

\* A portfolio has one container of an ID, or none.
LEMMA OneOf ==
    ASSUME NEW pf, FiledPf(pf), NEW id, ByID(pf, id) # {}
    PROVE  \E c \in ByID(pf, id) : ByID(pf, id) = {c} /\ c.id = id /\ Filed(c)
BY DEF FiledPf, OneEach, ByID

LEMMA ShapeHandle ==
    ASSUME FixedProjects, ShapeInv, HandleEvent
    PROVE  FiledOK' /\ NotYet' /\ HandOK' /\ ListingOK'
<1> USE DEF watchVars, pfVars, gateVars, listVars, engineVars, streamVars
<1>1. PfsFiled(pfs) /\ StreamFiled(stream) /\ (\A c \in held : Filed(c)) /\ HandOK
      /\ (wpc \in HandlingPCs => Told(evt))
  BY DEF ShapeInv, FiledOK
<1>2. CASE RecvEvent
  <2>1. /\ UNCHANGED <<engine, sub, attempt, writepf, lpc, lpf, found, todo,
                       listinprogress, pfs, held, gap>>
        /\ wpc = "loop" /\ wpc' \in HandlingPCs \union {"loop"}
        /\ evt' = Head(stream) /\ stream' = Tail(stream) /\ stream # <<>>
    BY <1>2 DEF RecvEvent, HandlingPCs
  <2>2. stream \in Seq(Events)
    BY AgendaIs
  <2>3. /\ evt' = stream[1] /\ 1 \in 1..Len(stream) /\ Len(stream') \in Nat
        /\ \A j \in 1..Len(stream') : stream'[j] = stream[j + 1] /\ j + 1 \in 1..Len(stream)
    <3>1. evt' = stream[1]
      BY <2>1, <2>2
    <3>2. /\ Len(Tail(stream)) \in Nat /\ Len(stream) = Len(Tail(stream)) + 1
          /\ \A j \in 1..Len(Tail(stream)) : Tail(stream)[j] = stream[j + 1]
      BY <2>1, <2>2, TailOf
    <3> QED
      BY <2>1, <3>1, <3>2
  <2>4. StreamFiled(stream') /\ Told(evt')
    BY <1>1, <2>3 DEF StreamFiled
  <2>5. stream[1] \in Events
    BY <2>2, <2>3, ElementOfSeq
  <2>6. HandOK'
    BY <1>2, <2>3, <2>5
    DEF HandOK, RecvEvent, Events, EventTypes, Started, Exited, Paused, Unpaused
  <2> QED
    BY <1>1, <2>1, <2>4, <2>6, ShapeHandling
<1>3. CASE BornInspect
  <2>1. /\ UNCHANGED <<engine, sub, attempt, writepf, lpc, lpf, found, todo,
                       listinprogress, pfs, stream>>
        /\ wpc = "born" /\ gap' \subseteq gap \union {"inspect"}
        /\ \/ wpc' = "add" /\ held' = {Snapshot(evt.id)} /\ evt' = evt
           \/ wpc' = "loop" /\ held' = {}
    BY <1>3 DEF BornInspect, ToLoop, Missing
  <2>2. /\ evt.id \in IDs /\ evt.type = Started /\ Told(evt)
        /\ wpc \in HandlingPCs \union {"loop"} /\ wpc' \in HandlingPCs \union {"loop"}
    BY <1>1, <2>1, HandIs DEF HandOK, HandlingPCs
  <2>3. Snapshot(evt.id).id = evt.id /\ Filed(Snapshot(evt.id))
    BY <2>2 DEF Snapshot, Filed, ShapeInv, FiledOK
  <2>4. HandOK'
    BY <2>1, <2>2, <2>3 DEF HandOK
  <2>5. (\A c \in held' : Filed(c)) /\ (wpc' \in HandlingPCs => Told(evt'))
    BY <2>1, <2>2, <2>3 DEF HandlingPCs
  <2> QED
    BY <1>1, <2>1, <2>2, <2>4, <2>5, ShapeHandling
<1>4. CASE BornAdd
  <2>1. /\ UNCHANGED <<engine, sub, attempt, writepf, lpc, lpf, found, todo,
                       listinprogress, stream, gap>>
        /\ wpc = "add" /\ wpc \in HandlingPCs
    BY <1>4 DEF BornAdd, HandlingPCs
  <2>2. PICK c \in held :
          /\ held = {c} /\ c.id = evt.id /\ c \in Containers /\ Filed(c)
          /\ \/ /\ ByID(Written, evt.id) = {}
                /\ pfs' = [pfs EXCEPT ![writepf] = Written \union {c}]
                /\ wpc' = "notify" /\ held' = held /\ evt' = evt
             \/ ByID(Written, evt.id) # {} /\ pfs' = pfs /\ ToLoop
    BY <1>4, BornAddDoes
  <2>3. HandOK' /\ wpc' \in HandlingPCs \union {"loop"} /\ (\A d \in held' : Filed(d))
        /\ (wpc' \in HandlingPCs => Told(evt'))
    BY <1>1, <2>1, <2>2 DEF HandOK, ToLoop, HandlingPCs
  <2>4. PfsFiled(pfs') /\ \A p \in Portfolios : p # writepf => pfs'[p] = pfs[p]
    <3>1. CASE pfs' = pfs
      BY <1>1, <3>1
    <3>2. CASE /\ ByID(Written, evt.id) = {}
               /\ pfs' = [pfs EXCEPT ![writepf] = Written \union {c}]
      <4>1. FiledPf(Written \union {c})
        BY <2>2, <3>2, PfTypes, AddedIs DEF Written
      <4> QED
        BY <3>2, <4>1, ShapeWriting
    <3> QED
      BY <2>2, <3>1, <3>2
  <2> QED
    BY <1>1, <2>1, <2>3, <2>4, ShapeHandling
<1>5. CASE DemiseGate
  <2>1. /\ UNCHANGED <<engine, sub, attempt, writepf, lpc, lpf, found, todo,
                       listinprogress, stream, gap, pfs, held, evt>>
        /\ wpc = "demise" /\ wpc' = "remove"
    BY <1>5 DEF DemiseGate
  <2>2. HandOK' /\ wpc \in HandlingPCs /\ wpc' \in HandlingPCs
    BY <1>1, <2>1 DEF HandOK, HandlingPCs
  <2> QED
    BY <1>1, <2>1, <2>2, ShapeHandling
<1>6. CASE DemiseRemove
  <2>1. /\ UNCHANGED <<engine, sub, attempt, writepf, lpc, lpf, found, todo,
                       listinprogress, stream, gap>>
        /\ wpc = "remove" /\ wpc \in HandlingPCs
    BY <1>6 DEF DemiseRemove, HandlingPCs
  <2>2. /\ pfs' = [pfs EXCEPT ![writepf] = Without(Written, evt.id)]
        /\ ToNotify(ByID(Written, evt.id)) /\ FiledPf(Written)
    BY <1>6, DemiseRemoveDoes, PfTypes DEF Written
  <2>3. FiledPf(Without(Written, evt.id))
    BY <2>2, WithoutIs
  <2>4. HandOK' /\ wpc' \in HandlingPCs \union {"loop"} /\ (\A d \in held' : Filed(d))
        /\ (wpc' \in HandlingPCs => Told(evt'))
    <3>1. CASE ToLoop
      BY <3>1 DEF ToLoop, HandOK, HandlingPCs
    <3>2. CASE /\ ByID(Written, evt.id) # {}
               /\ wpc' = "notify" /\ held' = ByID(Written, evt.id) /\ evt' = evt
      <4>1. \E c \in held' : held' = {c} /\ c.id = evt'.id /\ Filed(c)
        BY <2>2, <3>2, OneOf
      <4> QED
        BY <1>1, <2>1, <3>2, <4>1 DEF HandOK, HandlingPCs
    <3> QED
      BY <2>2, <3>1, <3>2 DEF ToNotify
  <2> QED
    BY <1>1, <2>1, <2>2, <2>3, <2>4, ShapeWriting, ShapeHandling
<1>7. CASE PauseGate
  <2>1. /\ UNCHANGED <<engine, sub, attempt, writepf, lpc, lpf, found, todo,
                       listinprogress, stream, gap, pfs>>
        /\ wpc = "pausing"
        /\ \/ wpc' = "loop" /\ held' = {}
           \/ wpc' = "setpaused" /\ evt' = evt /\ held' = held
    BY <1>7 DEF PauseGate, ToLoop
  <2>2. HandOK' /\ wpc \in HandlingPCs /\ wpc' \in HandlingPCs \union {"loop"}
        /\ (\A c \in held' : Filed(c)) /\ (wpc' \in HandlingPCs => Told(evt'))
    BY <1>1, <2>1 DEF HandOK, HandlingPCs
  <2> QED
    BY <1>1, <2>1, <2>2, ShapeHandling
<1>8. CASE PauseApply
  <2>1. /\ UNCHANGED <<engine, sub, attempt, writepf, lpc, lpf, found, todo,
                       listinprogress, stream, gap>>
        /\ wpc = "setpaused" /\ wpc \in HandlingPCs
    BY <1>8 DEF PauseApply, HandlingPCs
  <2> DEFINE b == evt.type = Paused
             pf == Repaused(Written, evt.id, b)
  <2>2. /\ pfs' = [pfs EXCEPT ![writepf] = pf]
        /\ ToNotify(ByID(pfs'[writepf], evt.id)) /\ FiledPf(Written) /\ b \in BOOLEAN
    BY <1>8, PauseApplyDoes, PfTypes DEF Written
  <2> HIDE DEF b
  <2>3. FiledPf(pf)
    BY <2>2, RepausedIs
  <2> HIDE DEF pf
  <2>4. /\ PfsFiled(pfs') /\ pfs'[writepf] = pf
        /\ \A p \in Portfolios : p # writepf => pfs'[p] = pfs[p]
    BY <2>2, <2>3, ShapeWriting
  <2>5. HandOK' /\ wpc' \in HandlingPCs \union {"loop"} /\ (\A d \in held' : Filed(d))
        /\ (wpc' \in HandlingPCs => Told(evt'))
    <3>1. CASE ToLoop
      BY <3>1 DEF ToLoop, HandOK, HandlingPCs
    <3>2. CASE /\ ByID(pf, evt.id) # {}
               /\ wpc' = "notify" /\ held' = ByID(pf, evt.id) /\ evt' = evt
      <4>1. \E c \in held' : held' = {c} /\ c.id = evt'.id /\ Filed(c)
        BY <2>3, <3>2, OneOf
      <4> QED
        BY <1>1, <2>1, <3>2, <4>1 DEF HandOK, HandlingPCs
    <3> QED
      BY <2>2, <2>4, <3>1, <3>2 DEF ToNotify
  <2> QED
    BY <1>1, <2>1, <2>4, <2>5, ShapeHandling
<1>9. CASE Notify
  <2>1. /\ UNCHANGED <<engine, sub, attempt, writepf, lpc, lpf, found, todo,
                       listinprogress, stream, gap, pfs>>
        /\ wpc = "notify" /\ wpc' = "loop" /\ held' = {}
    BY <1>9 DEF Notify, ToLoop
  <2>2. HandOK' /\ wpc \in HandlingPCs /\ wpc' \notin HandlingPCs
    BY <1>1, <2>1 DEF HandOK, HandlingPCs
  <2> QED
    BY <1>1, <2>1, <2>2, ShapeHandling
<1> QED
  BY <1>2, <1>3, <1>4, <1>5, <1>6, <1>7, <1>8, <1>9 DEF HandleEvent

\* The steps of a listing leave Watch and the engine alone.
LEMMA ShapeListing ==
    ASSUME ShapeInv, NEW n \in Lists, lpc[n] # "none", lpc'[n] # "none",
           UNCHANGED <<engine, sub, stream, watchVars, attempt, writepf>>,
           \A m \in Lists : m # n => /\ lpc'[m] = lpc[m] /\ found'[m] = found[m]
                                     /\ todo'[m] = todo[m],
           \A m \in Lists : lpf'[m] \in {lpf[m], writepf},
           gap' \subseteq gap \union {"straddle", "inspect"},
           PfsFiled(pfs'), \A p \in Portfolios : p > attempt => pfs'[p] = pfs[p],
           \A c \in found'[n] : Filed(c),
           found'[n] # {} => lpc'[n] \in {"inspect", "merge", "announce"},
           lpc'[n] = "inspect" => \A c \in found'[n] : c.id \notin todo'[n]
    PROVE  FiledOK' /\ NotYet' /\ HandOK' /\ ListingOK'
<1> USE DEF watchVars
<1>1. FiledOK'
  <2>1. FoundFiled(found')
    BY DEF ShapeInv, FiledOK, FoundFiled
  <2> QED
    BY <2>1 DEF ShapeInv, FiledOK
<1>2. n <= attempt /\ attempt # 0
  BY ShapeTypes
<1>3. NotYet'
  <2>1. \A m \in Lists : lpf'[m] <= attempt
    BY DEF ShapeInv, NotYet
  <2>2. "overlap" \in gap' => "overlap" \in gap
    OBVIOUS
  <2>3. "leftover" \in gap' => "leftover" \in gap
    OBVIOUS
  <2>4. sub # "off" => attempt \in Lists /\ lpc'[attempt] # "none"
    BY DEF ShapeInv, NotYet
  <2> QED
    BY <1>2, <2>1, <2>2, <2>3, <2>4 DEF ShapeInv, NotYet
<1>4. HandOK'
  BY DEF ShapeInv, HandOK
<1>5. ListingOK'
  BY DEF ShapeInv, ListingOK
<1> QED
  BY <1>1, <1>3, <1>4, <1>5
-----------------------------------------------------------------------------
LEMMA ShapeList ==
    ASSUME FixedProjects, ShapeInv, NEW n \in Lists, ListStep(n)
    PROVE  FiledOK' /\ NotYet' /\ HandOK' /\ ListingOK'
<1> USE DEF pfVars, gateVars, listVars, engineVars, streamVars
<1>1. PfsFiled(pfs) /\ FoundFiled(found) /\ lpf[n] \in Portfolios
      /\ ~(lpf[n] > attempt)
  <2>1. lpf[n] <= attempt /\ lpf[n] \in Nat /\ attempt \in Nat
    BY ShapeTypes DEF ShapeInv, NotYet
  <2> QED
    BY <2>1, ShapeTypes DEF ShapeInv, FiledOK
<1>2. /\ lpc \in [Lists -> ListPCs] /\ found \in [Lists -> SUBSET Containers]
      /\ todo \in [Lists -> SUBSET IDs] /\ lpf \in [Lists -> Portfolios]
      /\ pfs \in [Portfolios -> SUBSET Containers]
  BY ShapeTypes DEF ShapeInv, PublishInv, TypeInv, TypeOK, ListsOK
<1>3. /\ UNCHANGED <<engine, sub, stream, watchVars, attempt, writepf>>
      /\ lpc[n] # "none" /\ lpc'[n] # "none"
      /\ \A m \in Lists : m # n => /\ lpc'[m] = lpc[m] /\ found'[m] = found[m]
                                   /\ todo'[m] = todo[m]
      /\ \A m \in Lists : lpf'[m] \in {lpf[m], writepf}
      /\ gap' \subseteq gap \union {"straddle", "inspect"}
  BY <1>2 DEF ListStep, ListBegin, ListQuery, ListInspect, ListFail, ListLock,
              ListMerge, ListReplay, ListAnnounce, ListUnlock, Publish, Missing
<1>4. /\ found[n] # {} => lpc[n] \in {"inspect", "merge", "announce"}
      /\ lpc[n] = "inspect" => \A c \in found[n] : c.id \notin todo[n]
      /\ \A c \in found[n] : Filed(c)
  BY <1>1 DEF ShapeInv, ListingOK, FoundFiled
<1>5. /\ PfsFiled(pfs') /\ \A p \in Portfolios : p > attempt => pfs'[p] = pfs[p]
      /\ \A c \in found'[n] : Filed(c)
      /\ found'[n] # {} => lpc'[n] \in {"inspect", "merge", "announce"}
      /\ lpc'[n] = "inspect" => \A c \in found'[n] : c.id \notin todo'[n]
  <2>1. CASE ListBegin(n) \/ ListQuery(n) \/ ListAnnounce(n) \/ Publish(n)
    <3>1. /\ pfs' = pfs /\ found' = found
          /\ \/ lpc[n] \in {"start", "query", "publish"}
             \/ lpc[n] = "announce" /\ lpc'[n] = "merge"
      BY <1>2, <2>1 DEF ListBegin, ListQuery, ListAnnounce, Publish
    <3>2. CASE lpc[n] \in {"start", "query", "publish"}
      BY <1>1, <1>4, <3>1, <3>2
    <3>3. CASE lpc[n] = "announce" /\ lpc'[n] = "merge"
      BY <1>1, <1>4, <3>1, <3>3
    <3> QED
      BY <3>1, <3>2, <3>3
  <2>2. CASE ListInspect(n)
    <3>1. PICK id \in todo[n] :
            /\ todo'[n] = todo[n] \ {id} /\ pfs' = pfs /\ lpc'[n] = "inspect"
            /\ lpc[n] = "inspect"
            /\ found'[n] = found[n] \/ found'[n] = found[n] \union {Snapshot(id)}
      BY <1>2, <2>2 DEF ListInspect
    <3>2. Snapshot(id).id = id /\ Filed(Snapshot(id))
      BY <1>2 DEF Snapshot, Filed, ShapeInv, FiledOK
    <3> QED
      BY <1>1, <1>4, <3>1, <3>2
  <2>3. CASE ListFail(n)
    <3>1. found'[n] = {} /\ pfs' = pfs
      BY <1>2, <2>3 DEF ListFail
    <3> QED
      BY <1>1, <3>1
  <2>4. CASE ListLock(n)
    <3>1. found' = found /\ pfs' = pfs /\ lpc'[n] = "merge"
      BY <1>2, <2>4 DEF ListLock
    <3> QED
      BY <1>1, <1>4, <3>1
  <2>5. CASE ListUnlock(n)
    <3>1. found' = found /\ pfs' = pfs /\ found[n] = {}
      BY <2>5 DEF ListUnlock
    <3> QED
      BY <1>1, <3>1
  <2>6. CASE ListMerge(n)
    <3>1. PICK c \in found[n] :
             /\ c \in Containers /\ Filed(c)
             /\ found' = [found EXCEPT ![n] = @ \ {c}]
             /\ \/ /\ c.id \notin bluenorwegians /\ ByID(pfs[lpf[n]], c.id) = {}
                   /\ pfs' = [pfs EXCEPT ![lpf[n]] = pfs[lpf[n]] \union {c}]
                   /\ lpc' = [lpc EXCEPT ![n] = "announce"]
                \/ UNCHANGED <<pfs, lpc>>
      BY <2>6, ListMergeDoes
    <3>2. lpc[n] = "merge" /\ lpc'[n] \in {"merge", "announce"} /\ found'[n] \subseteq found[n]
      BY <1>2, <2>6, <3>1 DEF ListMerge
    <3>3. PfsFiled(pfs') /\ \A p \in Portfolios : p > attempt => pfs'[p] = pfs[p]
      <4>1. CASE pfs' = pfs
        BY <1>1, <4>1
      <4>2. CASE /\ ByID(pfs[lpf[n]], c.id) = {}
                 /\ pfs' = [pfs EXCEPT ![lpf[n]] = pfs[lpf[n]] \union {c}]
        <5>1. FiledPf(pfs[lpf[n]] \union {c})
          BY <1>1, <3>1, <4>2, PfTypes, AddedIs
        <5>2. /\ pfs'[lpf[n]] = pfs[lpf[n]] \union {c}
              /\ \A p \in Portfolios : p # lpf[n] => pfs'[p] = pfs[p]
          BY <1>1, <1>2, <4>2
        <5>3. PfsFiled(pfs')
          BY <1>1, <5>1, <5>2 DEF PfsFiled, FiledPf
        <5> QED
          BY <1>1, <5>2, <5>3
      <4> QED
        BY <3>1, <4>1, <4>2
    <3> QED
      BY <1>4, <3>2, <3>3
  <2>7. CASE ListReplay(n)
    <3>1. lpc[n] = "merge" /\ found' = found /\ found[n] = {}
      BY <2>7 DEF ListReplay
    <3>2. PfsFiled(pfs') /\ \A p \in Portfolios : p > attempt => pfs'[p] = pfs[p]
      <4>1. PICK id \in todo[n] :
               \/ UNCHANGED pfs
               \/ pfs' = [pfs EXCEPT ![lpf[n]] =
                            Repaused(pfs[lpf[n]], id, pauses[id] = Paused)]
        BY <2>7, ListReplayDoes
      <4>2. CASE pfs' = pfs
        BY <1>1, <4>2
      <4>3. CASE pfs' = [pfs EXCEPT ![lpf[n]] =
                           Repaused(pfs[lpf[n]], id, pauses[id] = Paused)]
        <5> DEFINE b == pauses[id] = Paused
        <5>1. b \in BOOLEAN
          OBVIOUS
        <5> HIDE DEF b
        <5>2. FiledPf(Repaused(pfs[lpf[n]], id, b))
          BY <1>1, <5>1, PfTypes, RepausedIs
        <5>3. /\ pfs'[lpf[n]] = Repaused(pfs[lpf[n]], id, b)
              /\ \A p \in Portfolios : p # lpf[n] => pfs'[p] = pfs[p]
          BY <1>1, <1>2, <4>3 DEF b
        <5>4. PfsFiled(pfs')
          BY <1>1, <5>2, <5>3 DEF PfsFiled, FiledPf
        <5> QED
          BY <1>1, <5>3, <5>4
      <4> QED
        BY <4>1, <4>2, <4>3
    <3> QED
      BY <3>1, <3>2
  <2> QED
    BY <2>1, <2>2, <2>3, <2>4, <2>5, <2>6, <2>7 DEF ListStep
<1> QED
  BY <1>3, <1>5, ShapeListing

\* The steps together.
LEMMA ShapeNext == ASSUME FixedProjects, ShapeInv, [Next]_vars PROVE ShapeInv'
<1>1. PublishInv' /\ AsideOnlyWhileListing'
  BY PublishNext, TypeNext, AsideNext DEF ShapeInv, PublishInv
<1>2. FiledOK' /\ NotYet' /\ HandOK' /\ ListingOK'
  <2>1. CASE EngineStep \/ Subscribe \/ StreamBreak \/ Cancel
    BY <2>1, ShapeEngine
  <2>2. CASE WatchStep
    BY <2>2, ShapeControl, ShapeAttempt, ShapeHandle DEF WatchStep
  <2>3. CASE \E n \in Lists : ListStep(n)
    BY <2>3, ShapeList
  <2>4. CASE Terminated \/ UNCHANGED vars
    <3>1. UNCHANGED vars
      BY <2>4 DEF Terminated
    <3> USE <3>1 DEF vars, engineVars, streamVars, watchVars, gateVars, pfVars, listVars
    <3>2. FiledOK'
      BY DEF ShapeInv, FiledOK
    <3>3. NotYet'
      BY DEF ShapeInv, NotYet
    <3>4. HandOK' /\ ListingOK'
      BY DEF ShapeInv, HandOK, ListingOK
    <3> QED
      BY <3>2, <3>3, <3>4
  <2> QED
    BY <2>1, <2>2, <2>3, <2>4 DEF Next
<1> QED
  BY <1>1, <1>2 DEF ShapeInv

LEMMA ShapeInit == Init => ShapeInv
<1> SUFFICES ASSUME Init PROVE ShapeInv
  OBVIOUS
<1>1. PublishInv /\ AsideOnlyWhileListing
  BY PublishInit, TypeInit DEF PublishInv, Init, AsideOnlyWhileListing
<1>2. FiledOK
  BY DEF Init, FiledOK, PfsFiled, OneEach, FoundFiled, StreamFiled, HandlingPCs
<1>3. NotYet
  <2>1. 0 \in Portfolios /\ \A p \in Portfolios : pfs[p] = {}
    BY BoundsAssumption DEF Init, Portfolios
  <2> QED
    BY <2>1 DEF Init, NotYet
<1>4. HandOK /\ ListingOK
  BY DEF Init, HandOK, ListingOK
<1> QED
  BY <1>1, <1>2, <1>3, <1>4 DEF ShapeInv
-----------------------------------------------------------------------------
(***************************************************************************)
(* The attempt stays clean only while it was.                              *)
(***************************************************************************)
LEMMA ListIsThis ==
    ASSUME ShapeInv, Clean, NEW n \in Lists, ListStep(n)
    PROVE  n = attempt
<1>1. Active(n)
  BY DEF ListStep, ListBegin, ListQuery, ListInspect, ListFail, ListLock,
         ListMerge, ListReplay, ListAnnounce, ListUnlock, Publish, Active
<1> QED
  BY <1>1 DEF ShapeInv, PublishInv, OnlyThisListing, Clean

\* Only a new attempt makes a connection clean.
LEMMA CleanBack ==
    ASSUME ShapeInv, [Next]_vars, ~BeginAttempt, Clean'
    PROVE  /\ Clean /\ attempt \in Lists /\ gap \subseteq gap'
           /\ attempt' = attempt /\ writepf' = writepf
           /\ ~StreamBreak
           /\ ~(TryFail \/ RecvErr \/ RecvListErr \/ Retry \/ GiveUp)
           /\ \A n \in Lists : ~ListFail(n)
<1> USE DEF engineVars, streamVars, watchVars, gateVars, pfVars, listVars
<1>1. sub' \in {"pending", "live"} /\ lpc'[attempt'] # "failed"
      /\ "overlap" \notin gap' /\ "leftover" \notin gap'
  BY DEF Clean
<1>2. ~StreamBreak
  BY <1>1 DEF StreamBreak
<1>3. ~(TryFail \/ RecvErr \/ RecvListErr \/ Retry \/ GiveUp)
  <2>1. (TryFail \/ Retry \/ GiveUp) => sub = "off" /\ sub' = sub
    BY DEF TryFail, Retry, GiveUp, ShapeInv, NotYet
  <2>2. (RecvErr \/ RecvListErr) => sub' = "off"
    BY DEF RecvErr, RecvListErr
  <2> QED
    BY <1>1, <2>1, <2>2
<1>4. /\ sub \in {"pending", "live"} /\ gap \subseteq gap'
      /\ attempt' = attempt /\ writepf' = writepf
      /\ lpc[attempt] = "failed" => lpc'[attempt] = "failed"
  <2>1. CASE EngineStep \/ Subscribe \/ Cancel
    BY <1>1, <2>1
    DEF EngineStep, EngineStart, EngineDie, EnginePause, EngineUnpause, Change,
        Subscribe, Cancel, Missing
  <2>2. CASE HandleEvent
    BY <1>1, <2>2
    DEF HandleEvent, RecvEvent, BornInspect, BornAdd, DemiseGate, DemiseRemove,
        PauseGate, PauseApply, Notify, Missing
  <2>3. ASSUME NEW n \in Lists, ListStep(n)
        PROVE  /\ UNCHANGED <<sub, attempt, writepf>> /\ gap \subseteq gap'
               /\ lpc[attempt] = "failed" => lpc'[attempt] = "failed"
    <3>1. UNCHANGED <<sub, attempt, writepf>> /\ gap \subseteq gap'
      BY <2>3
      DEF ListStep, ListBegin, ListQuery, ListInspect, ListFail, ListLock,
          ListMerge, ListReplay, ListAnnounce, ListUnlock, Publish, Missing
    <3>2. lpc[n] # "failed" /\ (lpc' = lpc \/ \E x : lpc' = [lpc EXCEPT ![n] = x])
      BY <2>3
      DEF ListStep, ListBegin, ListQuery, ListInspect, ListFail, ListLock,
          ListMerge, ListReplay, ListAnnounce, ListUnlock, Publish
    <3>3. attempt \in Lists
      BY <1>1, <3>1, ShapeTypes
    <3>4. lpc[attempt] = "failed" => lpc'[attempt] = "failed"
      BY <3>2, <3>3, ShapeTypes
    <3> QED
      BY <3>1, <3>4
  <2>4. CASE Terminated \/ UNCHANGED vars
    BY <1>1, <2>4 DEF Terminated, vars
  <2> QED
    BY <1>1, <1>2, <1>3, <2>1, <2>2, <2>3, <2>4 DEF Next, WatchStep
<1>5. Clean /\ attempt \in Lists
  BY <1>1, <1>4, ShapeTypes DEF Clean
<1>6. \A n \in Lists : ~ListFail(n)
  <2> SUFFICES ASSUME NEW n \in Lists, ListFail(n) PROVE FALSE
    OBVIOUS
  <2>1. n = attempt
    BY <1>5, ListIsThis DEF ListStep
  <2>2. lpc'[n] = "failed"
    BY ShapeTypes DEF ListFail
  <2> QED
    BY <1>1, <1>4, <2>1, <2>2
<1> QED
  BY <1>2, <1>3, <1>4, <1>5, <1>6
-----------------------------------------------------------------------------
(***************************************************************************)
(* The events add up.                                                      *)
(***************************************************************************)
LEMMA AppendAfter ==
    ASSUME NEW e \in Events, NEW s \in Seq(Events), NEW ev \in Events
    PROVE  <<e>> \o Append(s, ev) = Append(<<e>> \o s, ev)
<1> DEFINE l == <<e>> \o Append(s, ev)
           t == <<e>> \o s
           r == Append(t, ev)
<1>1. <<e>> \in Seq(Events) /\ Len(<<e>>) = 1 /\ Append(s, ev) \in Seq(Events)
  OBVIOUS
<1>2. /\ Len(s) \in Nat /\ Len(Append(s, ev)) = Len(s) + 1
      /\ Append(s, ev)[Len(s) + 1] = ev
      /\ \A j \in 1..Len(s) : Append(s, ev)[j] = s[j]
  BY AppendProperties, LenProperties
<1>3. /\ l \in Seq(Events) /\ Len(l) = 1 + Len(Append(s, ev))
      /\ \A i \in 1..Len(l) : l[i] = IF i <= 1 THEN <<e>>[i] ELSE Append(s, ev)[i - 1]
  BY <1>1, ConcatProperties
<1>4. /\ t \in Seq(Events) /\ Len(t) = 1 + Len(s)
      /\ \A i \in 1..Len(t) : t[i] = IF i <= 1 THEN <<e>>[i] ELSE s[i - 1]
  BY <1>1, ConcatProperties
<1>5. /\ r \in Seq(Events) /\ Len(r) = Len(t) + 1 /\ r[Len(t) + 1] = ev
      /\ \A j \in 1..Len(t) : r[j] = t[j]
  BY <1>4, AppendProperties
<1> HIDE DEF l, t, r
<1>6. ASSUME NEW i \in 1..Len(l) PROVE l[i] = r[i]
  <2>1. \/ i = 1
        \/ ~(i <= 1) /\ i - 1 \in 1..Len(s) /\ i \in 1..Len(t)
        \/ ~(i <= 1) /\ i = Len(t) + 1 /\ i - 1 = Len(s) + 1
    BY <1>2, <1>3, <1>4
  <2>2. 1 \in 1..Len(t)
    BY <1>2, <1>4
  <2> QED
    BY <1>2, <1>3, <1>4, <1>5, <2>1, <2>2
<1>7. Len(l) = Len(r)
  BY <1>2, <1>3, <1>4, <1>5
<1>8. l = r
  BY <1>3, <1>5, <1>6, <1>7, SeqEqual
<1> QED
  BY <1>8 DEF l, t, r

\* An event of the engine comes last on the agenda.
LEMMA AgendaMore ==
    ASSUME ShapeInv, NEW ev \in Events, stream' = Append(stream, ev),
           wpc' = wpc, evt' = evt
    PROVE  Agenda' = Append(Agenda, ev)
<1>1. stream \in Seq(Events) /\ (wpc \in InWork => evt \in Events)
  BY AgendaIs
<1> QED
  BY <1>1, AppendAfter DEF Agenda, InWork, HandlingPCs

\* A change of the engine, with the event about it.
LEMMA EventsChange ==
    ASSUME ShapeInv, Clean, EventsOK, EngineStep
    PROVE  EventsOK'
<1> USE DEF watchVars, pfVars, gateVars, listVars
<1>1. PICK ev \in Events :
             /\ Follows(engine[ev.id], ev.type, engine'[ev.id])
             /\ \A id \in IDs : id # ev.id => engine'[id] = engine[id]
             /\ stream' = IF sub = "live" THEN Append(stream, ev) ELSE stream
             /\ UNCHANGED <<sub, cancelled, watchVars, attempt, pfVars, gateVars,
                            ready, listVars, view>>
  BY ChangeDoes
<1>2. ev.id \in IDs /\ ev.type \in EventTypes
  BY DEF Events
<1>3. CASE sub = "live"
  <2>1. /\ stream' = Append(stream, ev) /\ Agenda \in Seq(Events)
        /\ Gated \in 0..Len(Agenda) /\ 0 \in 0..Len(Agenda)
    BY <1>1, <1>3, AgendaIs
  <2>2. Agenda' = Append(Agenda, ev)
    BY <1>1, <2>1, AgendaMore
  <2>3. SoundOn(Agenda, engine)'
    BY <1>1, <2>1, <2>2, SoundAppend DEF EventsOK
  <2>4. FlagOK'
    BY <1>1, <1>3 DEF EventsOK, FlagOK
  <2>5. Gated' = Gated
    BY <1>1 DEF Gated
  <2>6. \A id, T : /\ Coming(Agenda', Gated, id, T)
                        <=> Coming(Agenda, Gated, id, T) \/ (ev.id = id /\ ev.type \in T)
                   /\ Coming(Agenda', 0, id, T)
                        <=> Coming(Agenda, 0, id, T) \/ (ev.id = id /\ ev.type \in T)
    BY <2>1, <2>2, ComingAppend
  <2>7. \A id : /\ ExitFirst(Agenda, Gated, id)
                /\ ev.id = id /\ ev.type = Started => Coming(Agenda, Gated, id, {Exited})
                => ExitFirst(Agenda', Gated, id)
    BY <2>1, <2>2, ExitFirstAppend
  <2>8. AsideOK'
    <3> SUFFICES ASSUME NEW id \in IDs, pauses[id] # "none"
                 PROVE  /\ \/ Coming(Agenda', Gated, id, {Exited})
                           \/ /\ engine'[id].alive
                              /\ \/ Coming(Agenda', Gated, id, PauseTypes)
                                 \/ engine'[id].paused = (pauses[id] = Paused)
                        /\ ExitFirst(Agenda', Gated, id)
                        /\ wpc = "remove" => evt.id # id
      BY <1>1, <2>5 DEF AsideOK
    <3>1. /\ \/ Coming(Agenda, Gated, id, {Exited})
             \/ /\ engine[id].alive
                /\ \/ Coming(Agenda, Gated, id, PauseTypes)
                   \/ engine[id].paused = (pauses[id] = Paused)
          /\ ExitFirst(Agenda, Gated, id)
          /\ wpc = "remove" => evt.id # id
      BY DEF EventsOK, AsideOK
    <3>2. CASE ev.id # id
      BY <1>1, <2>6, <2>7, <3>1, <3>2
    <3>3. CASE ev.id = id
      BY <1>1, <1>2, <2>6, <2>7, <3>1, <3>3
      DEF Follows, EventTypes, PauseTypes, Started, Exited, Paused, Unpaused
    <3> QED
      BY <3>2, <3>3
  <2>9. HeldOK'
    <3> SUFFICES ASSUME wpc = "add", NEW c \in held
                 PROVE  Right(c, engine'[c.id], Coming(Agenda', 0, c.id, {Exited}),
                                                Coming(Agenda', 0, c.id, PauseTypes))
      BY <1>1 DEF HeldOK
    <3>1. Right(c, engine[c.id], Coming(Agenda, 0, c.id, {Exited}),
                                 Coming(Agenda, 0, c.id, PauseTypes))
      BY DEF EventsOK, HeldOK
    <3>2. c.id \in IDs
      BY DEF ShapeInv, PublishInv, TypeInv, TypeOK, WatchOK, Containers
    <3>3. CASE ev.id # c.id
      BY <1>1, <2>6, <3>1, <3>2, <3>3 DEF Right
    <3>4. CASE ev.id = c.id
      BY <1>1, <1>2, <2>6, <3>1, <3>4
      DEF Right, Follows, EventTypes, PauseTypes, Started, Exited, Paused, Unpaused
    <3> QED
      BY <3>3, <3>4
  <2> QED
    BY <2>3, <2>4, <2>8, <2>9 DEF EventsOK
<1>4. CASE sub = "pending"
  <2>1. /\ stream' = <<>> /\ wpc' = "loop"
        /\ bluenorwegians' = {} /\ pauses' = NoPauses
    BY <1>1, <1>4 DEF EventsOK, FlagOK
  <2>2. Agenda' = <<>>
    BY <2>1 DEF Agenda, InWork, HandlingPCs
  <2>3. SoundOn(Agenda, engine)'
    BY <2>2 DEF SoundOn
  <2>4. FlagOK'
    BY <1>1, <2>1 DEF EventsOK, FlagOK
  <2>5. AsideOK' /\ HeldOK'
    BY <2>1 DEF AsideOK, HeldOK, NoPauses
  <2> QED
    BY <2>3, <2>4, <2>5 DEF EventsOK
<1> QED
  BY <1>3, <1>4 DEF Clean

\* A new attempt starts with nothing to handle.
LEMMA EventsAttempt ==
    ASSUME ShapeInv, BeginAttempt, Clean'
    PROVE  EventsOK'
<1> USE DEF watchVars, pfVars, gateVars, listVars
<1>1. /\ sub' = "pending" /\ stream' = <<>> /\ wpc' = "loop" /\ attempt' = attempt + 1
      /\ lpc' = [lpc EXCEPT ![attempt + 1] = "start"]
      /\ ~listinprogress /\ attempt + 1 \in Lists
      /\ UNCHANGED <<listinprogress, bluenorwegians, pauses>>
  BY ShapeTypes, BoundsAssumption DEF BeginAttempt, Clean, Lists
<1>2. bluenorwegians = {} /\ pauses = NoPauses
  BY <1>1 DEF ShapeInv, AsideOnlyWhileListing
<1>3. Agenda' = <<>>
  BY <1>1 DEF Agenda, InWork, HandlingPCs
<1>4. SoundOn(Agenda, engine)'
  BY <1>3 DEF SoundOn
<1>5. FlagOK'
  BY <1>1, <1>2, ShapeTypes DEF FlagOK
<1>6. AsideOK' /\ HeldOK'
  BY <1>1, <1>2 DEF AsideOK, HeldOK, NoPauses
<1> QED
  BY <1>4, <1>5, <1>6 DEF EventsOK
-----------------------------------------------------------------------------
\* An event is handled only when subscribed.
LEMMA HandleFlags ==
    ASSUME ShapeInv, Clean, FlagOK, HandleEvent
    PROVE  /\ sub = "live" /\ FlagOK'
           /\ UNCHANGED <<engine, sub, attempt, lpc, todo, found, note, writepf,
                          readpf, listinprogress>>
<1> USE DEF watchVars, pfVars, gateVars, listVars, engineVars, streamVars
<1>1. UNCHANGED <<engine, sub, attempt, lpc, todo, found, note, writepf,
                  readpf, listinprogress>>
  BY DEF HandleEvent, RecvEvent, BornInspect, BornAdd, DemiseGate, DemiseRemove,
         PauseGate, PauseApply, Notify
<1>2. wpc # "loop" \/ stream # <<>>
  BY DEF HandleEvent, RecvEvent, BornInspect, BornAdd, DemiseGate, DemiseRemove,
         PauseGate, PauseApply, Notify
<1>3. sub = "live"
  BY <1>2 DEF FlagOK, Clean
<1>4. FlagOK'
  BY <1>1, <1>3 DEF FlagOK
<1> QED
  BY <1>1, <1>3, <1>4

\* Done with the start of a container: it has neither ended it nor paused it.
LEMMA AsideAfterStart ==
    ASSUME ShapeInv, AsideOK, wpc \in {"born", "add"}, wpc' \in {"loop", "notify"},
           stream' = stream, engine' = engine, pauses' = pauses
    PROVE  /\ AsideOK' /\ pauses[evt.id] = "none"
<1>1. wpc \in InWork /\ wpc' \notin InWork /\ Gated = 0 /\ evt.type = Started
      /\ wpc' # "remove"
  BY DEF InWork, HandlingPCs, Gated, ShapeInv, HandOK
<1>2. Agenda' = Tail(Agenda) /\ Gated' = 0
  BY <1>1, AgendaNext
<1>3. ASSUME NEW id \in IDs, pauses[id] # "none"
      PROVE  /\ \/ Coming(Tail(Agenda), 0, id, {Exited})
                \/ /\ engine[id].alive
                   /\ \/ Coming(Tail(Agenda), 0, id, PauseTypes)
                      \/ engine[id].paused = (pauses[id] = Paused)
             /\ ExitFirst(Tail(Agenda), 0, id)
             /\ evt.id # id
  <2>1. /\ \/ Coming(Agenda, 0, id, {Exited})
           \/ /\ engine[id].alive
              /\ \/ Coming(Agenda, 0, id, PauseTypes)
                 \/ engine[id].paused = (pauses[id] = Paused)
        /\ ExitFirst(Agenda, 0, id)
    BY <1>1, <1>3 DEF AsideOK
  <2>2. evt.type \notin {Exited} /\ evt.type \notin PauseTypes /\ evt.type # Exited
    BY <1>1 DEF PauseTypes, Started, Exited, Paused, Unpaused
  <2>3. \A T : /\ Coming(Tail(Agenda), 0, id, T) <=> Coming(Agenda, 1, id, T)
               /\ Coming(Agenda, 0, id, T)
                    <=> Coming(Agenda, 1, id, T) \/ (evt.id = id /\ evt.type \in T)
    BY <1>1, Remaining
  <2>4. ExitFirst(Tail(Agenda), 0, id) /\ ~(evt.id = id /\ evt.type = Started)
    BY <1>1, <2>1, <2>2, Remaining
  <2> QED
    BY <1>1, <2>1, <2>2, <2>3, <2>4
<1>4. AsideOK'
  BY <1>1, <1>2, <1>3 DEF AsideOK
<1>5. pauses[evt.id] = "none"
  <2>1. evt.id \in IDs
    BY <1>1, AgendaIs
  <2> QED
    BY <1>3, <2>1
<1> QED
  BY <1>4, <1>5

\* Watch handles an event: what it sets aside is the latest, or will be corrected.
LEMMA EventsHandle ==
    ASSUME ShapeInv, Clean, EventsOK, HandleEvent
    PROVE  EventsOK'
<1> USE DEF watchVars, pfVars, gateVars, listVars, engineVars, streamVars
<1>0. SoundOn(Agenda, engine) /\ FlagOK /\ AsideOK /\ HeldOK
  BY DEF EventsOK
<1>1. FlagOK' /\ engine' = engine /\ listinprogress' = listinprogress
  BY <1>0, HandleFlags
<1>2. Agenda \in Seq(Events) /\ (wpc \in InWork => Agenda # <<>> /\ evt.id \in IDs)
  BY AgendaIs
<1>3. ASSUME Agenda' = Agenda \/ (Agenda' = Tail(Agenda) /\ wpc \in InWork)
      PROVE  SoundOn(Agenda, engine)'
  <2>1. Agenda # <<>> => SoundOn(Tail(Agenda), engine)
    BY <1>0, <1>2, SoundTail
  <2> QED
    BY <1>0, <1>1, <1>2, <1>3, <2>1
<1>4. CASE RecvEvent
  <2>1. Agenda' = Agenda /\ Gated' = 0 /\ Gated = 0
    BY <1>4, AgendaTaken
  <2>2. pauses' = pauses /\ wpc' \notin {"remove", "add"}
    BY <1>4 DEF RecvEvent
  <2>3. AsideOK'
    BY <1>0, <1>1, <2>1, <2>2 DEF AsideOK
  <2>4. HeldOK'
    BY <2>2 DEF HeldOK
  <2> QED
    BY <1>1, <1>3, <2>1, <2>3, <2>4 DEF EventsOK
<1>5. CASE BornInspect
  <2>1. wpc = "born" /\ stream' = stream /\ pauses' = pauses
    BY <1>5 DEF BornInspect
  <2>2. CASE wpc' = "loop"
    <3>1. Agenda' = Tail(Agenda) /\ wpc \in InWork
      BY <2>1, <2>2, AgendaNext DEF InWork, HandlingPCs
    <3>2. AsideOK'
      BY <1>0, <1>1, <2>1, <2>2, AsideAfterStart
    <3>3. HeldOK'
      BY <2>2 DEF HeldOK
    <3> QED
      BY <1>1, <1>3, <3>1, <3>2, <3>3 DEF EventsOK
  <2>3. CASE /\ engine[evt.id].alive /\ wpc' = "add" /\ held' = {Snapshot(evt.id)}
             /\ evt' = evt
    <3>1. Agenda' = Agenda /\ Gated' = Gated
      BY <2>1, <2>3, AgendaStays DEF InWork, HandlingPCs, Gated
    <3>2. AsideOK'
      BY <1>0, <1>1, <2>1, <2>3, <3>1 DEF AsideOK
    <3>3. HeldOK'
      BY <1>1, <2>3 DEF HeldOK, Right, Snapshot
    <3> QED
      BY <1>1, <1>3, <3>1, <3>2, <3>3 DEF EventsOK
  <2> QED
    BY <1>5, <2>2, <2>3 DEF BornInspect, ToLoop
<1>6. CASE BornAdd
  <2>1. /\ wpc = "add" /\ stream' = stream /\ pauses' = pauses
        /\ wpc' \in {"loop", "notify"}
    BY <1>6 DEF BornAdd, ToNotify, ToLoop
  <2>2. Agenda' = Tail(Agenda) /\ wpc \in InWork
    BY <2>1, AgendaNext DEF InWork, HandlingPCs
  <2>3. AsideOK'
    BY <1>0, <1>1, <2>1, AsideAfterStart
  <2>4. HeldOK'
    BY <2>1 DEF HeldOK
  <2> QED
    BY <1>1, <1>3, <2>2, <2>3, <2>4 DEF EventsOK
<1>7. CASE DemiseGate
  <2>1. /\ wpc = "demise" /\ wpc' = "remove" /\ evt' = evt /\ stream' = stream
        /\ pauses' = [pauses EXCEPT ![evt.id] = "none"]
        /\ wpc \in InWork /\ wpc' \in InWork /\ evt.type = Exited
    BY <1>7 DEF DemiseGate, InWork, HandlingPCs, ShapeInv, HandOK
  <2>2. Agenda' = Agenda /\ Gated' = 1 /\ Gated = 0
    BY <2>1, AgendaStays DEF Gated
  <2>3. AsideOK'
    <3> SUFFICES ASSUME NEW id \in IDs, pauses'[id] # "none"
                 PROVE  /\ \/ Coming(Agenda, 1, id, {Exited})
                           \/ /\ engine[id].alive
                              /\ \/ Coming(Agenda, 1, id, PauseTypes)
                                 \/ engine[id].paused = (pauses'[id] = Paused)
                        /\ ExitFirst(Agenda, 1, id)
                        /\ evt.id # id
      BY <1>1, <2>1, <2>2 DEF AsideOK
    <3>1. id # evt.id /\ pauses'[id] = pauses[id]
      BY <1>2, <2>1, ShapeTypes
    <3>2. /\ \/ Coming(Agenda, 0, id, {Exited})
             \/ /\ engine[id].alive
                /\ \/ Coming(Agenda, 0, id, PauseTypes)
                   \/ engine[id].paused = (pauses[id] = Paused)
          /\ ExitFirst(Agenda, 0, id)
      BY <1>0, <2>2, <3>1 DEF AsideOK
    <3> QED
      BY <2>1, <3>1, <3>2, Remaining
  <2>4. HeldOK'
    BY <2>1 DEF HeldOK
  <2> QED
    BY <1>1, <1>3, <2>2, <2>3, <2>4 DEF EventsOK
<1>8. CASE DemiseRemove \/ PauseApply
  <2>1. /\ wpc \in {"remove", "setpaused"} /\ stream' = stream /\ pauses' = pauses
        /\ wpc' \in {"loop", "notify"}
    BY <1>8 DEF DemiseRemove, PauseApply, ToNotify, ToLoop
  <2>2. Agenda' = Tail(Agenda) /\ wpc \in InWork /\ Gated' = 0 /\ Gated = 1
    BY <2>1, AgendaNext DEF InWork, HandlingPCs, Gated
  <2>3. AsideOK'
    <3>1. \A id : /\ ExitFirst(Tail(Agenda), 0, id) <=> ExitFirst(Agenda, 1, id)
                  /\ \A T : Coming(Tail(Agenda), 0, id, T) <=> Coming(Agenda, 1, id, T)
      BY <2>2, Remaining
    <3> QED
      BY <1>0, <1>1, <2>1, <2>2, <3>1 DEF AsideOK
  <2>4. HeldOK'
    BY <2>1 DEF HeldOK
  <2> QED
    BY <1>1, <1>3, <2>2, <2>3, <2>4 DEF EventsOK
<1>9. CASE PauseGate
  <2>1. /\ wpc = "pausing" /\ stream' = stream /\ wpc \in InWork /\ Gated = 0
        /\ evt.type \in PauseTypes
    BY <1>9 DEF PauseGate, InWork, HandlingPCs, Gated, ShapeInv, PublishInv, TypeInv,
                EventFits, PauseTypes
  <2>2. CASE pauses' = [pauses EXCEPT ![evt.id] = evt.type] /\ wpc' = "loop"
    <3>1. Agenda' = Tail(Agenda) /\ Gated' = 0
      BY <2>1, <2>2, AgendaNext DEF InWork, HandlingPCs
    <3>2. AsideOK'
      <4> SUFFICES ASSUME NEW id \in IDs, pauses'[id] # "none"
                   PROVE  /\ \/ Coming(Agenda, 1, id, {Exited})
                             \/ /\ engine[id].alive
                                /\ \/ Coming(Agenda, 1, id, PauseTypes)
                                   \/ engine[id].paused = (pauses'[id] = Paused)
                          /\ ExitFirst(Agenda, 1, id)
        <5>1. \A id : /\ ExitFirst(Tail(Agenda), 0, id) <=> ExitFirst(Agenda, 1, id)
                      /\ \A T : Coming(Tail(Agenda), 0, id, T) <=> Coming(Agenda, 1, id, T)
          BY <2>1, Remaining
        <5> QED
          BY <1>1, <2>2, <3>1, <5>1 DEF AsideOK
      <4>1. CASE id = evt.id
        <5>1. pauses'[id] = evt.type
          BY <2>2, <4>1, ShapeTypes
        <5>2. SoundAt(Agenda, 1, engine[id])
          <6>1. 1 \in 1..Len(Agenda) /\ Agenda[1] = evt
            BY <2>1, AgendaIs, TailOf
          <6> QED
            BY <1>0, <4>1, <6>1 DEF SoundOn
        <5>3. Agenda[1] = evt
          BY <2>1, AgendaIs
        <5> QED
          BY <2>1, <4>1, <5>1, <5>2, <5>3 DEF SoundAt
      <4>2. CASE id # evt.id
        <5>1. pauses'[id] = pauses[id]
          BY <1>2, <2>1, <2>2, <4>2, ShapeTypes
        <5>2. /\ \/ Coming(Agenda, 0, id, {Exited})
                 \/ /\ engine[id].alive
                    /\ \/ Coming(Agenda, 0, id, PauseTypes)
                       \/ engine[id].paused = (pauses[id] = Paused)
              /\ ExitFirst(Agenda, 0, id)
          BY <1>0, <2>1, <5>1 DEF AsideOK
        <5> QED
          BY <2>1, <4>2, <5>1, <5>2, Remaining
      <4> QED
        BY <4>1, <4>2
    <3>3. HeldOK'
      BY <2>2 DEF HeldOK
    <3> QED
      BY <1>1, <1>3, <2>1, <3>1, <3>2, <3>3 DEF EventsOK
  <2>3. CASE ~listinprogress /\ wpc' = "setpaused" /\ pauses' = pauses /\ evt' = evt
    <3>1. Agenda' = Agenda
      BY <2>1, <2>3, AgendaStays DEF InWork, HandlingPCs
    <3>2. AsideOK'
      BY <2>3 DEF AsideOK, NoPauses, ShapeInv, AsideOnlyWhileListing
    <3>3. HeldOK'
      BY <2>3 DEF HeldOK
    <3> QED
      BY <1>1, <1>3, <3>1, <3>2, <3>3 DEF EventsOK
  <2> QED
    BY <1>9, <2>2, <2>3 DEF PauseGate, ToLoop
<1>10. CASE Notify
  <2>1. wpc = "notify" /\ wpc' = "loop" /\ stream' = stream /\ pauses' = pauses
    BY <1>10 DEF Notify, ToLoop
  <2>2. Agenda' = Agenda /\ Gated' = Gated
    BY <2>1, AgendaStays DEF InWork, HandlingPCs, Gated
  <2>3. AsideOK' /\ HeldOK'
    BY <1>0, <1>1, <2>1, <2>2 DEF AsideOK, HeldOK
  <2> QED
    BY <1>1, <1>3, <2>2, <2>3 DEF EventsOK
<1> QED
  BY <1>4, <1>5, <1>6, <1>7, <1>8, <1>9, <1>10 DEF HandleEvent
-----------------------------------------------------------------------------
\* What no step of a listing touches.
LEMMA ListLeaves ==
    ASSUME NEW n \in Lists, ListStep(n)
    PROVE  /\ UNCHANGED <<engine, sub, stream, wpc, evt, held, attempt, writepf>>
           /\ Agenda' = Agenda /\ Gated' = Gated
<1> USE DEF engineVars, streamVars, watchVars, pfVars
<1>1. UNCHANGED <<engine, sub, stream, wpc, evt, held, attempt, writepf>>
  BY DEF ListStep, ListBegin, ListQuery, ListInspect, ListFail, ListLock,
         ListMerge, ListReplay, ListAnnounce, ListUnlock, Publish
<1> QED
  BY <1>1 DEF Agenda, Gated

\* The listing begins to set aside, and forgets what was set aside.
LEMMA EventsList ==
    ASSUME ShapeInv, Clean, EventsOK, NEW n \in Lists, ListStep(n), ~ListFail(n)
    PROVE  EventsOK'
<1> USE DEF gateVars, pfVars, listVars
<1>1. n = attempt /\ lpc \in [Lists -> ListPCs]
  BY ListIsThis, ShapeTypes
<1>2. /\ UNCHANGED <<engine, sub, stream, wpc, evt, held, attempt, writepf>>
      /\ Agenda' = Agenda /\ Gated' = Gated
  BY ListLeaves
<1>3. SoundOn(Agenda, engine)' /\ HeldOK'
  BY <1>2 DEF EventsOK, HeldOK
<1>4. CASE ListUnlock(n)
  <2>1. /\ bluenorwegians' = {} /\ ~listinprogress' /\ pauses' = NoPauses
        /\ lpc'[n] = "publish"
    BY <1>1, <1>4 DEF ListUnlock, ClearAside
  <2>2. FlagOK'
    BY <1>1, <1>2, <2>1 DEF EventsOK, FlagOK
  <2>3. AsideOK'
    BY <2>1 DEF AsideOK, NoPauses
  <2> QED
    BY <1>3, <2>2, <2>3 DEF EventsOK
<1>5. CASE ~ListUnlock(n)
  <2>1. UNCHANGED <<bluenorwegians, pauses>>
    BY <1>5
    DEF ListStep, ListBegin, ListQuery, ListInspect, ListFail, ListLock,
        ListMerge, ListReplay, ListAnnounce, Publish
  <2>2. AsideOK'
    BY <1>2, <2>1 DEF EventsOK, AsideOK
  <2>3. \/ /\ lpc'[n] \in {"query", "inspect", "merge", "announce"} /\ listinprogress'
           /\ UNCHANGED readpf
        \/ /\ lpc'[n] = "done" /\ listinprogress' = listinprogress
           /\ lpc[n] = "publish" /\ readpf' = writepf
    <3>1. CASE ListBegin(n)
      BY <1>1, <3>1 DEF ListBegin
    <3>2. CASE Publish(n)
      BY <1>1, <3>2 DEF Publish
    <3>3. CASE ~ListBegin(n) /\ ~Publish(n)
      <4>1. /\ lpc[n] \in {"query", "inspect", "merge", "announce"}
            /\ UNCHANGED <<listinprogress, readpf>>
            /\ lpc'[n] \in {"query", "inspect", "merge", "announce"}
        BY <1>1, <1>5, <3>3
        DEF ListStep, ListQuery, ListInspect, ListLock, ListMerge, ListReplay, ListAnnounce
      <4> QED
        BY <1>1, <4>1 DEF EventsOK, FlagOK
    <3> QED
      BY <3>1, <3>2, <3>3
  <2>4. FlagOK'
    BY <1>1, <1>2, <2>1, <2>3 DEF EventsOK, FlagOK
  <2> QED
    BY <1>3, <2>2, <2>4 DEF EventsOK
<1> QED
  BY <1>4, <1>5

\* The steps together.
LEMMA EventsNext ==
    ASSUME ShapeInv, EventsInv, [Next]_vars
    PROVE  EventsInv'
<1> SUFFICES ASSUME Clean' PROVE EventsOK'
  BY DEF EventsInv
<1>1. CASE BeginAttempt
  BY <1>1, EventsAttempt
<1>2. CASE ~BeginAttempt
  <2>1. /\ Clean /\ ~StreamBreak /\ (\A n \in Lists : ~ListFail(n))
        /\ ~(TryFail \/ RecvErr \/ RecvListErr \/ Retry \/ GiveUp)
    BY <1>2, CleanBack
  <2>2. EventsOK
    BY <2>1 DEF EventsInv
  <2>3. CASE EngineStep
    BY <2>1, <2>2, <2>3, EventsChange
  <2>4. CASE HandleEvent
    BY <2>1, <2>2, <2>4, EventsHandle
  <2>5. CASE \E n \in Lists : ListStep(n)
    BY <2>1, <2>2, <2>5, EventsList
  <2>6. CASE Subscribe \/ Cancel \/ Terminated \/ UNCHANGED vars
    <3>1. /\ UNCHANGED <<engine, stream, wpc, evt, held, attempt, writepf, readpf, lpc,
                         listinprogress, bluenorwegians, pauses>>
          /\ sub' = sub \/ sub' = "live"
      BY <2>6
      DEF Subscribe, Cancel, Terminated, vars, engineVars, streamVars, watchVars,
          gateVars, pfVars, listVars
    <3>2. Agenda' = Agenda /\ Gated' = Gated
      BY <3>1 DEF Agenda, Gated
    <3>3. SoundOn(Agenda, engine)' /\ AsideOK' /\ HeldOK'
      BY <2>2, <3>1, <3>2 DEF EventsOK, AsideOK, HeldOK
    <3>4. FlagOK'
      BY <2>2, <3>1 DEF EventsOK, FlagOK
    <3> QED
      BY <3>3, <3>4 DEF EventsOK
  <2> QED
    BY <1>2, <2>1, <2>3, <2>4, <2>5, <2>6 DEF Next, WatchStep
<1> QED
  BY <1>1, <1>2
-----------------------------------------------------------------------------
(***************************************************************************)
(* The content of the portfolio adds up.                                   *)
(***************************************************************************)
LEMMA ContentTypes ==
    ASSUME ShapeInv, attempt \in Lists
    PROVE  /\ \A c \in pfs[writepf] : c \in Containers /\ c.id \in IDs
           /\ \A c \in found[attempt] : c \in Containers /\ c.id \in IDs
           /\ AliveIDs \subseteq IDs
BY ShapeTypes DEF Containers, AliveIDs

\* Steps that leave the portfolio, and what is to come, as they are.
LEMMA ContentStays ==
    ASSUME ShapeInv, ContentOK, attempt \in Lists,
           UNCHANGED <<engine, attempt, writepf, pfs, bluenorwegians>>,
           found'[attempt] = found[attempt], Agenda' = Agenda, Gated' = Gated,
           \A id \in IDs : Waits(id)' <=> Waits(id),
           \A id \in IDs : /\ Undecided(id)' => Undecided(id)
                           /\ Undecided(id) /\ engine[id].alive => Undecided(id)',
           sub' \in {sub, "live"}, gap \subseteq gap'
    PROVE  ContentOK'
<1>1. FoundOK'
  BY ContentTypes DEF ContentOK, FoundOK
<1>2. KeptOK'
  BY ContentTypes DEF ContentOK, KeptOK
<1>3. "inspect" \notin gap' => MissingOK'
  <2> SUFFICES ASSUME "inspect" \notin gap' PROVE MissingOK'
    OBVIOUS
  <2>1. MissingOK
    BY DEF ContentOK
  <2>2. AliveIDs' = AliveIDs
    BY DEF AliveIDs
  <2>3. \A id \in AliveIDs : OnItsWay(id) => OnItsWay(id)'
    BY DEF OnItsWay, AliveIDs
  <2> QED
    BY <2>1, <2>2, <2>3 DEF MissingOK
<1> QED
  BY <1>1, <1>2, <1>3 DEF ContentOK

\* A new attempt has an empty portfolio, and a listing yet to look.
LEMMA ContentAttempt ==
    ASSUME ShapeInv, BeginAttempt, Clean'
    PROVE  ContentOK'
<1> USE DEF watchVars, pfVars, gateVars, listVars
<1> DEFINE n == attempt + 1
<1>1. /\ sub' = "pending" /\ attempt' = n /\ found' = found /\ pfs' = pfs
      /\ lpc' = [lpc EXCEPT ![n] = "start"]
      /\ writepf' = IF pfs[writepf] # {} THEN n ELSE writepf
      /\ ~listinprogress /\ attempt < MaxAttempts /\ bluenorwegians' = bluenorwegians
  BY DEF BeginAttempt, Clean, WrittenFrom
<1>2. /\ n \in Lists /\ n \in Portfolios /\ n > attempt
  BY <1>1, ShapeTypes, BoundsAssumption DEF Lists, Portfolios
<1>3. bluenorwegians = {}
  BY <1>1 DEF ShapeInv, AsideOnlyWhileListing
<1>4. lpc[n] = "none" /\ found[n] = {} /\ pfs[n] = {}
  <2>1. lpc[n] = "none"
    BY <1>2, ShapeTypes
  <2> QED
    BY <1>2, <2>1 DEF ShapeInv, ListingOK, NotYet
<1> HIDE DEF n
<1>5. FoundOK'
  BY <1>1, <1>4 DEF FoundOK
<1>6. KeptOK'
  BY <1>1, <1>4 DEF KeptOK
<1>7. MissingOK'
  <2>1. \A id : Undecided(id)'
    BY <1>1, <1>2, ShapeTypes DEF Undecided
  <2>2. bluenorwegians' = {}
    BY <1>1, <1>3
  <2> QED
    BY <2>1, <2>2 DEF MissingOK, OnItsWay
<1> QED
  BY <1>5, <1>6, <1>7 DEF ContentOK

\* A change of the engine is in the stream, or the listing has yet to look.
LEMMA ContentChange ==
    ASSUME ShapeInv, Clean, EventsOK, ContentOK, EngineStep, "missed" \notin gap'
    PROVE  ContentOK'
<1> USE DEF watchVars, pfVars, gateVars, listVars
<1>1. PICK ev \in Events :
             /\ Follows(engine[ev.id], ev.type, engine'[ev.id])
             /\ \A id \in IDs : id # ev.id => engine'[id] = engine[id]
             /\ stream' = IF sub = "live" THEN Append(stream, ev) ELSE stream
             /\ gap' = IF sub # "live" /\ Decided(ev.id) THEN Missing("missed") ELSE gap
             /\ UNCHANGED <<sub, cancelled, watchVars, attempt, pfVars, gateVars,
                            ready, listVars, view>>
  BY ChangeDoes
<1>2. ev.id \in IDs /\ ev.type \in EventTypes /\ attempt \in Lists
      /\ sub \in {"pending", "live"} /\ lpc[attempt] # "failed"
  BY ShapeTypes DEF Events, Clean
<1>3. \A id \in IDs : (Waits(id)' <=> Waits(id)) /\ (Undecided(id)' <=> Undecided(id))
  BY <1>1 DEF Waits, Undecided
<1>4. CASE sub = "live"
  <2>1. /\ stream' = Append(stream, ev) /\ Agenda \in Seq(Events)
        /\ Gated \in 0..Len(Agenda) /\ 0 \in 0..Len(Agenda)
    BY <1>1, <1>4, AgendaIs
  <2>2. Agenda' = Append(Agenda, ev) /\ Gated' = Gated /\ gap' = gap
    BY <1>1, <1>4, <2>1, AgendaMore DEF Gated
  <2>3. \A id, T : /\ Coming(Agenda', Gated, id, T)
                        <=> Coming(Agenda, Gated, id, T) \/ (ev.id = id /\ ev.type \in T)
                   /\ Coming(Agenda', 0, id, T)
                        <=> Coming(Agenda, 0, id, T) \/ (ev.id = id /\ ev.type \in T)
    BY <2>1, <2>2, ComingAppend
  <2>4. FoundOK'
    <3> SUFFICES ASSUME NEW c \in found[attempt]
                 PROVE  Right(c, engine'[c.id],
                          c.id \in bluenorwegians \/ Coming(Agenda', Gated, c.id, {Exited}),
                          Coming(Agenda', Gated, c.id, PauseTypes) \/ Waits(c.id))
      BY <1>1, <1>2, <1>3, <2>2, ContentTypes DEF FoundOK
    <3>1. Right(c, engine[c.id],
                c.id \in bluenorwegians \/ Coming(Agenda, Gated, c.id, {Exited}),
                Coming(Agenda, Gated, c.id, PauseTypes) \/ Waits(c.id))
      BY DEF ContentOK, FoundOK
    <3>2. c.id \in IDs
      BY <1>2, ContentTypes
    <3>3. CASE ev.id # c.id
      BY <1>1, <2>3, <3>1, <3>2, <3>3 DEF Right
    <3>4. CASE ev.id = c.id
      BY <1>1, <1>2, <2>3, <3>1, <3>4
      DEF Right, Follows, EventTypes, PauseTypes, Started, Exited, Paused, Unpaused
    <3> QED
      BY <3>3, <3>4
  <2>5. KeptOK'
    <3> SUFFICES ASSUME NEW c \in pfs[writepf]
                 PROVE  Right(c, engine'[c.id], Coming(Agenda', 0, c.id, {Exited}),
                              Coming(Agenda', 0, c.id, PauseTypes) \/ Waits(c.id))
      BY <1>1, <1>2, <1>3, <1>4, ContentTypes DEF KeptOK
    <3>1. Right(c, engine[c.id], Coming(Agenda, 0, c.id, {Exited}),
                Coming(Agenda, 0, c.id, PauseTypes) \/ Waits(c.id))
      BY DEF ContentOK, KeptOK
    <3>2. c.id \in IDs
      BY <1>2, ContentTypes
    <3>3. CASE ev.id # c.id
      BY <1>1, <2>3, <3>1, <3>2, <3>3 DEF Right
    <3>4. CASE ev.id = c.id
      BY <1>1, <1>2, <2>3, <3>1, <3>4
      DEF Right, Follows, EventTypes, PauseTypes, Started, Exited, Paused, Unpaused
    <3> QED
      BY <3>3, <3>4
  <2>6. "inspect" \notin gap' => MissingOK'
    <3> SUFFICES ASSUME "inspect" \notin gap', NEW id \in AliveIDs'
                 PROVE  ByID(pfs[writepf], id) # {} \/ OnItsWay(id)'
      BY <1>1 DEF MissingOK
    <3>1. id \in IDs /\ engine'[id].alive
      BY DEF AliveIDs
    <3>2. OnItsWay(id) => OnItsWay(id)'
      BY <1>1, <1>3, <2>3, <3>1 DEF OnItsWay
    <3>3. CASE engine[id].alive
      BY <2>2, <3>1, <3>2, <3>3 DEF ContentOK, MissingOK, AliveIDs
    <3>4. CASE ~engine[id].alive
      <4>1. ev.id = id /\ ev.type = Started
        BY <1>1, <1>2, <3>1, <3>4 DEF Follows, EventTypes, PauseTypes
      <4> QED
        BY <2>3, <4>1 DEF OnItsWay
    <3> QED
      BY <3>3, <3>4
  <2> QED
    BY <2>4, <2>5, <2>6 DEF ContentOK
<1>5. CASE sub = "pending"
  <2>1. /\ stream = <<>> /\ stream' = <<>> /\ wpc = "loop" /\ bluenorwegians = {}
    BY <1>1, <1>5 DEF EventsOK, FlagOK
  <2>2. Agenda' = Agenda /\ Gated' = Gated
    BY <1>1, <2>1 DEF Agenda, Gated
  <2>3. Undecided(ev.id) /\ gap' = gap
    <3>1. ~Decided(ev.id)
      BY <1>1, <1>2, <1>5 DEF Missing
    <3>2. lpc[attempt] \in ListPCs /\ lpc[attempt] # "none" /\ attempt > 0
      <4>1. lpc[attempt] # "none"
        BY <1>5 DEF ShapeInv, NotYet
      <4> QED
        BY <1>2, <4>1, ShapeTypes
    <3> QED
      BY <1>1, <1>2, <1>5, <3>1, <3>2 DEF Decided, Undecided, ListPCs
  <2>4. FoundOK'
    <3> SUFFICES ASSUME NEW c \in found[attempt]
                 PROVE  Right(c, engine'[c.id],
                          c.id \in bluenorwegians \/ Coming(Agenda, Gated, c.id, {Exited}),
                          Coming(Agenda, Gated, c.id, PauseTypes) \/ Waits(c.id))
      BY <1>1, <1>2, <1>3, <2>2, ContentTypes DEF FoundOK
    <3>1. c.id # ev.id
      BY <1>2, <2>3 DEF ShapeInv, ListingOK, Undecided
    <3>2. c.id \in IDs
      BY <1>2, ContentTypes
    <3> QED
      BY <1>1, <3>1, <3>2 DEF ContentOK, FoundOK
  <2>5. KeptOK'
    <3> SUFFICES ASSUME NEW c \in pfs[writepf]
                 PROVE  /\ Right(c, engine'[c.id], Coming(Agenda, 0, c.id, {Exited}),
                              Coming(Agenda, 0, c.id, PauseTypes) \/ Waits(c.id))
                        /\ ~Undecided(c.id)
      BY <1>1, <1>2, <1>3, <2>2, ContentTypes DEF KeptOK
    <3>1. ~Undecided(c.id) /\ c.id \in IDs
      BY <1>2, <1>5, ContentTypes DEF ContentOK, KeptOK
    <3>2. engine'[c.id] = engine[c.id]
      BY <1>1, <2>3, <3>1
    <3> QED
      BY <3>1, <3>2 DEF ContentOK, KeptOK
  <2>6. "inspect" \notin gap' => MissingOK'
    <3> SUFFICES ASSUME "inspect" \notin gap', NEW id \in AliveIDs'
                 PROVE  ByID(pfs[writepf], id) # {} \/ OnItsWay(id)'
      BY <1>1 DEF MissingOK
    <3>1. id \in IDs /\ engine'[id].alive
      BY DEF AliveIDs
    <3>2. OnItsWay(id) => OnItsWay(id)'
      BY <1>1, <1>3, <2>2, <3>1 DEF OnItsWay
    <3>3. CASE id # ev.id
      BY <1>1, <2>3, <3>1, <3>2, <3>3 DEF ContentOK, MissingOK, AliveIDs
    <3>4. CASE id = ev.id
      BY <2>1, <2>3, <3>2, <3>4 DEF OnItsWay
    <3> QED
      BY <3>3, <3>4
  <2> QED
    BY <2>4, <2>5, <2>6 DEF ContentOK
<1> QED
  BY <1>2, <1>4, <1>5
-----------------------------------------------------------------------------
\* What is to come, but for events of other types than the one that is done with.
LEMMA StillComing ==
    ASSUME ShapeInv, wpc \in InWork, NEW id, NEW T, evt.type \notin T \/ evt.id # id
    PROVE  /\ Coming(Tail(Agenda), 0, id, T) <=> Coming(Agenda, 0, id, T)
           /\ Coming(Agenda, 1, id, T) <=> Coming(Agenda, 0, id, T)
BY Remaining

\* A container that is looked at is right now, and what happens to it is to come.
LEMMA ContentBorn ==
    ASSUME FixedProjects, ShapeInv, Clean, EventsOK, ContentOK, BornInspect \/ BornAdd
    PROVE  ContentOK'
<1> USE DEF watchVars, pfVars, gateVars, listVars, engineVars, streamVars
<1>1. /\ UNCHANGED <<engine, sub, attempt, lpc, todo, found, writepf,
                     bluenorwegians, pauses, stream>>
      /\ wpc \in {"born", "add"} /\ sub = "live" /\ attempt \in Lists
      /\ wpc \in InWork /\ Gated = 0
  <2>1. UNCHANGED <<engine, sub, attempt, lpc, todo, found, writepf>> /\ sub = "live"
    BY HandleFlags DEF HandleEvent, EventsOK
  <2>2. UNCHANGED <<bluenorwegians, pauses, stream>> /\ wpc \in {"born", "add"}
    BY DEF BornInspect, BornAdd
  <2> QED
    BY <2>1, <2>2, ShapeTypes DEF InWork, HandlingPCs, Gated
<1>2. \A id \in IDs : (Waits(id)' <=> Waits(id)) /\ (Undecided(id)' <=> Undecided(id))
  BY <1>1 DEF Waits, Undecided
<1>3. CASE wpc = "born" /\ wpc' = "add" /\ evt' = evt /\ pfs' = pfs /\ gap' = gap
  <2>1. Agenda' = Agenda /\ Gated' = Gated
    BY <1>1, <1>3, AgendaStays DEF InWork, HandlingPCs, Gated
  <2> QED
    BY <1>1, <1>2, <1>3, <2>1, ContentStays
<1>4. ASSUME wpc' \in {"loop", "notify"}, gap \subseteq gap',
             \A c \in pfs'[writepf] : c \in pfs[writepf] \/ (wpc = "add" /\ c \in held),
             \A id : ByID(pfs[writepf], id) # {} => ByID(pfs'[writepf], id) # {},
             \/ ~engine[evt.id].alive
             \/ ByID(pfs'[writepf], evt.id) # {}
             \/ "inspect" \in gap'
      PROVE  ContentOK'
  <2>1. Agenda' = Tail(Agenda) /\ Gated' = 0
    BY <1>1, <1>4, AgendaNext DEF InWork, HandlingPCs
  <2>2. evt.type \notin {Exited} /\ evt.type \notin PauseTypes
    BY <1>1 DEF ShapeInv, HandOK, PauseTypes, Started, Exited, Paused, Unpaused
  <2>3. \A id : /\ Coming(Agenda', 0, id, {Exited}) <=> Coming(Agenda, 0, id, {Exited})
                /\ Coming(Agenda', 0, id, PauseTypes) <=> Coming(Agenda, 0, id, PauseTypes)
    BY <1>1, <2>1, <2>2, StillComing
  <2>4. \A id : id # evt.id =>
                  (Coming(Agenda', 0, id, {Started}) <=> Coming(Agenda, 0, id, {Started}))
    BY <1>1, <2>1, StillComing
  <2>5. FoundOK'
    BY <1>1, <1>2, <2>1, <2>3, ContentTypes DEF ContentOK, FoundOK
  <2>6. KeptOK'
    <3> SUFFICES ASSUME NEW c \in pfs'[writepf]
                 PROVE  Right(c, engine[c.id], Coming(Agenda, 0, c.id, {Exited}),
                              Coming(Agenda, 0, c.id, PauseTypes) \/ Waits(c.id))
      <4>1. \A c \in pfs'[writepf] : c.id \in IDs
        BY <1>1, <1>4, ContentTypes
        DEF ShapeInv, PublishInv, TypeInv, TypeOK, WatchOK, Containers
      <4> QED
        BY <1>1, <1>2, <2>3, <4>1 DEF KeptOK, Right
    <3>1. CASE c \in pfs[writepf]
      BY <3>1 DEF ContentOK, KeptOK
    <3>2. CASE wpc = "add" /\ c \in held
      BY <3>2 DEF EventsOK, HeldOK, Right
    <3> QED
      BY <1>4, <3>1, <3>2
  <2>7. "inspect" \notin gap' => MissingOK'
    <3> SUFFICES ASSUME "inspect" \notin gap', NEW id \in AliveIDs
                 PROVE  ByID(pfs'[writepf], id) # {} \/ OnItsWay(id)'
      BY <1>1 DEF MissingOK, AliveIDs
    <3>1. id \in IDs /\ engine[id].alive
      BY DEF AliveIDs
    <3>2. CASE id = evt.id
      BY <1>4, <3>1, <3>2
    <3>3. CASE id # evt.id
      <4>1. OnItsWay(id) => OnItsWay(id)'
        BY <1>1, <1>2, <2>3, <2>4, <3>1, <3>3 DEF OnItsWay
      <4> QED
        BY <1>4, <4>1 DEF ContentOK, MissingOK
    <3> QED
      BY <3>2, <3>3
  <2> QED
    BY <2>5, <2>6, <2>7 DEF ContentOK
<1>5. CASE BornInspect
  <2>1. /\ wpc = "born" /\ pfs' = pfs
        /\ \/ wpc' = "add" /\ evt' = evt /\ gap' = gap
           \/ wpc' = "loop" /\ ~engine[evt.id].alive /\ gap' = gap
           \/ wpc' = "loop" /\ gap' = Missing("inspect")
    BY <1>5 DEF BornInspect, ToLoop
  <2>2. gap \subseteq Missing("inspect") /\ "inspect" \in Missing("inspect")
    BY <1>1 DEF Missing
  <2> QED
    BY <1>3, <1>4, <2>1, <2>2
<1>6. CASE BornAdd
  <2>1. PICK c \in held :
          /\ held = {c} /\ c.id = evt.id /\ c \in Containers /\ Filed(c)
          /\ \/ /\ ByID(Written, evt.id) = {}
                /\ pfs' = [pfs EXCEPT ![writepf] = Written \union {c}]
                /\ wpc' = "notify"
             \/ ByID(Written, evt.id) # {} /\ pfs' = pfs /\ wpc' = "loop"
    BY <1>6, BornAddDoes DEF ToLoop
  <2>2. wpc = "add" /\ gap' = gap
    BY <1>6 DEF BornAdd
  <2>3. CASE ByID(Written, evt.id) # {} /\ pfs' = pfs /\ wpc' = "loop"
    BY <1>4, <2>2, <2>3 DEF Written
  <2>4. CASE /\ pfs' = [pfs EXCEPT ![writepf] = Written \union {c}]
             /\ wpc' = "notify"
    <3>1. pfs'[writepf] = pfs[writepf] \union {c}
      BY <2>4, ShapeTypes DEF Written
    <3>2. \A id : ByID(pfs[writepf], id) # {} => ByID(pfs'[writepf], id) # {}
      BY <3>1 DEF ByID
    <3>3. ByID(pfs'[writepf], evt.id) # {}
      BY <2>1, <3>1 DEF ByID
    <3> QED
      BY <1>4, <2>1, <2>2, <2>4, <3>1, <3>2, <3>3
  <2> QED
    BY <2>1, <2>3, <2>4
<1> QED
  BY <1>5, <1>6

\* An exit removes its container, which the listing will not bring back.
LEMMA ContentDemise ==
    ASSUME FixedProjects, ShapeInv, Clean, EventsOK, ContentOK, DemiseGate \/ DemiseRemove
    PROVE  ContentOK'
<1> USE DEF watchVars, pfVars, gateVars, listVars, engineVars, streamVars
<1>1. /\ UNCHANGED <<engine, sub, attempt, lpc, todo, found, writepf, stream, gap,
                     listinprogress>>
      /\ wpc \in {"demise", "remove"} /\ sub = "live" /\ attempt \in Lists
      /\ wpc \in InWork /\ evt.id \in IDs /\ evt.type = Exited
  <2>1. UNCHANGED <<engine, sub, attempt, lpc, todo, found, writepf, listinprogress>>
        /\ sub = "live"
    BY HandleFlags DEF HandleEvent, EventsOK
  <2>2. UNCHANGED <<stream, gap>> /\ wpc \in {"demise", "remove"}
    BY DEF DemiseGate, DemiseRemove
  <2>3. wpc \in InWork /\ evt.type = Exited
    BY <2>2 DEF InWork, HandlingPCs, ShapeInv, HandOK
  <2> QED
    BY <2>1, <2>2, <2>3, ShapeTypes, AgendaIs
<1>2. \A id \in IDs : Undecided(id)' <=> Undecided(id)
  BY <1>1 DEF Undecided
<1>3. \A id : /\ Coming(Agenda, 1, id, PauseTypes) <=> Coming(Agenda, 0, id, PauseTypes)
              /\ Coming(Agenda, 1, id, {Started}) <=> Coming(Agenda, 0, id, {Started})
              /\ Coming(Agenda, 0, id, {Exited})
                   <=> Coming(Agenda, 1, id, {Exited}) \/ id = evt.id
  <2>1. evt.type \notin PauseTypes /\ evt.type \notin {Started} /\ evt.type \in {Exited}
    BY <1>1 DEF PauseTypes, Started, Exited, Paused, Unpaused
  <2> QED
    BY <1>1, <2>1, StillComing, Remaining
<1>4. CASE DemiseGate
  <2>1. /\ bluenorwegians' = IF listinprogress
                             THEN bluenorwegians \union {evt.id} ELSE bluenorwegians
        /\ pauses' = [pauses EXCEPT ![evt.id] = "none"]
        /\ wpc = "demise" /\ wpc' = "remove" /\ evt' = evt /\ pfs' = pfs
    BY <1>4 DEF DemiseGate
  <2>2. Agenda' = Agenda /\ Gated' = 1 /\ Gated = 0
    BY <1>1, <2>1, AgendaStays DEF InWork, HandlingPCs, Gated
  <2>3. \A id \in IDs : id # evt.id => (Waits(id)' <=> Waits(id))
    <3>1. \A id \in IDs : id # evt.id => pauses'[id] = pauses[id]
      BY <2>1, ShapeTypes
    <3> QED
      BY <1>1, <3>1 DEF Waits
  <2>4. FoundOK'
    <3> SUFFICES ASSUME NEW c \in found[attempt]
                 PROVE  Right(c, engine[c.id],
                          c.id \in bluenorwegians' \/ Coming(Agenda, 1, c.id, {Exited}),
                          Coming(Agenda, 1, c.id, PauseTypes) \/ Waits(c.id)')
      BY <1>1, <2>2 DEF FoundOK
    <3>1. listinprogress
      BY <1>1 DEF ShapeInv, ListingOK, EventsOK, FlagOK
    <3>2. c.id \in IDs
      BY <1>1, ContentTypes
    <3>3. CASE c.id = evt.id
      BY <2>1, <3>1, <3>3 DEF Right
    <3>4. CASE c.id # evt.id
      BY <1>3, <2>1, <2>2, <2>3, <3>2, <3>4 DEF ContentOK, FoundOK, Right
    <3> QED
      BY <3>3, <3>4
  <2>5. KeptOK'
    <3> SUFFICES ASSUME NEW c \in pfs[writepf]
                 PROVE  Right(c, engine[c.id], Coming(Agenda, 0, c.id, {Exited}),
                              Coming(Agenda, 0, c.id, PauseTypes) \/ Waits(c.id)')
      BY <1>1, <2>1, <2>2 DEF KeptOK
    <3>1. c.id \in IDs
      BY <1>1, ContentTypes
    <3>2. CASE c.id = evt.id
      BY <1>3, <3>2 DEF Right
    <3>3. CASE c.id # evt.id
      BY <2>3, <3>1, <3>3 DEF ContentOK, KeptOK, Right
    <3> QED
      BY <3>2, <3>3
  <2>6. "inspect" \notin gap' => MissingOK'
    <3> SUFFICES ASSUME "inspect" \notin gap, NEW id \in AliveIDs
                 PROVE  ByID(pfs[writepf], id) # {} \/ OnItsWay(id)'
      BY <1>1, <2>1 DEF MissingOK, AliveIDs
    <3>1. CASE id = evt.id
      BY <1>3, <2>2, <3>1 DEF OnItsWay
    <3>2. CASE id # evt.id
      <4>1. id \in IDs /\ (id \in bluenorwegians' => id \in bluenorwegians)
        BY <2>1, <3>2 DEF AliveIDs
      <4>2. OnItsWay(id) => OnItsWay(id)'
        BY <1>1, <1>2, <2>2, <4>1 DEF OnItsWay
      <4> QED
        BY <4>2 DEF ContentOK, MissingOK
    <3> QED
      BY <3>1, <3>2
  <2> QED
    BY <2>4, <2>5, <2>6 DEF ContentOK
<1>5. CASE DemiseRemove
  <2>1. /\ pfs' = [pfs EXCEPT ![writepf] = Without(Written, evt.id)]
        /\ UNCHANGED <<bluenorwegians, pauses>> /\ wpc = "remove"
        /\ wpc' \in {"loop", "notify"} /\ FiledPf(Written)
    <3>1. /\ pfs' = [pfs EXCEPT ![writepf] = Without(Written, evt.id)]
          /\ ToNotify(ByID(Written, evt.id)) /\ FiledPf(Written)
      BY <1>5, DemiseRemoveDoes, PfTypes DEF Written
    <3> QED
      BY <1>5, <3>1 DEF DemiseRemove, ToNotify, ToLoop
  <2>2. pfs'[writepf] = Without(Written, evt.id)
    BY <2>1, ShapeTypes
  <2>3. Agenda' = Tail(Agenda) /\ Gated' = 0 /\ Gated = 1
    BY <1>1, <2>1, AgendaNext DEF InWork, HandlingPCs, Gated
  <2>4. \A id, T : Coming(Agenda', 0, id, T) <=> Coming(Agenda, 1, id, T)
    BY <1>1, <2>3, Remaining
  <2>5. \A id \in IDs : Waits(id)' <=> Waits(id)
    BY <1>1, <2>1 DEF Waits
  <2>6. FoundOK'
    BY <1>1, <2>1, <2>3, <2>4, <2>5, ContentTypes DEF ContentOK, FoundOK
  <2>7. KeptOK'
    <3> SUFFICES ASSUME NEW c \in Without(Written, evt.id)
                 PROVE  Right(c, engine[c.id], Coming(Agenda, 1, c.id, {Exited}),
                              Coming(Agenda, 1, c.id, PauseTypes) \/ Waits(c.id))
      <4>1. \A c \in Without(Written, evt.id) : c.id \in IDs
        BY <1>1, ContentTypes DEF Without, Written
      <4> QED
        BY <1>1, <2>2, <2>3, <2>4, <2>5, <4>1 DEF KeptOK, Right
    <3>1. c \in pfs[writepf] /\ c.id # evt.id
      BY DEF Without, Written
    <3> QED
      BY <1>3, <3>1 DEF ContentOK, KeptOK, Right
  <2>8. "inspect" \notin gap' => MissingOK'
    <3> SUFFICES ASSUME "inspect" \notin gap, NEW id \in AliveIDs
                 PROVE  ByID(pfs'[writepf], id) # {} \/ OnItsWay(id)'
      BY <1>1 DEF MissingOK, AliveIDs
    <3>1. id \in IDs /\ engine[id].alive
      BY DEF AliveIDs
    <3>2. CASE id = evt.id
      <4>1. SoundAt(Agenda, 1, engine[id]) /\ Agenda[1] = evt
        <5>1. 1 \in 1..Len(Agenda) /\ Agenda[1] = evt
          BY <1>1, AgendaIs, TailOf
        <5> QED
          BY <3>2, <5>1 DEF EventsOK, SoundOn
      <4>2. Coming(Agenda, 1, id, {Started})
        BY <1>1, <3>1, <3>2, <4>1 DEF SoundAt
      <4> QED
        BY <2>4, <4>2 DEF OnItsWay
    <3>3. CASE id # evt.id
      <4>1. ByID(pfs'[writepf], id) = ByID(pfs[writepf], id)
        BY <2>1, <2>2, <3>3, WithoutIs DEF Written
      <4>2. OnItsWay(id) => OnItsWay(id)'
        BY <1>1, <1>2, <1>3, <2>1, <2>3, <2>4, <3>1, <3>3 DEF OnItsWay
      <4> QED
        BY <4>1, <4>2 DEF ContentOK, MissingOK
    <3> QED
      BY <3>2, <3>3
  <2> QED
    BY <2>6, <2>7, <2>8 DEF ContentOK
<1> QED
  BY <1>4, <1>5
-----------------------------------------------------------------------------
\* A container of which the pause state is replaced by that of b is right, if b is
\* the state that the engine has, unless it is changing.
LEMMA CopyRight ==
    ASSUME NEW c \in Containers, NEW b \in BOOLEAN, NEW e, NEW l, NEW ch, NEW l2, NEW ch2,
           Right(c, e, l, ch), l => l2, l2 \/ (e.alive /\ (ch2 \/ e.paused = b))
    PROVE  Right(Copy(c, b), e, l2, ch2)
<1>1. Copy(c, b).inc = c.inc /\ Copy(c, b).paused = b
  BY PausedCopy
<1> QED
  BY <1>1 DEF Right

\* A pause is set aside for the listing, or set at once.
LEMMA ContentPause ==
    ASSUME FixedProjects, ShapeInv, Clean, EventsOK, ContentOK, PauseGate \/ PauseApply
    PROVE  ContentOK'
<1> USE DEF watchVars, pfVars, gateVars, listVars, engineVars, streamVars
<1>1. /\ UNCHANGED <<engine, sub, attempt, lpc, todo, found, writepf, stream, gap,
                     listinprogress, bluenorwegians>>
      /\ wpc \in {"pausing", "setpaused"} /\ sub = "live" /\ attempt \in Lists
      /\ wpc \in InWork /\ evt.id \in IDs /\ evt.type \in PauseTypes
      /\ wpc' # "setpaused" => wpc' \in {"loop", "notify"}
  <2>1. UNCHANGED <<engine, sub, attempt, lpc, todo, found, writepf, listinprogress>>
        /\ sub = "live"
    BY HandleFlags DEF HandleEvent, EventsOK
  <2>2. UNCHANGED <<stream, gap, bluenorwegians>> /\ wpc \in {"pausing", "setpaused"}
        /\ (wpc' # "setpaused" => wpc' \in {"loop", "notify"})
    BY DEF PauseGate, PauseApply, ToNotify, ToLoop
  <2>3. wpc \in InWork /\ evt.type \in PauseTypes
    BY <2>2 DEF InWork, HandlingPCs, ShapeInv, PublishInv, TypeInv, EventFits, PauseTypes
  <2> QED
    BY <2>1, <2>2, <2>3, ShapeTypes, AgendaIs
<1>2. \A id \in IDs : Undecided(id)' <=> Undecided(id)
  BY <1>1 DEF Undecided
<1>3. \A id : /\ Coming(Agenda, 1, id, {Exited}) <=> Coming(Agenda, 0, id, {Exited})
              /\ Coming(Agenda, 1, id, {Started}) <=> Coming(Agenda, 0, id, {Started})
              /\ Coming(Agenda, 0, id, PauseTypes)
                   <=> Coming(Agenda, 1, id, PauseTypes) \/ id = evt.id
  <2>1. evt.type \notin {Exited} /\ evt.type \notin {Started}
    BY <1>1 DEF PauseTypes, Started, Exited, Paused, Unpaused
  <2> QED
    BY <1>1, <2>1, StillComing, Remaining
<1>4. wpc' # "setpaused" =>
        /\ Agenda' = Tail(Agenda) /\ Gated' = 0
        /\ \A id, T : Coming(Agenda', 0, id, T) <=> Coming(Agenda, 1, id, T)
  <2> SUFFICES ASSUME wpc' # "setpaused"
               PROVE  /\ Agenda' = Tail(Agenda) /\ Gated' = 0
                      /\ \A id, T : Coming(Agenda', 0, id, T) <=> Coming(Agenda, 1, id, T)
    OBVIOUS
  <2>1. Agenda' = Tail(Agenda) /\ Gated' = 0
    BY <1>1, AgendaNext DEF InWork, HandlingPCs
  <2> QED
    BY <1>1, <2>1, Remaining
\* Nothing happens to the containers that are missing.
<1>5. ASSUME \A id : ByID(pfs[writepf], id) # {} => ByID(pfs'[writepf], id) # {},
             \/ wpc' # "setpaused"
             \/ Agenda' = Agenda
      PROVE  "inspect" \notin gap' => MissingOK'
  <2> SUFFICES ASSUME "inspect" \notin gap, NEW id \in AliveIDs
               PROVE  ByID(pfs'[writepf], id) # {} \/ OnItsWay(id)'
    BY <1>1 DEF MissingOK, AliveIDs
  <2>1. OnItsWay(id) => OnItsWay(id)'
    BY <1>1, <1>2, <1>3, <1>4, <1>5 DEF OnItsWay, AliveIDs
  <2> QED
    BY <1>5, <2>1 DEF ContentOK, MissingOK
<1>6. CASE PauseGate
  <2>1. /\ wpc = "pausing" /\ Gated = 0 /\ gate = 0 /\ pfs' = pfs
        /\ \/ /\ pauses' = [pauses EXCEPT ![evt.id] = evt.type]
              /\ wpc' = "loop"
           \/ /\ ~listinprogress /\ wpc' = "setpaused"
              /\ pauses' = pauses /\ evt' = evt
    BY <1>6 DEF PauseGate, ToLoop, Gated
  <2>2. CASE pauses' = [pauses EXCEPT ![evt.id] = evt.type] /\ wpc' = "loop"
    <3>1. lpc[attempt] \notin {"merge", "announce"}
      BY <1>1, <2>1, ShapeTypes DEF ShapeInv, PublishInv, TypeInv, GateHeldByMerger
    <3>2. \A id \in IDs : Waits(id) \/ id = evt.id => Waits(id)'
      <4>1. \A id \in IDs : IF id = evt.id THEN pauses'[id] # "none"
                                            ELSE pauses'[id] = pauses[id]
        BY <1>1, <2>2, ShapeTypes DEF PauseTypes, Paused, Unpaused
      <4> QED
        BY <1>1, <3>1, <4>1 DEF Waits
    <3>5. Gated' = 0 /\ \A id, T : Coming(Agenda', 0, id, T) <=> Coming(Agenda, 1, id, T)
      BY <1>4, <2>2
    <3>3. FoundOK'
      <4> SUFFICES ASSUME NEW c \in found[attempt]
                   PROVE  Right(c, engine[c.id],
                            c.id \in bluenorwegians \/ Coming(Agenda, 1, c.id, {Exited}),
                            Coming(Agenda, 1, c.id, PauseTypes) \/ Waits(c.id)')
        BY <1>1, <3>5 DEF FoundOK, Right
      <4>1. c.id \in IDs
        BY <1>1, ContentTypes
      <4> QED
        BY <1>3, <2>1, <3>2, <4>1 DEF ContentOK, FoundOK, Right
    <3>4. KeptOK'
      <4> SUFFICES ASSUME NEW c \in pfs[writepf]
                   PROVE  Right(c, engine[c.id], Coming(Agenda, 1, c.id, {Exited}),
                                Coming(Agenda, 1, c.id, PauseTypes) \/ Waits(c.id)')
        BY <1>1, <2>1, <3>5 DEF KeptOK, Right
      <4>1. c.id \in IDs
        BY <1>1, ContentTypes
      <4> QED
        BY <1>3, <3>2, <4>1 DEF ContentOK, KeptOK, Right
    <3> QED
      BY <1>5, <2>1, <2>2, <3>3, <3>4 DEF ContentOK
  <2>3. CASE ~listinprogress /\ wpc' = "setpaused" /\ pauses' = pauses /\ evt' = evt
    <3>1. Agenda' = Agenda
      BY <1>1, <2>3, AgendaStays DEF InWork, HandlingPCs
    <3>2. found[attempt] = {}
      BY <1>1, <2>3 DEF ShapeInv, ListingOK, EventsOK, FlagOK
    <3>3. FoundOK'
      BY <1>1, <3>2 DEF FoundOK
    <3>4. \A id \in IDs : Waits(id)' <=> Waits(id)
      BY <1>1, <2>3 DEF Waits
    <3>5. KeptOK'
      BY <1>1, <1>2, <2>1, <3>1, <3>4, ContentTypes DEF ContentOK, KeptOK, Right
    <3> QED
      BY <1>5, <2>1, <3>1, <3>3, <3>5 DEF ContentOK
  <2> QED
    BY <2>1, <2>2, <2>3
<1>7. CASE PauseApply
  <2> DEFINE b == evt.type = Paused
             pf == Repaused(Written, evt.id, b)
  <2>1. /\ pfs' = [pfs EXCEPT ![writepf] = pf] /\ FiledPf(Written) /\ b \in BOOLEAN
        /\ pauses' = pauses /\ wpc = "setpaused" /\ wpc' # "setpaused"
    <3>1. /\ pfs' = [pfs EXCEPT ![writepf] = pf]
          /\ ToNotify(ByID(pfs'[writepf], evt.id)) /\ FiledPf(Written) /\ b \in BOOLEAN
      BY <1>7, PauseApplyDoes, PfTypes DEF Written
    <3> QED
      BY <1>7, <3>1 DEF PauseApply, ToNotify, ToLoop
  <2>2. pfs'[writepf] = pf
    BY <2>1, ShapeTypes
  <2>3. Gated = 1
    BY <2>1 DEF Gated
  <2>4. /\ engine[evt.id].alive \/ Coming(Agenda, 1, evt.id, {Exited})
        /\ \/ Coming(Agenda, 1, evt.id, {Exited}) \/ Coming(Agenda, 1, evt.id, PauseTypes)
           \/ engine[evt.id].paused = b
    <3>1. SoundAt(Agenda, 1, engine[evt.id]) /\ Agenda[1] = evt
      <4>1. 1 \in 1..Len(Agenda) /\ Agenda[1] = evt
        BY <1>1, AgendaIs, TailOf
      <4> QED
        BY <4>1 DEF EventsOK, SoundOn
    <3> QED
      BY <1>1, <3>1 DEF SoundAt
  <2> HIDE DEF b
  <2>5. \A id : ByID(pf, id) = IF id = evt.id
                               THEN {Copy(c, b) : c \in ByID(Written, evt.id)}
                               ELSE ByID(Written, id)
    BY <2>1, RepausedIs
  <2> HIDE DEF pf
  <2>6. \A id : ByID(pfs[writepf], id) # {} => ByID(pfs'[writepf], id) # {}
    BY <2>2, <2>5 DEF Written
  <2>7. \A id \in IDs : Waits(id)' <=> Waits(id)
    BY <1>1, <2>1 DEF Waits
  <2>10. Gated' = 0 /\ \A id, T : Coming(Agenda', 0, id, T) <=> Coming(Agenda, 1, id, T)
    BY <1>4, <2>1
  <2>8. FoundOK'
    BY <1>1, <2>10, <2>3, <2>7, ContentTypes DEF ContentOK, FoundOK, Right
  <2>9. KeptOK'
    <3>1. ASSUME NEW c \in pf
          PROVE  /\ c.id \in IDs
                 /\ Right(c, engine[c.id], Coming(Agenda, 1, c.id, {Exited}),
                          Coming(Agenda, 1, c.id, PauseTypes) \/ Waits(c.id))
      <4>1. c \in ByID(pf, c.id)
        BY DEF ByID
      <4>2. CASE c.id # evt.id
        <5>1. c \in pfs[writepf]
          BY <2>5, <4>1, <4>2 DEF ByID, Written
        <5> QED
          BY <1>1, <1>3, <4>2, <5>1, ContentTypes DEF ContentOK, KeptOK, Right
      <4>3. CASE c.id = evt.id
        <5>1. PICK d \in ByID(Written, evt.id) : c = Copy(d, b)
          BY <2>5, <4>1, <4>3
        <5>2. d \in pfs[writepf] /\ d.id = evt.id /\ d \in Containers
          BY <1>1, <5>1, ContentTypes DEF ByID, Written
        <5>3. Right(d, engine[evt.id], Coming(Agenda, 0, evt.id, {Exited}),
                    Coming(Agenda, 0, evt.id, PauseTypes) \/ Waits(evt.id))
          BY <5>2 DEF ContentOK, KeptOK
        <5>4. Right(Copy(d, b), engine[evt.id], Coming(Agenda, 1, evt.id, {Exited}),
                    Coming(Agenda, 1, evt.id, PauseTypes) \/ Waits(evt.id))
          BY <1>3, <2>1, <2>4, <5>2, <5>3, CopyRight
        <5> QED
          BY <1>1, <4>3, <5>1, <5>4
      <4> QED
        BY <4>2, <4>3
    <3> QED
      BY <1>1, <2>10, <2>2, <2>7, <3>1 DEF KeptOK, Right
  <2> QED
    BY <1>5, <2>1, <2>6, <2>8, <2>9 DEF ContentOK
<1> QED
  BY <1>6, <1>7
-----------------------------------------------------------------------------
\* The steps of a listing that change no portfolio.
LEMMA ContentLook ==
    ASSUME ShapeInv, Clean, EventsOK, ContentOK, NEW n \in Lists,
           \/ ListBegin(n) \/ ListQuery(n) \/ ListInspect(n) \/ ListLock(n)
           \/ ListAnnounce(n) \/ ListUnlock(n) \/ Publish(n)
    PROVE  ContentOK'
<1> USE DEF gateVars, pfVars, listVars
<1>1. /\ n = attempt /\ attempt \in Lists
      /\ UNCHANGED <<engine, sub, attempt, writepf>>
      /\ Agenda' = Agenda /\ Gated' = Gated
  BY ListIsThis, ListLeaves DEF ListStep
<1>2. /\ lpc \in [Lists -> ListPCs] /\ found \in [Lists -> SUBSET Containers]
      /\ todo \in [Lists -> SUBSET IDs]
  BY ShapeTypes
<1>3. CASE ListBegin(n) \/ ListQuery(n) \/ ListLock(n) \/ ListAnnounce(n) \/ Publish(n)
  <2>1. UNCHANGED <<pfs, bluenorwegians, found, pauses>> /\ gap \subseteq gap'
    BY <1>3 DEF ListBegin, ListQuery, ListLock, ListAnnounce, Publish, Missing
  <2>2. \A id \in IDs : /\ Waits(id)' <=> Waits(id)
                        /\ Undecided(id)' => Undecided(id)
                        /\ Undecided(id) /\ engine[id].alive => Undecided(id)'
    <3>1. CASE ListBegin(n)
      BY <1>1, <1>2, <2>1, <3>1 DEF ListBegin, Waits, Undecided
    <3>2. CASE ListQuery(n)
      BY <1>1, <1>2, <2>1, <3>2 DEF ListQuery, Waits, Undecided, AliveIDs
    <3>3. CASE ListLock(n)
      BY <1>1, <1>2, <2>1, <3>3 DEF ListLock, Waits, Undecided, PausesPending
    <3>4. CASE ListAnnounce(n)
      BY <1>1, <1>2, <2>1, <3>4 DEF ListAnnounce, Waits, Undecided
    <3>5. CASE Publish(n)
      BY <1>1, <1>2, <2>1, <3>5 DEF Publish, Waits, Undecided
    <3> QED
      BY <1>3, <3>1, <3>2, <3>3, <3>4, <3>5
  <2> QED
    BY <1>1, <2>1, <2>2, ContentStays
<1>4. CASE ListInspect(n)
  <2>1. PICK id \in todo[n] :
          /\ todo' = [todo EXCEPT ![n] = @ \ {id}]
          /\ \/ /\ engine[id].alive
                /\ found' = [found EXCEPT ![n] = @ \union {Snapshot(id)}]
                /\ UNCHANGED gap
             \/ /\ ~engine[id].alive
                /\ UNCHANGED <<found, gap>>
             \/ /\ engine[id].alive
                /\ gap' = Missing("inspect")
                /\ UNCHANGED found
    BY <1>4 DEF ListInspect
  <2>2. /\ UNCHANGED <<pfs, bluenorwegians, pauses, lpc>> /\ lpc[n] = "inspect"
        /\ id \in IDs /\ todo'[n] = todo[n] \ {id}
    BY <1>2, <1>4, <2>1 DEF ListInspect
  <2>3. \A i \in IDs : /\ Waits(i)' <=> Waits(i)
                       /\ Undecided(i)' => Undecided(i)
                       /\ i # id => (Undecided(i) => Undecided(i)')
    BY <1>1, <2>2 DEF Waits, Undecided
  <2>4. CASE ~engine[id].alive /\ UNCHANGED <<found, gap>>
    <3>1. \A i \in IDs : Undecided(i) /\ engine[i].alive => Undecided(i)'
      BY <2>3, <2>4
    <3> QED
      BY <1>1, <2>2, <2>3, <2>4, <3>1, ContentStays
  <2>5. ASSUME found'[n] = found[n] \/ found'[n] = found[n] \union {Snapshot(id)},
               engine[id].alive
        PROVE  FoundOK' /\ KeptOK'
    <3>1. FoundOK'
      <4> SUFFICES ASSUME NEW c \in found'[n]
                   PROVE  Right(c, engine[c.id],
                            c.id \in bluenorwegians \/ Coming(Agenda, Gated, c.id, {Exited}),
                            Coming(Agenda, Gated, c.id, PauseTypes) \/ Waits(c.id)')
        BY <1>1, <2>2 DEF FoundOK, Right
      <4>1. CASE c \in found[n]
        BY <1>1, <2>3, <4>1, ContentTypes DEF ContentOK, FoundOK, Right
      <4>2. CASE c = Snapshot(id)
        BY <2>5, <4>2 DEF Snapshot, Right
      <4> QED
        BY <2>5, <4>1, <4>2
    <3>2. KeptOK'
      BY <1>1, <2>2, <2>3, ContentTypes DEF ContentOK, KeptOK, Right
    <3> QED
      BY <3>1, <3>2
  <2>6. CASE /\ engine[id].alive /\ gap' = gap
             /\ found' = [found EXCEPT ![n] = @ \union {Snapshot(id)}]
    <3>1. found'[n] = found[n] \union {Snapshot(id)} /\ Snapshot(id).id = id
      BY <1>2, <2>6 DEF Snapshot
    <3>2. "inspect" \notin gap' => MissingOK'
      <4> SUFFICES ASSUME "inspect" \notin gap, NEW i \in AliveIDs
                   PROVE  ByID(pfs[writepf], i) # {} \/ OnItsWay(i)'
        BY <1>1, <2>2, <2>6 DEF MissingOK, AliveIDs
      <4>1. i \in IDs
        BY DEF AliveIDs
      <4>2. OnItsWay(i) => OnItsWay(i)'
        BY <1>1, <2>2, <2>3, <3>1, <4>1 DEF OnItsWay
      <4> QED
        BY <4>2 DEF ContentOK, MissingOK
    <3> QED
      BY <2>5, <2>6, <3>1, <3>2 DEF ContentOK
  <2>7. CASE engine[id].alive /\ gap' = Missing("inspect") /\ UNCHANGED found
    <3>1. "inspect" \in gap'
      BY <2>7 DEF Missing, Clean
    <3> QED
      BY <2>5, <2>7, <3>1 DEF ContentOK
  <2> QED
    BY <2>1, <2>4, <2>6, <2>7
<1>5. CASE ListUnlock(n)
  <2>1. /\ found' = found /\ pfs' = pfs /\ gap' = gap /\ found[n] = {} /\ todo[n] = {}
        /\ lpc[n] = "merge" /\ lpc'[n] = "publish" /\ pauses' = NoPauses
    BY <1>2, <1>5 DEF ListUnlock, ClearAside
  <2>2. \A id \in IDs : ~Waits(id) /\ ~Waits(id)' /\ ~Undecided(id) /\ ~Undecided(id)'
    BY <1>1, <2>1 DEF Waits, Undecided, NoPauses
  <2>3. FoundOK'
    BY <1>1, <2>1 DEF FoundOK
  <2>4. KeptOK'
    BY <1>1, <2>1, <2>2, ContentTypes DEF ContentOK, KeptOK, Right
  <2>5. "inspect" \notin gap' => MissingOK'
    <3> SUFFICES ASSUME "inspect" \notin gap, NEW i \in AliveIDs
                 PROVE  ByID(pfs[writepf], i) # {} \/ OnItsWay(i)'
      BY <1>1, <2>1 DEF MissingOK, AliveIDs
    <3>1. i \in IDs
      BY DEF AliveIDs
    <3>2. OnItsWay(i) => OnItsWay(i)'
      BY <1>1, <2>1, <2>2, <3>1 DEF OnItsWay
    <3> QED
      BY <3>2 DEF ContentOK, MissingOK
  <2> QED
    BY <2>3, <2>4, <2>5 DEF ContentOK
<1> QED
  BY <1>3, <1>4, <1>5

\* What the listing has found is merged unless it is known to have died.
LEMMA ContentMerge ==
    ASSUME FixedProjects, ShapeInv, Clean, EventsOK, ContentOK, NEW n \in Lists, ListMerge(n)
    PROVE  ContentOK'
<1> USE DEF gateVars, pfVars, listVars
<1>1. /\ n = attempt /\ attempt \in Lists
      /\ UNCHANGED <<engine, sub, attempt, writepf>>
      /\ Agenda' = Agenda /\ Gated' = Gated
  BY ListIsThis, ListLeaves DEF ListStep
<1>2. /\ UNCHANGED <<bluenorwegians, pauses, todo, gap>> /\ lpc[n] = "merge"
      /\ lpf[n] = writepf
  BY <1>1 DEF ListMerge, ShapeInv, PublishInv, MergesIntoWritten
<1>3. PICK c \in found[n] :
             /\ c \in Containers /\ found' = [found EXCEPT ![n] = @ \ {c}]
             /\ \/ /\ c.id \notin bluenorwegians /\ ByID(pfs[writepf], c.id) = {}
                   /\ pfs' = [pfs EXCEPT ![writepf] = pfs[writepf] \union {c}]
                   /\ lpc' = [lpc EXCEPT ![n] = "announce"]
                \/ /\ c.id \in bluenorwegians \/ ByID(pfs[writepf], c.id) # {}
                   /\ UNCHANGED <<pfs, lpc>>
  BY <1>2, ListMergeDoes
<1>4. /\ found'[n] = found[n] \ {c} /\ lpc'[n] \in {"merge", "announce"}
      /\ \/ /\ c.id \notin bluenorwegians
            /\ pfs'[writepf] = pfs[writepf] \union {c}
         \/ /\ c.id \in bluenorwegians \/ ByID(pfs[writepf], c.id) # {}
            /\ pfs'[writepf] = pfs[writepf]
  BY <1>2, <1>3, ShapeTypes
<1>5. \A id \in IDs : (Waits(id)' <=> Waits(id)) /\ ~Undecided(id) /\ ~Undecided(id)'
  BY <1>1, <1>2, <1>4 DEF Waits, Undecided
<1>6. FoundOK'
  BY <1>1, <1>2, <1>4, <1>5, ContentTypes DEF ContentOK, FoundOK, Right
<1>7. KeptOK'
  <2> SUFFICES ASSUME NEW d \in pfs'[writepf]
               PROVE  /\ d.id \in IDs
                      /\ Right(d, engine[d.id], Coming(Agenda, 0, d.id, {Exited}),
                               Coming(Agenda, 0, d.id, PauseTypes) \/ Waits(d.id))
    BY <1>1, <1>5 DEF KeptOK, Right
  <2>1. CASE d \in pfs[writepf]
    BY <1>1, <2>1, ContentTypes DEF ContentOK, KeptOK
  <2>2. CASE d = c /\ c.id \notin bluenorwegians
    <3>1. \A T : Coming(Agenda, Gated, c.id, T) => Coming(Agenda, 0, c.id, T)
      BY Remaining, AgendaIs DEF Gated
    <3>2. Right(c, engine[c.id],
                c.id \in bluenorwegians \/ Coming(Agenda, Gated, c.id, {Exited}),
                Coming(Agenda, Gated, c.id, PauseTypes) \/ Waits(c.id))
      BY <1>1, <1>3 DEF ContentOK, FoundOK
    <3> QED
      BY <1>1, <1>3, <2>2, <3>1, <3>2, ContentTypes DEF Right
  <2> QED
    BY <1>4, <2>1, <2>2
<1>8. "inspect" \notin gap' => MissingOK'
  <2> SUFFICES ASSUME "inspect" \notin gap, NEW i \in AliveIDs
               PROVE  ByID(pfs'[writepf], i) # {} \/ OnItsWay(i)'
    BY <1>1, <1>2 DEF MissingOK, AliveIDs
  <2>1. i \in IDs
    BY DEF AliveIDs
  <2>2. ByID(pfs[writepf], i) # {} => ByID(pfs'[writepf], i) # {}
    BY <1>4 DEF ByID
  <2>3. i # c.id => (OnItsWay(i) => OnItsWay(i)')
    BY <1>1, <1>2, <1>4, <1>5, <2>1 DEF OnItsWay
  <2>4. CASE i = c.id
    <3>1. ByID(pfs[writepf], i) # {} \/ OnItsWay(i)
      BY DEF ContentOK, MissingOK
    <3>2. CASE pfs'[writepf] = pfs[writepf] \union {c}
      BY <2>4, <3>2 DEF ByID
    <3>3. CASE c.id \in bluenorwegians \/ ByID(pfs[writepf], c.id) # {}
      BY <1>1, <1>2, <2>2, <2>4, <3>1, <3>3 DEF OnItsWay
    <3> QED
      BY <1>4, <3>2, <3>3
  <2> QED
    BY <2>2, <2>3, <2>4 DEF ContentOK, MissingOK
<1> QED
  BY <1>6, <1>7, <1>8 DEF ContentOK

\* Replaying a pause makes the container right, or an event is to come.
LEMMA ContentReplay ==
    ASSUME FixedProjects, ShapeInv, Clean, EventsOK, ContentOK, NEW n \in Lists, ListReplay(n)
    PROVE  ContentOK'
<1> USE DEF gateVars, pfVars, listVars
<1>1. /\ n = attempt /\ attempt \in Lists
      /\ UNCHANGED <<engine, sub, attempt, writepf>>
      /\ Agenda' = Agenda /\ Gated' = Gated
  BY ListIsThis, ListLeaves DEF ListStep
<1>2. /\ UNCHANGED <<bluenorwegians, pauses, found, gap>> /\ lpc[n] = "merge"
      /\ lpf[n] = writepf /\ found[n] = {}
  BY <1>1 DEF ListReplay, ShapeInv, PublishInv, MergesIntoWritten
<1>3. PICK id \in todo[n] :
         /\ id \in IDs /\ pauses[id] \in PauseTypes
         /\ todo' = [todo EXCEPT ![n] = @ \ {id}]
         /\ \/ ByID(pfs[writepf], id) = {} /\ UNCHANGED <<pfs, lpc>>
            \/ /\ pfs' = [pfs EXCEPT ![writepf] =
                            Repaused(pfs[writepf], id, pauses[id] = Paused)]
               /\ lpc' = [lpc EXCEPT ![n] = "announce"]
  BY <1>2, ListReplayDoes
<1> DEFINE b == pauses[id] = Paused
<1>4. /\ todo'[n] = todo[n] \ {id} /\ lpc'[n] \in {"merge", "announce"}
      /\ \/ ByID(pfs[writepf], id) = {} /\ pfs'[writepf] = pfs[writepf]
         \/ pfs'[writepf] = Repaused(pfs[writepf], id, b)
  BY <1>2, <1>3, ShapeTypes
<1>5. \A i \in IDs : /\ i # id => (Waits(i)' <=> Waits(i))
                     /\ ~Undecided(i) /\ ~Undecided(i)'
  BY <1>1, <1>2, <1>4 DEF Waits, Undecided
<1>6. FoundOK'
  BY <1>1, <1>2 DEF FoundOK
<1>7. \/ Coming(Agenda, 0, id, {Exited})
      \/ /\ engine[id].alive
         /\ Coming(Agenda, 0, id, PauseTypes) \/ engine[id].paused = b
  <2>1. \A T : Coming(Agenda, Gated, id, T) => Coming(Agenda, 0, id, T)
    BY Remaining, AgendaIs DEF Gated
  <2> QED
    BY <1>3, <2>1 DEF EventsOK, AsideOK, PauseTypes, Paused, Unpaused
<1>8. b \in BOOLEAN /\ FiledPf(pfs[writepf])
  BY PfTypes
<1> HIDE DEF b
<1>9. KeptOK'
  <2> SUFFICES ASSUME NEW c \in pfs'[writepf]
               PROVE  /\ c.id \in IDs
                      /\ Right(c, engine[c.id], Coming(Agenda, 0, c.id, {Exited}),
                               Coming(Agenda, 0, c.id, PauseTypes) \/ Waits(c.id)')
    BY <1>1, <1>5 DEF KeptOK, Right
  <2>1. CASE c \in pfs[writepf] /\ c.id # id
    BY <1>1, <1>5, <2>1, ContentTypes DEF ContentOK, KeptOK, Right
  <2>2. ASSUME NEW d \in pfs[writepf], d.id = id, c = Copy(d, b)
        PROVE  /\ c.id \in IDs
               /\ Right(c, engine[c.id], Coming(Agenda, 0, c.id, {Exited}),
                        Coming(Agenda, 0, c.id, PauseTypes) \/ Waits(c.id)')
    <3>1. d \in Containers /\ c.id = id
      BY <1>1, <1>8, <2>2, ContentTypes, PausedCopy
    <3>2. Right(d, engine[id], Coming(Agenda, 0, id, {Exited}),
                Coming(Agenda, 0, id, PauseTypes) \/ Waits(id))
      BY <2>2 DEF ContentOK, KeptOK
    <3>3. Right(Copy(d, b), engine[id], Coming(Agenda, 0, id, {Exited}),
                Coming(Agenda, 0, id, PauseTypes) \/ Waits(id)')
      BY <1>7, <1>8, <3>1, <3>2, CopyRight
    <3> QED
      BY <1>3, <2>2, <3>1, <3>3
  <2>3. \/ c \in pfs[writepf] /\ c.id # id
        \/ \E d \in pfs[writepf] : d.id = id /\ c = Copy(d, b)
    BY <1>4 DEF Repaused, Without, ByID
  <2> QED
    BY <2>1, <2>2, <2>3
<1>10. "inspect" \notin gap' => MissingOK'
  <2> SUFFICES ASSUME "inspect" \notin gap, NEW i \in AliveIDs
               PROVE  ByID(pfs'[writepf], i) # {} \/ OnItsWay(i)'
    BY <1>1, <1>2 DEF MissingOK, AliveIDs
  <2>1. i \in IDs
    BY DEF AliveIDs
  <2>2. ByID(pfs[writepf], i) # {} => ByID(pfs'[writepf], i) # {}
    <3>1. \A j : ByID(Repaused(pfs[writepf], id, b), j)
                   = IF j = id THEN {Copy(c, b) : c \in ByID(pfs[writepf], id)}
                     ELSE ByID(pfs[writepf], j)
      BY <1>8, RepausedIs
    <3>2. CASE pfs'[writepf] = pfs[writepf]
      BY <3>2
    <3>3. CASE pfs'[writepf] = Repaused(pfs[writepf], id, b)
      <4>1. CASE i = id
        BY <3>1, <3>3, <4>1
      <4>2. CASE i # id
        BY <3>1, <3>3, <4>2
      <4> QED
        BY <4>1, <4>2
    <3> QED
      BY <1>4, <3>2, <3>3
  <2>3. OnItsWay(i) => OnItsWay(i)'
    BY <1>1, <1>2, <1>5, <2>1 DEF OnItsWay
  <2> QED
    BY <2>2, <2>3 DEF ContentOK, MissingOK
<1> QED
  BY <1>6, <1>9, <1>10 DEF ContentOK

\* The steps together.
LEMMA ContentNext ==
    ASSUME FixedProjects, ShapeInv, EventsInv, ContentInv, [Next]_vars
    PROVE  ContentInv'
<1> SUFFICES ASSUME Clean', "missed" \notin gap' PROVE ContentOK'
  BY DEF ContentInv
<1>1. CASE BeginAttempt
  BY <1>1, ContentAttempt
<1>2. CASE ~BeginAttempt
  <2>1. /\ Clean /\ ~StreamBreak /\ (\A n \in Lists : ~ListFail(n))
        /\ ~(TryFail \/ RecvErr \/ RecvListErr \/ Retry \/ GiveUp)
        /\ attempt \in Lists /\ "missed" \notin gap
    BY <1>2, CleanBack
  <2>2. EventsOK /\ ContentOK
    BY <2>1 DEF EventsInv, ContentInv
  <2>3. CASE EngineStep
    BY <2>1, <2>2, <2>3, ContentChange
  <2>4. CASE HandleEvent
    <3>1. CASE RecvEvent \/ Notify
      <4>1. Agenda' = Agenda /\ Gated' = Gated
        <5>1. CASE RecvEvent
          BY <5>1, AgendaTaken
        <5>2. CASE Notify
          BY <5>2, AgendaStays DEF Notify, ToLoop, InWork, HandlingPCs, Gated, streamVars
        <5> QED
          BY <3>1, <5>1, <5>2
      <4>2. UNCHANGED <<engine, sub, attempt, writepf, pfs, bluenorwegians, found, lpc,
                        todo, pauses, gap>>
        BY <3>1 DEF RecvEvent, Notify, engineVars, streamVars, pfVars, gateVars, listVars
      <4>3. \A id \in IDs : (Waits(id)' <=> Waits(id)) /\ (Undecided(id)' <=> Undecided(id))
        BY <4>2 DEF Waits, Undecided
      <4> QED
        BY <2>1, <2>2, <4>1, <4>2, <4>3, ContentStays
    <3> QED
      BY <2>1, <2>2, <2>4, <3>1, ContentBorn, ContentDemise, ContentPause DEF HandleEvent
  <2>5. CASE \E n \in Lists : ListStep(n)
    BY <2>1, <2>2, <2>5, ContentLook, ContentMerge, ContentReplay DEF ListStep
  <2>6. CASE Subscribe \/ Cancel \/ Terminated \/ UNCHANGED vars
    <3>1. /\ UNCHANGED <<engine, stream, wpc, evt, attempt, writepf, pfs, bluenorwegians,
                         found, lpc, todo, pauses, gap>>
          /\ sub' \in {sub, "live"}
      BY <2>6
      DEF Subscribe, Cancel, Terminated, vars, engineVars, streamVars, watchVars,
          gateVars, pfVars, listVars
    <3>2. Agenda' = Agenda /\ Gated' = Gated
      BY <3>1 DEF Agenda, Gated
    <3>3. \A id \in IDs : (Waits(id)' <=> Waits(id)) /\ (Undecided(id)' <=> Undecided(id))
      BY <3>1 DEF Waits, Undecided
    <3> QED
      BY <2>1, <2>2, <3>1, <3>2, <3>3, ContentStays
  <2> QED
    BY <1>2, <2>1, <2>3, <2>4, <2>5, <2>6 DEF Next, WatchStep
<1> QED
  BY <1>1, <1>2
-----------------------------------------------------------------------------
(***************************************************************************)
(* The announcements add up.                                               *)
(***************************************************************************)
\* Steps that neither change the portfolio nor announce.
LEMMA ViewStays ==
    ASSUME ApartOK, ViewOK, UNCHANGED <<pfs, writepf, view, attempt, note>>,
           \/ UNCHANGED <<wpc, evt, held, listinprogress, bluenorwegians, pauses>>
           \/ /\ wpc \notin {"remove", "setpaused", "notify"}
              /\ wpc' \notin {"remove", "setpaused", "notify"},
           lpc'[attempt] = "announce" <=> lpc[attempt] = "announce"
    PROVE  ApartOK' /\ ViewOK'
<1>1. ApartOK'
  BY DEF ApartOK
<1>2. \A id : Announcing(id) => Announcing(id)'
  BY DEF Announcing
<1>3. ViewOK'
  BY <1>2 DEF ViewOK
<1> QED
  BY <1>1, <1>3

\* A new attempt starts with an empty portfolio.
LEMMA ViewAttempt ==
    ASSUME ShapeInv, BeginAttempt
    PROVE  ApartOK' /\ ViewOK'
<1> USE DEF watchVars, pfVars, gateVars, listVars
<1> DEFINE n == attempt + 1
<1>1. /\ attempt' = n /\ pfs' = pfs /\ view' = view /\ wpc' = "loop"
      /\ lpc' = [lpc EXCEPT ![n] = "start"] /\ n \in Lists /\ n \in Portfolios
      /\ writepf' = IF pfs[writepf] # {} THEN n ELSE writepf
      /\ n > attempt /\ attempt \in Nat
  BY ShapeTypes, BoundsAssumption DEF BeginAttempt, WrittenFrom, Lists, Portfolios
<1>2. pfs'[writepf'] = {}
  BY <1>1 DEF ShapeInv, NotYet
<1>3. n = 1 => view = {}
  BY <1>1 DEF ShapeInv, NotYet
<1> HIDE DEF n
<1>4. ApartOK'
  BY <1>1, ShapeTypes DEF ApartOK
<1>5. ViewOK'
  BY <1>1, <1>2, <1>3 DEF ViewOK, ByID
<1> QED
  BY <1>4, <1>5

\* Watch comes to announce the container of its event.
LEMMA ViewHandle ==
    ASSUME FixedProjects, ShapeInv, Clean, EventsOK, ApartOK, ViewOK, HandleEvent
    PROVE  ApartOK' /\ ViewOK'
<1> USE DEF watchVars, pfVars, gateVars, listVars, engineVars, streamVars
<1>1. UNCHANGED <<attempt, lpc, note, writepf, listinprogress>> /\ attempt \in Lists
  <2>1. UNCHANGED <<attempt, lpc, note, writepf, listinprogress>> /\ sub = "live"
    BY HandleFlags DEF EventsOK
  <2> QED
    BY <2>1, ShapeTypes
<1>2. lpc'[attempt] = "announce" <=> lpc[attempt] = "announce"
  BY <1>1
<1>3. evt.type \in {Started, Exited} => evt.type \notin PauseTypes
  BY DEF PauseTypes, Started, Exited, Paused, Unpaused
<1>4. CASE RecvEvent
  BY <1>1, <1>2, <1>4, ViewStays DEF RecvEvent
<1>5. CASE BornInspect
  BY <1>1, <1>2, <1>5, ViewStays DEF BornInspect, ToLoop
<1>6. CASE BornAdd
  <2>1. PICK c \in held :
          /\ held = {c} /\ c.id = evt.id /\ c \in Containers /\ Filed(c)
          /\ \/ /\ ByID(Written, evt.id) = {}
                /\ pfs' = [pfs EXCEPT ![writepf] = Written \union {c}]
                /\ wpc' = "notify" /\ held' = held /\ evt' = evt
             \/ pfs' = pfs /\ wpc' = "loop"
    BY <1>6, BornAddDoes DEF ToLoop
  <2>2. /\ wpc = "add" /\ evt.type = Started
        /\ UNCHANGED <<view, bluenorwegians, pauses, engine, stream>>
    BY <1>6 DEF BornAdd, ShapeInv, HandOK
  <2>3. CASE pfs' = pfs /\ wpc' = "loop"
    BY <1>1, <1>2, <2>2, <2>3, ViewStays
  <2>4. CASE /\ ByID(Written, evt.id) = {}
             /\ pfs' = [pfs EXCEPT ![writepf] = Written \union {c}]
             /\ wpc' = "notify" /\ held' = held /\ evt' = evt
    <3>1. pfs'[writepf] = Written \union {c}
      BY <2>4, ShapeTypes
    <3>2. \A id : ByID(pfs'[writepf], id) = IF id = evt.id THEN held
                                            ELSE ByID(pfs[writepf], id)
      <4>1. FiledPf(Written)
        BY PfTypes DEF Written
      <4>2. \A i : ByID(Written \union {c}, i) = IF i = c.id THEN {c} ELSE ByID(Written, i)
        BY <2>1, <2>4, <4>1, AddedIs
      <4> QED
        BY <2>1, <3>1, <4>2 DEF Written
    <3>3. pauses[evt.id] = "none"
      BY <2>2, <2>4, AsideAfterStart DEF EventsOK
    <3>4. \A e \in note[attempt] : ByID(pfs[writepf], e.cntr.id) = {e.cntr} => e.cntr.id # evt.id
      BY <2>4 DEF Written
    <3>5. ApartOK'
      <4>1. evt.type # Exited /\ evt.type \notin PauseTypes
        BY <1>3, <2>2 DEF Started, Exited
      <4>2. ByID(pfs'[writepf], evt.id) = held
        BY <3>2
      <4>3. lpc[attempt] = "announce" =>
              \E e \in note[attempt] :
                /\ note[attempt] = {e} /\ e.type # Exited
                /\ ByID(pfs'[writepf], e.cntr.id) = {e.cntr}
                /\ e.cntr.id # evt.id
        BY <3>2, <3>4 DEF ApartOK
      <4> QED
        BY <1>1, <2>2, <2>4, <3>3, <4>1, <4>2, <4>3 DEF ApartOK
    <3>6. \A id : id # evt.id /\ Announcing(id) => Announcing(id)'
      BY <1>1, <2>2 DEF Announcing
    <3>7. \A id : id = evt.id => Announcing(id)'
      BY <2>4 DEF Announcing
    <3>8. ViewOK'
      BY <1>1, <2>2, <3>2, <3>6, <3>7 DEF ViewOK
    <3> QED
      BY <3>5, <3>8
  <2> QED
    BY <2>1, <2>3, <2>4
<1>7. CASE DemiseGate
  <2>1. /\ wpc = "demise" /\ wpc' = "remove" /\ gate = 0 /\ evt' = evt
        /\ UNCHANGED <<pfs, view>>
        /\ bluenorwegians' = IF listinprogress
                             THEN bluenorwegians \union {evt.id} ELSE bluenorwegians
    BY <1>7 DEF DemiseGate
  <2>2. lpc[attempt] # "announce"
    BY <1>1, <2>1, ShapeTypes DEF ShapeInv, PublishInv, TypeInv, GateHeldByMerger
  <2>3. ApartOK'
    BY <1>1, <2>1, <2>2 DEF ApartOK
  <2>4. \A id : Announcing(id) => Announcing(id)'
    BY <1>1, <2>1 DEF Announcing
  <2>5. ViewOK'
    BY <1>1, <2>1, <2>4 DEF ViewOK
  <2> QED
    BY <2>3, <2>5
<1>8. CASE DemiseRemove
  <2>1. /\ pfs' = [pfs EXCEPT ![writepf] = Without(Written, evt.id)]
        /\ ToNotify(ByID(Written, evt.id)) /\ FiledPf(Written)
    BY <1>8, DemiseRemoveDoes, PfTypes DEF Written
  <2>2. /\ wpc = "remove" /\ UNCHANGED <<view, bluenorwegians, pauses>>
        /\ evt.type = Exited /\ evt.id \in IDs
    BY <1>8, HandIs DEF DemiseRemove, ShapeInv, HandOK, HandlingPCs
  <2>3. pfs'[writepf] = Without(Written, evt.id)
    BY <2>1, ShapeTypes
  <2>4. \A id : ByID(pfs'[writepf], id) = IF id = evt.id THEN {} ELSE ByID(pfs[writepf], id)
    <3>1. \A i : ByID(Without(Written, evt.id), i) = IF i = evt.id THEN {} ELSE ByID(Written, i)
      BY <2>1, WithoutIs
    <3> QED
      BY <2>3, <3>1 DEF Written
  <2>5. pauses[evt.id] = "none"
    BY <2>2 DEF EventsOK, AsideOK
  <2>6. CASE /\ ByID(Written, evt.id) # {}
             /\ wpc' = "notify" /\ held' = ByID(Written, evt.id) /\ evt' = evt
    <3>1. ApartOK'
      BY <1>1, <1>3, <2>2, <2>4, <2>5, <2>6 DEF ApartOK
    <3>2. \A id : (id # evt.id /\ Announcing(id) => Announcing(id)')
                  /\ (id = evt.id => Announcing(id)')
      BY <1>1, <2>2, <2>6 DEF Announcing
    <3>3. ViewOK'
      BY <1>1, <2>2, <2>4, <3>2 DEF ViewOK
    <3> QED
      BY <3>1, <3>3
  <2>7. CASE ByID(Written, evt.id) = {} /\ ToLoop
    <3>1. \A id : ByID(pfs'[writepf], id) = ByID(pfs[writepf], id)
      BY <2>4, <2>7 DEF Written
    <3>2. ApartOK'
      BY <1>1, <2>7, <3>1 DEF ApartOK, ToLoop
    <3>3. \A id : Announcing(id) => Announcing(id)'
      BY <1>1, <2>2 DEF Announcing
    <3>4. ViewOK'
      BY <1>1, <2>2, <3>1, <3>3 DEF ViewOK
    <3> QED
      BY <3>2, <3>4
  <2> QED
    BY <2>1, <2>6, <2>7 DEF ToNotify
<1>9. CASE PauseGate
  <2>1. /\ wpc = "pausing" /\ UNCHANGED <<pfs, view>>
        /\ \/ wpc' = "loop"
           \/ ~listinprogress /\ wpc' = "setpaused"
    BY <1>9 DEF PauseGate, ToLoop
  <2>2. ApartOK'
    BY <1>1, <2>1 DEF ApartOK
  <2>3. \A id : Announcing(id) => Announcing(id)'
    BY <1>1, <2>1 DEF Announcing
  <2>4. ViewOK'
    BY <1>1, <2>1, <2>3 DEF ViewOK
  <2> QED
    BY <2>2, <2>4
<1>10. CASE PauseApply
  <2> DEFINE b == evt.type = Paused
             pf == Repaused(Written, evt.id, b)
  <2>1. /\ pfs' = [pfs EXCEPT ![writepf] = pf] /\ FiledPf(Written) /\ b \in BOOLEAN
        /\ ToNotify(ByID(pfs'[writepf], evt.id))
    BY <1>10, PauseApplyDoes, PfTypes DEF Written
  <2>2. /\ wpc = "setpaused" /\ UNCHANGED <<view, bluenorwegians, pauses>>
        /\ evt.type \in PauseTypes /\ evt.id \in IDs
    BY <1>10, HandIs
    DEF PauseApply, HandlingPCs, ShapeInv, PublishInv, TypeInv, EventFits, PauseTypes
  <2>3. pfs'[writepf] = pf
    BY <2>1, ShapeTypes
  <2> HIDE DEF b
  <2>9. \A i : ByID(Repaused(Written, evt.id, b), i) =
                 IF i = evt.id THEN {Copy(c, b) : c \in ByID(Written, evt.id)}
                 ELSE ByID(Written, i)
    <3>1. FiledPf(Written) /\ b \in BOOLEAN
      BY <2>1
    <3> QED
      BY <3>1, RepausedIs
  <2>4. \A id : ByID(pf, id) = IF id = evt.id
                               THEN {Copy(c, b) : c \in ByID(Written, evt.id)}
                               ELSE ByID(Written, id)
    BY <2>9
  <2> HIDE DEF pf
  <2>5. ~listinprogress /\ pauses[evt.id] = "none" /\ lpc[attempt] # "announce"
    <3>1. ~listinprogress
      BY <2>2 DEF ApartOK
    <3> QED
      BY <2>2, <3>1 DEF ShapeInv, AsideOnlyWhileListing, NoPauses, EventsOK, FlagOK
  <2>6. \A id : id # evt.id => ByID(pfs'[writepf], id) = ByID(pfs[writepf], id)
    BY <2>3, <2>4 DEF Written
  <2>7. CASE wpc' = "notify" /\ held' = ByID(pfs'[writepf], evt.id) /\ evt' = evt
    <3>1. ApartOK'
      BY <1>1, <1>3, <2>2, <2>5, <2>7 DEF ApartOK
    <3>2. \A id : (id # evt.id /\ Announcing(id) => Announcing(id)')
                  /\ (id = evt.id => Announcing(id)')
      BY <1>1, <2>2, <2>7 DEF Announcing
    <3>3. ViewOK'
      BY <1>1, <2>2, <2>6, <3>2 DEF ViewOK
    <3> QED
      BY <3>1, <3>3
  <2>8. CASE ByID(pfs'[writepf], evt.id) = {} /\ ToLoop
    <3>1. \A id : ByID(pfs'[writepf], id) = ByID(pfs[writepf], id)
      <4>1. ByID(pfs[writepf], evt.id) = {}
        BY <2>3, <2>4, <2>8 DEF Written
      <4> QED
        BY <2>6, <2>8, <4>1
    <3>2. ApartOK'
      BY <1>1, <2>5, <2>8 DEF ApartOK, ToLoop
    <3>3. \A id : Announcing(id) => Announcing(id)'
      BY <1>1, <2>2 DEF Announcing
    <3>4. ViewOK'
      BY <1>1, <2>2, <3>1, <3>3 DEF ViewOK
    <3> QED
      BY <3>2, <3>4
  <2> QED
    BY <2>1, <2>7, <2>8 DEF ToNotify
<1>11. CASE Notify
  <2>1. PICK c \in held : view' = Heard(view, evt.type, c)
    BY <1>11 DEF Notify
  <2>2. /\ wpc = "notify" /\ wpc' = "loop" /\ pfs' = pfs
        /\ held = {c} /\ c.id = evt.id
    BY <1>11, <2>1 DEF Notify, ToLoop, ShapeInv, HandOK
  <2>3. ApartOK'
    BY <1>1, <2>2 DEF ApartOK
  <2>4. \A id : ByID(view', id) = IF id # evt.id THEN ByID(view, id)
                                  ELSE IF evt.type = Exited THEN {} ELSE {c}
    BY <2>1, <2>2 DEF Heard, ByID
  <2>5. ByID(pfs[writepf], evt.id) = IF evt.type = Exited THEN {} ELSE {c}
    BY <2>2 DEF ApartOK
  <2>6. \A id : id # evt.id /\ Announcing(id) => Announcing(id)'
    BY <1>1, <2>2 DEF Announcing
  <2>7. ViewOK'
    <3> SUFFICES ASSUME NEW id \in IDs, ~Announcing(id)'
                 PROVE  /\ ByID(pfs[writepf], id) \subseteq view'
                        /\ attempt = 1 => ByID(view', id) \subseteq ByID(pfs[writepf], id)
      BY <1>1, <2>2 DEF ViewOK
    <3>1. CASE id = evt.id
      <4>1. ByID(view', id) \subseteq view'
        BY DEF ByID
      <4> QED
        BY <2>4, <2>5, <3>1, <4>1
    <3>2. CASE id # evt.id
      <4>1. /\ ByID(pfs[writepf], id) \subseteq view
            /\ attempt = 1 => ByID(view, id) \subseteq ByID(pfs[writepf], id)
        BY <2>6, <3>2 DEF ViewOK
      <4>2. ByID(pfs[writepf], id) \subseteq ByID(view, id) /\ ByID(view', id) \subseteq view'
        BY <4>1 DEF ByID
      <4> QED
        BY <2>4, <3>2, <4>1, <4>2
    <3> QED
      BY <3>1, <3>2
  <2> QED
    BY <2>3, <2>7
<1> QED
  BY <1>4, <1>5, <1>6, <1>7, <1>8, <1>9, <1>10, <1>11 DEF HandleEvent
-----------------------------------------------------------------------------
\* The listing comes to announce the container that it has added or paused.
LEMMA ViewList ==
    ASSUME FixedProjects, ShapeInv, Clean, EventsOK, ApartOK, ViewOK,
           NEW n \in Lists, ListStep(n), ~ListFail(n), Clean', "straddle" \notin gap'
    PROVE  ApartOK' /\ ViewOK'
<1> USE DEF gateVars, pfVars, listVars, watchVars
<1>1. /\ n = attempt /\ attempt \in Lists /\ lpc \in [Lists -> ListPCs]
      /\ UNCHANGED <<engine, sub, stream, wpc, evt, held, attempt, writepf>>
  BY ListIsThis, ListLeaves, ShapeTypes
<1>2. \A id : /\ id # evt.id => (wpc = "notify" => evt.id # id)
              /\ Announcing(id) /\ lpc[n] # "announce" => Announcing(id)'
  BY <1>1 DEF Announcing
<1>3. CASE ListBegin(n) \/ ListUnlock(n)
  <2>1. /\ UNCHANGED <<pfs, note, view>>
        /\ lpc[n] # "announce" /\ lpc'[n] # "announce"
    BY <1>1, <1>3 DEF ListBegin, ListUnlock
  <2>2. CASE ListBegin(n)
    <3>1. wpc \notin {"remove", "setpaused", "notify"}
      BY <1>1, <2>2 DEF ListBegin, Missing, Clean
    <3> QED
      BY <1>1, <2>1, <3>1, ViewStays
  <2>3. CASE ListUnlock(n)
    <3>1. /\ bluenorwegians' = {} /\ ~listinprogress' /\ pauses' = NoPauses
      BY <2>3 DEF ListUnlock, ClearAside
    <3>2. wpc = "notify" => pauses'[evt.id] = "none"
      <4>1. wpc = "notify" => evt.id \in IDs
        BY HandIs DEF HandlingPCs
      <4> QED
        BY <3>1, <4>1 DEF NoPauses
    <3>3. ApartOK'
      BY <1>1, <2>1, <3>1, <3>2 DEF ApartOK
    <3>4. \A id : Announcing(id) => Announcing(id)'
      BY <1>1, <2>1 DEF Announcing
    <3>5. ViewOK'
      BY <1>1, <2>1, <3>4 DEF ViewOK
    <3> QED
      BY <3>3, <3>5
  <2> QED
    BY <1>3, <2>2, <2>3
<1>4. CASE ListQuery(n) \/ ListInspect(n) \/ ListLock(n) \/ Publish(n)
  <2>1. /\ UNCHANGED <<pfs, note, view, listinprogress, bluenorwegians, pauses>>
        /\ lpc[n] # "announce" /\ lpc'[n] # "announce"
    BY <1>1, <1>4 DEF ListQuery, ListInspect, ListLock, Publish
  <2> QED
    BY <1>1, <2>1, ViewStays
<1>5. CASE ListMerge(n)
  <2>1. /\ lpc[n] = "merge" /\ lpf[n] = writepf /\ listinprogress
        /\ UNCHANGED <<view, listinprogress, bluenorwegians, pauses>>
    BY <1>1, <1>5 DEF ListMerge, ShapeInv, PublishInv, MergesIntoWritten, EventsOK, FlagOK
  <2>2. PICK c \in found[n] :
             /\ c \in Containers /\ Filed(c)
             /\ \/ /\ c.id \notin bluenorwegians /\ ByID(pfs[writepf], c.id) = {}
                   /\ pfs' = [pfs EXCEPT ![writepf] = pfs[writepf] \union {c}]
                   /\ note' = [note EXCEPT ![n] = {[type |-> Started, cntr |-> c]}]
                   /\ lpc' = [lpc EXCEPT ![n] = "announce"]
                \/ UNCHANGED <<pfs, note, lpc>>
    BY <1>5, <2>1, ListMergeDoes
  <2>3. CASE UNCHANGED <<pfs, note, lpc>>
    BY <1>1, <2>1, <2>3, ViewStays
  <2>4. CASE /\ c.id \notin bluenorwegians /\ ByID(pfs[writepf], c.id) = {}
             /\ pfs' = [pfs EXCEPT ![writepf] = pfs[writepf] \union {c}]
             /\ note' = [note EXCEPT ![n] = {[type |-> Started, cntr |-> c]}]
             /\ lpc' = [lpc EXCEPT ![n] = "announce"]
    <3>1. /\ pfs'[writepf] = pfs[writepf] \union {c}
          /\ note'[n] = {[type |-> Started, cntr |-> c]}
          /\ lpc'[n] = "announce"
      <4>1. note \in [Lists -> SUBSET [type : EventTypes, cntr : Containers]]
        BY DEF ShapeInv, PublishInv, TypeInv, TypeOK, ListsOK
      <4> QED
        BY <1>1, <2>4, <4>1, ShapeTypes
    <3>2. \A i : ByID(pfs'[writepf], i) = IF i = c.id THEN {c} ELSE ByID(pfs[writepf], i)
      <4>1. FiledPf(Written)
        BY PfTypes DEF Written
      <4>2. \A i : ByID(Written \union {c}, i) = IF i = c.id THEN {c} ELSE ByID(Written, i)
        BY <2>2, <2>4, <4>1, AddedIs DEF Written
      <4> QED
        BY <3>1, <4>2 DEF Written
    <3>3. wpc \in {"remove", "notify"} => evt.id # c.id
      <4>1. wpc = "notify" /\ evt.type # Exited => held # {}
        BY DEF ShapeInv, HandOK
      <4> QED
        BY <2>1, <2>4, <4>1 DEF ApartOK
    <3>4. ApartOK'
      <4>1. wpc = "notify" => ByID(pfs'[writepf], evt.id) = ByID(pfs[writepf], evt.id)
        BY <3>2, <3>3
      <4>2. \E e \in note'[n] :
              /\ note'[n] = {e} /\ e.type # Exited
              /\ ByID(pfs'[writepf], e.cntr.id) = {e.cntr}
              /\ wpc \in {"remove", "notify"} => evt.id # e.cntr.id
        <5> DEFINE e == [type |-> Started, cntr |-> c]
        <5>1. e.type # Exited /\ e.cntr = c /\ note'[n] = {e}
          BY <3>1 DEF Started, Exited
        <5> HIDE DEF e
        <5> QED
          BY <3>2, <3>3, <5>1
      <4> QED
        BY <1>1, <2>1, <4>1, <4>2 DEF ApartOK
    <3>5. \A id : /\ id = c.id => Announcing(id)'
                  /\ Announcing(id) => Announcing(id)'
      BY <1>1, <2>1, <3>1 DEF Announcing
    <3>6. ViewOK'
      BY <1>1, <2>1, <3>2, <3>5 DEF ViewOK
    <3> QED
      BY <3>4, <3>6
  <2> QED
    BY <2>2, <2>3, <2>4
<1>6. CASE ListReplay(n)
  <2>1. /\ lpc[n] = "merge" /\ lpf[n] = writepf /\ listinprogress
        /\ UNCHANGED <<view, listinprogress, bluenorwegians, pauses>>
    BY <1>1, <1>6 DEF ListReplay, ShapeInv, PublishInv, MergesIntoWritten, EventsOK, FlagOK
  <2>2. PICK id \in todo[n] :
             /\ id \in IDs /\ pauses[id] \in PauseTypes
             /\ \/ UNCHANGED <<pfs, note, lpc>>
                \/ \E c \in Containers :
                      /\ pfs' = [pfs EXCEPT ![writepf] =
                                   Repaused(pfs[writepf], id, pauses[id] = Paused)]
                      /\ ByID(pfs'[writepf], id) = {c}
                      /\ note' = [note EXCEPT ![n] = {[type |-> pauses[id], cntr |-> c]}]
                      /\ lpc' = [lpc EXCEPT ![n] = "announce"]
    BY <1>6, <2>1, ListReplayDoes
  <2>3. CASE UNCHANGED <<pfs, note, lpc>>
    BY <1>1, <2>1, <2>3, ViewStays
  <2>4. ASSUME NEW c \in Containers,
               pfs' = [pfs EXCEPT ![writepf] =
                         Repaused(pfs[writepf], id, pauses[id] = Paused)],
               ByID(pfs'[writepf], id) = {c},
               note' = [note EXCEPT ![n] = {[type |-> pauses[id], cntr |-> c]}],
               lpc' = [lpc EXCEPT ![n] = "announce"]
        PROVE  ApartOK' /\ ViewOK'
    <3> DEFINE b == pauses[id] = Paused
    <3>1. /\ pfs'[writepf] = Repaused(Written, id, b)
          /\ note'[n] = {[type |-> pauses[id], cntr |-> c]}
          /\ lpc'[n] = "announce"
      <4>1. note \in [Lists -> SUBSET [type : EventTypes, cntr : Containers]]
        BY DEF ShapeInv, PublishInv, TypeInv, TypeOK, ListsOK
      <4> QED
        BY <1>1, <2>4, <4>1, ShapeTypes DEF Written
    <3>2. \A i : i # id => ByID(pfs'[writepf], i) = ByID(pfs[writepf], i)
      <4>1. FiledPf(Written) /\ b \in BOOLEAN
        BY PfTypes DEF Written
      <4> HIDE DEF b
      <4>2. \A i : ByID(Repaused(Written, id, b), i) =
                     IF i = id THEN {Copy(d, b) : d \in ByID(Written, id)}
                     ELSE ByID(Written, i)
        BY <4>1, RepausedIs
      <4> QED
        BY <3>1, <4>2 DEF Written
    <3>3. c.id = id
      BY <2>4 DEF ByID
    <3>4. pauses[id] # "none" /\ pauses[id] # Exited
      BY <2>2 DEF PauseTypes, Paused, Unpaused, Exited
    <3>5. wpc \in {"remove", "notify"} => evt.id # id
      BY <2>2, <3>4 DEF ApartOK, EventsOK, AsideOK
    <3>6. ApartOK'
      <4>1. wpc = "notify" => ByID(pfs'[writepf], evt.id) = ByID(pfs[writepf], evt.id)
        BY <3>2, <3>5
      <4>2. \E e \in note'[n] :
              /\ note'[n] = {e} /\ e.type # Exited
              /\ ByID(pfs'[writepf], e.cntr.id) = {e.cntr}
              /\ wpc \in {"remove", "notify"} => evt.id # e.cntr.id
        <5> DEFINE e == [type |-> pauses[id], cntr |-> c]
        <5>1. e.type = pauses[id] /\ e.cntr = c /\ note'[n] = {e}
          BY <3>1
        <5> HIDE DEF e
        <5>2. ByID(pfs'[writepf], e.cntr.id) = {e.cntr}
          BY <2>4, <3>3, <5>1
        <5>3. wpc \in {"remove", "notify"} => evt.id # e.cntr.id
          BY <3>3, <3>5, <5>1
        <5> QED
          BY <3>4, <5>1, <5>2, <5>3
      <4> QED
        BY <1>1, <2>1, <4>1, <4>2 DEF ApartOK
    <3>7. \A i : /\ i = id => Announcing(i)'
                 /\ Announcing(i) => Announcing(i)'
      BY <1>1, <2>1, <3>1, <3>3 DEF Announcing
    <3>8. ViewOK'
      BY <1>1, <2>1, <3>2, <3>7 DEF ViewOK
    <3> QED
      BY <3>6, <3>8
  <2> QED
    BY <2>2, <2>3, <2>4
<1>7. CASE ListAnnounce(n)
  <2>1. /\ lpc[n] = "announce" /\ lpc'[n] = "merge"
        /\ UNCHANGED <<pfs, listinprogress, bluenorwegians, pauses>>
    BY <1>1, <1>7 DEF ListAnnounce
  <2>2. PICK e \in note[n] :
          /\ note[n] = {e} /\ e.type # Exited
          /\ ByID(pfs[writepf], e.cntr.id) = {e.cntr}
    BY <1>1, <2>1 DEF ApartOK
  <2>3. view' = Heard(view, e.type, e.cntr)
    BY <1>7, <2>2 DEF ListAnnounce
  <2>4. \A id : ByID(view', id) = IF id # e.cntr.id THEN ByID(view, id) ELSE {e.cntr}
    BY <2>2, <2>3 DEF Heard, ByID
  <2>5. ApartOK'
    BY <1>1, <2>1 DEF ApartOK
  <2>6. \A id : id # e.cntr.id /\ Announcing(id) => Announcing(id)'
    BY <1>1, <2>1, <2>2 DEF Announcing
  <2>7. ViewOK'
    <3> SUFFICES ASSUME NEW id \in IDs, ~Announcing(id)'
                 PROVE  /\ ByID(pfs[writepf], id) \subseteq view'
                        /\ attempt = 1 => ByID(view', id) \subseteq ByID(pfs[writepf], id)
      BY <1>1, <2>1 DEF ViewOK
    <3>1. CASE id = e.cntr.id
      <4>1. ByID(view', id) \subseteq view'
        BY DEF ByID
      <4> QED
        BY <2>2, <2>4, <3>1, <4>1
    <3>2. CASE id # e.cntr.id
      <4>1. /\ ByID(pfs[writepf], id) \subseteq view
            /\ attempt = 1 => ByID(view, id) \subseteq ByID(pfs[writepf], id)
        BY <2>6, <3>2 DEF ViewOK
      <4>2. ByID(pfs[writepf], id) \subseteq ByID(view, id) /\ ByID(view', id) \subseteq view'
        BY <4>1 DEF ByID
      <4> QED
        BY <2>4, <3>2, <4>1, <4>2
    <3> QED
      BY <3>1, <3>2
  <2> QED
    BY <2>5, <2>7
<1> QED
  BY <1>3, <1>4, <1>5, <1>6, <1>7 DEF ListStep

\* The steps together.
LEMMA ViewNext ==
    ASSUME FixedProjects, ShapeInv, EventsInv, ViewInv, [Next]_vars
    PROVE  ViewInv'
<1> SUFFICES ASSUME Clean', "straddle" \notin gap' PROVE ApartOK' /\ ViewOK'
  BY DEF ViewInv
<1>1. CASE BeginAttempt
  BY <1>1, ViewAttempt
<1>2. CASE ~BeginAttempt
  <2>1. /\ Clean /\ ~StreamBreak /\ (\A n \in Lists : ~ListFail(n))
        /\ ~(TryFail \/ RecvErr \/ RecvListErr \/ Retry \/ GiveUp)
        /\ attempt \in Lists /\ "straddle" \notin gap
    BY <1>2, CleanBack
  <2>2. EventsOK /\ ApartOK /\ ViewOK
    BY <2>1 DEF EventsInv, ViewInv
  <2>3. CASE HandleEvent
    BY <2>1, <2>2, <2>3, ViewHandle
  <2>4. CASE \E n \in Lists : ListStep(n)
    BY <2>1, <2>2, <2>4, ViewList
  <2>5. CASE EngineStep \/ Subscribe \/ Cancel \/ Terminated \/ UNCHANGED vars
    <3>1. UNCHANGED <<pfs, writepf, view, attempt, note, wpc, evt, held, lpc,
                      listinprogress, bluenorwegians, pauses>>
      BY <2>5
      DEF EngineStep, EngineStart, EngineDie, EnginePause, EngineUnpause, Change,
          Subscribe, Cancel, Terminated, vars, engineVars, streamVars, watchVars,
          gateVars, pfVars, listVars
    <3> QED
      BY <2>2, <3>1, ViewStays
  <2> QED
    BY <1>2, <2>1, <2>3, <2>4, <2>5 DEF Next, WatchStep
<1> QED
  BY <1>1, <1>2
-----------------------------------------------------------------------------
(***************************************************************************)
(* What the invariant says once everything has been handled.               *)
(***************************************************************************)
\* Before the first attempt there is nothing to be right.
LEMMA SyncInit == Init => SyncInv
<1> SUFFICES ASSUME Init PROVE SyncInv
  OBVIOUS
<1>1. ~Clean
  BY DEF Init, Clean
<1> QED
  BY <1>1, ShapeInit DEF SyncInv, EventsInv, ContentInv, ViewInv

\* The parts together are inductive.
LEMMA SyncNext == ASSUME FixedProjects, SyncInv, [Next]_vars PROVE SyncInv'
BY ShapeNext, EventsNext, ContentNext, ViewNext DEF SyncInv

\* The invariant holds for any containers, changes of the engine, failures, attempts
\* and overlapping listings: what is in the portfolio, found, or set aside is what the
\* engine has, or else an event or an inspection that corrects it is to come.
THEOREM SyncCorrect == ASSUME FixedProjects PROVE Spec => []SyncInv
<1>1. SyncInv /\ [Next]_vars => SyncInv'
  BY SyncNext
<1> QED
  BY <1>1, SyncInit, PTL DEF Spec

\* Nothing is coming, and what is kept is right.
LEMMA AllHandled ==
    ASSUME FixedProjects, SyncInv, Quiescent,
           gap \intersect {"overlap", "leftover", "missed"} = {}
    PROVE  /\ readpf = writepf /\ pfs[writepf] \subseteq EngineContainers
           /\ "inspect" \notin gap => \A id \in AliveIDs : ByID(pfs[writepf], id) # {}
<1>1. Clean /\ ShapeInv /\ EventsOK /\ ContentOK
  BY DEF Quiescent, Clean, SyncInv, EventsInv, ContentInv
<1>2. attempt \in Lists /\ lpc[attempt] = "done" /\ wpc = "loop" /\ sub = "live"
  BY <1>1, ShapeTypes DEF Quiescent
<1>3. ~listinprogress /\ readpf = writepf
  BY <1>1, <1>2 DEF EventsOK, FlagOK
<1>4. \A id : ~Undecided(id)
  BY <1>2 DEF Undecided
<1>5. \A id \in IDs : ~Waits(id)
  BY <1>1, <1>3 DEF ShapeInv, AsideOnlyWhileListing, Waits, NoPauses
<1>6. \A i, id, T : ~Coming(Agenda, i, id, T)
  BY <1>2 DEF Quiescent, Agenda, InWork, HandlingPCs, Coming
<1>7. found[attempt] = {}
  BY <1>1, <1>2 DEF ShapeInv, ListingOK
<1>8. pfs[writepf] \subseteq EngineContainers
  <2> SUFFICES ASSUME NEW c \in pfs[writepf] PROVE c \in EngineContainers
    OBVIOUS
  <2>1. c \in Containers /\ Filed(c) /\ c.id \in IDs
    BY <1>1, PfTypes DEF FiledPf, Containers
  <2>2. engine[c.id].alive /\ c.inc = engine[c.id].inc /\ c.paused = engine[c.id].paused
    BY <1>1, <1>5, <1>6, <2>1 DEF ContentOK, KeptOK, Right
  <2>3. engine[c.id].proj \in ProjectsOf[c.id]
    BY <1>1, <2>1 DEF ShapeInv, FiledOK
  <2>4. c.proj = engine[c.id].proj
    BY <2>1, <2>3 DEF FixedProjects, Filed
  <2>5. c = Snapshot(c.id)
    BY <2>1, <2>2, <2>4 DEF Containers, Snapshot
  <2> QED
    BY <2>1, <2>2, <2>5 DEF EngineContainers, AliveIDs
<1>9. ASSUME "inspect" \notin gap, NEW id \in AliveIDs
      PROVE  ByID(pfs[writepf], id) # {}
  BY <1>1, <1>4, <1>6, <1>7, <1>9 DEF ContentOK, MissingOK, OnItsWay
<1> QED
  BY <1>3, <1>8, <1>9

\* Nothing is being announced, and what has been is right.
LEMMA AllHeard ==
    ASSUME SyncInv, Quiescent, gap \intersect {"overlap", "leftover", "straddle"} = {}
    PROVE  /\ pfs[writepf] \subseteq view
           /\ attempt = 1 => view \subseteq pfs[writepf]
<1>1. Clean /\ ShapeInv /\ ViewOK
  BY DEF Quiescent, Clean, SyncInv, ViewInv
<1>2. \A id : ~Announcing(id)
  BY DEF Quiescent, Announcing
<1>3. pfs[writepf] \subseteq Containers /\ view \subseteq Containers
  BY <1>1, ShapeTypes DEF ShapeInv, PublishInv, TypeInv, TypeOK, GhostsOK
<1>4. \A c \in Containers : c.id \in IDs
  BY DEF Containers
<1>5. ASSUME NEW c \in pfs[writepf] PROVE c \in view
  <2>1. c \in ByID(pfs[writepf], c.id) /\ c.id \in IDs
    BY <1>3, <1>4 DEF ByID
  <2> QED
    BY <1>1, <1>2, <2>1 DEF ViewOK
<1>6. ASSUME attempt = 1, NEW c \in view PROVE c \in pfs[writepf]
  <2>1. c \in ByID(view, c.id) /\ c.id \in IDs
    BY <1>3, <1>4 DEF ByID
  <2>2. c \in ByID(pfs[writepf], c.id)
    BY <1>1, <1>2, <1>6, <2>1 DEF ViewOK
  <2> QED
    BY <2>2 DEF ByID
<1> QED
  BY <1>5, <1>6

\* While the attempt is connected: if it has missed nothing, and nothing of an
\* earlier attempt gets in its way, then once the listing is through and all events
\* are handled, users read exactly what the engine runs.
THEOREM SyncedExactCorrect == ASSUME FixedProjects PROVE Spec => []SyncedExact
<1>1. SyncInv => SyncedExact
  <2> SUFFICES ASSUME SyncInv, Quiescent, gap \intersect (Reasons \ {"straddle"}) = {}
               PROVE  Exact
    BY DEF SyncedExact, ExactUnless
  <2>1. /\ gap \intersect {"overlap", "leftover", "missed"} = {} /\ "inspect" \notin gap
    BY DEF Reasons
  <2>2. /\ readpf = writepf /\ pfs[writepf] \subseteq EngineContainers
        /\ \A id \in AliveIDs : ByID(pfs[writepf], id) # {}
    BY <2>1, AllHandled
  <2>3. ASSUME NEW id \in AliveIDs PROVE Snapshot(id) \in pfs[writepf]
    <3>1. PICK c \in pfs[writepf] : c.id = id
      BY <2>2 DEF ByID
    <3>2. PICK i \in AliveIDs : c = Snapshot(i)
      BY <2>2 DEF EngineContainers
    <3>3. i = id
      BY <3>1, <3>2 DEF Snapshot
    <3> QED
      BY <3>2, <3>3
  <2>4. EngineContainers \subseteq pfs[writepf]
    BY <2>3 DEF EngineContainers
  <2> QED
    BY <2>2, <2>4 DEF Exact
<1> QED
  BY <1>1, SyncCorrect, PTL

\* Though inspections fail, nothing that is dead is kept, and no state is stale.
THEOREM OnlyMissingCorrect == ASSUME FixedProjects PROVE Spec => []OnlyMissing
<1>1. SyncInv => OnlyMissing
  <2> SUFFICES ASSUME SyncInv, Quiescent, gap \subseteq {"straddle", "inspect"}
               PROVE  readpf = writepf /\ pfs[readpf] \subseteq EngineContainers
    BY DEF OnlyMissing
  <2>1. gap \intersect {"overlap", "leftover", "missed"} = {}
    OBVIOUS
  <2> QED
    BY <2>1, AllHandled
<1> QED
  BY <1>1, SyncCorrect, PTL

\* In the first attempt, receivers of Events know exactly what is in the portfolio.
THEOREM AnnouncedExactCorrect == ASSUME FixedProjects PROVE Spec => []AnnouncedExact
<1>1. SyncInv => AnnouncedExact
  <2> SUFFICES ASSUME SyncInv, Quiescent, attempt = 1, "straddle" \notin gap
               PROVE  view = pfs[writepf]
    BY DEF AnnouncedExact
  <2>1. "overlap" \notin gap /\ "leftover" \notin gap
    BY DEF SyncInv, ShapeInv, NotYet
  <2> QED
    BY <2>1, AllHeard
<1> QED
  BY <1>1, SyncCorrect, PTL

\* After a reconnect, they are told again of all that are in the portfolio.
THEOREM AnnouncedAgainCorrect == ASSUME FixedProjects PROVE Spec => []AnnouncedAgain
<1>1. SyncInv => AnnouncedAgain
  BY AllHeard DEF AnnouncedAgain
<1> QED
  BY <1>1, SyncCorrect, PTL
=============================================================================

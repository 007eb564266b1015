-------------------------- MODULE EngineQueriesProofs --------------------------
(***************************************************************************)
(* Proofs about EngineQueries: whatever containers there are, however they *)
(* change during a query, and whichever calls of the engine fail.          *)
(***************************************************************************)
EXTENDS EngineQueries, TLAPS

States == [exists : BOOLEAN, alive : BOOLEAN, paused : BOOLEAN, pid : Nat,
           proj : ProjectsNow]
Engine == engine \in [IDs -> States] /\ Sound(engine)

\* What the ghosts know of the engine.
Witnessed == Snapshots(engine) \subseteq seen /\ throughout \subseteq AliveIDs

\* Where each client gets to, with each query.
Phases ==
    /\ client = "moby" => pc \in {"list", "each", "inspect", "done", "failed"}
    /\ client = "containerd" =>
         pc \in {"list", "labels", "tasks", "inspect", "task", "done", "failed"}
    /\ client = "cri" => pc \in {"list", "container", "status", "sandboxes", "sandbox",
                                 "inspect", "inspectpod", "done", "failed"}
    /\ query = "list" => asked = IDs /\ pc \notin {"inspect", "task", "inspectpod"}
    /\ query = "inspect" =>
         /\ \E id \in IDs : asked = {id}
         /\ pc \notin {"list", "each", "labels", "tasks", "sandboxes"}
         /\ pc = "sandbox" => asked \subseteq Sandboxes
         /\ pc = "done" /\ answer = {} => client = "cri" /\ asked \subseteq Sandboxes

\* What is at hand, and what is still to be looked at.
AtHand ==
    /\ pc = "tasks" => \E ns \in todo : hand = {ns}
    /\ pc = "task" => hand = asked
    /\ pc = "status" => hand \subseteq todo
    /\ pc \in {"container", "status"} => todo \cap Sandboxes = {}
    /\ pc = "sandbox" => todo \subseteq Sandboxes
    /\ pc \in {"each", "container", "status", "sandbox"} => todo \subseteq asked

\* The labels are those of the containers at hand, unless these have been recreated.
LabelsOf(ns) ==
    /\ DOMAIN labels \subseteq {RawOf[i] : i \in InSpace(ns)}
    /\ \A raw \in DOMAIN labels : labels[raw] \in Projects \union {NoProject}
    /\ \A id \in InSpace(ns) \ recreated :
         engine[id].exists =>
           RawOf[id] \in DOMAIN labels /\ labels[RawOf[id]] = engine[id].proj
LabelsKnown ==
    /\ pc \in {"list", "labels"} => labels = <<>>
    /\ pc = "tasks" => \A ns \in hand : LabelsOf(ns)
    /\ pc = "task" => \A id \in hand : LabelsOf(SpaceOf[id]) /\ RawOf[id] \in DOMAIN labels

\* The query is still to look at a container, or there is an answer about it; never
\* both.
ToCome(id) ==
    \/ pc \in {"list", "inspect", "inspectpod", "task"} /\ id \in asked
    \/ pc \in {"each", "container", "status", "sandbox"} /\ id \in todo
    \/ pc \in {"labels", "tasks"} /\ SpaceOf[id] \in todo
    \/ pc \in {"container", "status"} /\ query = "list" /\ id \in Sandboxes
    \/ pc = "sandboxes" /\ id \in Sandboxes
Covered(id) == \E c \in answer : c.id = Shown(id)

CompleteSoFar ==
    pc # "failed" =>
      \A id \in (asked \intersect throughout) \ excused : ToCome(id) \/ Covered(id)
DistinctSoFar ==
    /\ \A id \in IDs : ToCome(id) => ~Covered(id)
    /\ \A c, d \in answer : c.id = d.id => c = d
    /\ \A c \in answer : \E id \in asked : c.id = Shown(id)
TruthfulSoFar == \A c \in answer : c \in seen \/ OtherProject(c) \/ JustDied(c)

Inv == /\ TypeOK /\ Engine /\ Witnessed /\ Phases /\ AtHand /\ LabelsKnown
       /\ CompleteSoFar /\ DistinctSoFar /\ TruthfulSoFar
-----------------------------------------------------------------------------
(***************************************************************************)
(* IDs as they are shown.                                                  *)
(***************************************************************************)

\* What is shown of a container leads back to its namespace and ID in it.
LEMMA DisplayIDDecoded ==
    ASSUME NEW ns, NEW raw
    PROVE  decodeDisplayID(displayID(ns, raw)) = [ns |-> ns, id |-> raw]
<1>1. CASE ns = Default
  BY <1>1 DEF decodeDisplayID, displayID
<1>2. CASE ns # Default
  BY <1>2 DEF decodeDisplayID, displayID
<1> QED
  BY <1>1, <1>2

\* Two containers are never shown the same.
LEMMA ShownOnce ==
    ASSUME NEW i \in IDs, NEW j \in IDs, Shown(i) = Shown(j)
    PROVE  i = j
<1>1. CASE client = "containerd"
  <2>1. [ns |-> SpaceOf[i], id |-> RawOf[i]] = [ns |-> SpaceOf[j], id |-> RawOf[j]]
    BY <1>1, DisplayIDDecoded DEF Shown
  <2>2. SpaceOf[i] = SpaceOf[j] /\ RawOf[i] = RawOf[j]
    BY <2>1
  <2> QED
    BY <2>2, SpacesAssumption
<1>2. CASE client # "containerd"
  BY <1>2 DEF Shown
<1> QED
  BY <1>1, <1>2
-----------------------------------------------------------------------------
(***************************************************************************)
(* What the engine says.                                                   *)
(***************************************************************************)
LEMMA DescribedType ==
    ASSUME Engine, NEW id \in IDs, NEW proj \in Projects \union {NoProject}
    PROVE  Described(engine, id, proj) \in Descriptions
BY DEF Engine, States, Described, Descriptions, NoPID

\* What it says of a container with a process has been seen.
LEMMA DescribedSeen ==
    ASSUME Witnessed, NEW id \in IDs, engine[id].alive
    PROVE  Described(engine, id, engine[id].proj) \in seen
BY DEF Witnessed, Snapshots

\* The labels are those of the containers there are: within a namespace an ID stands
\* for one container.
LEMMA LabelsNow ==
    ASSUME Engine, NEW ns \in Spaces, labels' = Labels(ns), UNCHANGED engineVars
    PROVE  LabelsOf(ns)' /\ \A id \in InSpace(ns) :
                              engine[id].exists => RawOf[id] \in DOMAIN labels'
<1>1. ASSUME NEW id \in IDs PROVE Named(SpaceOf[id], RawOf[id]) = {id}
  BY SpacesAssumption DEF Named
<1>2. ASSUME NEW id \in InSpace(ns), engine[id].exists
      PROVE  RawOf[id] \in DOMAIN labels' /\ labels'[RawOf[id]] = engine[id].proj
  <2>1. id \in IDs /\ SpaceOf[id] = ns
    BY DEF InSpace
  <2>2. (CHOOSE i \in Named(ns, RawOf[id]) : TRUE) = id
    BY <1>1, <2>1
  <2> QED
    BY <1>2, <2>2 DEF Labels
<1>3. DOMAIN labels' = {RawOf[i] : i \in {i \in InSpace(ns) : engine[i].exists}}
  BY DEF Labels
<1>4. ASSUME NEW raw \in DOMAIN labels' PROVE labels'[raw] \in Projects \union {NoProject}
  <2>1. PICK id \in InSpace(ns) : raw = RawOf[id] /\ engine[id].exists
    BY <1>3, <1>4
  <2>2. labels'[raw] = engine[id].proj /\ id \in IDs
    BY <1>2, <2>1 DEF InSpace
  <2> QED
    BY <2>2 DEF Engine, States, ProjectsNow
<1> QED
  BY <1>2, <1>3, <1>4 DEF LabelsOf, engineVars, InSpace
-----------------------------------------------------------------------------
(***************************************************************************)
(* The invariant holds in the beginning, and whatever the engine does.     *)
(***************************************************************************)
LEMMA InvInit == Init => Inv
<1> SUFFICES ASSUME Init PROVE Inv
  OBVIOUS
<1>1. Engine
  BY DEF Init, Engine, States
<1>2. Witnessed
  BY DEF Init, Witnessed
<1>3. Snapshots(engine) \subseteq Descriptions
  <2>1. ASSUME NEW id \in IDs PROVE engine[id].proj \in Projects \union {NoProject}
    BY <1>1 DEF Engine, States, ProjectsNow
  <2> QED
    BY <1>1, <2>1, DescribedType DEF Snapshots
<1>4. TypeOK
  BY <1>1, <1>3, ProjectsAssumption
     DEF Init, TypeOK, Engine, States, ProjectsNow, PCs, AliveIDs
<1>5. Phases /\ AtHand /\ LabelsKnown
  BY ClientsAssumption DEF Init, Phases, AtHand, LabelsKnown
<1>6. CompleteSoFar /\ DistinctSoFar /\ TruthfulSoFar
  BY DEF Init, CompleteSoFar, DistinctSoFar, TruthfulSoFar, ToCome, Covered
<1> QED
  BY <1>1, <1>2, <1>4, <1>5, <1>6 DEF Inv

\* A container keeps its project until it is deleted and created again.
LEMMA ChangeStep ==
    ASSUME Inv, NEW id \in IDs, NEW state \in States, Change(id, state),
           state.exists = engine[id].exists => state.proj = engine[id].proj
    PROVE  Inv'
<1>1. /\ UNCHANGED <<client, query, asked, pc, todo, hand, labels, answer, excused>>
      /\ engine' = [engine EXCEPT ![id] = state] /\ ops < MaxOps /\ ops' = ops + 1
      /\ seen' = seen \union Snapshots(engine') /\ Sound(engine')
      /\ throughout' = throughout \intersect {i \in IDs : engine'[i].alive}
      /\ recreated' = IF state.exists # engine[id].exists
                      THEN recreated \union {id} ELSE recreated
  BY DEF Change
<1>2. Engine'
  <2>1. engine' \in [IDs -> States]
    BY <1>1 DEF Inv, Engine
  <2> QED
    BY <1>1, <2>1 DEF Engine, States, ProjectsNow, Sound
<1>3. \A i \in IDs : Shown(i)' = Shown(i)
  BY <1>1 DEF Shown
<1>4. Snapshots(engine)' = Snapshots(engine')
  BY <1>1, <1>3 DEF Snapshots, Described
<1>5. Witnessed'
  BY <1>1, <1>4 DEF Witnessed, AliveIDs
<1>6. TypeOK'
  <2>1. Snapshots(engine)' \subseteq Descriptions'
    <3>1. ASSUME NEW i \in IDs PROVE engine'[i].proj \in Projects \union {NoProject}
      BY <1>2 DEF Engine, States, ProjectsNow
    <3>2. ASSUME NEW i \in IDs
          PROVE  Described(engine, i, engine[i].proj)' \in Descriptions'
      BY <1>2, <3>1 DEF Engine, States, Described, Descriptions, NoPID
    <3> QED
      BY <3>2 DEF Snapshots
  <2>2. Descriptions' = Descriptions
    BY <1>3 DEF Descriptions
  <2>3. ops' \in 0..MaxOps
    BY <1>1, ProjectsAssumption DEF Inv, TypeOK
  <2>4. engine' \in [IDs -> [exists : BOOLEAN, alive : BOOLEAN, paused : BOOLEAN,
                            pid : Nat, proj : Projects \union {NoProject}]]
    BY <1>2 DEF Engine, States, ProjectsNow
  <2>5. seen' \subseteq Descriptions' /\ throughout' \subseteq IDs /\ recreated' \subseteq IDs
    BY <1>1, <1>4, <2>1, <2>2 DEF Inv, TypeOK
  <2> QED
    BY <1>1, <2>2, <2>3, <2>4, <2>5 DEF Inv, TypeOK, InSpace
<1>7. Phases' /\ AtHand'
  BY <1>1 DEF Inv, Phases, AtHand
<1>8. /\ recreated \subseteq recreated'
      /\ \A i \in IDs \ recreated' : /\ engine'[i].exists = engine[i].exists
                                     /\ engine'[i].proj = engine[i].proj
  BY <1>1 DEF Inv, Engine
<1>9. LabelsKnown'
  <2>1. ASSUME NEW ns, LabelsOf(ns) PROVE LabelsOf(ns)'
    BY <1>1, <1>8, <2>1 DEF LabelsOf, InSpace
  <2> QED
    BY <1>1, <2>1 DEF Inv, LabelsKnown
<1>10. \A i \in IDs : (ToCome(i)' <=> ToCome(i)) /\ (Covered(i)' <=> Covered(i))
  BY <1>1, <1>3 DEF ToCome, Covered
<1>11. CompleteSoFar'
  BY <1>1, <1>10 DEF Inv, CompleteSoFar, TypeOK
<1>12. DistinctSoFar'
  BY <1>1, <1>3, <1>10 DEF Inv, DistinctSoFar, TypeOK
<1>13. TruthfulSoFar'
  <2> SUFFICES ASSUME NEW c \in answer
               PROVE  c \in seen' \/ OtherProject(c)' \/ JustDied(c)'
    BY <1>1 DEF TruthfulSoFar
  <2>1. c \in seen \/ OtherProject(c) \/ JustDied(c)
    BY DEF Inv, TruthfulSoFar
  <2>2. OtherProject(c) => OtherProject(c)'
    BY <1>1, <1>3, <1>8 DEF OtherProject, Inv, TypeOK
  <2>3. JustDied(c) => JustDied(c)'
    BY <1>1, <1>3 DEF JustDied
  <2> QED
    BY <1>1, <2>1, <2>2, <2>3
<1> QED
  BY <1>2, <1>5, <1>6, <1>7, <1>9, <1>11, <1>12, <1>13 DEF Inv

LEMMA EngineStepInv == ASSUME Inv, EngineStep PROVE Inv'
<1>1. PICK id \in IDs : \/ EngineCreate(id) \/ EngineDelete(id)
                        \/ EngineStart(id) \/ EngineDie(id) \/ EnginePause(id)
  BY DEF EngineStep
<1>2. engine[id] \in States
  BY DEF Inv, Engine
<1>3. CASE EngineCreate(id)
  <2>1. PICK proj \in ProjectsNow :
          Change(id, [engine[id] EXCEPT !.exists = TRUE, !.proj = proj])
    BY <1>3 DEF EngineCreate
  <2>2. ~engine[id].exists
    BY <1>3 DEF EngineCreate
  <2> DEFINE s == [engine[id] EXCEPT !.exists = TRUE, !.proj = proj]
  <2>3. s \in States /\ s.exists # engine[id].exists
    BY <1>2, <2>2 DEF States
  <2> QED
    BY <2>1, <2>3, ChangeStep
<1>4. CASE EngineDelete(id)
  <2> DEFINE s == [engine[id] EXCEPT !.exists = FALSE]
  <2>1. s \in States /\ s.proj = engine[id].proj
    BY <1>2 DEF States
  <2> QED
    BY <1>4, <2>1, ChangeStep DEF EngineDelete
<1>5. CASE EngineStart(id)
  <2> DEFINE s == [engine[id] EXCEPT !.alive = TRUE, !.pid = @ + 1]
  <2>1. s \in States /\ s.proj = engine[id].proj
    <3>1. engine[id].pid + 1 \in Nat
      BY <1>2 DEF States
    <3> QED
      BY <1>2, <3>1 DEF States
  <2> QED
    BY <1>5, <2>1, ChangeStep DEF EngineStart
<1>6. CASE EngineDie(id)
  <2> DEFINE s == [engine[id] EXCEPT !.alive = FALSE, !.paused = FALSE]
  <2>1. s \in States /\ s.proj = engine[id].proj
    BY <1>2 DEF States
  <2> QED
    BY <1>6, <2>1, ChangeStep DEF EngineDie
<1>7. CASE EnginePause(id)
  <2> DEFINE s == [engine[id] EXCEPT !.paused = ~@]
  <2>1. s \in States /\ s.proj = engine[id].proj
    BY <1>2 DEF States
  <2> QED
    BY <1>7, <2>1, ChangeStep DEF EnginePause
<1> QED
  BY <1>1, <1>3, <1>4, <1>5, <1>6, <1>7
-----------------------------------------------------------------------------
(***************************************************************************)
(* The queries.                                                            *)
(***************************************************************************)

\* A step of a query looks at some containers for good: D are those it finds, each in
\* the project that p tells; the others are dead or excused.
LEMMA Answered ==
    ASSUME Inv, UNCHANGED engineVars, pc # "failed", excused \subseteq excused',
           NEW D \in SUBSET asked, NEW p,
           answer' = answer \union {Described(engine, i, p[i]) : i \in D},
           \A i \in D : ToCome(i) /\ ~ToCome(i)',
           \A i \in IDs : ToCome(i)' => ToCome(i),
           \A i \in (asked \intersect throughout) \ excused' :
             ToCome(i) => i \in D \/ ToCome(i)',
           \A i \in D : LET c == Described(engine, i, p[i])
                       IN  c \in seen \/ OtherProject(c) \/ JustDied(c)
    PROVE  CompleteSoFar' /\ DistinctSoFar' /\ TruthfulSoFar'
<1>1. /\ UNCHANGED <<client, asked, seen, throughout, recreated>>
      /\ \A i : Shown(i)' = Shown(i)
      /\ asked \subseteq IDs
  BY DEF engineVars, Shown, Inv, TypeOK
<1>2. /\ \A c \in answer' : c \in answer \/ \E i \in D : c = Described(engine, i, p[i])
      /\ \A i \in D : Described(engine, i, p[i]) \in answer'
      /\ answer \subseteq answer'
  OBVIOUS
<1>3. \A i : Described(engine, i, p[i]).id = Shown(i)
  BY DEF Described
<1>4. \A i \in IDs : Covered(i)' <=> Covered(i) \/ i \in D
  <2>1. ASSUME NEW i \in IDs, Covered(i)' PROVE Covered(i) \/ i \in D
    <3>1. PICK c \in answer' : c.id = Shown(i)
      BY <1>1, <2>1 DEF Covered
    <3>2. ASSUME NEW j \in D, c = Described(engine, j, p[j]) PROVE i = j
      BY <1>1, <1>3, <3>1, <3>2, ShownOnce
    <3> QED
      BY <1>2, <3>1, <3>2 DEF Covered
  <2>2. ASSUME NEW i \in IDs, Covered(i) \/ i \in D PROVE Covered(i)'
    BY <1>1, <1>2, <1>3, <2>2 DEF Covered
  <2> QED
    BY <2>1, <2>2
<1>5. CompleteSoFar'
  <2> SUFFICES ASSUME NEW i \in (asked \intersect throughout) \ excused'
               PROVE  ToCome(i)' \/ Covered(i)'
    BY <1>1 DEF CompleteSoFar
  <2>1. i \in IDs /\ i \notin excused
    BY <1>1
  <2>2. ToCome(i) \/ Covered(i)
    BY <2>1 DEF Inv, CompleteSoFar
  <2> QED
    BY <1>4, <2>1, <2>2
<1>6. DistinctSoFar'
  <2>1. ASSUME NEW i \in IDs, ToCome(i)' PROVE ~Covered(i)'
    <3>1. ToCome(i) /\ i \notin D
      BY <2>1
    <3>2. ~Covered(i)
      BY <3>1 DEF Inv, DistinctSoFar
    <3> QED
      BY <1>4, <3>1, <3>2
  <2>2. \A i \in D : ~Covered(i)
    BY <1>1 DEF Inv, DistinctSoFar
  <2>3. ASSUME NEW c \in answer', NEW d \in answer', c.id = d.id PROVE c = d
    <3>1. CASE c \in answer /\ d \in answer
      BY <2>3, <3>1 DEF Inv, DistinctSoFar
    <3>2. ASSUME NEW i \in D, c = Described(engine, i, p[i]) PROVE c = d
      <4>1. d.id = Shown(i)
        BY <1>3, <2>3, <3>2
      <4>2. d \notin answer
        BY <2>2, <4>1 DEF Covered
      <4>3. PICK j \in D : d = Described(engine, j, p[j])
        BY <1>2, <4>2
      <4>4. i = j
        BY <1>1, <1>3, <4>1, <4>3, ShownOnce
      <4> QED
        BY <3>2, <4>3, <4>4
    <3>3. ASSUME NEW i \in D, d = Described(engine, i, p[i]) PROVE c = d
      <4>1. c.id = Shown(i)
        BY <1>3, <2>3, <3>3
      <4>2. c \notin answer
        BY <2>2, <4>1 DEF Covered
      <4> QED
        BY <1>2, <3>2, <4>2
    <3> QED
      BY <1>2, <3>1, <3>2, <3>3
  <2>4. \A c \in answer' : \E i \in asked : c.id = Shown(i)
    BY <1>2, <1>3 DEF Inv, DistinctSoFar
  <2> QED
    BY <1>1, <2>1, <2>3, <2>4 DEF DistinctSoFar
<1>7. TruthfulSoFar'
  <2> SUFFICES ASSUME NEW c \in answer'
               PROVE  c \in seen \/ OtherProject(c)' \/ JustDied(c)'
    BY <1>1 DEF TruthfulSoFar
  <2>1. c \in seen \/ OtherProject(c) \/ JustDied(c)
    BY <1>2 DEF Inv, TruthfulSoFar
  <2>2. (OtherProject(c) => OtherProject(c)') /\ (JustDied(c) => JustDied(c)')
    BY <1>1 DEF OtherProject, JustDied
  <2> QED
    BY <2>1, <2>2
<1> QED
  BY <1>5, <1>6, <1>7

\* A step may also find nothing.
LEMMA NothingAnswered ==
    ASSUME Inv, UNCHANGED <<engineVars, answer>>, pc # "failed",
           excused \subseteq excused',
           \A i \in IDs : ToCome(i)' => ToCome(i),
           \A i \in (asked \intersect throughout) \ excused' :
             ToCome(i) => ToCome(i)'
    PROVE  CompleteSoFar' /\ DistinctSoFar' /\ TruthfulSoFar'
<1> DEFINE D == {}
           p == [i \in IDs |-> NoProject]
<1>1. answer' = answer \union {Described(engine, i, p[i]) : i \in D}
  OBVIOUS
<1>2. D \in SUBSET asked /\ \A i : i \notin D
  OBVIOUS
<1> HIDE DEF D, p
<1> QED
  BY <1>1, <1>2, Answered

\* What a step of a query has to keep up besides.
QueryOK ==
    /\ pc \in PCs /\ excused \subseteq IDs /\ answer \subseteq Descriptions
    /\ todo \subseteq IF pc \in {"labels", "tasks"} THEN Spaces ELSE IDs
    /\ hand \subseteq IF pc = "tasks" THEN Spaces ELSE IDs \union Spaces
    /\ Phases /\ AtHand /\ LabelsKnown

LEMMA QueryStep ==
    ASSUME Inv, UNCHANGED engineVars, QueryOK',
           CompleteSoFar' /\ DistinctSoFar' /\ TruthfulSoFar'
    PROVE  Inv'
<1>1. UNCHANGED <<client, engine, ops, query, asked, seen, throughout, recreated>>
  BY DEF engineVars
<1>2. \A i : Shown(i)' = Shown(i)
  BY <1>1 DEF Shown
<1>3. Engine'
  BY <1>1 DEF Inv, Engine, States, ProjectsNow, Sound
<1>4. Witnessed'
  BY <1>1, <1>2 DEF Inv, Witnessed, Snapshots, Described, AliveIDs
<1>5. Descriptions' = Descriptions
  BY <1>2 DEF Descriptions
<1>6. (pc = "tasks" => \E ns \in hand : DOMAIN labels \subseteq {RawOf[i] : i \in InSpace(ns)})'
  BY DEF QueryOK, AtHand, LabelsKnown, LabelsOf, InSpace
<1>7. (pc = "labels" => labels = <<>>)'
  BY DEF QueryOK, LabelsKnown
<1>8. TypeOK'
  BY <1>1, <1>5, <1>6, <1>7 DEF Inv, TypeOK, QueryOK
<1> QED
  BY <1>3, <1>4, <1>8 DEF Inv, QueryOK

\* A query that fails has no answer; only containerd's goes on instead.
LEMMA FailStep ==
    ASSUME Inv, UNCHANGED engineVars, Fail, pc \notin {"labels", "tasks"}
    PROVE  Inv'
<1>1. /\ UNCHANGED <<client, query, asked, seen, throughout, recreated>>
      /\ UNCHANGED <<todo, hand, labels, answer, excused>> /\ pc' = "failed"
  BY DEF engineVars, Fail
<1>2. \A i : Shown(i)' = Shown(i)
  BY <1>1 DEF Shown
<1>3. QueryOK'
  <2>1. Descriptions' = Descriptions
    BY <1>2 DEF Descriptions
  <2> QED
    BY <1>1, <2>1 DEF Inv, TypeOK, QueryOK, PCs, Phases, AtHand, LabelsKnown
<1>4. CompleteSoFar'
  BY <1>1 DEF CompleteSoFar
<1>5. DistinctSoFar'
  BY <1>1, <1>2 DEF Inv, DistinctSoFar, ToCome
<1>6. TruthfulSoFar'
  BY <1>1, <1>2 DEF Inv, TruthfulSoFar, OtherProject, JustDied
<1> QED
  BY <1>3, <1>4, <1>5, <1>6, QueryStep

\* A query about one container ends with it.
LEMMA AnswerStep ==
    ASSUME Inv, UNCHANGED engineVars, pc \in {"inspect", "task"}, query = "inspect",
           NEW id \in asked, NEW proj \in Projects \union {NoProject},
           Answer(Found(id, proj)),
           LET c == Described(engine, id, proj) IN c \in seen \/ OtherProject(c)
    PROVE  Inv'
<1>1. /\ UNCHANGED <<client, query, asked>> /\ pc' = "done"
      /\ UNCHANGED <<todo, hand, labels, excused>>
      /\ answer' = {Described(engine, id, proj)}
  BY DEF engineVars, Answer, Found
<1>2. asked = {id} /\ id \in IDs
  BY DEF Inv, Phases
<1>3. answer = {}
  BY DEF Inv, DistinctSoFar, ToCome, Covered, TypeOK
<1>4. QueryOK'
  <2>1. Descriptions' = Descriptions
    BY <1>1 DEF Descriptions, Shown
  <2>2. answer' \subseteq Descriptions
    BY <1>1, <1>2, DescribedType DEF Inv
  <2>3. /\ pc' \in PCs /\ hand \subseteq IDs \union Spaces /\ todo \subseteq IDs
        /\ excused \subseteq IDs
    BY <1>1 DEF Inv, TypeOK, PCs
  <2>4. Phases' /\ AtHand' /\ LabelsKnown'
    BY <1>1 DEF Inv, Phases, AtHand, LabelsKnown
  <2> QED
    BY <1>1, <2>1, <2>2, <2>3, <2>4 DEF QueryOK
<1> DEFINE D == {id}
           p == [i \in IDs |-> proj]
<1>5. /\ D \in SUBSET asked /\ \A i : i \in D <=> i = id
      /\ \A i \in D : Described(engine, i, p[i]) = Described(engine, id, proj)
      /\ answer' = answer \union {Described(engine, i, p[i]) : i \in D}
  BY <1>1, <1>2, <1>3
<1>6. \A i \in IDs : /\ ToCome(i) <=> i = id
                     /\ ~ToCome(i)'
  BY <1>1, <1>2 DEF ToCome
<1> HIDE DEF D, p
<1>7. CompleteSoFar' /\ DistinctSoFar' /\ TruthfulSoFar'
  BY <1>1, <1>2, <1>5, <1>6, Answered
<1> QED
  BY <1>4, <1>7, QueryStep

\* One container of those that are still to be looked at is, by its last call.
Looks(id) == /\ pc \in {"each", "status", "sandbox"} /\ id \in todo
             /\ pc' = IF pc = "status" THEN "container" ELSE pc
             /\ todo' = todo \ {id}

LEMMA LookedAt ==
    ASSUME Inv, NEW id, UNCHANGED engineVars, Looks(id)
    PROVE  /\ id \in IDs /\ id \in asked /\ ToCome(id) /\ ~ToCome(id)'
           /\ \A i \in IDs : /\ ToCome(i)' => ToCome(i)
                             /\ ToCome(i) /\ i # id => ToCome(i)'
<1>1. id \in asked /\ id \in IDs /\ UNCHANGED query
  BY DEF Looks, Inv, AtHand, TypeOK, engineVars
<1>2. pc = "status" => id \notin Sandboxes
  BY DEF Looks, Inv, AtHand
<1> QED
  BY <1>1, <1>2 DEF Looks, ToCome

LEMMA KeepStep ==
    ASSUME Inv, NEW id, UNCHANGED engineVars, Looks(id),
           NEW proj \in Projects \union {NoProject}, Keep(id, Found(id, proj)),
           LET c == Described(engine, id, proj) IN c \in seen \/ JustDied(c),
           UNCHANGED <<labels, excused>>, hand' \subseteq IDs \union Spaces
    PROVE  Inv'
<1>1. /\ id \in IDs /\ id \in asked /\ ToCome(id) /\ ~ToCome(id)'
      /\ \A i \in IDs : (ToCome(i)' => ToCome(i)) /\ (ToCome(i) /\ i # id => ToCome(i)')
  BY LookedAt
<1>2. /\ answer' = answer \union {Described(engine, id, proj)}
      /\ UNCHANGED <<client, query, asked>>
  BY DEF Keep, Found, engineVars
<1>3. QueryOK'
  <2>1. Descriptions' = Descriptions
    BY <1>2 DEF Descriptions, Shown
  <2>2. answer' \subseteq Descriptions
    BY <1>1, <1>2, DescribedType DEF Inv, TypeOK
  <2>3. /\ pc' \in PCs /\ pc' \in {"each", "container", "sandbox"}
        /\ excused' \subseteq IDs /\ todo' \subseteq todo /\ todo \subseteq IDs
    BY DEF Inv, TypeOK, PCs, Looks
  <2>4. Phases'
    BY <1>2 DEF Inv, Phases, Looks
  <2>5. AtHand' /\ LabelsKnown'
    BY <1>2, <2>3 DEF Inv, AtHand, LabelsKnown, Looks
  <2> QED
    BY <2>1, <2>2, <2>3, <2>4, <2>5 DEF QueryOK
<1> DEFINE D == {id}
           p == [i \in IDs |-> proj]
<1>4. /\ D \in SUBSET asked /\ \A i : i \in D <=> i = id
      /\ \A i \in D : Described(engine, i, p[i]) = Described(engine, id, proj)
      /\ answer' = answer \union {Described(engine, i, p[i]) : i \in D}
  BY <1>1, <1>2
<1>5. pc # "failed" /\ asked \subseteq IDs
  BY DEF Looks, Inv, TypeOK
<1> HIDE DEF D, p
<1>6. CompleteSoFar' /\ DistinctSoFar' /\ TruthfulSoFar'
  BY <1>1, <1>4, <1>5, Answered
<1> QED
  BY <1>3, <1>6, QueryStep

\* A container that is gone is left out, by its last call or already by the one about
\* its pod.
LEMMA SkipStep ==
    ASSUME Inv, NEW id, UNCHANGED engineVars,
           Looks(id) \/ (pc = "container" /\ id \in todo /\ UNCHANGED pc),
           Skip(id), id \in excused' \/ id \notin throughout,
           excused \subseteq excused', excused' \subseteq excused \union {id},
           UNCHANGED labels, hand' \subseteq IDs \union Spaces
    PROVE  Inv'
<1>1. UNCHANGED <<client, query, asked, throughout, answer>> /\ todo' = todo \ {id}
  BY DEF engineVars, Skip
<1>2. id \in IDs /\ pc # "failed" /\ asked \subseteq IDs
  BY DEF Looks, Inv, TypeOK
<1>3. \A i \in IDs : (ToCome(i)' => ToCome(i)) /\ (ToCome(i) /\ i # id => ToCome(i)')
  <2>1. CASE Looks(id)
    BY <2>1, LookedAt
  <2>2. CASE pc = "container" /\ UNCHANGED pc
    BY <1>1, <2>2 DEF ToCome
  <2> QED
    BY <2>1, <2>2
<1>4. QueryOK'
  <2>1. Descriptions' = Descriptions
    BY <1>1 DEF Descriptions, Shown
  <2>2. /\ pc' \in PCs /\ pc' \in {"each", "container", "sandbox"}
        /\ excused' \subseteq IDs /\ todo' \subseteq todo /\ todo \subseteq IDs
    BY <1>1, <1>2 DEF Inv, TypeOK, PCs, Looks
  <2>3. Phases'
    BY <1>1 DEF Inv, Phases, Looks
  <2>4. AtHand' /\ LabelsKnown'
    BY <1>1, <2>2 DEF Inv, AtHand, LabelsKnown, Looks
  <2> QED
    BY <1>1, <2>1, <2>2, <2>3, <2>4 DEF QueryOK, Inv, TypeOK
<1>5. CompleteSoFar' /\ DistinctSoFar' /\ TruthfulSoFar'
  BY <1>1, <1>2, <1>3, <1>4, NothingAnswered
<1> QED
  BY <1>4, <1>5, QueryStep

\* A step that only gets on to a new phase: nobody is forgotten that was alive.
LEMMA PhaseStep ==
    ASSUME Inv, UNCHANGED <<engineVars, answer, excused>>, QueryOK', pc # "failed",
           \A i \in asked : ToCome(i)' => ToCome(i),
           \A i \in asked \intersect throughout : ToCome(i) => ToCome(i)',
           \A i \in IDs \ asked : ~ToCome(i)'
    PROVE  Inv'
<1>1. CompleteSoFar' /\ DistinctSoFar' /\ TruthfulSoFar'
  BY NothingAnswered
<1> QED
  BY <1>1, QueryStep

\* What QueryOK needs of a step without an answer.
LEMMA SameDescriptions ==
    ASSUME Inv, UNCHANGED <<engineVars, answer, excused>>
    PROVE  /\ answer' \subseteq Descriptions' /\ excused' \subseteq IDs
           /\ UNCHANGED <<client, query, asked>>
<1>1. UNCHANGED <<client, query, asked>>
  BY DEF engineVars
<1>2. Descriptions' = Descriptions
  BY <1>1 DEF Descriptions, Shown
<1> QED
  BY <1>1, <1>2 DEF Inv, TypeOK

LEMMA MobyInv == ASSUME Inv, Moby PROVE Inv'
<1>1. /\ client = "moby" /\ UNCHANGED engineVars /\ query \in {"list", "inspect"}
      /\ UNCHANGED <<client, engine, query, asked, throughout>>
  BY DEF Moby, Continue, engineVars, Inv, TypeOK
<1>2. CASE MobyList
  <2>1. CASE todo' = AliveIDs /\ pc' = "each" /\ UNCHANGED <<hand, labels, answer, excused>>
    <3>1. pc = "list" /\ query = "list" /\ asked = IDs
      BY <1>1, <1>2 DEF MobyList, Inv, Phases
    <3>2. throughout \subseteq AliveIDs /\ AliveIDs \subseteq IDs
      BY DEF Inv, Witnessed, AliveIDs
    <3>3. QueryOK'
      BY <1>1, <2>1, <3>1, <3>2, SameDescriptions
         DEF QueryOK, Inv, TypeOK, PCs, Phases, AtHand, LabelsKnown
    <3> QED
      BY <1>1, <2>1, <3>1, <3>2, <3>3, PhaseStep DEF ToCome
  <2>2. CASE Fail
    BY <1>1, <1>2, <2>2, FailStep DEF MobyList
  <2> QED
    BY <1>2, <2>1, <2>2 DEF MobyList
<1>3. CASE MobyEach
  <2>1. ASSUME NEW id \in todo,
               IF engine[id].alive THEN Keep(id, Found(id, engine[id].proj)) ELSE Skip(id),
               UNCHANGED <<pc, hand, labels, excused>>
        PROVE  Inv'
    <3>1. Looks(id) /\ id \in IDs /\ hand' \subseteq IDs \union Spaces
      BY <1>3, <2>1 DEF Looks, MobyEach, Keep, Skip, Inv, TypeOK
    <3>2. CASE engine[id].alive
      <4>1. Described(engine, id, engine[id].proj) \in seen
        BY <3>1, <3>2, DescribedSeen DEF Inv
      <4>2. engine[id].proj \in Projects \union {NoProject}
        BY <3>1 DEF Inv, TypeOK
      <4> QED
        BY <1>1, <2>1, <3>1, <3>2, <4>1, <4>2, KeepStep
    <3>3. CASE ~engine[id].alive
      <4>1. id \notin throughout
        BY <3>3 DEF Inv, Witnessed, AliveIDs
      <4> QED
        BY <1>1, <2>1, <3>1, <3>3, <4>1, SkipStep
    <3> QED
      BY <3>2, <3>3
  <2>2. CASE Fail
    BY <1>1, <1>3, <2>2, FailStep DEF MobyEach
  <2>3. CASE AllDone("done")
    <3>1. /\ pc = "each" /\ pc' = "done" /\ todo = {} /\ query = "list" /\ asked = IDs
          /\ UNCHANGED <<todo, hand, labels, answer, excused>>
      BY <1>1, <1>3, <2>3 DEF MobyEach, AllDone, Inv, Phases
    <3>2. QueryOK'
      BY <1>1, <3>1, SameDescriptions
         DEF QueryOK, Inv, TypeOK, PCs, Phases, AtHand, LabelsKnown
    <3> QED
      BY <1>1, <3>1, <3>2, PhaseStep DEF ToCome
  <2> QED
    BY <1>3, <2>1, <2>2, <2>3 DEF MobyEach
<1>4. CASE MobyInspect
  <2>1. pc = "inspect" /\ query = "inspect"
    BY <1>1, <1>4 DEF MobyInspect, Inv, Phases
  <2>2. ASSUME NEW id \in asked, engine[id].alive, Answer(Found(id, engine[id].proj))
        PROVE  Inv'
    <3>1. id \in IDs /\ engine[id].proj \in Projects \union {NoProject}
      BY DEF Inv, TypeOK
    <3>2. Described(engine, id, engine[id].proj) \in seen
      BY <2>2, <3>1, DescribedSeen DEF Inv
    <3> QED
      BY <1>1, <2>1, <2>2, <3>1, <3>2, AnswerStep
  <2>3. CASE Fail
    BY <1>1, <2>1, <2>3, FailStep
  <2> QED
    BY <1>4, <2>2, <2>3 DEF MobyInspect
<1> QED
  BY <1>2, <1>3, <1>4 DEF Moby

\* A container found with the labels at hand was seen with its own project, or else
\* it has been recreated since.
LEMMA LabelledTruthfully ==
    ASSUME Inv, client = "containerd", NEW id \in IDs, engine[id].alive,
           LabelsOf(SpaceOf[id]), NEW proj,
           RawOf[id] \in DOMAIN labels => proj = labels[RawOf[id]]
    PROVE  LET c == Described(engine, id, proj) IN c \in seen \/ OtherProject(c)
<1> DEFINE c == Described(engine, id, proj)
           s == Described(engine, id, engine[id].proj)
<1>1. s \in seen
  BY DescribedSeen DEF Inv
<1>2. CASE proj = engine[id].proj
  BY <1>1, <1>2
<1>3. CASE proj # engine[id].proj
  <2>1. engine[id].exists
    BY DEF Inv, Engine, Sound
  <2>2. id \in recreated
    BY <1>3, <2>1 DEF LabelsOf, InSpace
  <2>3. c.id = Shown(id) /\ s.proj = engine[id].proj
    BY DEF Described
  <2>4. s = [c EXCEPT !.proj = s.proj]
    BY <2>3 DEF Described
  <2> HIDE DEF c, s
  <2>5. OtherProject(c)
    BY <1>1, <2>2, <2>3, <2>4 DEF OtherProject
  <2> QED
    BY <2>5 DEF c
<1> QED
  BY <1>2, <1>3

\* A namespace is left out.
LEMMA SkipSpaceStep ==
    ASSUME Inv, UNCHANGED <<engineVars, answer>>, client = "containerd",
           pc \in {"labels", "tasks"}, NEW ns \in todo, SkipSpace(ns),
           hand' \subseteq Spaces
    PROVE  Inv'
<1>1. UNCHANGED <<client, query, asked, throughout>>
  BY DEF engineVars
<1>2. /\ pc' = "labels" /\ labels' = <<>> /\ todo' = todo \ {ns}
      /\ excused' = excused \union InSpace(ns)
  BY DEF SkipSpace
<1>3. QueryOK'
  <2>1. Descriptions' = Descriptions
    BY <1>1 DEF Descriptions, Shown
  <2> QED
    BY <1>1, <1>2, <2>1
       DEF QueryOK, Inv, TypeOK, PCs, Phases, AtHand, LabelsKnown, InSpace
<1>4. \A i \in IDs : ToCome(i)' => ToCome(i)
  BY <1>2 DEF ToCome
<1>5. asked \subseteq IDs /\ excused \subseteq excused' /\ pc # "failed"
  BY <1>2 DEF Inv, TypeOK
<1>6. \A i \in (asked \intersect throughout) \ excused' : ToCome(i) => ToCome(i)'
  BY <1>2, <1>5 DEF ToCome, InSpace
<1>7. CompleteSoFar' /\ DistinctSoFar' /\ TruthfulSoFar'
  BY <1>4, <1>5, <1>6, NothingAnswered
<1> QED
  BY <1>3, <1>7, QueryStep

\* The tasks of a namespace are the containers in it that are alive.
LEMMA TasksStep ==
    ASSUME Inv, UNCHANGED engineVars, client = "containerd", TasksList,
           NEW ns, hand = {ns}, ns \in todo, ~(SkipSpace(ns) /\ UNCHANGED answer)
    PROVE  Inv'
<1> DEFINE D == InSpace(ns) \intersect AliveIDs
           p == [i \in IDs |-> IF RawOf[i] \in DOMAIN labels THEN labels[RawOf[i]]
                                                             ELSE NoProject]
<1>0. /\ pc = "tasks" /\ todo' = todo \ {ns} /\ pc' = "labels" /\ labels' = <<>>
      /\ UNCHANGED <<excused, hand>>
  BY DEF TasksList
<1>1. /\ UNCHANGED <<client, query, asked, throughout>>
      /\ query = "list" /\ asked = IDs /\ LabelsOf(ns) /\ todo \subseteq Spaces
  BY <1>0 DEF engineVars, Inv, Phases, TypeOK, LabelsKnown
<1>d. D \in SUBSET IDs
  BY DEF InSpace
<1>2. \A i \in IDs : i \in D <=> SpaceOf[i] = ns /\ engine[i].alive
  BY DEF InSpace, AliveIDs
<1>3. answer' = answer \union {Described(engine, i, p[i]) : i \in D}
  <2>1. answer' = answer \union UNION
           {Found(id, IF RawOf[id] \in DOMAIN labels THEN labels[RawOf[id]]
                                                     ELSE NoProject) : id \in D}
    BY DEF TasksList
  <2>2. \A i \in D : Found(i, IF RawOf[i] \in DOMAIN labels THEN labels[RawOf[i]]
                                                           ELSE NoProject)
                     = {Described(engine, i, p[i])}
    BY <1>d DEF Found
  <2>3. \A i \in D : p[i] = IF RawOf[i] \in DOMAIN labels THEN labels[RawOf[i]]
                                                        ELSE NoProject
    BY <1>d
  <2> HIDE DEF D, p
  <2>4. \A c : c \in answer' <=> c \in answer \/ \E i \in D : c = Described(engine, i, p[i])
    BY <2>1, <2>2, <2>3
  <2> QED
    BY <2>4
<1>4. \A i \in IDs : p[i] \in Projects \union {NoProject}
  BY <1>1 DEF LabelsOf
<1>l. \A i \in IDs : RawOf[i] \in DOMAIN labels => p[i] = labels[RawOf[i]]
  OBVIOUS
<1> HIDE DEF D, p
<1>5. QueryOK'
  <2>1. Descriptions' = Descriptions
    BY <1>1 DEF Descriptions, Shown
  <2>2. answer' \subseteq Descriptions
    <3>1. Engine /\ answer \subseteq Descriptions
      BY DEF Inv, TypeOK
    <3>2. ASSUME NEW i \in D PROVE Described(engine, i, p[i]) \in Descriptions
      <4>1. i \in IDs
        BY <1>d
      <4>2. p[i] \in Projects \union {NoProject}
        BY <1>4, <4>1
      <4> QED
        BY <3>1, <4>1, <4>2, DescribedType
    <3> QED
      BY <1>3, <3>1, <3>2
  <2>3. /\ todo' \subseteq Spaces /\ hand' \subseteq IDs \union Spaces
        /\ excused' \subseteq IDs
    BY <1>0, <1>1 DEF Inv, TypeOK
  <2> QED
    BY <1>0, <1>1, <2>1, <2>2, <2>3 DEF QueryOK, PCs, Phases, AtHand, LabelsKnown
<1>6. \A i \in D : LET c == Described(engine, i, p[i])
                  IN  c \in seen \/ OtherProject(c) \/ JustDied(c)
  <2> SUFFICES ASSUME NEW i \in D
               PROVE  LET c == Described(engine, i, p[i])
                      IN  c \in seen \/ OtherProject(c)
    OBVIOUS
  <2>1. i \in IDs
    BY <1>d
  <2>2. SpaceOf[i] = ns /\ engine[i].alive
    BY <1>2, <2>1
  <2>3. RawOf[i] \in DOMAIN labels => p[i] = labels[RawOf[i]]
    BY <1>l, <2>1
  <2> QED
    BY <1>1, <2>1, <2>2, <2>3, LabelledTruthfully
<1>7. \A i \in IDs : /\ ToCome(i) <=> SpaceOf[i] \in todo
                     /\ ToCome(i)' <=> ToCome(i) /\ SpaceOf[i] # ns
  BY <1>0 DEF ToCome
<1>8. \A i \in throughout : i \in IDs /\ engine[i].alive
  BY DEF Inv, Witnessed, AliveIDs
<1>9. ASSUME NEW i \in asked \intersect throughout, ToCome(i)
      PROVE  i \in D \/ ToCome(i)'
  <2>1. i \in IDs /\ engine[i].alive
    BY <1>8
  <2> QED
    BY <1>2, <1>7, <1>9, <2>1
<1>10. CompleteSoFar' /\ DistinctSoFar' /\ TruthfulSoFar'
  <2>1. D \in SUBSET asked /\ pc # "failed" /\ excused \subseteq excused'
    BY <1>0, <1>1, <1>d
  <2>2. ASSUME NEW i \in D PROVE ToCome(i) /\ ~ToCome(i)'
    <3>1. i \in IDs
      BY <1>d
    <3>2. SpaceOf[i] = ns
      BY <1>2, <3>1
    <3> QED
      BY <1>7, <3>1, <3>2
  <2>3. \A i \in IDs : ToCome(i)' => ToCome(i)
    BY <1>7
  <2> QED
    BY <1>3, <1>6, <1>9, <2>1, <2>2, <2>3, Answered
<1> QED
  BY <1>5, <1>10, QueryStep

LEMMA ContainerdInv == ASSUME Inv, Containerd PROVE Inv'
<1>1. /\ client = "containerd" /\ UNCHANGED engineVars /\ query \in {"list", "inspect"}
      /\ UNCHANGED <<client, engine, query, asked, recreated>>
  BY DEF Containerd, Continue, engineVars, Inv, TypeOK
<1>2. CASE SpacesList
  <2>1. CASE todo' = Spaces /\ pc' = "labels" /\ UNCHANGED <<hand, labels, answer, excused>>
    <3>1. pc = "list" /\ query = "list" /\ asked = IDs
      BY <1>1, <1>2 DEF SpacesList, Inv, Phases
    <3>2. QueryOK'
      BY <1>1, <2>1, <3>1, SameDescriptions
         DEF QueryOK, Inv, TypeOK, PCs, Phases, AtHand, LabelsKnown
    <3>3. \A i \in IDs : ToCome(i) /\ ToCome(i)'
      BY <2>1, <3>1, SpacesAssumption DEF ToCome
    <3> QED
      BY <1>1, <2>1, <3>1, <3>2, <3>3, PhaseStep
  <2>2. CASE Fail
    BY <1>1, <1>2, <2>2, FailStep DEF SpacesList
  <2> QED
    BY <1>2, <2>1, <2>2 DEF SpacesList
<1>3. CASE LabelsList
  <2>0. pc = "labels" /\ query = "list" /\ asked = IDs /\ todo \subseteq Spaces
    BY <1>1, <1>3 DEF LabelsList, Inv, Phases, TypeOK
  <2>1. ASSUME NEW ns \in todo, hand' = {ns}, pc' = "tasks", labels' = Labels(ns),
               UNCHANGED <<todo, excused, answer>>
        PROVE  Inv'
    <3>1. LabelsOf(ns)'
      BY <1>1, <2>0, <2>1, LabelsNow DEF Inv
    <3>2. Phases' /\ AtHand' /\ LabelsKnown'
      BY <1>1, <2>0, <2>1, <3>1 DEF Phases, AtHand, LabelsKnown
    <3>3. QueryOK'
      BY <1>1, <2>0, <2>1, <3>2, SameDescriptions DEF QueryOK, PCs
    <3>4. \A i \in IDs : ToCome(i)' <=> ToCome(i)
      BY <2>0, <2>1 DEF ToCome
    <3> QED
      BY <1>1, <2>0, <2>1, <3>3, <3>4, PhaseStep
  <2>2. ASSUME NEW ns \in todo, hand' = {ns}, SkipSpace(ns), UNCHANGED answer
        PROVE  Inv'
    BY <1>1, <2>0, <2>2, SkipSpaceStep
  <2>3. CASE AllDone("done")
    <3>1. pc' = "done" /\ todo = {} /\ UNCHANGED <<todo, hand, labels, answer, excused>>
      BY <2>3 DEF AllDone
    <3>2. QueryOK'
      BY <1>1, <2>0, <3>1, SameDescriptions
         DEF QueryOK, Inv, TypeOK, PCs, Phases, AtHand, LabelsKnown
    <3> QED
      BY <1>1, <2>0, <3>1, <3>2, PhaseStep DEF ToCome
  <2> QED
    BY <1>3, <2>1, <2>2, <2>3 DEF LabelsList
<1>4. CASE TasksList
  <2>1. PICK ns \in todo : hand = {ns}
    BY <1>4 DEF TasksList, Inv, AtHand
  <2>2. CASE SkipSpace(ns) /\ UNCHANGED answer
    BY <1>1, <1>4, <2>1, <2>2, SkipSpaceStep DEF TasksList, Inv, TypeOK
  <2>3. CASE ~(SkipSpace(ns) /\ UNCHANGED answer)
    BY <1>1, <1>4, <2>1, <2>3, TasksStep DEF TasksList
  <2> QED
    BY <2>2, <2>3
<1>5. CASE ContainerGet
  <2>0. pc = "inspect" /\ query = "inspect"
    BY <1>1, <1>5 DEF ContainerGet, Inv, Phases
  <2>1. ASSUME NEW i \in asked, NEW parts, parts = decodeDisplayID(Shown(i)),
               NEW id \in Named(parts.ns, parts.id), engine[id].exists,
               hand' = {id}, labels' = Labels(parts.ns), pc' = "task",
               UNCHANGED <<todo, answer, excused>>
        PROVE  Inv'
    <3>1. asked = {i} /\ i \in IDs
      BY <2>0 DEF Inv, Phases
    <3>2. parts = [ns |-> SpaceOf[i], id |-> RawOf[i]]
      BY <1>1, <2>1, DisplayIDDecoded DEF Shown
    <3>3. parts.ns = SpaceOf[i] /\ parts.id = RawOf[i]
      BY <3>2
    <3>4. id = i
      BY <3>1, <3>3, SpacesAssumption DEF Named
    <3>5. SpaceOf[i] \in Spaces /\ i \in InSpace(SpaceOf[i])
      BY <3>1, SpacesAssumption DEF InSpace
    <3>6. LabelsOf(SpaceOf[i])' /\ RawOf[i] \in DOMAIN labels'
      BY <1>1, <2>1, <3>3, <3>4, <3>5, LabelsNow DEF Inv
    <3>7. Phases' /\ AtHand' /\ LabelsKnown'
      BY <1>1, <2>0, <2>1, <3>1, <3>4, <3>6 DEF Inv, Phases, AtHand, LabelsKnown
    <3>8. QueryOK'
      BY <1>1, <2>0, <2>1, <3>1, <3>4, <3>7, SameDescriptions
         DEF QueryOK, PCs, Inv, TypeOK
    <3>9. \A j \in IDs : ToCome(j)' <=> ToCome(j)
      BY <1>1, <2>0, <2>1 DEF ToCome
    <3>10. \A j \in IDs \ asked : ~ToCome(j)'
      BY <1>1, <2>1 DEF ToCome
    <3> QED
      BY <1>1, <2>0, <2>1, <3>1, <3>8, <3>9, <3>10, PhaseStep
  <2>2. CASE Fail
    BY <1>1, <2>0, <2>2, FailStep
  <2> QED
    BY <1>5, <2>1, <2>2 DEF ContainerGet
<1>6. CASE TaskGet
  <2>0. pc = "task" /\ query = "inspect" /\ hand = asked
    BY <1>1, <1>6 DEF TaskGet, Inv, Phases, AtHand
  <2>1. ASSUME NEW id \in hand, engine[id].alive, Answer(Found(id, labels[RawOf[id]]))
        PROVE  Inv'
    <3>1. id \in IDs /\ LabelsOf(SpaceOf[id]) /\ RawOf[id] \in DOMAIN labels
      BY <2>0 DEF Inv, TypeOK, LabelsKnown
    <3>2. labels[RawOf[id]] \in Projects \union {NoProject}
      BY <3>1 DEF LabelsOf
    <3>3. LET c == Described(engine, id, labels[RawOf[id]])
          IN  c \in seen \/ OtherProject(c)
      BY <1>1, <2>1, <3>1, LabelledTruthfully
    <3> QED
      BY <1>1, <2>0, <2>1, <3>2, <3>3, AnswerStep
  <2>2. CASE Fail
    BY <1>1, <2>0, <2>2, FailStep
  <2> QED
    BY <1>6, <2>1, <2>2 DEF TaskGet
<1> QED
  BY <1>2, <1>3, <1>4, <1>5, <1>6 DEF Containerd

\* CRI tells of a container with a process what has been seen; any other one has just
\* lost it.
LEMMA ToldByCRI ==
    ASSUME Inv, client = "cri", NEW id \in IDs
    PROVE  LET c == Described(engine, id, NoProject) IN c \in seen \/ JustDied(c)
<1>1. CASE engine[id].alive
  <2>1. engine[id].proj = NoProject
    BY DEF Inv, Engine, States, ProjectsNow
  <2> QED
    BY <1>1, <2>1, DescribedSeen DEF Inv
<1>2. CASE ~engine[id].alive
  <2>1. id \notin throughout
    BY <1>2 DEF Inv, Witnessed, AliveIDs
  <2> QED
    BY <1>2, <2>1 DEF JustDied, Described
<1> QED
  BY <1>1, <1>2

\* The containers that are not pod sandboxes.
LEMMA ContainersInv ==
    ASSUME Inv, client = "cri", UNCHANGED engineVars,
           ContainersList \/ ContainerPod \/ ContainerStatus \/ ContainersDone
    PROVE  Inv'
<1>1. /\ query \in {"list", "inspect"}
      /\ UNCHANGED <<client, engine, query, asked, throughout>>
  BY DEF engineVars, Inv, TypeOK
<1>2. CASE ContainersList
  <2>0. pc = "list" /\ query = "list" /\ asked = IDs
    BY <1>1, <1>2 DEF ContainersList, Inv, Phases
  <2>1. CASE /\ todo' = AliveIDs \ Sandboxes /\ pc' = "container"
             /\ UNCHANGED <<hand, labels, answer, excused>>
    <3>1. throughout \subseteq AliveIDs /\ AliveIDs \subseteq IDs
      BY DEF Inv, Witnessed, AliveIDs
    <3>2. QueryOK'
      BY <1>1, <2>0, <2>1, <3>1, SameDescriptions
         DEF QueryOK, Inv, TypeOK, PCs, Phases, AtHand, LabelsKnown
    <3>3. \A i \in IDs : /\ ToCome(i)
                         /\ i \in throughout => ToCome(i)'
      BY <1>1, <2>0, <2>1, <3>1 DEF ToCome
    <3> QED
      BY <2>0, <2>1, <3>2, <3>3, PhaseStep
  <2>2. CASE Fail
    BY <2>0, <2>2, FailStep
  <2> QED
    BY <1>2, <2>1, <2>2 DEF ContainersList
<1>3. CASE ContainerPod
  <2>0. pc = "container" /\ UNCHANGED labels
    BY <1>3 DEF ContainerPod
  <2>1. ASSUME NEW id \in todo, hand' = {id}, pc' = "status",
               UNCHANGED <<todo, answer, excused>>
        PROVE  Inv'
    <3>1. QueryOK'
      BY <1>1, <2>0, <2>1, SameDescriptions
         DEF QueryOK, Inv, TypeOK, PCs, Phases, AtHand, LabelsKnown
    <3>2. \A i \in IDs : ToCome(i)' <=> ToCome(i)
      BY <1>1, <2>0, <2>1 DEF ToCome
    <3>3. asked \subseteq IDs /\ \A i \in IDs \ asked : ~ToCome(i)
      BY <2>0 DEF ToCome, Inv, AtHand, Phases, TypeOK
    <3> QED
      BY <2>0, <2>1, <3>1, <3>2, <3>3, PhaseStep
  <2>2. ASSUME NEW id \in todo, Skip(id), excused' = excused \union {id},
               UNCHANGED <<hand, pc>>
        PROVE  Inv'
    <3>1. hand' \subseteq IDs \union Spaces
      BY <2>0, <2>2 DEF Inv, TypeOK
    <3> QED
      BY <2>0, <2>2, <3>1, SkipStep
  <2> QED
    BY <1>3, <2>1, <2>2 DEF ContainerPod
<1>4. CASE ContainerStatus
  <2>1. PICK id \in hand : /\ \/ Keep(id, Found(id, NoProject)) /\ UNCHANGED excused
                              \/ Skip(id) /\ excused' = excused \union {id}
                           /\ pc = "status" /\ pc' = "container" /\ hand' = {}
                           /\ UNCHANGED labels
    BY <1>4 DEF ContainerStatus
  <2>2. Looks(id) /\ id \in IDs
    BY <2>1 DEF Looks, Keep, Skip, Inv, AtHand, TypeOK
  <2>3. CASE Keep(id, Found(id, NoProject)) /\ UNCHANGED excused
    BY <2>1, <2>2, <2>3, ToldByCRI, KeepStep
  <2>4. CASE Skip(id) /\ excused' = excused \union {id}
    <3>1. /\ id \in excused' /\ excused \subseteq excused'
          /\ excused' \subseteq excused \union {id} /\ hand' \subseteq IDs \union Spaces
          /\ UNCHANGED labels /\ Skip(id)
      BY <2>1, <2>4
    <3> QED
      BY <2>2, <3>1, SkipStep
  <2> QED
    BY <2>1, <2>3, <2>4
<1>5. CASE ContainersDone
  <2>1. /\ pc = "container" /\ todo = {} /\ pc' = ContainersEnd
        /\ UNCHANGED <<todo, hand, labels, answer, excused>>
    BY <1>5 DEF ContainersDone, AllDone
  <2>2. CASE query = "inspect" /\ answer = {}
    BY <2>1, <2>2, FailStep DEF ContainersEnd, Fail
  <2>3. CASE query = "list"
    <3>1. pc' = "sandboxes" /\ asked = IDs
      BY <2>1, <2>3 DEF ContainersEnd, Inv, Phases
    <3>2. QueryOK'
      BY <1>1, <2>1, <2>3, <3>1, SameDescriptions
         DEF QueryOK, Inv, TypeOK, PCs, Phases, AtHand, LabelsKnown
    <3> QED
      BY <2>1, <2>3, <3>1, <3>2, PhaseStep DEF ToCome
  <2>4. CASE query = "inspect" /\ answer # {}
    <3>1. pc' = "done"
      BY <2>1, <2>4 DEF ContainersEnd
    <3>2. QueryOK'
      BY <1>1, <2>1, <2>4, <3>1, SameDescriptions
         DEF QueryOK, Inv, TypeOK, PCs, Phases, AtHand, LabelsKnown
    <3> QED
      BY <2>1, <2>4, <3>1, <3>2, PhaseStep DEF ToCome
  <2> QED
    BY <1>1, <2>2, <2>3, <2>4
<1> QED
  BY <1>2, <1>3, <1>4, <1>5

\* The pod sandboxes.
LEMMA SandboxesInv ==
    ASSUME Inv, client = "cri", UNCHANGED engineVars, SandboxesList \/ SandboxStatus
    PROVE  Inv'
<1>1. /\ query \in {"list", "inspect"}
      /\ UNCHANGED <<client, engine, query, asked, throughout>>
  BY DEF engineVars, Inv, TypeOK
<1>2. CASE SandboxesList
  <2>0. pc = "sandboxes" /\ query = "list" /\ asked = IDs
    BY <1>1, <1>2 DEF SandboxesList, Inv, Phases
  <2>1. CASE /\ todo' = AliveIDs \intersect Sandboxes /\ pc' = "sandbox"
             /\ UNCHANGED <<hand, labels, answer, excused>>
    <3>1. throughout \subseteq AliveIDs /\ AliveIDs \subseteq IDs
      BY DEF Inv, Witnessed, AliveIDs
    <3>2. QueryOK'
      BY <1>1, <2>0, <2>1, <3>1, SameDescriptions
         DEF QueryOK, Inv, TypeOK, PCs, Phases, AtHand, LabelsKnown
    <3>3. \A i \in IDs : /\ ToCome(i)' => ToCome(i)
                         /\ i \in throughout /\ ToCome(i) => ToCome(i)'
      BY <1>1, <2>0, <2>1, <3>1 DEF ToCome
    <3> QED
      BY <2>0, <2>1, <3>2, <3>3, PhaseStep
  <2>2. CASE Fail
    BY <2>0, <2>2, FailStep
  <2> QED
    BY <1>2, <2>1, <2>2 DEF SandboxesList
<1>3. CASE SandboxStatus
  <2>1. ASSUME NEW id \in todo,
               \/ Keep(id, Found(id, NoProject)) /\ UNCHANGED excused
               \/ Skip(id) /\ excused' = excused \union {id},
               UNCHANGED <<pc, hand, labels>>
        PROVE  Inv'
    <3>1. Looks(id) /\ id \in IDs /\ hand' \subseteq IDs \union Spaces
      BY <1>3, <2>1 DEF Looks, Keep, Skip, SandboxStatus, Inv, TypeOK
    <3>2. CASE Keep(id, Found(id, NoProject)) /\ UNCHANGED excused
      BY <2>1, <3>1, <3>2, ToldByCRI, KeepStep
    <3>3. CASE Skip(id) /\ excused' = excused \union {id}
      BY <2>1, <3>1, <3>3, SkipStep
    <3> QED
      BY <2>1, <3>2, <3>3
  <2>2. CASE AllDone("done")
    <3>1. /\ pc = "sandbox" /\ todo = {} /\ pc' = "done"
          /\ UNCHANGED <<todo, hand, labels, answer, excused>>
      BY <1>3, <2>2 DEF SandboxStatus, AllDone
    <3>2. QueryOK'
      BY <1>1, <3>1, SameDescriptions
         DEF QueryOK, Inv, TypeOK, PCs, Phases, AtHand, LabelsKnown
    <3> QED
      BY <3>1, <3>2, PhaseStep DEF ToCome
  <2> QED
    BY <1>3, <2>1, <2>2 DEF SandboxStatus
<1> QED
  BY <1>2, <1>3

LEMMA CRIInspectInv ==
    ASSUME Inv, client = "cri", UNCHANGED engineVars, CRIInspect \/ SandboxInspect
    PROVE  Inv'
<1>1. /\ query = "inspect" /\ pc \in {"inspect", "inspectpod"}
      /\ UNCHANGED <<client, engine, query, asked, throughout>>
  BY DEF CRIInspect, SandboxInspect, engineVars, Inv, Phases, TypeOK
<1>2. PICK it \in IDs : asked = {it}
  BY <1>1 DEF Inv, Phases
<1>3. CASE Fail
  BY <1>1, <1>3, FailStep
<1>4. ASSUME UNCHANGED <<hand, labels, answer, excused>>,
             \/ pc' = "container" /\ it \notin Sandboxes /\ todo' = {it}
             \/ pc' = "inspectpod" /\ UNCHANGED todo
             \/ /\ pc' = "sandbox" /\ it \in Sandboxes /\ todo' \subseteq {it}
                /\ it \in throughout => it \in todo'
      PROVE  Inv'
  <2>1. QueryOK'
    BY <1>1, <1>2, <1>4, SameDescriptions
       DEF QueryOK, Inv, TypeOK, PCs, Phases, AtHand, LabelsKnown
  <2>2. \A i \in IDs : /\ ToCome(i) <=> i = it
                       /\ ToCome(i)' => i = it
                       /\ i = it /\ i \in throughout => ToCome(i)'
    BY <1>1, <1>2, <1>4 DEF ToCome
  <2> QED
    BY <1>1, <1>2, <1>4, <2>1, <2>2, PhaseStep
<1>5. CASE CRIInspect /\ ~Fail
  <2>1. CASE pc' = "inspectpod"
    BY <1>1, <1>2, <1>4, <1>5, <2>1 DEF CRIInspect
  <2>2. CASE pc' # "inspectpod"
    BY <1>1, <1>2, <1>4, <1>5, <2>2 DEF CRIInspect
  <2> QED
    BY <2>1, <2>2
<1>6. CASE SandboxInspect /\ ~Fail
  <2>1. ~engine[it].alive => it \notin throughout
    BY DEF Inv, Witnessed, AliveIDs
  <2> QED
    BY <1>1, <1>2, <1>4, <1>6, <2>1 DEF SandboxInspect
<1> QED
  BY <1>3, <1>5, <1>6

LEMMA CRIInv == ASSUME Inv, CRI PROVE Inv'
BY ContainersInv, SandboxesInv, CRIInspectInv DEF CRI, Continue
-----------------------------------------------------------------------------
LEMMA InvCorrect == Spec => []Inv
<1>1. Init => Inv
  BY InvInit
<1>2. Inv /\ [Next]_vars => Inv'
  <2> SUFFICES ASSUME Inv, [Next]_vars PROVE Inv'
    OBVIOUS
  <2>1. CASE UNCHANGED vars
    <3>1. Inv' <=> Inv
      BY <2>1
         DEF vars, engineVars, Inv, TypeOK, Engine, Witnessed, Phases, AtHand,
             LabelsKnown, CompleteSoFar, DistinctSoFar, TruthfulSoFar, LabelsOf,
             ToCome, Covered, States, ProjectsNow, Sound, Snapshots, AliveIDs,
             Described, Shown, OtherProject, JustDied, Descriptions, InSpace
    <3> QED
      BY <3>1
  <2> QED
    BY <2>1, EngineStepInv, MobyInv, ContainerdInv, CRIInv DEF Next, Terminated
<1> QED
  BY <1>1, <1>2, PTL DEF Spec

\* Every variable keeps to its type, for each client (containerd.go:192-210).
THEOREM TypeCorrect == Spec => []TypeOK
BY InvCorrect, PTL DEF Inv

\* Whoever is alive all the time is in the answer, however many others come and go
\* (moby.go:161-173, containerd.go:184-223, cri.go:168-191).
THEOREM CompleteCorrect == Spec => []Complete
<1>1. Inv => Complete
  BY DEF Inv, CompleteSoFar, Complete, ToCome, Covered
<1> QED
  BY InvCorrect, <1>1, PTL

\* What is said of a container was true at some moment of the query, all of it at
\* once, with the two exceptions named (containerd.go:192-210, cri.go:226-302).
THEOREM TruthfulCorrect == Spec => []Truthful
<1>1. Inv => Truthful
  BY DEF Inv, TruthfulSoFar, Truthful
<1> QED
  BY InvCorrect, <1>1, PTL

\* Inspect finds the container with the ID that it was given, or fails; only for pod
\* sandboxes it does neither (moby.go:177-186, containerd.go:227-243, cri.go:205-211).
THEOREM ContainerOrErrorCorrect == Spec => []ContainerOrError
<1>1. Inv => ContainerOrError
  <2> SUFFICES ASSUME Inv, query = "inspect", pc = "done", answer # {}
               PROVE  \E c \in answer, id \in asked : answer = {c} /\ c.id = Shown(id)
    BY DEF ContainerOrError, Inv, Phases
  <2>1. PICK id \in IDs : asked = {id}
    BY DEF Inv, Phases
  <2>2. \A c \in answer : c.id = Shown(id)
    BY <2>1 DEF Inv, DistinctSoFar
  <2>3. \A c, d \in answer : c = d
    BY <2>2 DEF Inv, DistinctSoFar
  <2> QED
    BY <2>1, <2>2, <2>3
<1> QED
  BY InvCorrect, <1>1, PTL

\* No two containers of an answer go by the same ID, whatever the engine's IDs are in
\* its namespaces (containerd.go:257-258, 384-401).
THEOREM DistinctIDsCorrect == Spec => []DistinctIDs
<1>1. Inv => DistinctIDs
  BY DEF Inv, DistinctSoFar, DistinctIDs
<1> QED
  BY InvCorrect, <1>1, PTL
=============================================================================

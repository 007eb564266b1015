---------------------------- MODULE PortfolioProofs ----------------------------
(***************************************************************************)
(* Proofs about Portfolio, for any containers, any number of listings and  *)
(* any number of calls.                                                    *)
(***************************************************************************)
EXTENDS Portfolio, SequenceTheorems, FiniteSetTheorems, FunctionTheorems, Induction,
        TLAPS

\* What is in a project's slice.
InProject(p) == {c \in Containers : c.proj = p /\ Identity(c) \in Births}
SliceOK(s, p) == /\ s \in Seq(InProject(p))
                 /\ \A i, j \in 1..Len(s) : Identity(s[i]) = Identity(s[j]) => i = j

MapOK == /\ DOMAIN projects \subseteq Projects /\ Zero \in DOMAIN projects
         /\ \A p \in DOMAIN projects : \E k \in 0..calls : projects[p] = <<p, k>>
SlicesOK == /\ DOMAIN slices = Objects
            /\ \A o \in Objects : SliceOK(slices[o], o[1])
            /\ \A o \in Objects : ~Attached(o) => slices[o] = <<>>
\* Whoever has the portfolio's lock for writing has it alone.
LockOK == \A w, v \in Callers : pc[w] \in {"adding", "removing"} /\ v # w =>
                                   pc[v] \notin {"adding", "removing", "looking"}
\* Composer projects without containers are about to be dropped, or to get one.
NamesOK == \A p \in DOMAIN projects \ {Zero} :
             \/ slices[projects[p]] # <<>>
             \/ \E w \in Writers : pc[w] \in {"adding", "removing"} /\ obj[w] = projects[p]

\* What each caller knows at each step of its call.
AddArgs == [op : {"add"}, cntr : Inspected]
RemoveArgs == [op : {"remove"}, id : IDs, proj : Projects \union {Unknown}]
PauseArgs == [op : {"setpaused"}, id : IDs, proj : Projects \union {Unknown},
              paused : BOOLEAN]
AskArgs == [op : {"container"}, id : Keys]

Adding(w) == /\ w \in Writers /\ arg[w] \in AddArgs
             /\ arg[w].cntr.proj \in DOMAIN projects
             /\ obj[w] = projects[arg[w].cntr.proj]
LookingUp(w) == arg[w] \in IF w = User THEN AskArgs ELSE RemoveArgs \union PauseArgs
Looking(w) == /\ todo[w] \subseteq DOMAIN projects
              /\ \A p \in DOMAIN projects \ todo[w] :
                   Hits(slices[projects[p]], arg[w].id) = {}
Removing(w) == w \in Writers /\ arg[w] \in RemoveArgs /\ arg[w].proj \in Projects
Removed(w) == arg[w].proj \in DOMAIN projects /\ obj[w] = projects[arg[w].proj]
Pausing(w) == w \in Writers /\ arg[w] \in PauseArgs /\ arg[w].proj \in Projects
Setting(w) == obj[w] \in Objects /\ obj[w][1] = arg[w].proj

CallerOK(w) ==
    /\ pc[w] = "adding" => Adding(w)
    /\ pc[w] \in {"lookup", "looking"} => LookingUp(w)
    /\ pc[w] = "looking" => Looking(w)
    /\ pc[w] \in {"remove", "removing"} => Removing(w)
    /\ pc[w] = "removing" => Removed(w)
    /\ pc[w] \in {"project", "setting"} => Pausing(w)
    /\ pc[w] = "setting" => Setting(w)

ShapeOK == /\ pc \in [Callers -> PCs] /\ obj \in [Callers -> Objects \union {NoObject}]
           /\ DOMAIN arg = Callers /\ DOMAIN todo = Callers /\ calls \in 0..MaxCalls

\* The pauses that are not too late find their container.
GoneOK == \A w \in Writers : pc[w] = "setting" /\ w \notin gone =>
                               Hits(slices[obj[w]], arg[w].id) # {}

Inv == /\ ShapeOK /\ MapOK /\ SlicesOK /\ LockOK /\ NamesOK
       /\ \A w \in Callers : CallerOK(w)
-----------------------------------------------------------------------------
(***************************************************************************)
(* The slice of a project.                                                 *)
(***************************************************************************)

\* If there is a container that goes by a name or ID there is a first one.
LEMMA FirstHits ==
    ASSUME NEW s, NEW q, Len(s) \in Nat, Hits(s, q) # {}
    PROVE  /\ First(s, q) \in Hits(s, q)
           /\ \A j \in Hits(s, q) : First(s, q) <= j
<1>1. Hits(s, q) \in SUBSET Nat
  BY DEF Hits
<1>2. \E i \in Hits(s, q) : \A j \in Hits(s, q) : i <= j
  BY <1>1, LeastElement
<1> QED
  BY <1>2 DEF First

\* Who has the same IDs and names at the same places has the same first one.
LEMMA SameHits ==
    ASSUME NEW s, NEW t, NEW q, Len(t) = Len(s),
           \A i \in 1..Len(s) : t[i].id = s[i].id /\ t[i].name = s[i].name
    PROVE  Hits(t, q) = Hits(s, q) /\ First(t, q) = First(s, q)
<1>1. Hits(t, q) = Hits(s, q)
  BY DEF Hits
<1> QED
  BY <1>1 DEF First

LEMMA SliceElements ==
    ASSUME NEW s, NEW p, SliceOK(s, p)
    PROVE  /\ Len(s) \in Nat /\ Elements(s) \subseteq InProject(p)
           /\ \A i \in 1..Len(s) : s[i] \in InProject(p) /\ s[i] \in Elements(s)
           /\ \A c, d \in Elements(s) : Identity(c) = Identity(d) => c = d
<1>1. Len(s) \in Nat /\ \A i \in 1..Len(s) : s[i] \in InProject(p)
  BY LenProperties DEF SliceOK
<1> QED
  BY <1>1 DEF Elements, SliceOK

LEMMA SliceEmpty == ASSUME NEW p PROVE SliceOK(<<>>, p) /\ Elements(<<>>) = {}
<1>1. <<>> \in Seq(InProject(p)) /\ Len(<<>>) = 0
  BY EmptySeq
<1>2. 1..0 = {}
  OBVIOUS
<1> QED
  BY <1>1, <1>2 DEF SliceOK, Elements

LEMMA SliceNoHit ==
    ASSUME NEW s, NEW q
    PROVE  /\ Hit(s, q) = {} <=> Hits(s, q) = {}
           /\ Hits(s, q) = {} <=> \A c \in Elements(s) : q \notin {c.id, c.name}
BY DEF Hit, Hits, Elements

LEMMA SliceHit ==
    ASSUME NEW s, NEW p, NEW q, SliceOK(s, p), Hits(s, q) # {}
    PROVE  LET c == s[First(s, q)]
           IN  /\ Hit(s, q) = {c} /\ c \in Elements(s) /\ c \in InProject(p)
               /\ q \in {c.id, c.name} /\ First(s, q) \in 1..Len(s)
<1>1. First(s, q) \in Hits(s, q)
  BY SliceElements, FirstHits
<1>2. First(s, q) \in 1..Len(s)
  BY <1>1 DEF Hits
<1>3. q \in {s[First(s, q)].id, s[First(s, q)].name}
  BY <1>1 DEF Hits
<1> QED
  BY <1>2, <1>3, SliceElements DEF Hit

\* A container that is new goes to the end.
LEMMA SliceAppend ==
    ASSUME NEW s, NEW p, NEW c \in InProject(p), SliceOK(s, p), ~Knows(s, c)
    PROVE  /\ SliceOK(Append(s, c), p)
           /\ Elements(Append(s, c)) = Elements(s) \union {c}
<1> DEFINE t == Append(s, c)
           n == Len(s)
<1>1. /\ t \in Seq(InProject(p)) /\ Len(t) = n + 1 /\ n \in Nat
      /\ \A i \in 1..n : t[i] = s[i]
      /\ t[n + 1] = c
  BY AppendProperties, LenProperties DEF SliceOK
<1> HIDE DEF t
<1>2. \A i \in 1..Len(t) : i \in 1..n \/ i = n + 1
  BY <1>1
<1>3. \A i \in 1..n : Identity(s[i]) # Identity(c)
  BY DEF Knows
<1>4. ASSUME NEW i \in 1..Len(t), NEW j \in 1..Len(t), Identity(t[i]) = Identity(t[j])
      PROVE  i = j
  <2>1. CASE i \in 1..n /\ j \in 1..n
    BY <1>1, <1>4, <2>1 DEF SliceOK
  <2>2. CASE i \in 1..n /\ j = n + 1
    BY <1>1, <1>3, <1>4, <2>2
  <2>3. CASE i = n + 1 /\ j \in 1..n
    BY <1>1, <1>3, <1>4, <2>3
  <2> QED
    BY <1>2, <2>1, <2>2, <2>3
<1>5. Elements(t) = Elements(s) \union {c}
  <2>1. 1..Len(t) = 1..n \union {n + 1}
    BY <1>1
  <2> QED
    BY <1>1, <2>1 DEF Elements
<1> QED
  BY <1>1, <1>4, <1>5 DEF SliceOK, t

\* One container goes, and the last one takes its place.
LEMMA SliceRemove ==
    ASSUME NEW s, NEW p, SliceOK(s, p), NEW i \in 1..Len(s)
    PROVE  /\ SliceOK(SwapDelete(s, i), p)
           /\ Elements(SwapDelete(s, i)) = Elements(s) \ {s[i]}
<1> DEFINE t == SwapDelete(s, i)
           n == Len(s)
<1>1. n \in Nat /\ \A j \in 1..n : s[j] \in InProject(p)
  BY SliceElements
<1>2. n - 1 \in Nat /\ n \in 1..n /\ \A j \in 1..(n - 1) : j \in 1..n /\ j # n
  BY <1>1
<1>3. t \in [1..(n - 1) -> InProject(p)]
  BY <1>1, <1>2 DEF SwapDelete
<1>4. t \in Seq(InProject(p)) /\ Len(t) = n - 1
  BY <1>2, <1>3, SeqDef, LenProperties
<1>5. \A j \in 1..(n - 1) : t[j] = IF j = i THEN s[n] ELSE s[j]
  BY DEF SwapDelete
<1> HIDE DEF t
<1>6. \A j, k \in 1..n : Identity(s[j]) = Identity(s[k]) => j = k
  BY DEF SliceOK
<1>7. ASSUME NEW j \in 1..Len(t), NEW k \in 1..Len(t), Identity(t[j]) = Identity(t[k])
      PROVE  j = k
  BY <1>2, <1>4, <1>5, <1>6, <1>7
<1>8. \A c : c \in Elements(t) <=> c \in Elements(s) /\ c # s[i]
  <2>1. ASSUME NEW j \in 1..(n - 1) PROVE t[j] \in Elements(s) /\ t[j] # s[i]
    BY <1>2, <1>5, <1>6, <2>1 DEF Elements
  <2>2. ASSUME NEW j \in 1..n, s[j] # s[i] PROVE s[j] \in Elements(t)
    <3>1. CASE j # n
      <4>1. j \in 1..(n - 1) /\ j # i
        BY <1>1, <2>2, <3>1
      <4> QED
        BY <1>4, <1>5, <4>1 DEF Elements
    <3>2. CASE j = n
      <4>1. i \in 1..(n - 1)
        BY <1>1, <2>2, <3>2
      <4> QED
        BY <1>4, <1>5, <3>2, <4>1 DEF Elements
    <3> QED
      BY <3>1, <3>2
  <2> QED
    BY <1>4, <2>1, <2>2 DEF Elements
<1> QED
  BY <1>4, <1>7, <1>8 DEF SliceOK, t

\* One container is replaced by a copy in the other state.
Switched(c, b) == [c EXCEPT !.paused = b]
SwitchedAt(s, i, b) == [s EXCEPT ![i].paused = b]

LEMMA SlicePause ==
    ASSUME NEW s, NEW p, SliceOK(s, p), NEW i \in 1..Len(s), NEW b \in BOOLEAN
    PROVE  LET t == SwitchedAt(s, i, b)
               d == Switched(s[i], b)
           IN  /\ SliceOK(t, p) /\ Len(t) = Len(s) /\ t[i] = d
               /\ Identity(d) = Identity(s[i]) /\ d \in InProject(p)
               /\ \A j \in 1..Len(s) : t[j].id = s[j].id /\ t[j].name = s[j].name
               /\ Elements(t) = (Elements(s) \ {s[i]}) \union {d}
<1> DEFINE d == Switched(s[i], b)
           t == SwitchedAt(s, i, b)
           n == Len(s)
<1>1. /\ n \in Nat /\ \A j \in 1..n : s[j] \in InProject(p)
      /\ s \in Seq(InProject(p)) /\ s \in [1..n -> InProject(p)]
  BY SliceElements, LenProperties DEF SliceOK
<1>2. d \in InProject(p) /\ Identity(d) = Identity(s[i])
      /\ d.id = s[i].id /\ d.name = s[i].name
  BY <1>1 DEF InProject, Containers, Identity, Switched
<1>3. t = [s EXCEPT ![i] = d]
  BY DEF Switched, SwitchedAt
<1> HIDE DEF d, t
<1>4. /\ t \in Seq(InProject(p)) /\ Len(t) = n /\ t[i] = d
      /\ \A j \in 1..n : t[j] = IF j = i THEN d ELSE s[j]
  BY <1>1, <1>2, <1>3, ExceptSeq
<1>5. \A j \in 1..n : Identity(t[j]) = Identity(s[j])
  BY <1>2, <1>4
<1>6. SliceOK(t, p)
  BY <1>4, <1>5 DEF SliceOK
<1>7. \A j \in 1..n : t[j].id = s[j].id /\ t[j].name = s[j].name
  BY <1>2, <1>4
<1>8. \A j \in 1..n : s[j] = s[i] => j = i
  BY DEF SliceOK
<1>9. Elements(t) = (Elements(s) \ {s[i]}) \union {d}
  BY <1>4, <1>8 DEF Elements
<1> QED
  BY <1>2, <1>4, <1>6, <1>7, <1>9 DEF d, t
-----------------------------------------------------------------------------
(***************************************************************************)
(* The invariant holds in the beginning.                                   *)
(***************************************************************************)
LEMMA WritersAre == Writers \subseteq Callers /\ User \in Callers /\ User \notin Writers
                    /\ Watch \in Writers
BY CallersAssumption DEF Writers, Callers

LEMMA ProjectsAre ==
    /\ Zero \in Projects /\ IDs \subseteq Keys
    /\ \A c \in Inspected : /\ c \in InProject(c.proj) /\ c.proj \in Projects
                            /\ Identity(c) \in Births /\ c.id \in IDs
<1>1. \A c \in Inspected : Identity(c) \in Births
  BY DEF Births, Identities
<1>2. \A b \in Births : b.proj \in Projects /\ b.id \in IDs
  BY DEF Projects, IDs
<1> QED
  BY <1>1, <1>2, InspectedAssumption DEF Projects, Keys, InProject, Identity

LEMMA InvInit == Init => Inv
<1> SUFFICES ASSUME Init PROVE Inv
  OBVIOUS
<1>1. PICK s \in Stocks :
         /\ projects = [p \in DOMAIN s |-> <<p, 0>>]
         /\ slices = [o \in Objects |->
                        IF o[1] \in DOMAIN s /\ o[2] = 0 THEN s[o[1]] ELSE <<>>]
  BY DEF Init
<1>2. /\ Zero \in DOMAIN s /\ DOMAIN s \subseteq Projects
      /\ \A p \in DOMAIN s : /\ SliceOK(s[p], p)
                             /\ p # Zero => s[p] # <<>>
  <2>1. ASSUME NEW p \in DOMAIN s PROVE SliceOK(s[p], p)
    <3>1. s[p] \in Seq({c \in Inspected : c.proj = p})
      BY StocksAssumption
    <3>2. {c \in Inspected : c.proj = p} \subseteq InProject(p)
      BY ProjectsAre DEF InProject
    <3>3. s[p] \in Seq(InProject(p))
      BY <3>1, <3>2, SeqMonotonic
    <3> QED
      BY <3>3, StocksAssumption DEF SliceOK
  <2> QED
    BY <2>1, StocksAssumption
<1>3. /\ pc = [w \in Callers |-> "idle"] /\ calls = 0
      /\ DOMAIN arg = Callers /\ DOMAIN todo = Callers
      /\ obj = [w \in Callers |-> NoObject]
  BY DEF Init
<1>4. ShapeOK
  BY <1>3, BoundAssumption DEF ShapeOK, PCs
<1>5. \A p \in DOMAIN projects : projects[p] = <<p, 0>> /\ <<p, 0>> \in Objects
  BY <1>1, <1>2, BoundAssumption DEF Objects
<1>6. MapOK
  BY <1>1, <1>2, <1>3, <1>5 DEF MapOK
<1>7. SlicesOK
  <2>1. ASSUME NEW o \in Objects PROVE SliceOK(slices[o], o[1])
    <3>1. CASE o[1] \in DOMAIN s /\ o[2] = 0
      BY <1>1, <1>2, <3>1
    <3>2. CASE ~(o[1] \in DOMAIN s /\ o[2] = 0)
      BY <1>1, <3>2, SliceEmpty
    <3> QED
      BY <3>1, <3>2
  <2>2. ASSUME NEW o \in Objects, ~Attached(o) PROVE slices[o] = <<>>
    <3>1. o = <<o[1], o[2]>>
      BY DEF Objects
    <3>2. ~(o[1] \in DOMAIN s /\ o[2] = 0)
      BY <1>1, <2>2, <3>1 DEF Attached
    <3> QED
      BY <1>1, <3>2
  <2> QED
    BY <1>1, <2>1, <2>2 DEF SlicesOK
<1>8. NamesOK
  <2>1. ASSUME NEW p \in DOMAIN projects \ {Zero} PROVE slices[projects[p]] # <<>>
    <3>1. p \in DOMAIN s /\ projects[p] = <<p, 0>> /\ <<p, 0>> \in Objects
      BY <1>1, <1>5
    <3>2. slices[<<p, 0>>] = s[p]
      BY <1>1, <3>1
    <3> QED
      BY <1>2, <3>1, <3>2
  <2> QED
    BY <2>1 DEF NamesOK
<1>9. LockOK /\ \A w \in Callers : CallerOK(w)
  BY <1>3 DEF LockOK, CallerOK
<1> QED
  BY <1>4, <1>6, <1>7, <1>8, <1>9 DEF Inv
-----------------------------------------------------------------------------
(***************************************************************************)
(* What the steps have in common.                                          *)
(***************************************************************************)

\* The step is one of caller w.
Frame(w) == /\ ShapeOK' /\ calls <= calls'
            /\ \A v \in Callers \ {w} : /\ pc'[v] = pc[v] /\ arg'[v] = arg[v]
                                        /\ obj'[v] = obj[v] /\ todo'[v] = todo[v]
Critical(w) == pc[w] \in {"adding", "removing"}

LEMMA MapIs ==
    ASSUME Inv
    PROVE  \A p \in DOMAIN projects : /\ p \in Projects /\ projects[p] \in Objects
                                      /\ projects[p][1] = p
                                      /\ SliceOK(slices[projects[p]], p)
<1> TAKE p \in DOMAIN projects
<1>1. PICK k \in 0..calls : projects[p] = <<p, k>>
  BY DEF Inv, MapOK
<1>2. p \in Projects /\ k \in 0..MaxCalls
  BY BoundAssumption DEF Inv, MapOK, ShapeOK
<1>3. projects[p] \in Objects /\ projects[p][1] = p
  BY <1>1, <1>2 DEF Objects
<1> QED
  BY <1>2, <1>3 DEF Inv, SlicesOK

\* What a caller knows does not change by what others may do at the same time.
LEMMA OthersOK ==
    ASSUME Inv, NEW v \in Callers, pc'[v] = pc[v], arg'[v] = arg[v],
           obj'[v] = obj[v], todo'[v] = todo[v],
           Critical(v) => UNCHANGED projects,
           pc[v] = "looking" =>
             /\ UNCHANGED projects
             /\ \A p \in DOMAIN projects :
                  Hits(slices'[projects[p]], arg[v].id) = Hits(slices[projects[p]], arg[v].id)
    PROVE  CallerOK(v)'
<1>1. CallerOK(v)
  BY DEF Inv
<1>2. pc[v] = "adding" => Adding(v)'
  BY <1>1 DEF CallerOK, Adding, Critical
<1>3. pc[v] \in {"lookup", "looking"} => LookingUp(v)'
  BY <1>1 DEF CallerOK, LookingUp
<1>4. pc[v] = "looking" => Looking(v)'
  BY <1>1 DEF CallerOK, Looking
<1>5. pc[v] \in {"remove", "removing"} => Removing(v)'
  BY <1>1 DEF CallerOK, Removing
<1>6. pc[v] = "removing" => Removed(v)'
  BY <1>1 DEF CallerOK, Removed, Critical
<1>7. pc[v] \in {"project", "setting"} => Pausing(v)'
  BY <1>1 DEF CallerOK, Pausing
<1>8. pc[v] = "setting" => Setting(v)'
  BY <1>1 DEF CallerOK, Setting
<1> QED
  BY <1>2, <1>3, <1>4, <1>5, <1>6, <1>7, <1>8 DEF CallerOK

\* A step that takes no lock for writing and changes nothing.
LEMMA QuietStep ==
    ASSUME Inv, NEW w \in Callers, Frame(w), UNCHANGED <<projects, slices>>,
           ~Critical(w), pc'[w] \notin {"adding", "removing"},
           pc'[w] = "looking" => pc[w] = "looking" \/ NoWriter,
           CallerOK(w)'
    PROVE  Inv'
<1>1. MapOK'
  <2>1. 0..calls \subseteq 0..calls'
    BY DEF Frame, Inv, ShapeOK
  <2> QED
    BY <2>1 DEF Inv, MapOK
<1>2. SlicesOK'
  BY DEF Inv, SlicesOK, Attached
<1>3. LockOK'
  BY DEF Inv, LockOK, Frame, Critical, NoWriter
<1>4. NamesOK'
  <2> SUFFICES ASSUME NEW p \in DOMAIN projects \ {Zero}, slices[projects[p]] = <<>>
               PROVE  \E v \in Writers : Critical(v)' /\ obj'[v] = projects[p]
    BY DEF NamesOK, Critical
  <2>1. PICK v \in Writers : Critical(v) /\ obj[v] = projects[p]
    BY DEF Inv, NamesOK, Critical
  <2>2. v \in Callers \ {w}
    BY <2>1, WritersAre
  <2> QED
    BY <2>1, <2>2 DEF Frame, Critical
<1>5. ASSUME NEW v \in Callers PROVE CallerOK(v)'
  <2>1. CASE v # w
    BY <2>1, OthersOK DEF Frame
  <2> QED
    BY <2>1
<1> QED
  BY <1>1, <1>2, <1>3, <1>4, <1>5 DEF Inv, Frame

\* From one place in a call to another, with or without a change of what w knows.
LEMMA Moves ==
    ASSUME Inv, NEW w \in Callers, NEW next \in PCs, pc' = [pc EXCEPT ![w] = next],
           arg' = arg \/ \E a : arg' = [arg EXCEPT ![w] = a],
           todo' = todo \/ \E t : todo' = [todo EXCEPT ![w] = t],
           obj' = obj \/ \E o \in Objects \union {NoObject} : obj' = [obj EXCEPT ![w] = o],
           calls' = calls \/ (calls < MaxCalls /\ calls' = calls + 1)
    PROVE  Frame(w) /\ pc'[w] = next
<1>1. calls \in 0..MaxCalls /\ MaxCalls \in Nat
  BY BoundAssumption DEF Inv, ShapeOK
<1>2. calls' \in 0..MaxCalls /\ calls <= calls'
  BY <1>1
<1>3. pc' \in [Callers -> PCs] /\ pc'[w] = next /\ \A v \in Callers \ {w} : pc'[v] = pc[v]
  BY DEF Inv, ShapeOK
<1>4. DOMAIN arg' = Callers /\ \A v \in Callers \ {w} : arg'[v] = arg[v]
  BY DEF Inv, ShapeOK
<1>5. DOMAIN todo' = Callers /\ \A v \in Callers \ {w} : todo'[v] = todo[v]
  BY DEF Inv, ShapeOK
<1>6. /\ obj' \in [Callers -> Objects \union {NoObject}]
      /\ \A v \in Callers \ {w} : obj'[v] = obj[v]
  BY DEF Inv, ShapeOK
<1> QED
  BY <1>2, <1>3, <1>4, <1>5, <1>6 DEF Frame, ShapeOK

\* Between calls there is nothing to know.
LEMMA IdleOK ==
    ASSUME NEW w, pc'[w] \in {"idle", "collect", "count"} PROVE CallerOK(w)'
BY DEF CallerOK

\* The lookup of a container.
LEMMA LookInv ==
    ASSUME Inv, NEW w \in Callers,
           LookBegin(w) \/ LookHit(w) \/ LookOn(w) \/ LookMissed(w)
    PROVE  Inv'
<1>0. ShapeOK /\ MapOK /\ CallerOK(w)
  BY DEF Inv
<1>1. CASE LookBegin(w)
  <2>1. /\ pc[w] = "lookup" /\ pc' = [pc EXCEPT ![w] = "looking"] /\ NoWriter
        /\ todo' = [todo EXCEPT ![w] = DOMAIN projects]
        /\ UNCHANGED <<projects, slices, arg, obj, calls>>
    BY <1>1 DEF LookBegin, At, Quiet
  <2>2. Frame(w) /\ pc'[w] = "looking"
    BY <2>1, Moves DEF PCs
  <2>3. todo'[w] = DOMAIN projects
    BY <1>0, <2>1 DEF ShapeOK
  <2>4. CallerOK(w)'
    BY <1>0, <2>1, <2>2, <2>3 DEF CallerOK, LookingUp, Looking
  <2> QED
    BY <2>1, <2>2, <2>4, QuietStep DEF Critical
<1>2. CASE LookHit(w)
  <2>1. PICK p \in todo[w] : \E c \in Hit(slices[projects[p]], arg[w].id) :
            arg' = IF w = User THEN [arg EXCEPT ![w] = NoArg]
                   ELSE [arg EXCEPT ![w].proj = c.proj]
    BY <1>2 DEF LookHit
  <2>2. PICK c \in Hit(slices[projects[p]], arg[w].id) :
            arg' = IF w = User THEN [arg EXCEPT ![w] = NoArg]
                   ELSE [arg EXCEPT ![w].proj = c.proj]
    BY <2>1
  <2>3. /\ pc[w] = "looking" /\ pc' = [pc EXCEPT ![w] = AfterFound(w)]
        /\ todo' = [todo EXCEPT ![w] = {}]
        /\ UNCHANGED <<projects, slices, obj, calls>>
    BY <1>2 DEF LookHit, At
  <2>4. p \in DOMAIN projects /\ LookingUp(w)
    BY <1>0, <2>3 DEF CallerOK, Looking
  <2>5. c.proj \in Projects
    <3>1. SliceOK(slices[projects[p]], p) /\ p \in Projects
      BY <2>4, MapIs
    <3>2. Hits(slices[projects[p]], arg[w].id) # {}
      BY <2>2, SliceNoHit
    <3> DEFINE s == slices[projects[p]]
               d == s[First(s, arg[w].id)]
    <3>3. Hit(s, arg[w].id) = {d} /\ d \in InProject(p)
      BY <3>1, <3>2, SliceHit
    <3>4. c \in InProject(p)
      BY <2>2, <3>3
    <3> HIDE DEF s
    <3> QED
      BY <3>1, <3>4 DEF InProject
  <2>6. CASE w = User
    <3>1. AfterFound(w) = "idle"
      BY <2>4, <2>6 DEF LookingUp, AskArgs, AfterFound
    <3>2. Frame(w) /\ pc'[w] = "idle"
      BY <2>2, <2>3, <2>6, <3>1, Moves DEF PCs
    <3> QED
      BY <2>3, <3>2, IdleOK, QuietStep DEF Critical
  <2>7. CASE w # User
    <3> DEFINE a == [arg[w] EXCEPT !.proj = c.proj]
    <3>0. arg' = [arg EXCEPT ![w] = a]
      BY <2>2, <2>7
    <3>1. w \in Writers
      BY <2>7 DEF Callers
    <3>2. arg'[w] = a
      BY <1>0, <3>0 DEF ShapeOK
    <3>3. CASE arg[w] \in RemoveArgs
      <4>1. AfterFound(w) = "remove" /\ a \in RemoveArgs /\ a.proj \in Projects
        BY <2>5, <3>3 DEF AfterFound, RemoveArgs
      <4>2. Frame(w) /\ pc'[w] = "remove"
        BY <2>3, <3>0, <4>1, Moves DEF PCs
      <4>3. CallerOK(w)'
        BY <3>1, <3>2, <4>1, <4>2 DEF CallerOK, Removing
      <4> QED
        BY <2>3, <4>2, <4>3, QuietStep DEF Critical
    <3>4. CASE arg[w] \in PauseArgs
      <4>1. AfterFound(w) = "project" /\ a \in PauseArgs /\ a.proj \in Projects
        BY <2>5, <3>4 DEF AfterFound, PauseArgs
      <4>2. Frame(w) /\ pc'[w] = "project"
        BY <2>3, <3>0, <4>1, Moves DEF PCs
      <4>3. CallerOK(w)'
        BY <3>1, <3>2, <4>1, <4>2 DEF CallerOK, Pausing
      <4> QED
        BY <2>3, <4>2, <4>3, QuietStep DEF Critical
    <3> QED
      BY <2>4, <2>7, <3>3, <3>4 DEF LookingUp
  <2> QED
    BY <2>6, <2>7
<1>3. CASE LookOn(w)
  <2>1. PICK p \in todo[w] : /\ Hits(slices[projects[p]], arg[w].id) = {}
                             /\ todo' = [todo EXCEPT ![w] = @ \ {p}]
    BY <1>3 DEF LookOn
  <2>2. pc[w] = "looking" /\ UNCHANGED <<projects, slices, pc, arg, obj, calls>>
    BY <1>3 DEF LookOn, Quiet
  <2>3. Frame(w) /\ pc'[w] = "looking"
    <3>1. pc' = [pc EXCEPT ![w] = "looking"]
      BY <1>0, <2>2 DEF ShapeOK
    <3> QED
      BY <2>1, <2>2, <3>1, Moves DEF PCs
  <2>4. todo'[w] = todo[w] \ {p}
    BY <1>0, <2>1 DEF ShapeOK
  <2>5. LookingUp(w) /\ Looking(w)
    BY <1>0, <2>2 DEF CallerOK
  <2>6. LookingUp(w)' /\ Looking(w)'
    BY <2>1, <2>2, <2>4, <2>5 DEF LookingUp, Looking
  <2>7. CallerOK(w)'
    BY <2>3, <2>6 DEF CallerOK
  <2> QED
    BY <2>2, <2>3, <2>7, QuietStep DEF Critical
<1>4. CASE LookMissed(w)
  <2>1. /\ pc[w] = "looking" /\ pc' = [pc EXCEPT ![w] = "idle"]
        /\ arg' = [arg EXCEPT ![w] = NoArg] /\ obj' = [obj EXCEPT ![w] = NoObject]
        /\ UNCHANGED <<projects, slices, todo, calls>>
    BY <1>4 DEF LookMissed, At, Returns
  <2>2. Frame(w) /\ pc'[w] = "idle"
    BY <2>1, Moves DEF PCs
  <2> QED
    BY <2>1, <2>2, IdleOK, QuietStep DEF Critical
<1> QED
  BY <1>1, <1>2, <1>3, <1>4

\* The beginnings of the calls of writers, but for Add.
LEMMA CallInv ==
    ASSUME Inv, NEW w \in Writers, NEW id \in IDs, NEW proj \in ProjectsTold(id),
           \/ w = Watch /\ Demise(id, proj)
           \/ \E paused \in BOOLEAN : Pause(w, id, proj, paused)
    PROVE  Inv'
<1>0. ShapeOK /\ w \in Callers
  BY WritersAre DEF Inv
<1>1. proj \in Projects \union {Unknown}
  BY DEF ProjectsTold, Projects
<1>2. CASE w = Watch /\ Demise(id, proj)
  <2> DEFINE a == [op |-> "remove", id |-> id, proj |-> proj]
             next == IF proj = Unknown THEN "lookup" ELSE "remove"
  <2>1. /\ pc[w] = "idle" /\ pc' = [pc EXCEPT ![w] = next]
        /\ arg' = [arg EXCEPT ![w] = a] /\ calls < MaxCalls /\ calls' = calls + 1
        /\ UNCHANGED <<projects, slices, todo, obj>>
    BY <1>2 DEF Demise, Begins, At, Quiet
  <2>2. a \in RemoveArgs /\ a.proj = proj /\ next \in PCs
    BY <1>1 DEF RemoveArgs, PCs
  <2>3. arg'[w] = a
    BY <1>0, <2>1 DEF ShapeOK
  <2> HIDE DEF a
  <2>4. Frame(w) /\ pc'[w] = next
    BY <1>0, <2>1, <2>2, Moves
  <2>5. CallerOK(w)'
    BY <1>1, <2>2, <2>3, <2>4, WritersAre DEF CallerOK, LookingUp, Removing
  <2> QED
    BY <1>0, <2>1, <2>4, <2>5, QuietStep DEF Critical
<1>3. ASSUME NEW paused \in BOOLEAN, Pause(w, id, proj, paused) PROVE Inv'
  <2> DEFINE a == [op |-> "setpaused", id |-> id, proj |-> proj, paused |-> paused]
             next == IF proj = Unknown THEN "lookup" ELSE "project"
  <2>1. /\ pc[w] = "idle" /\ pc' = [pc EXCEPT ![w] = next]
        /\ arg' = [arg EXCEPT ![w] = a] /\ calls < MaxCalls /\ calls' = calls + 1
        /\ UNCHANGED <<projects, slices, todo, obj>>
    BY <1>3 DEF Pause, Begins, At, Quiet
  <2>2. a \in PauseArgs /\ a.proj = proj /\ next \in PCs
    BY <1>1 DEF PauseArgs, PCs
  <2>3. arg'[w] = a
    BY <1>0, <2>1 DEF ShapeOK
  <2> HIDE DEF a
  <2>4. Frame(w) /\ pc'[w] = next
    BY <1>0, <2>1, <2>2, Moves
  <2>5. CallerOK(w)'
    BY <1>1, <2>2, <2>3, <2>4, WritersAre DEF CallerOK, LookingUp, Pausing
  <2> QED
    BY <1>0, <2>1, <2>4, <2>5, QuietStep DEF Critical
<1> QED
  BY <1>2, <1>3

LEMMA GetProjectInv == ASSUME Inv, NEW w \in Writers, GetProject(w) PROVE Inv'
<1>0. ShapeOK /\ w \in Callers /\ CallerOK(w)
  BY WritersAre DEF Inv
<1>1. /\ pc[w] = "project" /\ UNCHANGED <<projects, slices, todo, calls>>
      /\ Pausing(w)
  BY <1>0 DEF GetProject, Quiet, CallerOK
<1>2. CASE arg[w].proj \in DOMAIN projects
  <2>1. /\ pc' = [pc EXCEPT ![w] = "setting"] /\ UNCHANGED arg
        /\ obj' = [obj EXCEPT ![w] = projects[arg[w].proj]]
    BY <1>2 DEF GetProject, At
  <2>2. /\ projects[arg[w].proj] \in Objects
        /\ projects[arg[w].proj][1] = arg[w].proj
    BY <1>2, MapIs
  <2>3. Frame(w) /\ pc'[w] = "setting"
    BY <1>0, <1>1, <2>1, <2>2, Moves DEF PCs
  <2>4. obj'[w] = projects[arg[w].proj]
    BY <1>0, <2>1 DEF ShapeOK
  <2>5. CallerOK(w)'
    BY <1>1, <2>1, <2>2, <2>3, <2>4 DEF CallerOK, Pausing, Setting
  <2> QED
    BY <1>0, <1>1, <2>3, <2>5, QuietStep DEF Critical
<1>3. CASE arg[w].proj \notin DOMAIN projects
  <2>1. /\ pc' = [pc EXCEPT ![w] = "idle"] /\ arg' = [arg EXCEPT ![w] = NoArg]
        /\ obj' = [obj EXCEPT ![w] = NoObject]
    BY <1>3 DEF GetProject, At, Returns
  <2>2. Frame(w) /\ pc'[w] = "idle"
    BY <1>0, <1>1, <2>1, Moves DEF PCs
  <2> QED
    BY <1>0, <1>1, <2>2, IdleOK, QuietStep DEF Critical
<1> QED
  BY <1>2, <1>3

LEMMA RemoveNothingInv == ASSUME Inv, NEW w \in Writers, RemoveNothing(w) PROVE Inv'
<1>1. /\ pc[w] = "remove" /\ pc' = [pc EXCEPT ![w] = "idle"]
      /\ arg' = [arg EXCEPT ![w] = NoArg] /\ obj' = [obj EXCEPT ![w] = NoObject]
      /\ UNCHANGED <<projects, slices, todo, calls>> /\ w \in Callers
  BY WritersAre DEF RemoveNothing, At, Returns
<1>2. Frame(w) /\ pc'[w] = "idle"
  BY <1>1, Moves DEF PCs
<1> QED
  BY <1>1, <1>2, IdleOK, QuietStep DEF Critical

\* The user changes nothing.
LEMMA UserInv == ASSUME Inv, UserStep PROVE Inv'
<1>0. ShapeOK /\ User \in Callers
  BY WritersAre DEF Inv
<1>1. ASSUME NEW nameorid \in Keys, AskContainer(nameorid) PROVE Inv'
  <2> DEFINE a == [op |-> "container", id |-> nameorid]
  <2>1. /\ pc[User] = "idle" /\ pc' = [pc EXCEPT ![User] = "lookup"]
        /\ arg' = [arg EXCEPT ![User] = a]
        /\ UNCHANGED <<projects, slices, todo, obj, calls>>
    BY <1>1 DEF AskContainer, Query, At, Quiet
  <2>2. a \in AskArgs /\ arg'[User] = a
    BY <1>0, <2>1 DEF AskArgs, ShapeOK
  <2> HIDE DEF a
  <2>3. Frame(User) /\ pc'[User] = "lookup"
    BY <1>0, <2>1, Moves DEF PCs
  <2>4. CallerOK(User)'
    BY <2>2, <2>3 DEF CallerOK, LookingUp
  <2> QED
    BY <1>0, <2>1, <2>3, <2>4, QuietStep DEF Critical
<1>2. CASE AskNames
  <2>1. /\ pc[User] = "idle"
        /\ UNCHANGED <<projects, slices, pc, arg, todo, obj, calls>>
    BY <1>2 DEF AskNames
  <2>2. Frame(User) /\ pc'[User] = "idle"
    BY <1>0, <2>1, BoundAssumption DEF Frame, ShapeOK
  <2> QED
    BY <1>0, <2>1, <2>2, IdleOK, QuietStep DEF Critical
<1>3. CASE \E projs : AskProjects(projs)
  <2>1. PICK projs : AskProjects(projs)
    BY <1>3
  <2>2. /\ pc[User] = "idle" /\ pc' = [pc EXCEPT ![User] = "collect"]
        /\ \E a : arg' = [arg EXCEPT ![User] = a]
        /\ \E t : todo' = [todo EXCEPT ![User] = t]
        /\ UNCHANGED <<projects, slices, obj, calls>>
    BY <2>1 DEF AskProjects, Query, At, Quiet
  <2>3. Frame(User) /\ pc'[User] = "collect"
    BY <1>0, <2>2, Moves DEF PCs
  <2> QED
    BY <1>0, <2>2, <2>3, IdleOK, QuietStep DEF Critical
<1>4. CASE AskTotal
  <2>1. /\ pc[User] = "idle" /\ pc' = [pc EXCEPT ![User] = "count"]
        /\ \E a : arg' = [arg EXCEPT ![User] = a]
        /\ \E t : todo' = [todo EXCEPT ![User] = t]
        /\ UNCHANGED <<projects, slices, obj, calls>>
    BY <1>4 DEF AskTotal, Query, At, Quiet
  <2>2. Frame(User) /\ pc'[User] = "count"
    BY <1>0, <2>1, Moves DEF PCs
  <2> QED
    BY <1>0, <2>1, <2>2, IdleOK, QuietStep DEF Critical
<1>5. CASE CollectProject \/ CountProject
  <2>1. /\ pc[User] \in {"collect", "count"}
        /\ \E t : todo' = [todo EXCEPT ![User] = t]
        /\ UNCHANGED <<projects, slices, pc, arg, obj, calls>>
    BY <1>5 DEF CollectProject, CountProject, Quiet
  <2>2. pc' = [pc EXCEPT ![User] = pc[User]] /\ pc[User] \in PCs
    BY <1>0, <2>1 DEF ShapeOK
  <2>3. Frame(User) /\ pc'[User] = pc[User]
    BY <1>0, <2>1, <2>2, Moves
  <2> QED
    BY <1>0, <2>1, <2>3, IdleOK, QuietStep DEF Critical
<1>6. CASE QueryEnd
  <2>1. /\ pc[User] \in {"collect", "count"} /\ pc' = [pc EXCEPT ![User] = "idle"]
        /\ arg' = [arg EXCEPT ![User] = NoArg] /\ obj' = [obj EXCEPT ![User] = NoObject]
        /\ todo' = [todo EXCEPT ![User] = {}]
        /\ UNCHANGED <<projects, slices, calls>>
    BY <1>6 DEF QueryEnd, At, Returns, Quiet
  <2>2. Frame(User) /\ pc'[User] = "idle"
    BY <1>0, <2>1, Moves DEF PCs
  <2> QED
    BY <1>0, <2>1, <2>2, IdleOK, QuietStep DEF Critical
<1> QED
  BY <1>1, <1>2, <1>3, <1>4, <1>5, <1>6 DEF UserStep

\* A step of the one who has the portfolio's lock for writing, gets or releases it.
LEMMA LockedStep ==
    ASSUME Inv, NEW w \in Callers, Frame(w),
           \A v \in Callers \ {w} : pc[v] \notin {"adding", "removing", "looking"},
           MapOK', SlicesOK', NamesOK', CallerOK(w)'
    PROVE  Inv'
<1>1. LockOK'
  BY DEF LockOK, Frame
<1>2. ASSUME NEW v \in Callers PROVE CallerOK(v)'
  <2>1. CASE v # w
    <3>1. ~Critical(v) /\ pc[v] # "looking"
      BY <2>1 DEF Critical
    <3> QED
      BY <2>1, <3>1, OthersOK DEF Frame
  <2> QED
    BY <2>1
<1> QED
  BY <1>1, <1>2 DEF Inv, Frame

\* One slice changes.
LEMMA SliceStep ==
    ASSUME Inv, UNCHANGED projects, NEW o \in Objects, NEW t, SliceOK(t, o[1]),
           Attached(o), slices' = [slices EXCEPT ![o] = t]
    PROVE  /\ SlicesOK' /\ slices'[o] = t
           /\ \A x \in Objects \ {o} : slices'[x] = slices[x]
<1>1. /\ DOMAIN slices' = Objects /\ slices'[o] = t
      /\ \A x \in Objects \ {o} : slices'[x] = slices[x]
  BY DEF Inv, SlicesOK
<1>2. \A x \in Objects : SliceOK(slices'[x], x[1])
  BY <1>1 DEF Inv, SlicesOK
<1>3. \A x \in Objects : ~Attached(x)' => ~Attached(x) /\ x # o
  BY DEF Attached
<1>4. \A x \in Objects : ~Attached(x)' => slices'[x] = <<>>
  BY <1>1, <1>3 DEF Inv, SlicesOK
<1> QED
  BY <1>1, <1>2, <1>4 DEF SlicesOK

LEMMA MapSame ==
    ASSUME Inv, UNCHANGED projects, calls <= calls', calls' \in Nat PROVE MapOK'
<1>1. 0..calls \subseteq 0..calls'
  BY DEF Inv, ShapeOK
<1> QED
  BY <1>1 DEF Inv, MapOK
-----------------------------------------------------------------------------
(***************************************************************************)
(* Portfolio.Add.                                                          *)
(***************************************************************************)

\* The project that is found or made for a container.
LEMMA Found ==
    ASSUME Inv, NEW w \in Writers, NEW c \in Inspected, AddBegin(w, c)
    PROVE  \E o \in Objects :
             /\ obj' = [obj EXCEPT ![w] = o] /\ SliceOK(slices[o], c.proj)
             /\ DOMAIN projects' = DOMAIN projects \union {c.proj}
             /\ projects'[c.proj] = o
             /\ \A p \in DOMAIN projects : projects'[p] = projects[p]
             /\ \E k \in 0..calls' : o = <<c.proj, k>>
             /\ c.proj \in DOMAIN projects \/ ~Attached(o)
<1> DEFINE o == IF c.proj \notin DOMAIN projects THEN <<c.proj, calls'>>
                ELSE projects[c.proj]
<1>1. /\ projects' = [p \in DOMAIN projects \union {c.proj} |->
                         IF p = c.proj THEN o ELSE projects[p]]
      /\ obj' = [obj EXCEPT ![w] = o]
      /\ calls < MaxCalls /\ calls' = calls + 1 /\ calls \in 0..MaxCalls
  BY DEF AddBegin, MakesProject, Begins, Inv, ShapeOK
<1>2. /\ DOMAIN projects' = DOMAIN projects \union {c.proj}
      /\ projects'[c.proj] = o
      /\ \A p \in DOMAIN projects \ {c.proj} : projects'[p] = projects[p]
  BY <1>1
<1>3. calls' \in 0..MaxCalls /\ c.proj \in Projects
  BY <1>1, BoundAssumption, ProjectsAre
<1>4. CASE c.proj \in DOMAIN projects
  <2>1. o \in Objects /\ SliceOK(slices[o], c.proj)
    BY <1>4, MapIs
  <2>2. PICK k \in 0..calls : o = <<c.proj, k>>
    BY <1>4 DEF Inv, MapOK
  <2>3. k \in 0..calls'
    BY <1>1, BoundAssumption
  <2>4. \A p \in DOMAIN projects : projects'[p] = projects[p]
    BY <1>2, <1>4
  <2> HIDE DEF o
  <2> QED
    BY <1>1, <1>2, <1>4, <2>1, <2>2, <2>3, <2>4
<1>5. CASE c.proj \notin DOMAIN projects
  <2>1. o = <<c.proj, calls'>> /\ o \in Objects /\ o[1] = c.proj
    BY <1>3, <1>5 DEF Objects
  <2>2. calls' \in 0..calls'
    BY <1>3
  <2>3. ~Attached(o)
    BY <2>1, <1>5 DEF Attached, Inv, MapOK
  <2>4. SliceOK(slices[o], c.proj)
    BY <2>1 DEF Inv, SlicesOK
  <2>5. \A p \in DOMAIN projects : projects'[p] = projects[p]
    BY <1>2, <1>5
  <2> HIDE DEF o
  <2> QED
    BY <1>1, <1>2, <2>1, <2>2, <2>3, <2>4, <2>5
<1> QED
  BY <1>4, <1>5

LEMMA AddBeginInv ==
    ASSUME Inv, NEW w \in Writers, NEW c \in Inspected, AddBegin(w, c) PROVE Inv'
<1>0. ShapeOK /\ w \in Callers /\ c.proj \in Projects
  BY WritersAre, ProjectsAre DEF Inv
<1>1. PICK o \in Objects :
        /\ obj' = [obj EXCEPT ![w] = o] /\ SliceOK(slices[o], c.proj)
        /\ DOMAIN projects' = DOMAIN projects \union {c.proj}
        /\ projects'[c.proj] = o
        /\ \A p \in DOMAIN projects : projects'[p] = projects[p]
        /\ \E k \in 0..calls' : o = <<c.proj, k>>
        /\ c.proj \in DOMAIN projects \/ ~Attached(o)
  BY Found
<1> DEFINE a == [op |-> "add", cntr |-> c]
<1>2. /\ pc' = [pc EXCEPT ![w] = "adding"] /\ NoWriter /\ NoReader
      /\ arg' = [arg EXCEPT ![w] = a] /\ calls < MaxCalls /\ calls' = calls + 1
      /\ UNCHANGED <<slices, todo>>
  BY DEF AddBegin, At, Begins, Quiet
<1>3. Frame(w) /\ pc'[w] = "adding"
  BY <1>0, <1>1, <1>2, Moves DEF PCs
<1>4. arg'[w] = a /\ a \in AddArgs /\ a.cntr = c /\ obj'[w] = o
  BY <1>0, <1>1, <1>2 DEF ShapeOK, AddArgs
<1> HIDE DEF a
<1>5. CallerOK(w)'
  BY <1>1, <1>3, <1>4 DEF CallerOK, Adding
<1>6. MapOK'
  <2>1. 0..calls \subseteq 0..calls'
    BY <1>0, <1>2 DEF ShapeOK
  <2>2. ASSUME NEW p \in DOMAIN projects' PROVE \E k \in 0..calls' : projects'[p] = <<p, k>>
    <3>1. CASE p \in DOMAIN projects
      BY <1>1, <2>1, <3>1 DEF Inv, MapOK
    <3>2. CASE p = c.proj
      BY <1>1, <3>2
    <3> QED
      BY <1>1, <3>1, <3>2
  <2> QED
    BY <1>0, <1>1, <2>2 DEF Inv, MapOK
<1>7. SlicesOK'
  <2>1. \A x \in Objects : ~Attached(x)' => ~Attached(x)
    BY <1>1 DEF Attached
  <2> QED
    BY <1>2, <2>1 DEF Inv, SlicesOK
<1>8. NamesOK'
  <2> SUFFICES ASSUME NEW p \in DOMAIN projects' \ {Zero}, slices'[projects'[p]] = <<>>
               PROVE  projects'[p] = o
    BY <1>3, <1>4 DEF NamesOK
  <2>1. CASE p \in DOMAIN projects
    <3>1. slices[projects[p]] = <<>>
      BY <1>1, <1>2, <2>1
    <3>2. \A v \in Writers : pc[v] \notin {"adding", "removing"}
      BY <1>2, WritersAre DEF NoWriter
    <3> QED
      BY <2>1, <3>1, <3>2 DEF Inv, NamesOK
  <2> QED
    BY <1>1, <2>1
<1>9. \A v \in Callers \ {w} : pc[v] \notin {"adding", "removing", "looking"}
  BY <1>2 DEF NoWriter, NoReader
<1> QED
  BY <1>0, <1>3, <1>5, <1>6, <1>7, <1>8, <1>9, LockedStep

\* What Add leaves in the project.
LEMMA Added ==
    ASSUME Inv, NEW w \in Writers, AddContainer(w)
    PROVE  LET c == arg[w].cntr
               s == slices[obj[w]]
               t == slices'[obj[w]]
           IN  /\ pc[w] = "adding" /\ Adding(w) /\ obj[w] \in Objects
               /\ Attached(obj[w]) /\ obj[w][1] = c.proj
               /\ SliceOK(s, c.proj) /\ SliceOK(t, c.proj) /\ t # <<>>
               /\ Elements(t) = IF Knows(s, c) THEN Elements(s) ELSE Elements(s) \union {c}
               /\ slices' = [slices EXCEPT ![obj[w]] = t]
<1> DEFINE c == arg[w].cntr
           o == obj[w]
           s == slices[o]
           t == IF ~Knows(s, c) THEN Append(s, c) ELSE s
<1>1. pc[w] = "adding" /\ Adding(w)
  BY WritersAre DEF AddContainer, At, Inv, CallerOK
<1>2. c \in Inspected /\ c.proj \in DOMAIN projects /\ o = projects[c.proj]
  BY <1>1 DEF Adding, AddArgs
<1>3. o \in Objects /\ o[1] = c.proj /\ SliceOK(s, c.proj) /\ Attached(o)
  BY <1>2, MapIs DEF Attached
<1>4. slices' = [slices EXCEPT ![o] = t] /\ slices'[o] = t
  BY <1>3 DEF AddContainer, Inv, SlicesOK
<1>5. c \in InProject(c.proj)
  BY <1>2, ProjectsAre
<1>6. /\ SliceOK(t, c.proj) /\ t # <<>>
      /\ Elements(t) = IF Knows(s, c) THEN Elements(s) ELSE Elements(s) \union {c}
  <2>1. CASE Knows(s, c)
    <3>1. \E i : i \in 1..Len(s)
      BY <2>1 DEF Knows
    <3>2. s # <<>>
      BY <3>1, EmptySeq
    <3> QED
      BY <1>3, <2>1, <3>2
  <2>2. CASE ~Knows(s, c)
    <3>1. SliceOK(t, c.proj) /\ Elements(t) = Elements(s) \union {c}
      BY <1>3, <1>5, <2>2, SliceAppend
    <3>2. t # <<>>
      BY <3>1, SliceEmpty
    <3> QED
      BY <2>2, <3>1, <3>2
  <2> QED
    BY <2>1, <2>2
<1> HIDE DEF t
<1> QED
  BY <1>1, <1>3, <1>4, <1>6

LEMMA AddContainerInv == ASSUME Inv, NEW w \in Writers, AddContainer(w) PROVE Inv'
<1> DEFINE o == obj[w]
<1>0. ShapeOK /\ w \in Callers
  BY WritersAre DEF Inv
<1>1. /\ pc[w] = "adding" /\ o \in Objects /\ Attached(o) /\ SliceOK(slices'[o], o[1])
      /\ slices'[o] # <<>> /\ slices' = [slices EXCEPT ![o] = slices'[o]]
  BY Added
<1>2. /\ pc' = [pc EXCEPT ![w] = "idle"] /\ arg' = [arg EXCEPT ![w] = NoArg]
      /\ obj' = [obj EXCEPT ![w] = NoObject] /\ UNCHANGED <<projects, todo, calls>>
  BY DEF AddContainer, At, Returns
<1>3. Frame(w) /\ pc'[w] = "idle"
  BY <1>0, <1>2, Moves DEF PCs
<1>4. CallerOK(w)'
  BY <1>3, IdleOK
<1>5. MapOK'
  BY <1>0, <1>2, MapSame DEF ShapeOK
<1>6. SlicesOK' /\ \A x \in Objects \ {o} : slices'[x] = slices[x]
  BY <1>1, <1>2, SliceStep
<1>7. \A v \in Callers \ {w} : pc[v] \notin {"adding", "removing", "looking"}
  BY <1>0, <1>1 DEF Inv, LockOK
<1>8. NamesOK'
  <2> SUFFICES ASSUME NEW p \in DOMAIN projects \ {Zero}, projects[p] # o
               PROVE  slices'[projects[p]] # <<>>
    BY <1>1, <1>2 DEF NamesOK
  <2>1. projects[p] \in Objects
    BY MapIs
  <2>2. slices[projects[p]] # <<>>
    BY <1>7, WritersAre DEF Inv, NamesOK
  <2> QED
    BY <1>6, <2>1, <2>2
<1> QED
  BY <1>0, <1>3, <1>4, <1>5, <1>6, <1>7, <1>8, LockedStep
-----------------------------------------------------------------------------
(***************************************************************************)
(* Portfolio.Remove.                                                       *)
(***************************************************************************)

\* What Remove leaves in the project.
LEMMA Taken ==
    ASSUME Inv, NEW w \in Writers, RemoveContainer(w)
    PROVE  LET id == arg[w].id
               o == projects[arg[w].proj]
               s == slices[o]
               t == slices'[o]
           IN  /\ pc[w] = "remove" /\ Removing(w) /\ o \in Objects
               /\ Attached(o) /\ o[1] = arg[w].proj
               /\ SliceOK(s, o[1]) /\ SliceOK(t, o[1])
               /\ Elements(t) = Elements(s) \ Hit(s, id)
               /\ slices' = [slices EXCEPT ![o] = t]
<1> DEFINE id == arg[w].id
           o == projects[arg[w].proj]
           s == slices[o]
           t == IF Hits(s, id) = {} THEN s ELSE SwapDelete(s, First(s, id))
<1>1. pc[w] = "remove" /\ Removing(w) /\ arg[w].proj \in DOMAIN projects
  BY WritersAre DEF RemoveContainer, At, Inv, CallerOK
<1>2. o \in Objects /\ o[1] = arg[w].proj /\ SliceOK(s, o[1]) /\ Attached(o)
  BY <1>1, MapIs DEF Attached
<1>3. slices' = [slices EXCEPT ![o] = t] /\ slices'[o] = t
  BY <1>2 DEF RemoveContainer, Inv, SlicesOK
<1>4. SliceOK(t, o[1]) /\ Elements(t) = Elements(s) \ Hit(s, id)
  <2>1. CASE Hits(s, id) = {}
    BY <1>2, <2>1, SliceNoHit
  <2>2. CASE Hits(s, id) # {}
    <3>1. Hit(s, id) = {s[First(s, id)]} /\ First(s, id) \in 1..Len(s)
      BY <1>2, <2>2, SliceHit
    <3> QED
      BY <1>2, <2>2, <3>1, SliceRemove
  <2> QED
    BY <2>1, <2>2
<1> HIDE DEF t
<1> QED
  BY <1>1, <1>2, <1>3, <1>4

LEMMA RemoveContainerInv == ASSUME Inv, NEW w \in Writers, RemoveContainer(w) PROVE Inv'
<1> DEFINE o == projects[arg[w].proj]
<1>0. ShapeOK /\ w \in Callers
  BY WritersAre DEF Inv
<1>1. /\ pc[w] = "remove" /\ Removing(w) /\ o \in Objects /\ Attached(o)
      /\ SliceOK(slices'[o], o[1]) /\ slices' = [slices EXCEPT ![o] = slices'[o]]
  BY Taken
<1>2. /\ pc' = [pc EXCEPT ![w] = "removing"] /\ obj' = [obj EXCEPT ![w] = o]
      /\ UNCHANGED <<projects, arg, todo, calls>> /\ NoWriter /\ NoReader
      /\ arg[w].proj \in DOMAIN projects
  BY DEF RemoveContainer, At
<1>3. Frame(w) /\ pc'[w] = "removing" /\ obj'[w] = o
  BY <1>0, <1>1, <1>2, Moves DEF PCs, ShapeOK
<1>4. CallerOK(w)'
  BY <1>1, <1>2, <1>3 DEF CallerOK, Removing, Removed
<1>5. MapOK'
  BY <1>0, <1>2, MapSame DEF ShapeOK
<1>6. SlicesOK' /\ \A x \in Objects \ {o} : slices'[x] = slices[x]
  BY <1>1, <1>2, SliceStep
<1>7. \A v \in Callers : pc[v] \notin {"adding", "removing", "looking"}
  BY <1>2 DEF NoWriter, NoReader
<1>8. NamesOK'
  <2> SUFFICES ASSUME NEW p \in DOMAIN projects \ {Zero}, projects[p] # o
               PROVE  slices'[projects[p]] # <<>>
    BY <1>2, <1>3 DEF NamesOK
  <2>1. projects[p] \in Objects
    BY MapIs
  <2>2. slices[projects[p]] # <<>>
    BY <1>7, WritersAre DEF Inv, NamesOK
  <2> QED
    BY <1>6, <2>1, <2>2
<1> QED
  BY <1>0, <1>3, <1>4, <1>5, <1>6, <1>7, <1>8, LockedStep

\* Only a project that has become empty is dropped.
LEMMA Dropped ==
    ASSUME Inv, NEW w \in Writers, RemoveProject(w)
    PROVE  LET proj == arg[w].proj
           IN  /\ pc[w] = "removing" /\ proj \in DOMAIN projects
               /\ obj[w] = projects[proj]
               /\ \/ UNCHANGED projects /\ (proj = Zero \/ slices[projects[proj]] # <<>>)
                  \/ /\ projects' = [p \in DOMAIN projects \ {proj} |-> projects[p]]
                     /\ proj # Zero /\ slices[projects[proj]] = <<>>
<1> DEFINE proj == arg[w].proj
           s == slices[projects[proj]]
<1>1. pc[w] = "removing" /\ Removed(w)
  BY WritersAre DEF RemoveProject, At, Inv, CallerOK
<1>2. proj \in DOMAIN projects /\ obj[w] = projects[proj]
  BY <1>1 DEF Removed
<1>3. s \in Seq(InProject(proj))
  BY <1>2, MapIs DEF SliceOK
<1>4. Len(s) = 0 <=> s = <<>>
  BY <1>3, EmptySeq
<1> QED
  BY <1>1, <1>2, <1>4 DEF RemoveProject, DropsProject

LEMMA RemoveProjectInv == ASSUME Inv, NEW w \in Writers, RemoveProject(w) PROVE Inv'
<1> DEFINE proj == arg[w].proj
<1>0. ShapeOK /\ w \in Callers
  BY WritersAre DEF Inv
<1>1. /\ pc[w] = "removing" /\ proj \in DOMAIN projects /\ obj[w] = projects[proj]
      /\ \/ UNCHANGED projects /\ (proj = Zero \/ slices[projects[proj]] # <<>>)
         \/ /\ projects' = [p \in DOMAIN projects \ {proj} |-> projects[p]]
            /\ proj # Zero /\ slices[projects[proj]] = <<>>
  BY Dropped
<1>2. /\ pc' = [pc EXCEPT ![w] = "idle"] /\ arg' = [arg EXCEPT ![w] = NoArg]
      /\ obj' = [obj EXCEPT ![w] = NoObject] /\ UNCHANGED <<slices, todo, calls>>
  BY DEF RemoveProject, At, Returns, Quiet
<1>3. Frame(w) /\ pc'[w] = "idle"
  BY <1>0, <1>2, Moves DEF PCs
<1>4. CallerOK(w)'
  BY <1>3, IdleOK
<1>5. \A p \in DOMAIN projects' : p \in DOMAIN projects /\ projects'[p] = projects[p]
  BY <1>1
<1>6. MapOK'
  <2>1. Zero \in DOMAIN projects'
    BY <1>1 DEF Inv, MapOK
  <2> QED
    BY <1>2, <1>5, <2>1 DEF Inv, MapOK
<1>7. SlicesOK'
  <2>1. ASSUME NEW x \in Objects, ~Attached(x)' PROVE slices[x] = <<>>
    <3>1. CASE Attached(x)
      <4>1. PICK p \in DOMAIN projects : projects[p] = x
        BY <3>1 DEF Attached
      <4>2. p \notin DOMAIN projects'
        BY <1>5, <2>1, <4>1 DEF Attached
      <4> QED
        BY <1>1, <4>1, <4>2
    <3> QED
      BY <3>1 DEF Inv, SlicesOK
  <2> QED
    BY <1>2, <2>1 DEF Inv, SlicesOK
<1>8. \A v \in Callers \ {w} : pc[v] \notin {"adding", "removing", "looking"}
  BY <1>0, <1>1 DEF Inv, LockOK
<1>9. NamesOK'
  <2> SUFFICES ASSUME NEW p \in DOMAIN projects' \ {Zero}, slices[projects[p]] = <<>>
               PROVE  FALSE
    BY <1>2, <1>5 DEF NamesOK
  <2>1. p \in DOMAIN projects
    BY <1>5
  <2>2. projects[p] = obj[w]
    BY <1>8, <2>1, WritersAre DEF Inv, NamesOK
  <2>3. p = proj
    BY <1>1, <2>1, <2>2, MapIs
  <2> QED
    BY <1>1, <2>3
<1> QED
  BY <1>0, <1>3, <1>4, <1>6, <1>7, <1>8, <1>9, LockedStep
-----------------------------------------------------------------------------
(***************************************************************************)
(* SetPaused.                                                              *)
(***************************************************************************)

\* What SetPaused leaves in the project, if it finds the container.
LEMMA Set ==
    ASSUME Inv, NEW w \in Writers, SetPaused(w)
    PROVE  LET id == arg[w].id
               o == obj[w]
               s == slices[o]
               t == slices'[o]
               c == s[First(s, id)]
               d == Switched(c, arg[w].paused)
           IN  /\ pc[w] = "setting" /\ Pausing(w) /\ o \in Objects /\ o[1] = arg[w].proj
               /\ SliceOK(s, o[1])
               /\ Hits(s, id) = {} => UNCHANGED slices
               /\ Hits(s, id) # {} =>
                    /\ Attached(o) /\ Hit(s, id) = {c} /\ Hit(t, id) = {d}
                    /\ SliceOK(t, o[1]) /\ t # <<>>
                    /\ c \in Elements(s) /\ c \in InProject(o[1]) /\ id \in {c.id, c.name}
                    /\ Elements(t) = (Elements(s) \ {c}) \union {d}
                    /\ \A q : Hits(t, q) = Hits(s, q)
                    /\ slices' = [slices EXCEPT ![o] = t]
<1> DEFINE id == arg[w].id
           o == obj[w]
           s == slices[o]
           i == First(s, id)
           c == s[i]
           d == Switched(c, arg[w].paused)
           t == SwitchedAt(s, i, arg[w].paused)
<1>1. pc[w] = "setting" /\ Pausing(w) /\ Setting(w)
  BY WritersAre DEF SetPaused, At, Inv, CallerOK
<1>2. /\ o \in Objects /\ o[1] = arg[w].proj /\ arg[w].paused \in BOOLEAN
      /\ SliceOK(s, o[1])
  BY <1>1 DEF Setting, Pausing, PauseArgs, Inv, SlicesOK
<1>3. Hits(s, id) = {} => UNCHANGED slices
  BY DEF SetPaused
<1>4. ASSUME Hits(s, id) # {}
      PROVE  /\ Attached(o) /\ Hit(s, id) = {c} /\ Hit(t, id) = {d}
             /\ SliceOK(t, o[1]) /\ t # <<>>
             /\ c \in Elements(s) /\ c \in InProject(o[1]) /\ id \in {c.id, c.name}
             /\ Elements(t) = (Elements(s) \ {c}) \union {d}
             /\ \A q : Hits(t, q) = Hits(s, q)
             /\ slices' = [slices EXCEPT ![o] = t] /\ slices'[o] = t
  <2>1. /\ Hit(s, id) = {c} /\ c \in Elements(s) /\ c \in InProject(o[1])
        /\ id \in {c.id, c.name} /\ i \in 1..Len(s)
    BY <1>2, <1>4, SliceHit
  <2>2. Attached(o)
    <3>1. Hits(<<>>, id) = {}
      BY SliceEmpty, SliceNoHit
    <3> QED
      BY <1>2, <1>4, <3>1 DEF Inv, SlicesOK
  <2>3. /\ SliceOK(t, o[1]) /\ Len(t) = Len(s) /\ t[i] = d
        /\ \A j \in 1..Len(s) : t[j].id = s[j].id /\ t[j].name = s[j].name
        /\ Elements(t) = (Elements(s) \ {c}) \union {d}
    <3>1. SliceOK(s, o[1]) /\ i \in 1..Len(s) /\ arg[w].paused \in BOOLEAN
      BY <1>2, <2>1
    <3> QED
      BY <3>1, SlicePause
  <2>4. slices' = [slices EXCEPT ![o] = t] /\ slices'[o] = t
    BY <1>2, <1>4 DEF SetPaused, SwitchedAt, Inv, SlicesOK
  <2> HIDE DEF t
  <2>5. \A q : Hits(t, q) = Hits(s, q) /\ First(t, q) = First(s, q)
    BY <2>3, SameHits
  <2>6. Hit(t, id) = {d}
    BY <1>4, <2>3, <2>5 DEF Hit
  <2>7. t # <<>>
    BY <2>3, SliceEmpty
  <2> QED
    BY <2>1, <2>2, <2>3, <2>4, <2>5, <2>6, <2>7
<1> HIDE DEF t
<1> QED
  BY <1>1, <1>2, <1>3, <1>4

LEMMA SetPausedInv == ASSUME Inv, NEW w \in Writers, SetPaused(w) PROVE Inv'
<1> DEFINE o == obj[w]
<1>0. ShapeOK /\ w \in Callers
  BY WritersAre DEF Inv
<1>1. /\ pc[w] = "setting" /\ pc' = [pc EXCEPT ![w] = "idle"]
      /\ arg' = [arg EXCEPT ![w] = NoArg] /\ obj' = [obj EXCEPT ![w] = NoObject]
      /\ UNCHANGED <<projects, todo, calls>>
  BY DEF SetPaused, At, Returns
<1>2. Frame(w) /\ pc'[w] = "idle"
  BY <1>0, <1>1, Moves DEF PCs
<1>3. CallerOK(w)'
  BY <1>2, IdleOK
<1>4. CASE Hits(slices[o], arg[w].id) = {}
  <2>1. UNCHANGED slices
    BY <1>4, Set
  <2> QED
    BY <1>0, <1>1, <1>2, <1>3, <2>1, QuietStep DEF Critical
<1>5. CASE Hits(slices[o], arg[w].id) # {}
  <2>1. /\ o \in Objects /\ Attached(o) /\ SliceOK(slices'[o], o[1])
        /\ slices'[o] # <<>> /\ \A q : Hits(slices'[o], q) = Hits(slices[o], q)
        /\ slices' = [slices EXCEPT ![o] = slices'[o]]
    BY <1>5, Set
  <2>2. SlicesOK' /\ \A x \in Objects \ {o} : slices'[x] = slices[x]
    BY <1>1, <2>1, SliceStep
  <2>3. \A p \in DOMAIN projects : \A q :
          Hits(slices'[projects[p]], q) = Hits(slices[projects[p]], q)
    BY <2>1, <2>2, MapIs
  <2>4. MapOK'
    BY <1>0, <1>1, MapSame DEF ShapeOK
  <2>5. LockOK'
    BY <1>2 DEF Inv, LockOK, Frame
  <2>6. NamesOK'
    <3> SUFFICES ASSUME NEW p \in DOMAIN projects \ {Zero}, slices'[projects[p]] = <<>>
                 PROVE  \E v \in Writers : Critical(v)' /\ obj'[v] = projects[p]
      BY <1>1 DEF NamesOK, Critical
    <3>1. slices[projects[p]] = <<>>
      BY <2>1, <2>2, MapIs
    <3>2. PICK v \in Writers : Critical(v) /\ obj[v] = projects[p]
      BY <3>1 DEF Inv, NamesOK, Critical
    <3>3. v \in Callers \ {w}
      BY <1>1, <3>2, WritersAre DEF Critical
    <3> QED
      BY <1>2, <3>2, <3>3 DEF Frame, Critical
  <2>7. ASSUME NEW v \in Callers PROVE CallerOK(v)'
    <3>1. CASE v # w
      BY <1>1, <1>2, <2>3, <3>1, OthersOK DEF Frame
    <3> QED
      BY <1>3, <3>1
  <2> QED
    BY <1>2, <2>2, <2>4, <2>5, <2>6, <2>7 DEF Inv, Frame
<1> QED
  BY <1>4, <1>5
-----------------------------------------------------------------------------
(***************************************************************************)
(* Every step keeps the invariant.                                         *)
(***************************************************************************)
LEMMA InvNext == Inv /\ [Next]_vars => Inv'
<1> SUFFICES ASSUME Inv, [Next]_vars PROVE Inv'
  OBVIOUS
<1>1. CASE WriterStep
  <2>1. ASSUME NEW w \in Writers, NEW c \in Inspected, AddBegin(w, c) PROVE Inv'
    BY <2>1, AddBeginInv
  <2>2. ASSUME NEW w \in Writers, NEW id \in IDs, NEW paused \in BOOLEAN,
               NEW proj \in ProjectsTold(id), Pause(w, id, proj, paused)
        PROVE  Inv'
    BY <2>2, CallInv
  <2>3. ASSUME NEW w \in Writers, AddContainer(w) \/ GetProject(w) \/ SetPaused(w)
        PROVE  Inv'
    BY <2>3, AddContainerInv, GetProjectInv, SetPausedInv
  <2>4. ASSUME NEW w \in Writers,
               RemoveContainer(w) \/ RemoveProject(w) \/ RemoveNothing(w)
        PROVE  Inv'
    BY <2>4, RemoveContainerInv, RemoveProjectInv, RemoveNothingInv
  <2>5. ASSUME NEW id \in IDs, NEW proj \in ProjectsTold(id), Demise(id, proj)
        PROVE  Inv'
    BY <2>5, CallInv, WritersAre
  <2> QED
    BY <1>1, <2>1, <2>2, <2>3, <2>4, <2>5 DEF WriterStep
<1>2. CASE \E w \in Callers : LookBegin(w) \/ LookHit(w) \/ LookOn(w) \/ LookMissed(w)
  BY <1>2, LookInv
<1>3. CASE UserStep
  BY <1>3, UserInv
<1>4. CASE UNCHANGED vars
  <2>1. UNCHANGED <<projects, slices, pc, obj, arg, todo, calls>>
    BY <1>4 DEF vars
  <2>2. ShapeOK' /\ MapOK' /\ LockOK' /\ NamesOK'
    BY <2>1 DEF Inv, ShapeOK, MapOK, LockOK, NamesOK
  <2>3. SlicesOK'
    BY <2>1 DEF Inv, SlicesOK, Attached
  <2>4. ASSUME NEW w \in Callers PROVE CallerOK(w)'
    <3>1. CallerOK(w)
      BY DEF Inv
    <3> QED
      BY <2>1, <3>1 DEF CallerOK, Adding, LookingUp, Looking, Removing, Removed, Pausing,
                        Setting
  <2> QED
    BY <2>2, <2>3, <2>4 DEF Inv
<1> QED
  BY <1>1, <1>2, <1>3, <1>4 DEF Next

LEMMA InvCorrect == Spec => []Inv
BY InvInit, InvNext, PTL DEF Spec
-----------------------------------------------------------------------------
(***************************************************************************)
(* What is stored, as the users of the portfolio see it.                   *)
(***************************************************************************)

\* A project's containers are those that say so.
LEMMA StoredIs ==
    ASSUME Inv
    PROVE  /\ Stored \subseteq Containers
           /\ \A c \in Stored : c.proj \in DOMAIN projects /\ Identity(c) \in Births
           /\ \A p \in DOMAIN projects : \A c : c \in Elements(slices[projects[p]]) <=>
                                              c \in Stored /\ c.proj = p
           /\ \A c, d \in Stored : Identity(c) = Identity(d) => c = d
<1>1. ASSUME NEW p \in DOMAIN projects
      PROVE  /\ Elements(slices[projects[p]]) \subseteq InProject(p)
             /\ \A c, d \in Elements(slices[projects[p]]) : Identity(c) = Identity(d) => c = d
  BY MapIs, SliceElements
<1>2. ASSUME NEW c \in Stored
      PROVE  /\ c.proj \in DOMAIN projects /\ c \in InProject(c.proj)
             /\ c \in Elements(slices[projects[c.proj]])
  <2>1. PICK p \in DOMAIN projects : c \in Elements(slices[projects[p]])
    BY DEF Stored, StoredIn
  <2>2. c \in InProject(p) /\ c.proj = p
    BY <1>1, <2>1 DEF InProject
  <2> QED
    BY <2>1, <2>2
<1>3. ASSUME NEW p \in DOMAIN projects, NEW c \in Elements(slices[projects[p]])
      PROVE  c \in Stored /\ c.proj = p
  BY <1>1 DEF Stored, StoredIn, InProject
<1>4. \A c, d \in Stored : Identity(c) = Identity(d) => c.proj = d.proj
  BY DEF Identity
<1> QED
  BY <1>1, <1>2, <1>3, <1>4 DEF InProject

\* One slice changes, and with it what is stored.
LEMMA StoredStep ==
    ASSUME Inv, Inv', UNCHANGED projects, NEW p \in DOMAIN projects, NEW t,
           slices' = [slices EXCEPT ![projects[p]] = t]
    PROVE  Stored' = (Stored \ Elements(slices[projects[p]])) \union Elements(t)
<1>1. /\ slices'[projects[p]] = t
      /\ \A q \in DOMAIN projects \ {p} : slices'[projects[q]] = slices[projects[q]]
  BY MapIs DEF Inv, SlicesOK
<1>2. ASSUME NEW c
      PROVE  c \in Stored' <=> \/ c \in Stored /\ c \notin Elements(slices[projects[p]])
                               \/ c \in Elements(t)
  <2>1. CASE c \in Elements(t)
    BY <1>1, <2>1 DEF Stored, StoredIn
  <2>2. CASE c \notin Elements(t)
    <3>1. c \in Stored' <=>
            \E q \in DOMAIN projects \ {p} : c \in Elements(slices[projects[q]])
      BY <1>1, <2>2 DEF Stored, StoredIn
    <3>2. \A q \in DOMAIN projects \ {p} :
            c \in Elements(slices[projects[q]]) => c \notin Elements(slices[projects[p]])
      BY StoredIs
    <3>3. c \in Stored <=> \E q \in DOMAIN projects : c \in Elements(slices[projects[q]])
      BY DEF Stored, StoredIn
    <3> QED
      BY <2>2, <3>1, <3>2, <3>3
  <2> QED
    BY <2>1, <2>2
<1> QED
  BY <1>2

\* The containers of a project by a name or ID, and the one the loops find.
LEMMA NamedIs ==
    ASSUME Inv, NEW p \in DOMAIN projects, NEW q
    PROVE  LET s == slices[projects[p]]
           IN  /\ Hit(s, q) \subseteq Abstract!NamedIn(q, p)
               /\ Hit(s, q) = {} <=> Abstract!NamedIn(q, p) = {}
               /\ Hit(s, q) = {} <=> Hits(s, q) = {}
<1> DEFINE s == slices[projects[p]]
<1>1. \A c : c \in Abstract!NamedIn(q, p) <=> c \in Elements(s) /\ q \in {c.id, c.name}
  BY StoredIs DEF Abstract!NamedIn, Abstract!Named
<1>2. CASE Hits(s, q) = {}
  BY <1>1, <1>2, SliceNoHit
<1>3. CASE Hits(s, q) # {}
  <2> DEFINE c == s[First(s, q)]
  <2>1. Hit(s, q) = {c} /\ c \in Elements(s) /\ q \in {c.id, c.name}
    BY <1>3, MapIs, SliceHit
  <2> HIDE DEF c
  <2> QED
    BY <1>1, <1>3, <2>1
<1> QED
  BY <1>2, <1>3

LEMMA AbstractIdentity == \A c : Abstract!Identity(c) = Identity(c)
BY DEF Abstract!Identity, Identity

LEMMA AbstractNames ==
    /\ \A q \in Keys : q \in Abstract!Keys
    /\ Abstract!Projects = Projects
    /\ \A c \in Inspected : /\ Identity(c) \in Births /\ c.paused \in BOOLEAN
                            /\ c = Abstract!Description(Identity(c), c.paused)
<1>1. \A q \in Keys : q \in Abstract!Keys
  BY DEF Keys, IDs, Abstract!Keys
<1>2. Abstract!Projects = Projects
  BY DEF Projects, Abstract!Projects
<1>3. ASSUME NEW c \in Inspected
      PROVE  Identity(c) \in Births /\ c = Abstract!Description(Identity(c), c.paused)
  BY ProjectsAre, InspectedAssumption DEF Containers, Identity, Abstract!Description
<1>4. \A c \in Inspected : c.paused \in BOOLEAN
  BY InspectedAssumption DEF Containers
<1> QED
  BY <1>1, <1>2, <1>3, <1>4

\* No container comes, goes or changes.
LEMMA SameStored ==
    ASSUME UNCHANGED <<projects, slices>> PROVE Stored' = Stored
BY DEF Stored, StoredIn

LEMMA InitImplements == ASSUME Init, Inv PROVE Abstract!Init
<1>1. PICK s \in Stocks :
         /\ projects = [p \in DOMAIN s |-> <<p, 0>>]
         /\ slices = [o \in Objects |->
                        IF o[1] \in DOMAIN s /\ o[2] = 0 THEN s[o[1]] ELSE <<>>]
  BY DEF Init
<1>2. Stored \subseteq Inspected
  <2>1. ASSUME NEW p \in DOMAIN s PROVE Elements(slices[projects[p]]) \subseteq Inspected
    <3>1. slices[projects[p]] = s[p]
      BY <1>1, MapIs
    <3>2. s[p] \in Seq({c \in Inspected : c.proj = p})
      BY StocksAssumption
    <3>3. \A i \in 1..Len(s[p]) : s[p][i] \in Inspected
      BY <3>2, ElementOfSeq
    <3> QED
      BY <3>1, <3>3 DEF Elements
  <2>2. DOMAIN projects = DOMAIN s
    BY <1>1
  <2> QED
    BY <2>1, <2>2 DEF Stored, StoredIn
<1>3. Stored \subseteq {Abstract!Description(b, paused) : b \in Births, paused \in BOOLEAN}
  BY <1>2, AbstractNames
<1>4. \A c, d \in Stored : Abstract!Identity(c) = Abstract!Identity(d) => c = d
  BY StoredIs, AbstractIdentity
<1>5. call = <<"none">>
  BY DEF Init
<1> QED
  BY <1>3, <1>4, <1>5 DEF Abstract!Init
-----------------------------------------------------------------------------
(***************************************************************************)
(* Every step is one of the set of containers.                             *)
(***************************************************************************)
LEMMA AddImplements ==
    ASSUME Inv, Inv', NEW w \in Writers, AddContainer(w) PROVE Abstract!Next
<1> DEFINE c == arg[w].cntr
           o == obj[w]
           s == slices[o]
           t == slices'[o]
<1>1. /\ Adding(w) /\ slices' = [slices EXCEPT ![o] = t]
      /\ Elements(t) = IF Knows(s, c) THEN Elements(s) ELSE Elements(s) \union {c}
  BY Added
<1>2. c \in Inspected /\ c.proj \in DOMAIN projects /\ o = projects[c.proj]
  BY <1>1 DEF Adding, AddArgs
<1>3. UNCHANGED projects /\ call' = <<"add", c, ~Knows(s, c)>>
  BY DEF AddContainer
<1> HIDE DEF t
<1>4. Stored' = (Stored \ Elements(s)) \union Elements(t)
  BY <1>1, <1>2, <1>3, StoredStep
<1>5. Knows(s, c) <=> \E d \in Elements(s) : Identity(d) = Identity(c)
  BY DEF Knows, Elements
<1>6. \A d \in Stored : Identity(d) = Identity(c) => d \in Elements(s)
  <2>1. \A d \in Stored : Identity(d) = Identity(c) => d.proj = c.proj
    BY DEF Identity
  <2> QED
    BY <1>2, <2>1, StoredIs
<1>7. Elements(s) \subseteq Stored
  BY <1>2, StoredIs
<1>8. Knows(s, c) <=> Abstract!Known(c)
  BY <1>5, <1>6, <1>7, AbstractIdentity DEF Abstract!Known
<1>9. Stored' = IF Abstract!Known(c) THEN Stored ELSE Stored \union {c}
  BY <1>1, <1>4, <1>7, <1>8
<1>10. call' = <<"add", c, ~Abstract!Known(c)>>
  BY <1>3, <1>8
<1>11. Abstract!Add(c)
  BY <1>9, <1>10 DEF Abstract!Add
<1>12. /\ Identity(c) \in Births /\ c.paused \in BOOLEAN
       /\ c = Abstract!Description(Identity(c), c.paused)
  BY <1>2, AbstractNames
<1> QED
  BY <1>11, <1>12 DEF Abstract!Next

LEMMA RemoveImplements ==
    ASSUME Inv, Inv', NEW w \in Writers, RemoveContainer(w) PROVE Abstract!Next
<1> DEFINE id == arg[w].id
           p == arg[w].proj
           s == slices[projects[p]]
           t == slices'[projects[p]]
<1>1. /\ Removing(w) /\ Elements(t) = Elements(s) \ Hit(s, id)
      /\ slices' = [slices EXCEPT ![projects[p]] = t]
  BY Taken
<1>2. /\ p \in DOMAIN projects /\ UNCHANGED projects
      /\ call' = <<"remove", id, p, Hit(s, id)>>
  BY DEF RemoveContainer
<1> HIDE DEF t
<1>3. Stored' = (Stored \ Elements(s)) \union Elements(t)
  BY <1>1, <1>2, StoredStep
<1>4. Elements(s) \subseteq Stored
  BY <1>2, StoredIs
<1>5. /\ Hit(s, id) \subseteq Abstract!NamedIn(id, p)
      /\ Hit(s, id) = {} => Abstract!NamedIn(id, p) = {}
      /\ Hit(s, id) = {} <=> Hits(s, id) = {}
  BY <1>2, NamedIs
<1>6. Abstract!Remove(id, p)
  <2>1. CASE Hits(s, id) = {}
    <3>1. Hit(s, id) = {} /\ Abstract!NamedIn(id, p) = {}
      BY <1>5, <2>1
    <3>2. Stored' = Stored
      BY <1>1, <1>3, <1>4, <3>1
    <3> QED
      BY <1>2, <3>1, <3>2 DEF Abstract!Remove
  <2>2. CASE Hits(s, id) # {}
    <3> DEFINE c == s[First(s, id)]
    <3>1. Hit(s, id) = {c} /\ c \in Elements(s)
      <4>1. SliceOK(s, p)
        BY <1>2, MapIs
      <4> QED
        BY <2>2, <4>1, SliceHit
    <3> HIDE DEF c
    <3>2. c \in Abstract!NamedIn(id, p)
      BY <1>5, <3>1
    <3>3. Stored' = Stored \ {c}
      <4>1. Elements(t) = Elements(s) \ {c}
        BY <1>1, <3>1
      <4> QED
        BY <1>3, <1>4, <3>1, <4>1, Zenon
    <3>4. call' = <<"remove", id, p, {c}>>
      BY <1>2, <3>1
    <3> QED
      BY <3>2, <3>3, <3>4 DEF Abstract!Remove
  <2> QED
    BY <2>1, <2>2
<1>7. id \in Keys /\ p \in Projects
  BY <1>1, ProjectsAre DEF Removing, RemoveArgs
<1> QED
  BY <1>6, <1>7, AbstractNames DEF Abstract!Next

LEMMA NothingImplements ==
    ASSUME Inv, NEW w \in Writers, RemoveNothing(w) PROVE Abstract!Next
<1> DEFINE id == arg[w].id
           p == arg[w].proj
<1>1. /\ pc[w] = "remove" /\ p \notin DOMAIN projects
      /\ call' = <<"remove", id, p, {}>> /\ UNCHANGED <<projects, slices>>
  BY DEF RemoveNothing, At
<1>2. Removing(w)
  BY <1>1, WritersAre DEF Inv, CallerOK
<1>3. id \in Keys /\ p \in Projects
  BY <1>2, ProjectsAre DEF Removing, RemoveArgs
<1>4. Abstract!NamedIn(id, p) = {}
  BY <1>1, StoredIs DEF Abstract!NamedIn, Abstract!Named
<1>5. Stored' = Stored
  BY <1>1, SameStored
<1>6. Abstract!Remove(id, p)
  BY <1>1, <1>4, <1>5 DEF Abstract!Remove
<1> QED
  BY <1>3, <1>6, AbstractNames DEF Abstract!Next

LEMMA SetImplements ==
    ASSUME Inv, Inv', NEW w \in Writers, SetPaused(w) PROVE Abstract!Next
<1> DEFINE id == arg[w].id
           p == arg[w].proj
           o == obj[w]
           s == slices[o]
           t == slices'[o]
           c == s[First(s, id)]
           d == Switched(c, arg[w].paused)
<1>1. /\ Pausing(w) /\ o \in Objects /\ o[1] = p
      /\ Hits(s, id) = {} => UNCHANGED slices
      /\ Hits(s, id) # {} =>
           /\ Attached(o) /\ Hit(s, id) = {c} /\ Hit(t, id) = {d} /\ c \in Elements(s)
           /\ Elements(t) = (Elements(s) \ {c}) \union {d}
           /\ slices' = [slices EXCEPT ![o] = t]
  BY Set
<1>2. /\ UNCHANGED projects
      /\ call' = IF Attached(o) THEN <<"setpaused", id, p, Hit(t, id)>> ELSE <<"none">>
  BY DEF SetPaused
<1>3. id \in Keys /\ p \in Projects /\ arg[w].paused \in BOOLEAN
  BY <1>1, ProjectsAre DEF Pausing, PauseArgs
<1>4. Attached(o) => p \in DOMAIN projects /\ o = projects[p]
  BY <1>1, MapIs DEF Attached
<1>5. CASE ~Attached(o)
  <2>1. Stored' = Stored
    BY <1>1, <1>2, <1>5, SameStored
  <2>2. Abstract!Quiet
    BY <1>2, <1>5, <2>1 DEF Abstract!Quiet
  <2> QED
    BY <2>2 DEF Abstract!Next
<1>6. CASE Attached(o) /\ Hits(s, id) = {}
  <2>1. Stored' = Stored
    BY <1>1, <1>2, <1>6, SameStored
  <2>2. Abstract!NamedIn(id, p) = {}
    BY <1>4, <1>6, NamedIs
  <2>3. Hit(t, id) = {}
    BY <1>1, <1>6, SliceNoHit
  <2>4. Abstract!SetPaused(id, p, arg[w].paused)
    BY <1>2, <1>6, <2>1, <2>2, <2>3 DEF Abstract!SetPaused
  <2> QED
    BY <1>3, <2>4, AbstractNames DEF Abstract!Next
<1>7. CASE Attached(o) /\ Hits(s, id) # {}
  <2>1. /\ Hit(s, id) = {c} /\ Hit(t, id) = {d} /\ c \in Elements(s)
        /\ Elements(t) = (Elements(s) \ {c}) \union {d}
        /\ slices' = [slices EXCEPT ![o] = t]
    BY <1>1, <1>7
  <2>2. d = [c EXCEPT !.paused = arg[w].paused]
    BY DEF Switched
  <2> HIDE DEF c, d, t
  <2>3. Stored' = (Stored \ Elements(s)) \union Elements(t)
    BY <1>2, <1>4, <1>7, <2>1, StoredStep
  <2>4. Elements(s) \subseteq Stored
    BY <1>4, <1>7, StoredIs
  <2>5. c \in Abstract!NamedIn(id, p)
    BY <1>4, <1>7, <2>1, NamedIs
  <2>6. Stored' = (Stored \ {c}) \union {d}
    BY <2>1, <2>3, <2>4
  <2>7. call' = <<"setpaused", id, p, {d}>>
    BY <1>2, <1>7, <2>1
  <2>8. Abstract!SetPaused(id, p, arg[w].paused)
    BY <2>2, <2>5, <2>6, <2>7 DEF Abstract!SetPaused
  <2> QED
    BY <1>3, <2>8, AbstractNames DEF Abstract!Next
<1> QED
  BY <1>5, <1>6, <1>7

LEMMA LookImplements ==
    ASSUME Inv, NEW w \in Callers, LookHit(w) \/ LookMissed(w) PROVE Abstract!Next
<1> DEFINE id == arg[w].id
<1>1. pc[w] = "looking" /\ UNCHANGED <<projects, slices>>
  BY DEF LookHit, LookMissed, At
<1>2. LookingUp(w) /\ Looking(w)
  BY <1>1 DEF Inv, CallerOK
<1>3. id \in Keys
  BY <1>2, ProjectsAre DEF LookingUp, RemoveArgs, PauseArgs, AskArgs
<1>4. Stored' = Stored
  BY <1>1, SameStored
<1>5. Abstract!Container(id)
  <2>1. CASE LookHit(w)
    <3>1. PICK p \in todo[w] : \E c \in Hit(slices[projects[p]], id) :
                                  call' = <<"container", id, {c}>>
      BY <2>1 DEF LookHit
    <3>2. PICK c \in Hit(slices[projects[p]], id) : call' = <<"container", id, {c}>>
      BY <3>1
    <3>3. p \in DOMAIN projects
      BY <1>2 DEF Looking
    <3>4. c \in Abstract!NamedIn(id, p)
      BY <3>2, <3>3, NamedIs
    <3>5. c \in Abstract!Named(id)
      BY <3>4 DEF Abstract!NamedIn
    <3> QED
      BY <1>4, <3>2, <3>5 DEF Abstract!Container
  <2>2. CASE LookMissed(w)
    <3>1. todo[w] = {} /\ call' = <<"container", id, {}>>
      BY <2>2 DEF LookMissed
    <3>2. \A p \in DOMAIN projects : Abstract!NamedIn(id, p) = {}
      BY <1>2, <3>1, NamedIs DEF Looking
    <3>3. \A c \in Abstract!Named(id) : c \in Abstract!NamedIn(id, c.proj)
      BY DEF Abstract!NamedIn
    <3>4. \A c \in Abstract!Named(id) : c.proj \in DOMAIN projects
      BY StoredIs DEF Abstract!Named
    <3>5. Abstract!Named(id) = {}
      BY <3>2, <3>3, <3>4
    <3> QED
      BY <1>4, <3>1, <3>5 DEF Abstract!Container
  <2> QED
    BY <2>1, <2>2
<1> QED
  BY <1>3, <1>5, AbstractNames DEF Abstract!Next

LEMMA NamesImplements == ASSUME Inv, AskNames PROVE Abstract!Next
<1>1. /\ NoWriter /\ call' = <<"names", DOMAIN projects \ {Zero}>>
      /\ UNCHANGED <<projects, slices>>
  BY DEF AskNames
<1>2. ASSUME NEW p \in DOMAIN projects \ {Zero} PROVE \E c \in Stored : c.proj = p
  <2> DEFINE s == slices[projects[p]]
  <2>1. s # <<>>
    BY <1>1, WritersAre DEF Inv, NamesOK, NoWriter
  <2>2. s \in Seq(InProject(p))
    BY MapIs DEF SliceOK
  <2>3. 1 \in 1..Len(s)
    <3>1. Len(s) \in Nat /\ Len(s) # 0
      BY <2>1, <2>2, EmptySeq, LenProperties
    <3> QED
      BY <3>1
  <2>4. s[1] \in Elements(s)
    BY <2>3 DEF Elements
  <2> HIDE DEF s
  <2> QED
    BY <2>4, StoredIs DEF s
<1>3. \A c \in Stored : c.proj \in DOMAIN projects
  BY StoredIs
<1>4. DOMAIN projects \ {Zero} = {c.proj : c \in Stored} \ {Zero}
  BY <1>2, <1>3
<1>5. Stored' = Stored
  BY <1>1, SameStored
<1>6. Abstract!Names
  BY <1>1, <1>4, <1>5 DEF Abstract!Names
<1> QED
  BY <1>6 DEF Abstract!Next

\* Neither the projects made and dropped nor the rest of the calls are seen.
LEMMA AddBeginStored ==
    ASSUME Inv, NEW w \in Writers, NEW c \in Inspected, AddBegin(w, c)
    PROVE  Stored' = Stored
<1>1. PICK o \in Objects :
        /\ DOMAIN projects' = DOMAIN projects \union {c.proj} /\ projects'[c.proj] = o
        /\ \A p \in DOMAIN projects : projects'[p] = projects[p]
        /\ c.proj \in DOMAIN projects \/ ~Attached(o)
  BY Found
<1>2. UNCHANGED slices
  BY DEF AddBegin, Quiet
<1>3. c.proj \in DOMAIN projects \/ Elements(slices[o]) = {}
  BY <1>1, SliceEmpty DEF Inv, SlicesOK
<1>4. ASSUME NEW x PROVE x \in Stored' <=> x \in Stored
  <2>1. CASE c.proj \in DOMAIN projects
    BY <1>1, <1>2, <2>1 DEF Stored, StoredIn
  <2>2. CASE c.proj \notin DOMAIN projects
    BY <1>1, <1>2, <1>3, <2>2 DEF Stored, StoredIn
  <2> QED
    BY <2>1, <2>2
<1> QED
  BY <1>4

LEMMA RemoveProjectStored ==
    ASSUME Inv, NEW w \in Writers, RemoveProject(w) PROVE Stored' = Stored
<1> DEFINE proj == arg[w].proj
<1>1. UNCHANGED slices
  BY DEF RemoveProject, Quiet
<1>2. CASE UNCHANGED projects
  BY <1>1, <1>2, SameStored
<1>3. CASE projects' # projects
  <2>1. /\ projects' = [p \in DOMAIN projects \ {proj} |-> projects[p]]
        /\ slices[projects[proj]] = <<>>
    BY <1>3, Dropped
  <2>2. Elements(slices[projects[proj]]) = {}
    BY <2>1, SliceEmpty
  <2>3. ASSUME NEW x PROVE x \in Stored' <=> x \in Stored
    BY <1>1, <2>1, <2>2 DEF Stored, StoredIn
  <2> QED
    BY <2>3
<1> QED
  BY <1>2, <1>3

LEMMA QuietImplements == ASSUME Stored' = Stored, call' = <<"none">> PROVE Abstract!Next
BY DEF Abstract!Next, Abstract!Quiet

LEMMA NextImplements ==
    ASSUME Inv, Inv', [Next]_vars PROVE Abstract!Next \/ UNCHANGED <<Stored, call>>
<1>1. CASE WriterStep
  <2>1. ASSUME NEW w \in Writers, NEW c \in Inspected, AddBegin(w, c) PROVE Abstract!Next
    BY <2>1, AddBeginStored, QuietImplements DEF AddBegin, Quiet
  <2>2. ASSUME NEW w \in Writers, NEW id, NEW proj, NEW paused,
               Pause(w, id, proj, paused) \/ Demise(id, proj)
        PROVE  Abstract!Next
    BY <2>2, SameStored, QuietImplements DEF Pause, Demise, Quiet
  <2>3. ASSUME NEW w \in Writers, GetProject(w) PROVE Abstract!Next
    BY <2>3, SameStored, QuietImplements DEF GetProject, Quiet
  <2>4. ASSUME NEW w \in Writers, RemoveProject(w) PROVE Abstract!Next
    BY <2>4, RemoveProjectStored, QuietImplements DEF RemoveProject, Quiet
  <2> QED
    BY <1>1, <2>1, <2>2, <2>3, <2>4, AddImplements, SetImplements, RemoveImplements,
       NothingImplements, WritersAre DEF WriterStep
<1>2. ASSUME NEW w \in Callers,
             LookBegin(w) \/ LookHit(w) \/ LookOn(w) \/ LookMissed(w)
      PROVE  Abstract!Next
  <2>1. CASE LookBegin(w) \/ LookOn(w)
    BY <2>1, SameStored, QuietImplements DEF LookBegin, LookOn, Quiet
  <2> QED
    BY <1>2, <2>1, LookImplements
<1>3. CASE UserStep
  <2>1. ASSUME NEW a, NEW next, Query(a, next) PROVE Abstract!Next
    BY <2>1, SameStored, QuietImplements DEF Query, Quiet
  <2>2. CASE CollectProject \/ CountProject \/ QueryEnd
    BY <2>2, SameStored, QuietImplements DEF CollectProject, CountProject, QueryEnd, Quiet
  <2> QED
    BY <1>3, <2>1, <2>2, NamesImplements DEF UserStep, AskContainer, AskProjects, AskTotal
<1>4. CASE UNCHANGED vars
  BY <1>4, SameStored DEF vars
<1> QED
  BY <1>1, <1>2, <1>3, <1>4 DEF Next

\* The portfolio with its two levels of locks is a set on which every call takes
\* effect at once, or not at all (portfolio.go:18-32, project.go:27-46).
THEOREM PortfolioSetImplemented == Spec => ImplementsPortfolioSet
<1>1. Init => Abstract!Init
  BY InvInit, InitImplements
<1>2. Inv /\ Inv' /\ [Next]_vars => [Abstract!Next]_<<Stored, call>>
  BY NextImplements
<1> QED
  BY <1>1, <1>2, InvCorrect, PTL DEF Spec, ImplementsPortfolioSet, Abstract!Spec,
                                     Abstract!vars
-----------------------------------------------------------------------------
(***************************************************************************)
(* The ghosts: what has been true since a query began, and the pauses that *)
(* have become too late.                                                   *)
(***************************************************************************)
GhostsOK == /\ gone \subseteq Writers /\ raced \in BOOLEAN
            /\ ever \subseteq Containers /\ throughout \subseteq Births
            /\ raced => pc[User] = "count"
            /\ Watched => Stored \subseteq ever /\ throughout \subseteq Identities(Stored)

\* Every step is watched.
LEMMA AllObserved == ASSUME Next PROVE Observed
BY DEF Next, WriterStep, UserStep, AddBegin, AddContainer, LookBegin, LookHit, LookOn,
       LookMissed, Demise, RemoveContainer, RemoveProject, RemoveNothing, Pause,
       GetProject, SetPaused, Query, AskContainer, AskNames, AskProjects, AskTotal,
       CollectProject, CountProject, QueryEnd

LEMMA RacedStep ==
    ASSUME Observed PROVE raced' \in BOOLEAN /\ (raced' => pc'[User] = "count")
BY Zenon DEF Observed

LEMMA SeenStep ==
    ASSUME Observed
    PROVE  /\ Watched' => /\ ever' = ever \union Stored'
                          /\ throughout' = Identities(Stored') \intersect
                                           IF Watched THEN throughout ELSE Births
           /\ ~Watched' => ever' = {} /\ throughout' = {}
BY DEF Observed

LEMMA GoneStep ==
    ASSUME Observed
    PROVE  /\ gone' \subseteq Writers
           /\ \A w \in Writers : pc'[w] = "setting" /\ w \notin gone' =>
                                   Hits(slices'[obj'[w]], arg'[w].id) # {}
BY DEF Observed

LEMMA GhostsInit == ASSUME Init PROVE GhostsOK /\ GoneOK
BY WritersAre DEF Init, GhostsOK, GoneOK, Watched

LEMMA GhostsNext ==
    ASSUME Stored' \subseteq Containers, GhostsOK, GoneOK, [Next]_vars
    PROVE  GhostsOK' /\ GoneOK'
<1>1. CASE Next
  <2>1. Observed
    BY <1>1, AllObserved
  <2>2. ever' \subseteq Containers /\ throughout' \subseteq Births
    BY <2>1, SeenStep DEF GhostsOK
  <2>3. Watched' => Stored' \subseteq ever' /\ throughout' \subseteq Identities(Stored')
    BY <2>1, SeenStep
  <2>4. GhostsOK'
    BY <2>1, <2>2, <2>3, RacedStep, GoneStep DEF GhostsOK, Identities
  <2>5. GoneOK'
    BY <2>1, GoneStep DEF GoneOK
  <2> QED
    BY <2>4, <2>5
<1>2. CASE UNCHANGED vars
  BY <1>2, SameStored DEF vars, GhostsOK, GoneOK, Watched, Identities
<1> QED
  BY <1>1, <1>2

LEMMA GhostsCorrect == Spec => [](GhostsOK /\ GoneOK)
<1>1. Init => GhostsOK /\ GoneOK
  BY GhostsInit
<1>2. Inv => Stored \subseteq Containers
  BY StoredIs
<1>3. (Stored \subseteq Containers)' /\ (GhostsOK /\ GoneOK) /\ [Next]_vars =>
        (GhostsOK /\ GoneOK)'
  BY GhostsNext
<1> QED
  BY <1>1, <1>2, <1>3, InvCorrect, PTL DEF Spec

\* Every variable keeps to its type, projects hold their own containers only, and
\* an object that is no longer in the map none (portfolio.go:136-141).
THEOREM TypeCorrect == Spec => []TypeOK
<1>1. ASSUME Inv, GhostsOK PROVE TypeOK
  <2>1. \A p \in DOMAIN projects : \A c \in Elements(slices[projects[p]]) :
          c \in Containers /\ c.proj = p
    BY <1>1, StoredIs
  <2>2. \A p \in DOMAIN projects : projects[p] \in Objects
    BY <1>1, MapIs
  <2> QED
    BY <1>1, <2>1, <2>2 DEF TypeOK, Inv, ShapeOK, MapOK, SlicesOK, GhostsOK
<1> QED
  BY <1>1, InvCorrect, GhostsCorrect, PTL
-----------------------------------------------------------------------------
(***************************************************************************)
(* A pause that was looked up is lost only with its container.             *)
(***************************************************************************)

\* Who is about to set a state does nothing else.
LEMMA OnlySetPaused ==
    ASSUME Inv, Next, NEW w \in Writers, pc[w] = "setting", pc'[w] # "setting"
    PROVE  SetPaused(w)
<1>0. pc \in [Callers -> PCs] /\ w \in Callers
  BY WritersAre DEF Inv, ShapeOK
<1>1. ASSUME NEW v \in Callers, NEW here, NEW next, At(v, here, next)
      PROVE  v = w /\ here = "setting"
  BY <1>0, <1>1 DEF At
<1>2. CASE WriterStep
  <2>1. ASSUME NEW v \in Writers, NEW c, AddBegin(v, c) PROVE FALSE
    BY <1>1, <2>1, WritersAre DEF AddBegin
  <2>2. ASSUME NEW v \in Writers, NEW id, NEW proj, NEW paused, Pause(v, id, proj, paused)
        PROVE  FALSE
    BY <1>1, <2>2, WritersAre DEF Pause
  <2>3. ASSUME NEW id, NEW proj, Demise(id, proj) PROVE FALSE
    BY <1>1, <2>3, WritersAre DEF Demise
  <2>4. ASSUME NEW v \in Writers,
               \/ AddContainer(v) \/ GetProject(v)
               \/ RemoveContainer(v) \/ RemoveProject(v) \/ RemoveNothing(v)
        PROVE  FALSE
    BY <1>0, <1>1, <2>4, WritersAre DEF AddContainer, GetProject, RemoveContainer,
                                        RemoveProject, RemoveNothing
  <2>5. ASSUME NEW v \in Writers, SetPaused(v) PROVE SetPaused(w)
    <3>1. v = w
      BY <1>1, <2>5, WritersAre DEF SetPaused
    <3> QED
      BY <2>5, <3>1
  <2> QED
    BY <1>2, <2>1, <2>2, <2>3, <2>4, <2>5 DEF WriterStep
<1>3. ASSUME NEW v \in Callers,
             LookBegin(v) \/ LookHit(v) \/ LookOn(v) \/ LookMissed(v)
      PROVE  FALSE
  BY <1>1, <1>3 DEF LookBegin, LookHit, LookOn, LookMissed
<1>4. CASE UserStep
  <2>1. ASSUME NEW a, NEW next, Query(a, next) PROVE FALSE
    BY <1>1, <2>1, WritersAre DEF Query
  <2>2. CASE QueryEnd
    BY <1>1, <2>2, WritersAre DEF QueryEnd
  <2> QED
    BY <1>4, <2>1, <2>2 DEF UserStep, AskContainer, AskNames, AskProjects, AskTotal,
                            CollectProject, CountProject
<1> QED
  BY <1>2, <1>3, <1>4 DEF Next

LEMMA PauseStep ==
    ASSUME \A b, d \in Births : b.name = d.id => b.id = d.id,
           Inv, GoneOK, NEW w \in Writers, SetPaused(w), w \notin gone
    PROVE  Has(slices', projects', arg[w].id, arg[w].proj, arg[w].paused)
<1> DEFINE id == arg[w].id
           o == obj[w]
           s == slices[o]
           c == s[First(s, id)]
           d == Switched(c, arg[w].paused)
<1>1. pc[w] = "setting" /\ UNCHANGED projects
  BY DEF SetPaused, At
<1>2. Hits(s, id) # {}
  BY <1>1 DEF GoneOK
<1>3. /\ Pausing(w) /\ o \in Objects /\ o[1] = arg[w].proj /\ Attached(o)
      /\ c \in InProject(o[1]) /\ id \in {c.id, c.name}
      /\ Elements(slices'[o]) = (Elements(s) \ {c}) \union {d}
  BY <1>2, Set
<1>4. arg[w].paused \in BOOLEAN /\ id \in IDs
  BY <1>3 DEF Pausing, PauseArgs
<1> HIDE DEF c
<1>5. d.id = c.id /\ d.proj = arg[w].proj /\ d.paused = arg[w].paused
  BY <1>3, <1>4 DEF Switched, InProject, Containers
<1>6. c.id = id
  <2>1. PICK x \in Births : x.id = id
    BY <1>4 DEF IDs
  <2>2. /\ Identity(c) \in Births /\ Identity(c).id = c.id
        /\ Identity(c).name = c.name
    BY <1>3 DEF InProject, Identity
  <2> QED
    BY <1>3, <2>1, <2>2
<1>7. d \in StoredIn(projects', slices')
  BY <1>1, <1>3 DEF StoredIn, Attached
<1> QED
  BY <1>5, <1>6, <1>7 DEF Has

\* paused and list may take their time between looking up the project and setting
\* the state: that the project is dropped and made again in between does no harm
\* (watcher.go:413-414, 483-484).  No container may have another's ID as its name,
\* as the loops in project.go take either.
THEOREM PauseNotLostCorrect ==
    ASSUME \A b, d \in Births : b.name = d.id => b.id = d.id
    PROVE  Spec => PauseNotLost
<1>1. ASSUME Inv, GoneOK, Next, NEW w \in Writers,
             pc[w] = "setting", pc'[w] = "idle", w \notin gone
      PROVE  Has(slices', projects', arg[w].id, arg[w].proj, arg[w].paused)
  BY <1>1, OnlySetPaused, PauseStep
<1>2. Inv /\ GoneOK /\ [Next]_vars =>
        [\A w \in Writers :
           pc[w] = "setting" /\ pc'[w] = "idle" /\ w \notin gone =>
             Has(slices', projects', arg[w].id, arg[w].proj, arg[w].paused)]_vars
  BY <1>1
<1> QED
  BY <1>2, InvCorrect, GhostsCorrect, PTL DEF Spec, PauseNotLost
-----------------------------------------------------------------------------
(***************************************************************************)
(* The user's queries that take several steps.                             *)
(***************************************************************************)
CollectOK ==
    pc[User] = "collect" =>
      /\ todo[User] \subseteq Objects
      /\ \A o, x \in todo[User] : o[1] = x[1] => o = x
      /\ Told \subseteq Asked /\ answer \subseteq ever
      /\ \A c, d \in answer : Identity(c) = Identity(d) => c = d
      /\ \A o \in todo[User] : /\ o[1] \in arg[User].projs
                               /\ \A c \in answer : c.proj # o[1]
      /\ \A b \in throughout \intersect Asked :
           b \in Told \/ projects[b.proj] \in todo[User]

\* Those of some identities whose project has been counted.
Counted(bs) == {b \in bs : b.proj \notin todo[User]}

CountOK ==
    pc[User] = "count" /\ ~raced =>
      /\ todo[User] \subseteq DOMAIN projects /\ answer \in Nat
      /\ IsFiniteSet(Identities(ever)) /\ IsFiniteSet(throughout)
      /\ Cardinality(Counted(throughout)) <= answer
      /\ answer <= Cardinality(Counted(Identities(ever)))

QueriesOK == /\ ~Watched => answer = {} /\ ever = {}
             /\ CollectOK /\ CountOK

\* What a step of the writers, or an answer at once, means to these queries.
Aside == /\ pc'[User] = pc[User] /\ arg'[User] = arg[User] /\ todo'[User] = todo[User]
         /\ UNCHANGED answer

\* What is known of the state after a step, too.
StoredOK == /\ Stored \subseteq Containers
            /\ \A c \in Stored : c.proj \in DOMAIN projects
            /\ IsFiniteSet(Identities(Stored))

LEMMA UserSteps ==
    ASSUME Inv, Next
    PROVE  \/ Aside
           \/ ~Watched /\ ~Watched' /\ UNCHANGED answer
           \/ \E projs : AskProjects(projs)
           \/ AskTotal \/ CollectProject \/ CountProject \/ QueryEnd
<1>0. ShapeOK /\ User \in Callers
  BY WritersAre DEF Inv
<1>1. ASSUME NEW w \in Callers \ {User}, UNCHANGED answer,
             pc' = pc \/ \E next : pc' = [pc EXCEPT ![w] = next],
             arg' = arg \/ \E a : arg' = [arg EXCEPT ![w] = a],
             todo' = todo \/ \E t : todo' = [todo EXCEPT ![w] = t]
      PROVE  Aside
  BY <1>0, <1>1 DEF ShapeOK, Aside
<1>2. CASE WriterStep
  <2>1. ASSUME NEW w \in Writers, NEW c, AddBegin(w, c) PROVE Aside
    BY <1>1, <2>1, WritersAre DEF AddBegin, At, Begins
  <2>2. ASSUME NEW w \in Writers, NEW id, NEW proj, NEW paused, Pause(w, id, proj, paused)
        PROVE  Aside
    BY <1>1, <2>2, WritersAre DEF Pause, At, Begins
  <2>3. ASSUME NEW id, NEW proj, Demise(id, proj) PROVE Aside
    BY <1>1, <2>3, WritersAre DEF Demise, At, Begins
  <2>4. ASSUME NEW w \in Writers, AddContainer(w) PROVE Aside
    BY <1>1, <2>4, WritersAre DEF AddContainer, At, Returns
  <2>5. ASSUME NEW w \in Writers, GetProject(w) PROVE Aside
    BY <1>1, <2>5, WritersAre DEF GetProject, At, Returns
  <2>6. ASSUME NEW w \in Writers, SetPaused(w) PROVE Aside
    BY <1>1, <2>6, WritersAre DEF SetPaused, At, Returns
  <2>7. ASSUME NEW w \in Writers, RemoveContainer(w) PROVE Aside
    BY <1>1, <2>7, WritersAre DEF RemoveContainer, At
  <2>8. ASSUME NEW w \in Writers, RemoveProject(w) \/ RemoveNothing(w) PROVE Aside
    BY <1>1, <2>8, WritersAre DEF RemoveProject, RemoveNothing, At, Returns
  <2> QED
    BY <1>2, <2>1, <2>2, <2>3, <2>4, <2>5, <2>6, <2>7, <2>8 DEF WriterStep
<1>3. ASSUME NEW w \in Callers \ {User},
             LookBegin(w) \/ LookHit(w) \/ LookOn(w) \/ LookMissed(w)
      PROVE  Aside
  <2>1. CASE LookHit(w)
    <3>1. /\ pc' = [pc EXCEPT ![w] = AfterFound(w)] /\ todo' = [todo EXCEPT ![w] = {}]
          /\ UNCHANGED answer
      BY <2>1 DEF LookHit, At
    <3>2. \E a : arg' = [arg EXCEPT ![w] = a]
      BY <2>1 DEF LookHit
    <3> QED
      BY <1>1, <3>1, <3>2
  <2> QED
    BY <1>1, <1>3, <2>1 DEF LookBegin, LookOn, LookMissed, At, Returns
<1>4. ASSUME LookBegin(User) \/ LookHit(User) \/ LookOn(User) \/ LookMissed(User)
      PROVE  ~Watched /\ ~Watched' /\ UNCHANGED answer
  <2>1. AfterFound(User) \notin {"collect", "count"} \/ pc[User] # "looking"
    BY <1>0 DEF Inv, CallerOK, LookingUp, AskArgs, AfterFound
  <2> QED
    BY <1>0, <1>4, <2>1 DEF LookBegin, LookHit, LookOn, LookMissed, At, Watched, ShapeOK
<1>5. ASSUME NEW q, AskContainer(q) PROVE ~Watched /\ ~Watched' /\ UNCHANGED answer
  BY <1>0, <1>5 DEF AskContainer, Query, At, Watched, ShapeOK
<1>6. CASE AskNames
  BY <1>6 DEF AskNames, Aside
<1>7. CASE UserStep
  BY <1>5, <1>6, <1>7 DEF UserStep
<1> QED
  BY <1>2, <1>3, <1>4, <1>7 DEF Next

LEMMA MapChanges ==
    ASSUME Next
    PROVE  \/ UNCHANGED projects
           \/ \E w \in Writers, c \in Inspected : AddBegin(w, c)
           \/ \E w \in Writers : RemoveProject(w)
BY DEF Next, WriterStep, UserStep, AddContainer, LookBegin, LookHit, LookOn,
       LookMissed, Demise, RemoveContainer, RemoveNothing, Pause, GetProject, SetPaused,
       Query, AskContainer, AskNames, AskProjects, AskTotal, CollectProject,
       CountProject, QueryEnd

\* As long as there is a project, it is the same.
LEMMA SameProject ==
    ASSUME Inv, Next
    PROVE  \A p \in DOMAIN projects \intersect DOMAIN projects' : projects'[p] = projects[p]
<1>1. CASE UNCHANGED projects
  BY <1>1
<1>2. ASSUME NEW w \in Writers, NEW c \in Inspected, AddBegin(w, c)
      PROVE  \A p \in DOMAIN projects : projects'[p] = projects[p]
  BY <1>2, Found
<1>3. ASSUME NEW w \in Writers, RemoveProject(w)
      PROVE  \A p \in DOMAIN projects' : projects'[p] = projects[p]
  BY <1>3, Dropped
<1> QED
  BY <1>1, <1>2, <1>3, MapChanges

\* What is in an object a user has a reference to.
LEMMA InObject ==
    ASSUME Inv, NEW o \in Objects
    PROVE  /\ Elements(slices[o]) \subseteq Stored
           /\ \A c \in Elements(slices[o]) : c.proj = o[1] /\ Identity(c) \in Births
<1>1. SliceOK(slices[o], o[1])
  BY DEF Inv, SlicesOK
<1>2. \A c \in Elements(slices[o]) : c.proj = o[1] /\ Identity(c) \in Births
  BY <1>1, SliceElements DEF InProject
<1>3. ASSUME Attached(o) PROVE Elements(slices[o]) \subseteq Stored
  <2>1. PICK p \in DOMAIN projects : projects[p] = o
    BY <1>3 DEF Attached
  <2> QED
    BY <2>1 DEF Stored, StoredIn
<1>4. ASSUME ~Attached(o) PROVE Elements(slices[o]) = {}
  BY <1>4, SliceEmpty DEF Inv, SlicesOK
<1> QED
  BY <1>2, <1>3, <1>4

\* A container that stays is in the same object all the time.
LEMMA StaysInProject ==
    ASSUME Inv, Stored' \subseteq Containers, Next,
           \A c \in Stored' : c.proj \in DOMAIN projects',
           NEW b \in Identities(Stored) \intersect Identities(Stored')
    PROVE  /\ b.proj \in DOMAIN projects /\ projects'[b.proj] = projects[b.proj]
           /\ b \in Identities(Elements(slices[projects[b.proj]]))
<1>1. PICK c \in Stored : b = Identity(c)
  BY DEF Identities
<1>2. PICK d \in Stored' : b = Identity(d)
  BY DEF Identities
<1>3. b.proj = c.proj /\ b.proj = d.proj
  BY <1>1, <1>2 DEF Identity
<1>4. c.proj \in DOMAIN projects /\ c \in Elements(slices[projects[c.proj]])
  BY StoredIs
<1>5. d.proj \in DOMAIN projects'
  OBVIOUS
<1> QED
  BY <1>1, <1>3, <1>4, <1>5, SameProject DEF Identities

\* Between queries.
LEMMA NoQuery ==
    ASSUME Next, ~Watched', answer' = {} PROVE QueriesOK'
BY AllObserved, SeenStep DEF QueriesOK, CollectOK, CountOK, Watched

LEMMA AskProjectsOK ==
    ASSUME Inv, GhostsOK', QueriesOK, NEW projs, AskProjects(projs), Next
    PROVE  QueriesOK'
<1>0. ShapeOK /\ User \in Callers
  BY WritersAre DEF Inv
<1>1. /\ pc[User] = "idle" /\ pc' = [pc EXCEPT ![User] = "collect"]
      /\ arg' = [arg EXCEPT ![User] = [op |-> "containers", projs |-> projs]]
      /\ todo' = [todo EXCEPT ![User] = Cloned(projs)]
      /\ UNCHANGED <<projects, slices, answer>>
  BY DEF AskProjects, Query, At, Quiet
<1>2. pc'[User] = "collect" /\ arg'[User].projs = projs /\ todo'[User] = Cloned(projs)
  BY <1>0, <1>1 DEF ShapeOK
<1>3. answer' = {}
  BY <1>1 DEF QueriesOK, Watched
<1>4. \A o \in Cloned(projs) :
        o \in Objects /\ o[1] \in projs /\ o = projects[o[1]]
  BY MapIs DEF Cloned
<1>5. Told' = {}
  BY <1>3 DEF Told, Identities
<1>6. ASSUME NEW b \in (throughout \intersect Asked)' PROVE projects'[b.proj] \in Cloned(projs)
  <2>1. b \in Identities(Stored) /\ b.proj \in projs
    <3>1. Watched' /\ Stored' = Stored
      BY <1>1, <1>2, SameStored DEF Watched
    <3> QED
      BY <1>2, <3>1 DEF GhostsOK, Asked, Identities
  <2>2. b.proj \in DOMAIN projects
    BY <2>1, StoredIs DEF Identities, Identity
  <2> QED
    BY <1>1, <2>1, <2>2 DEF Cloned
<1>7. CollectOK'
  BY <1>2, <1>3, <1>4, <1>5, <1>6 DEF CollectOK
<1> QED
  BY <1>2, <1>7 DEF QueriesOK, CountOK, Watched

LEMMA CollectStep ==
    ASSUME Inv, GhostsOK, QueriesOK, Next, CollectProject
    PROVE  QueriesOK'
<1>0. ShapeOK /\ User \in Callers
  BY WritersAre DEF Inv
<1>1. PICK o \in todo[User] : /\ answer' = answer \union Elements(slices[o])
                              /\ todo' = [todo EXCEPT ![User] = @ \ {o}]
  BY DEF CollectProject
<1>2. pc[User] = "collect" /\ UNCHANGED <<projects, slices, pc, arg>>
  BY DEF CollectProject, Quiet
<1>3. todo'[User] = todo[User] \ {o}
  BY <1>0, <1>1 DEF ShapeOK
<1>4. /\ todo[User] \subseteq Objects
      /\ \A y, x \in todo[User] : y[1] = x[1] => y = x
      /\ Told \subseteq Asked /\ answer \subseteq ever
      /\ \A c, d \in answer : Identity(c) = Identity(d) => c = d
      /\ \A x \in todo[User] : /\ x[1] \in arg[User].projs
                               /\ \A c \in answer : c.proj # x[1]
      /\ \A b \in throughout \intersect Asked :
           b \in Told \/ projects[b.proj] \in todo[User]
  BY <1>2 DEF QueriesOK, CollectOK
<1>5. /\ Elements(slices[o]) \subseteq Stored
      /\ \A c \in Elements(slices[o]) : c.proj = o[1] /\ Identity(c) \in Births
  BY <1>4, InObject
<1>6. /\ Watched /\ Watched' /\ Stored \subseteq ever
      /\ ever' = ever \union Stored' /\ throughout' = Identities(Stored') \intersect throughout
  BY <1>2, AllObserved, SeenStep DEF Watched, GhostsOK
<1>7. Stored' = Stored
  BY <1>2, SameStored
<1>8. Told' = Told \union Identities(Elements(slices[o])) /\ Asked' = Asked
  BY <1>1, <1>2 DEF Told, Identities, Asked
<1>9. Identities(Elements(slices[o])) \subseteq Asked
  <2>1. \A c \in Elements(slices[o]) : Identity(c).proj = o[1]
    BY <1>5 DEF Identity
  <2> QED
    BY <1>4, <1>5, <2>1 DEF Identities, Asked
<1>10. \A c, d \in answer' : Identity(c) = Identity(d) => c = d
  <2>1. \A c, d \in Elements(slices[o]) : Identity(c) = Identity(d) => c = d
    BY <1>5, StoredIs
  <2>2. \A c \in answer, d \in Elements(slices[o]) : c.proj # d.proj
    BY <1>4, <1>5
  <2>3. \A c, d : c.proj # d.proj => Identity(c) # Identity(d)
    BY DEF Identity
  <2> QED
    BY <1>1, <1>4, <2>1, <2>2, <2>3
<1>11. \A x \in todo'[User] : /\ x[1] \in arg'[User].projs
                              /\ \A c \in answer' : c.proj # x[1]
  BY <1>1, <1>2, <1>3, <1>4, <1>5
<1>12. ASSUME NEW b \in throughout' \intersect Asked'
       PROVE  b \in Told' \/ projects'[b.proj] \in todo'[User]
  <2>1. b \in throughout \intersect Asked
    BY <1>6, <1>8
  <2>2. CASE projects[b.proj] = o
    <3>1. b \in Identities(Elements(slices[projects[b.proj]]))
      <4>1. b \in Identities(Stored) \intersect Identities(Stored')
        BY <1>6, <1>7
      <4>2. \A c \in Stored' : c.proj \in DOMAIN projects'
        BY <1>2, <1>7, StoredIs
      <4>3. Stored' \subseteq Containers
        BY <1>7, StoredIs
      <4> QED
        BY <4>1, <4>2, <4>3, StaysInProject
    <3> QED
      BY <1>8, <2>2, <3>1
  <2> QED
    BY <1>2, <1>3, <1>4, <1>8, <2>1, <2>2
<1>13. todo'[User] \subseteq Objects /\ \A y, x \in todo'[User] : y[1] = x[1] => y = x
  BY <1>3, <1>4
<1>14. Told' \subseteq Asked' /\ answer' \subseteq ever'
  BY <1>1, <1>4, <1>5, <1>6, <1>8, <1>9
<1>15. CollectOK'
  BY <1>10, <1>11, <1>12, <1>13, <1>14 DEF CollectOK
<1> QED
  BY <1>2, <1>15 DEF QueriesOK, CountOK, Watched

\* What the writers do while the user collects.
LEMMA CollectAside ==
    ASSUME Inv, StoredOK', Next, GhostsOK, CollectOK, Aside PROVE CollectOK'
<1> SUFFICES ASSUME pc[User] = "collect" PROVE CollectOK'
  BY DEF CollectOK, Aside
<1>1. /\ pc'[User] = pc[User] /\ arg'[User] = arg[User] /\ todo'[User] = todo[User]
      /\ UNCHANGED answer /\ Told' = Told /\ Asked' = Asked
  BY DEF Aside, Told, Asked, Identities
<1>2. /\ ever' = ever \union Stored' /\ throughout \subseteq Identities(Stored)
      /\ throughout' = Identities(Stored') \intersect throughout
  BY <1>1, AllObserved, SeenStep DEF Watched, GhostsOK
<1>3. ASSUME NEW b \in throughout' \intersect Asked'
      PROVE  b \in Told' \/ projects'[b.proj] \in todo'[User]
  <2>1. b \in throughout \intersect Asked
    BY <1>1, <1>2
  <2>2. b \in Identities(Stored) \intersect Identities(Stored')
    BY <1>2, <2>1
  <2>3. projects'[b.proj] = projects[b.proj]
    BY <2>2, StaysInProject DEF StoredOK
  <2> QED
    BY <1>1, <2>1, <2>3 DEF CollectOK
<1>4. answer' \subseteq ever'
  BY <1>1, <1>2 DEF CollectOK
<1> QED
  BY <1>1, <1>3, <1>4 DEF CollectOK

\* As many containers as are in a slice.
LEMMA SliceCount ==
    ASSUME NEW s, NEW p, SliceOK(s, p)
    PROVE  /\ IsFiniteSet(Identities(Elements(s)))
           /\ Cardinality(Identities(Elements(s))) = Len(s)
<1> DEFINE f == [i \in 1..Len(s) |-> Identity(s[i])]
           T == Identities(Elements(s))
<1>1. Len(s) \in Nat
  BY SliceElements
<1>2. \A x : x \in T <=> \E i \in 1..Len(s) : x = Identity(s[i])
  BY DEF Identities, Elements
<1>3. \A i, j \in 1..Len(s) : Identity(s[i]) = Identity(s[j]) => i = j
  BY DEF SliceOK
<1> HIDE DEF T
<1>4. f \in [1..Len(s) -> T] /\ \A i \in 1..Len(s) : f[i] = Identity(s[i])
  BY <1>2
<1> HIDE DEF f
<1>5. f \in Bijection(1..Len(s), T)
  BY <1>2, <1>3, <1>4 DEF Bijection, Injection, Surjection, IsInjective
<1>6. ExistsBijection(1..Len(s), T)
  BY <1>5 DEF ExistsBijection
<1>7. IsFiniteSet(T) /\ Cardinality(T) = Len(s)
  BY <1>1, <1>6, FS_CountingElements, FS_NatBijection
<1> QED
  BY <1>7 DEF T

\* Go maps are finite, and so is what is stored.
FiniteOK == IsFiniteSet(DOMAIN projects)

LEMMA FiniteNext == ASSUME Inv, FiniteOK, Next PROVE FiniteOK'
<1>1. ASSUME NEW w \in Writers, NEW c \in Inspected, AddBegin(w, c) PROVE FiniteOK'
  <2>1. DOMAIN projects' = DOMAIN projects \union {c.proj}
    BY <1>1, Found
  <2> QED
    BY <2>1, FS_AddElement DEF FiniteOK
<1>2. ASSUME NEW w \in Writers, RemoveProject(w) PROVE FiniteOK'
  <2>1. DOMAIN projects' \in SUBSET DOMAIN projects
    BY <1>2, Dropped
  <2> QED
    BY <2>1, FS_Subset DEF FiniteOK
<1> QED
  BY <1>1, <1>2, MapChanges DEF FiniteOK

LEMMA FiniteCorrect == Spec => []FiniteOK
<1>1. Init => FiniteOK
  <2> SUFFICES ASSUME Init PROVE FiniteOK
    OBVIOUS
  <2>1. \E s \in Stocks : DOMAIN projects = DOMAIN s
    BY DEF Init
  <2> QED
    BY <2>1, StocksAssumption DEF FiniteOK
<1>2. Inv /\ FiniteOK /\ [Next]_vars => FiniteOK'
  BY FiniteNext DEF vars, FiniteOK
<1> QED
  BY <1>1, <1>2, InvCorrect, PTL DEF Spec

LEMMA FiniteStored == ASSUME Inv, FiniteOK PROVE IsFiniteSet(Identities(Stored))
<1> DEFINE g == [p \in DOMAIN projects |-> Identities(Elements(slices[projects[p]]))]
           T == {g[p] : p \in DOMAIN projects}
<1>1. \A p \in DOMAIN projects : IsFiniteSet(g[p])
  BY MapIs, SliceCount
<1>2. Identities(Stored) = UNION T
  BY DEF Identities, Stored, StoredIn
<1> HIDE DEF g
<1>3. DOMAIN g = DOMAIN projects
  BY DEF g
<1>4. g \in Surjection(DOMAIN projects, T)
  BY <1>3 DEF Surjection, g
<1>5. IsFiniteSet(T)
  BY <1>4, FS_Surjection DEF FiniteOK
<1>6. \A S \in T : IsFiniteSet(S)
  BY <1>1
<1> HIDE DEF T
<1> QED
  BY <1>2, <1>5, <1>6, FS_UNION

\* The two bounds of a sum, with another project counted.
LEMMA MoreCounted ==
    ASSUME NEW A, NEW B, NEW L, NEW U, IsFiniteSet(A), IsFiniteSet(B), IsFiniteSet(U),
           NEW n \in Nat
    PROVE  /\ Cardinality(A) <= n /\ L \subseteq A \union B =>
                Cardinality(L) <= n + Cardinality(B)
           /\ n <= Cardinality(A) /\ A \union B \subseteq U /\ A \intersect B = {} =>
                n + Cardinality(B) <= Cardinality(U)
<1>1. /\ IsFiniteSet(A \union B)
      /\ Cardinality(A \union B) = Cardinality(A) + Cardinality(B)
                                     - Cardinality(A \intersect B)
  BY FS_Union
<1>2. IsFiniteSet(A \intersect B)
  BY FS_Intersection
<1>3. /\ Cardinality(A) \in Nat /\ Cardinality(B) \in Nat /\ Cardinality(U) \in Nat
      /\ Cardinality(A \union B) \in Nat /\ Cardinality(A \intersect B) \in Nat
  BY <1>1, <1>2, FS_CardinalityType
<1>4. ASSUME Cardinality(A) <= n, L \subseteq A \union B
      PROVE  Cardinality(L) <= n + Cardinality(B)
  <2>1. Cardinality(L) <= Cardinality(A \union B) /\ Cardinality(L) \in Nat
    BY <1>1, <1>4, FS_Subset, FS_CardinalityType
  <2> QED
    BY <1>1, <1>3, <1>4, <2>1
<1>5. ASSUME n <= Cardinality(A), A \union B \subseteq U, A \intersect B = {}
      PROVE  n + Cardinality(B) <= Cardinality(U)
  <2>1. Cardinality(A \union B) <= Cardinality(U)
    BY <1>5, FS_Subset
  <2>2. Cardinality(A \intersect B) = 0
    BY <1>5, FS_EmptySet
  <2> QED
    BY <1>1, <1>3, <1>5, <2>1, <2>2
<1> QED
  BY <1>4, <1>5

LEMMA AskTotalOK ==
    ASSUME Inv, StoredOK', QueriesOK, AskTotal, Next PROVE QueriesOK'
<1>0. ShapeOK /\ User \in Callers
  BY WritersAre DEF Inv
<1>1. /\ pc[User] = "idle" /\ pc' = [pc EXCEPT ![User] = "count"]
      /\ todo' = [todo EXCEPT ![User] = DOMAIN projects]
      /\ UNCHANGED <<projects, slices>> /\ answer' = 0
  BY DEF AskTotal, Query, At, Quiet
<1>2. pc'[User] = "count" /\ todo'[User] = DOMAIN projects'
  BY <1>0, <1>1 DEF ShapeOK
<1>3. ever' = Stored' /\ throughout' \subseteq Identities(Stored')
  BY <1>1, <1>2, AllObserved, SeenStep DEF QueriesOK, Watched
<1>4. IsFiniteSet(Identities(Stored'))
  BY DEF StoredOK, Identities
<1>5. IsFiniteSet(Identities(ever')) /\ IsFiniteSet(throughout')
  BY <1>3, <1>4, FS_Subset
<1>6. Counted(throughout)' = {}
  <2>1. \A c \in Stored' : c.proj \in DOMAIN projects'
    BY DEF StoredOK
  <2>2. \A b \in Identities(Stored') : b.proj \in DOMAIN projects'
    BY <2>1 DEF Identities, Identity
  <2> QED
    BY <1>2, <1>3, <2>2 DEF Counted
<1>7. Counted(Identities(ever))' \in SUBSET Identities(ever')
  BY DEF Counted, Identities
<1>8. IsFiniteSet(Counted(Identities(ever))')
  BY <1>5, <1>7, FS_Subset
<1>9. Cardinality(Counted(Identities(ever))') \in Nat /\ Cardinality({}) = 0
  BY <1>8, FS_CardinalityType, FS_EmptySet
<1>10. CountOK'
  <2>1. Identities(ever)' = Identities(ever')
    BY DEF Identities
  <2> QED
    BY <1>1, <1>2, <1>5, <1>6, <1>9, <2>1 DEF CountOK
<1> QED
  BY <1>2, <1>10 DEF QueriesOK, CollectOK, Watched

\* What was true while it is counted stays in the sets that are summed up.
LEMMA CountWatched ==
    ASSUME Inv, StoredOK', GhostsOK, CountOK, Next,
           pc[User] = "count", pc'[User] = "count", ~raced'
    PROVE  /\ ~raced /\ UNCHANGED projects
           /\ ever' = ever \union Stored' /\ Stored \subseteq ever
           /\ throughout' = Identities(Stored') \intersect throughout
           /\ throughout \subseteq Identities(Stored)
           /\ Identities(ever') = Identities(ever) \union Identities(Stored')
           /\ IsFiniteSet(Identities(ever')) /\ IsFiniteSet(throughout')
<1>1. Observed
  BY AllObserved
<1>2. ~raced /\ UNCHANGED projects
  BY <1>1 DEF Observed, Watched
<1>3. /\ ever' = ever \union Stored' /\ Stored \subseteq ever
      /\ throughout' = Identities(Stored') \intersect throughout
      /\ throughout \subseteq Identities(Stored)
  BY <1>1, SeenStep DEF Watched, GhostsOK
<1>4. Identities(ever') = Identities(ever) \union Identities(Stored')
  BY <1>3 DEF Identities
<1>5. IsFiniteSet(Identities(Stored'))
  BY DEF StoredOK, Identities
<1>6. IsFiniteSet(Identities(ever')) /\ IsFiniteSet(throughout')
  BY <1>2, <1>3, <1>4, <1>5, FS_Union, FS_Intersection DEF CountOK
<1> QED
  BY <1>2, <1>3, <1>4, <1>6

LEMMA CountStep ==
    ASSUME Inv, StoredOK', GhostsOK, QueriesOK, CountProject, Next PROVE QueriesOK'
<1>0. ShapeOK /\ User \in Callers
  BY WritersAre DEF Inv
<1>1. PICK p \in todo[User] : /\ answer' = answer + Len(slices[projects[p]])
                              /\ todo' = [todo EXCEPT ![User] = @ \ {p}]
  BY DEF CountProject, Tallied
<1>2. pc[User] = "count" /\ ~raced /\ UNCHANGED <<projects, slices, pc>>
  BY DEF CountProject, Quiet
<1>3. todo'[User] = todo[User] \ {p} /\ pc'[User] = "count"
  BY <1>0, <1>1, <1>2 DEF ShapeOK
<1> SUFFICES ASSUME ~raced' PROVE CountOK'
  BY <1>3 DEF QueriesOK, CollectOK, CountOK, Watched
<1>4. /\ ever' = ever \union Stored' /\ Stored \subseteq ever
      /\ throughout' = Identities(Stored') \intersect throughout
      /\ Identities(ever') = Identities(ever) \union Identities(Stored')
      /\ IsFiniteSet(Identities(ever')) /\ IsFiniteSet(throughout')
  BY <1>2, <1>3, CountWatched DEF QueriesOK
<1>5. /\ todo[User] \subseteq DOMAIN projects /\ answer \in Nat
      /\ IsFiniteSet(Identities(ever)) /\ IsFiniteSet(throughout)
      /\ Cardinality(Counted(throughout)) <= answer
      /\ answer <= Cardinality(Counted(Identities(ever)))
  BY <1>2 DEF QueriesOK, CountOK
<1> DEFINE s == slices[projects[p]]
           B == Identities(Elements(s))
           L == {b \in throughout' : b.proj \notin todo'[User]}
           U == {b \in Identities(ever') : b.proj \notin todo'[User]}
<1>6. IsFiniteSet(B) /\ Cardinality(B) = Len(s) /\ Len(s) \in Nat
  BY <1>5, MapIs, SliceCount, SliceElements
<1>7. /\ \A b \in B : b.proj = p /\ b \in Identities(ever)
      /\ \A b \in Identities(Stored) : b.proj = p => b \in B
  <2>1. \A c : c \in Elements(s) <=> c \in Stored /\ c.proj = p
    BY <1>5, StoredIs
  <2> HIDE DEF s
  <2>2. \A c : Identity(c).proj = c.proj
    BY DEF Identity
  <2> QED
    BY <1>4, <2>1, <2>2 DEF Identities
<1>8. /\ Counted(throughout) \in SUBSET throughout /\ U \in SUBSET Identities(ever')
      /\ Counted(Identities(ever)) \in SUBSET Identities(ever)
  BY DEF Counted
<1>9. /\ IsFiniteSet(Counted(throughout)) /\ IsFiniteSet(U)
      /\ IsFiniteSet(Counted(Identities(ever)))
  BY <1>4, <1>5, <1>8, FS_Subset
<1>10. Identities(Stored') = Identities(Stored)
  BY <1>2, SameStored
<1> HIDE DEF B
<1>11. L \subseteq Counted(throughout) \union B
  BY <1>3, <1>4, <1>7, <1>10 DEF Counted
<1>12. /\ Counted(Identities(ever)) \union B \subseteq U
       /\ Counted(Identities(ever)) \intersect B = {}
  BY <1>3, <1>4, <1>7 DEF Counted
<1> HIDE DEF L, U, s
<1>13. Cardinality(L) <= answer + Cardinality(B)
  BY <1>5, <1>6, <1>9, <1>11, MoreCounted
<1>14. answer + Cardinality(B) <= Cardinality(U)
  BY <1>5, <1>6, <1>9, <1>12, MoreCounted
<1>15. answer' = answer + Cardinality(B) /\ answer' \in Nat
  BY <1>1, <1>5, <1>6 DEF s
<1>16. todo'[User] \subseteq DOMAIN projects'
  BY <1>2, <1>3, <1>5
<1>17. L = Counted(throughout)' /\ U = Counted(Identities(ever))'
       /\ Identities(ever)' = Identities(ever')
  BY DEF L, U, Counted, Identities
<1> QED
  BY <1>4, <1>13, <1>14, <1>15, <1>16, <1>17 DEF CountOK

\* What the writers do while the user counts.
LEMMA CountAside ==
    ASSUME Inv, StoredOK', GhostsOK, CountOK, Aside, Next PROVE CountOK'
<1> SUFFICES ASSUME pc'[User] = "count", ~raced' PROVE CountOK'
  BY DEF CountOK
<1>1. /\ pc[User] = "count" /\ todo'[User] = todo[User] /\ UNCHANGED answer
  BY DEF Aside
<1>2. /\ ~raced /\ UNCHANGED projects
      /\ throughout' = Identities(Stored') \intersect throughout
      /\ Identities(ever') = Identities(ever) \union Identities(Stored')
      /\ IsFiniteSet(Identities(ever')) /\ IsFiniteSet(throughout')
  BY <1>1, CountWatched
<1>3. /\ todo[User] \subseteq DOMAIN projects /\ answer \in Nat
      /\ IsFiniteSet(Identities(ever)) /\ IsFiniteSet(throughout)
      /\ Cardinality(Counted(throughout)) <= answer
      /\ answer <= Cardinality(Counted(Identities(ever)))
  BY <1>1, <1>2 DEF CountOK
<1> DEFINE L == {b \in throughout' : b.proj \notin todo'[User]}
           U == {b \in Identities(ever') : b.proj \notin todo'[User]}
<1>4. /\ Counted(throughout) \in SUBSET throughout /\ U \in SUBSET Identities(ever')
      /\ L \in SUBSET Counted(throughout) /\ Counted(Identities(ever)) \in SUBSET U
  BY <1>1, <1>2 DEF Counted
<1> HIDE DEF L, U
<1>5. IsFiniteSet(Counted(throughout)) /\ IsFiniteSet(U)
  BY <1>2, <1>3, <1>4, FS_Subset
<1>6. /\ Cardinality(L) <= Cardinality(Counted(throughout))
      /\ Cardinality(Counted(Identities(ever))) <= Cardinality(U)
      /\ IsFiniteSet(L) /\ IsFiniteSet(Counted(Identities(ever)))
  BY <1>4, <1>5, FS_Subset
<1>7. /\ Cardinality(L) \in Nat /\ Cardinality(U) \in Nat
      /\ Cardinality(Counted(throughout)) \in Nat
      /\ Cardinality(Counted(Identities(ever))) \in Nat
  BY <1>5, <1>6, FS_CardinalityType
<1>8. Cardinality(L) <= answer /\ answer <= Cardinality(U)
  BY <1>3, <1>6, <1>7
<1>9. L = Counted(throughout)' /\ U = Counted(Identities(ever))'
      /\ Identities(ever)' = Identities(ever')
  BY DEF L, U, Counted, Identities
<1> QED
  BY <1>1, <1>2, <1>3, <1>8, <1>9 DEF CountOK

LEMMA QueriesNext ==
    ASSUME Inv, StoredOK', GhostsOK, GhostsOK', QueriesOK, [Next]_vars PROVE QueriesOK'
<1>0. ShapeOK /\ User \in Callers
  BY WritersAre DEF Inv
<1>1. CASE UNCHANGED vars
  BY <1>1 DEF vars, QueriesOK, CollectOK, CountOK, Counted, Told, Asked, Identities, Watched
<1>2. CASE Next /\ Aside
  <2>1. CASE Watched
    BY <1>2, <2>1, CollectAside, CountAside DEF QueriesOK, Watched, Aside
  <2>2. CASE ~Watched
    BY <1>2, <2>2, NoQuery DEF QueriesOK, Watched, Aside
  <2> QED
    BY <2>1, <2>2
<1>3. CASE Next /\ ~Watched /\ ~Watched' /\ UNCHANGED answer
  BY <1>3, NoQuery DEF QueriesOK
<1>4. CASE Next /\ QueryEnd
  <2>1. ~Watched' /\ answer' = {}
    BY <1>0, <1>4 DEF QueryEnd, At, Watched, ShapeOK
  <2> QED
    BY <1>4, <2>1, NoQuery
<1> QED
  BY <1>1, <1>2, <1>3, <1>4, UserSteps, AskProjectsOK, AskTotalOK, CollectStep, CountStep

LEMMA QueriesCorrect == Spec => []QueriesOK
<1>1. Init => QueriesOK
  BY WritersAre DEF Init, QueriesOK, CollectOK, CountOK, Watched
<1>2. Inv /\ FiniteOK => StoredOK
  BY StoredIs, FiniteStored DEF StoredOK
<1>3. Inv /\ StoredOK' /\ GhostsOK /\ GhostsOK' /\ QueriesOK /\ [Next]_vars => QueriesOK'
  BY QueriesNext
<1> QED
  BY <1>1, <1>2, <1>3, InvCorrect, FiniteCorrect, GhostsCorrect, PTL DEF Spec

\* Only the end of a query ends it.
LEMMA Ending ==
    ASSUME Inv, Next, NEW here \in {"collect", "count"}, Ends(here) PROVE QueryEnd
<1>0. pc \in [Callers -> PCs] /\ User \in Callers
  BY WritersAre DEF Inv, ShapeOK
<1>1. pc[User] = here /\ pc'[User] = "idle"
  BY DEF Ends
<1>2. ~Aside
  BY <1>1 DEF Aside
<1>3. Watched
  BY <1>1 DEF Watched
<1>4. \A projs : ~AskProjects(projs)
  BY <1>1 DEF AskProjects, Query, At
<1>5. ~AskTotal
  BY <1>1 DEF AskTotal, Query, At
<1>6. ~CollectProject /\ ~CountProject
  BY <1>1 DEF CollectProject, CountProject
<1> QED
  BY <1>2, <1>3, <1>4, <1>5, <1>6, UserSteps

\* AllContainers and the containers of a project are never torn: however many calls
\* of the others get in between, they tell each container that was there all the
\* time, once, and none that was not (portfolio.go:88-104, project.go:48-67).
THEOREM AllSeenCorrect == Spec => AllSeen
<1>1. ASSUME Inv, GhostsOK, QueriesOK, Next, Ends("collect")
      PROVE  /\ throughout \intersect Asked \subseteq Told
             /\ Told \subseteq Asked /\ answer \subseteq ever
             /\ \A c, d \in answer : Identity(c) = Identity(d) => c = d
  <2>1. pc[User] = "collect" /\ todo[User] = {}
    BY <1>1, Ending DEF QueryEnd, GhostsOK, Ends
  <2> QED
    BY <1>1, <2>1 DEF QueriesOK, CollectOK
<1>2. Inv /\ GhostsOK /\ QueriesOK /\ [Next]_vars =>
        [Ends("collect") =>
           /\ throughout \intersect Asked \subseteq Told
           /\ Told \subseteq Asked /\ answer \subseteq ever
           /\ \A c, d \in answer : Identity(c) = Identity(d) => c = d]_vars
  BY <1>1
<1> QED
  BY <1>2, InvCorrect, GhostsCorrect, QueriesCorrect, PTL DEF Spec, AllSeen

\* ContainerTotal counts right, too, unless the map changes under its range loop
\* (portfolio.go:79-86).
THEOREM TotalRightCorrect == Spec => TotalRight
<1>1. ASSUME Inv, QueriesOK, Next, Ends("count") /\ ~raced
      PROVE  /\ Cardinality(throughout) <= answer
             /\ answer <= Cardinality(Identities(ever))
  <2>1. pc[User] = "count" /\ todo[User] = {} /\ ~raced
    BY <1>1, Ending DEF QueryEnd, Ends
  <2>2. Counted(throughout) = throughout /\ Counted(Identities(ever)) = Identities(ever)
    BY <2>1 DEF Counted
  <2> QED
    BY <1>1, <2>1, <2>2 DEF QueriesOK, CountOK
<1>2. Inv /\ QueriesOK /\ [Next]_vars =>
        [Ends("count") /\ ~raced =>
           /\ Cardinality(throughout) <= answer
           /\ answer <= Cardinality(Identities(ever))]_vars
  BY <1>1
<1> QED
  BY <1>2, InvCorrect, QueriesCorrect, PTL DEF Spec, TotalRight
=============================================================================

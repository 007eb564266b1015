---------------------------- MODULE HostNameProofs ----------------------------
(***************************************************************************)
(* Proofs about HostName, for any number of threads and visitors.          *)
(***************************************************************************)
EXTENDS HostName, TLAPS

\* The namespace that a visitor's thread is in: home until it has entered, then
\* that of the engine until it has left.
OnItsWay == \A v \in Visitors :
              pc[v] \in {"visit", "leave"} => space[on[v]] = TargetOf[v]

\* Only visitors with an engine to ask about go visiting.
OnlyEngines ==
    \A v \in Visitors :
      /\ pc[v] \in {"openself", "opentarget", "gosync", "enter", "visit", "leave"}
           => TargetOf[v] \in Spaces
      /\ pc[v] = "own" => TargetOf[v] = Own

\* What keeps the way back open once M0 is locked: it stays at home, so that
\* everyone remembers home as the way back.
WayBack ==
    /\ thread[M0] = "locked" /\ space[M0] = Home
    /\ \A v \in Visitors : OnThread(v) => on[v] # M0
    /\ \A v \in Visitors :
         pc[v] \in {"opentarget", "gosync", "enter", "visit", "leave"} => orig[v] = Home
    /\ \A v \in Visitors : pc[v] = "enter" => space[on[v]] = Home
    /\ \A t \in Threads : thread[t] \in {"unborn", "open"} => space[t] = Home

Answers(v) == {NoName, UTSName(NameSpace(v)), EtcName(NameSpace(v))}
RightName ==
    \A v \in Visitors : (TargetOf[v] = Own => mainlocked) => name[v] \in Answers(v)

Inv == /\ TypeOK /\ OnItsWay /\ OnlyEngines /\ RightName
       /\ mainlocked => WayBack

USE ThreadsAssumption, SpacesAssumption, TargetsAssumption
-----------------------------------------------------------------------------
\* In the beginning nobody is on the way.
LEMMA InvInit == Init => Inv
<1> SUFFICES ASSUME Init PROVE Inv
  OBVIOUS
<1>1. TypeOK
  BY DEF Init, TypeOK, PCs, OnThread, Names
<1>2. OnItsWay /\ OnlyEngines
  BY DEF Init, OnItsWay, OnlyEngines
<1>3. RightName
  BY DEF Init, RightName, Answers
<1>4. mainlocked => WayBack
  BY DEF Init, WayBack, OnThread
<1> QED
  BY <1>1, <1>2, <1>3, <1>4 DEF Inv

\* The names there are.
LEMMA NamesTypes ==
  /\ NoName \in Names
  /\ \A ns \in Spaces : UTSName(ns) \in Names /\ EtcName(ns) \in Names
  /\ \A v \in Visitors : NameSpace(v) \in Spaces
BY DEF Names, NoName, UTSName, EtcName, NameSpace
-----------------------------------------------------------------------------
(***************************************************************************)
(* The steps, one lemma for each conjunct of the invariant.                *)
(***************************************************************************)

\* Types, and that no two visitors share a thread.
LEMMA TypeStep == Inv /\ [Next]_vars => TypeOK'
<1> SUFFICES ASSUME Inv, [Next]_vars PROVE TypeOK'
  OBVIOUS
<1> USE DEF Inv
<1>1. ASSUME NEW t \in Threads, Spawn(t) PROVE TypeOK'
  BY <1>1 DEF Spawn, TypeOK, OnThread
<1>2. ASSUME NEW v \in Visitors, Ask(v) PROVE TypeOK'
  BY <1>2 DEF Ask, Goes, TypeOK, OnThread, PCs
<1>3. ASSUME NEW v \in Visitors, OwnName(v) PROVE TypeOK'
  BY <1>3, NamesTypes DEF OwnName, Goes, TypeOK, OnThread, PCs
<1>4. ASSUME NEW v \in Visitors, OpenSelf(v) PROVE TypeOK'
  BY <1>4 DEF OpenSelf, Goes, TypeOK, OnThread, PCs
<1>5. ASSUME NEW v \in Visitors, OpenTarget(v) PROVE TypeOK'
  BY <1>5 DEF OpenTarget, Goes, TypeOK, OnThread, PCs
<1>6. ASSUME NEW v \in Visitors, LockThread(v) PROVE TypeOK'
  BY <1>6 DEF LockThread, LockOSThread, Goes, TypeOK, OnThread, PCs
<1>7. ASSUME NEW v \in Visitors, Enter(v) PROVE TypeOK'
  BY <1>7 DEF Enter, EnterFails, Ends, Goes, TypeOK, OnThread, PCs, OnlyEngines
<1>8. ASSUME NEW v \in Visitors, Visit(v) PROVE TypeOK'
  BY <1>8, NamesTypes DEF Visit, Goes, TypeOK, OnThread, PCs
<1>9. ASSUME NEW v \in Visitors, Leave(v) PROVE TypeOK'
  BY <1>9 DEF Leave, LeaveFails, Ends, Goes, TypeOK, OnThread, PCs
<1>10. ASSUME NEW v \in Visitors, Fallback(v) PROVE TypeOK'
  BY <1>10, NamesTypes DEF Fallback, Goes, TypeOK, OnThread, PCs
<1>11. CASE UNCHANGED vars
  BY <1>11 DEF vars, TypeOK, OnThread
<1> QED
  BY <1>1, <1>2, <1>3, <1>4, <1>5, <1>6, <1>7, <1>8, <1>9, <1>10, <1>11
     DEF Next, VisitorStep, Terminated

\* A thread is where its visitor has taken it: nobody else moves it.
LEMMA OnItsWayStep == Inv /\ [Next]_vars => OnItsWay' /\ OnlyEngines'
<1> SUFFICES ASSUME Inv, [Next]_vars PROVE OnItsWay' /\ OnlyEngines'
  OBVIOUS
<1> USE DEF Inv, OnItsWay, OnlyEngines
<1>1. ASSUME NEW t \in Threads, Spawn(t) PROVE OnItsWay' /\ OnlyEngines'
  BY <1>1 DEF Spawn
<1>2. ASSUME NEW v \in Visitors, Ask(v) PROVE OnItsWay' /\ OnlyEngines'
  BY <1>2 DEF Ask, Goes, TypeOK
<1>3. ASSUME NEW v \in Visitors, OwnName(v) PROVE OnItsWay' /\ OnlyEngines'
  BY <1>3 DEF OwnName, Goes, TypeOK
<1>4. ASSUME NEW v \in Visitors, OpenSelf(v) PROVE OnItsWay' /\ OnlyEngines'
  BY <1>4 DEF OpenSelf, Goes, TypeOK
<1>5. ASSUME NEW v \in Visitors, OpenTarget(v) PROVE OnItsWay' /\ OnlyEngines'
  BY <1>5 DEF OpenTarget, Goes, TypeOK
<1>6. ASSUME NEW v \in Visitors, LockThread(v) PROVE OnItsWay' /\ OnlyEngines'
  BY <1>6 DEF LockThread, LockOSThread, Goes, TypeOK
<1>7. ASSUME NEW v \in Visitors, Enter(v) PROVE OnItsWay' /\ OnlyEngines'
  BY <1>7 DEF Enter, EnterFails, Ends, Goes, TypeOK, OnThread
<1>8. ASSUME NEW v \in Visitors, Visit(v) PROVE OnItsWay' /\ OnlyEngines'
  BY <1>8 DEF Visit, Goes, TypeOK
<1>9. ASSUME NEW v \in Visitors, Leave(v) PROVE OnItsWay' /\ OnlyEngines'
  BY <1>9 DEF Leave, LeaveFails, Ends, Goes, TypeOK, OnThread
<1>10. ASSUME NEW v \in Visitors, Fallback(v) PROVE OnItsWay' /\ OnlyEngines'
  BY <1>10 DEF Fallback, Goes, TypeOK
<1>11. CASE UNCHANGED vars
  BY <1>11 DEF vars
<1> QED
  BY <1>1, <1>2, <1>3, <1>4, <1>5, <1>6, <1>7, <1>8, <1>9, <1>10, <1>11
     DEF Next, VisitorStep, Terminated

\* With M0 locked, whoever leaves returns home.
LEMMA WayBackStep == Inv /\ [Next]_vars /\ mainlocked' => WayBack'
<1> SUFFICES ASSUME Inv, [Next]_vars, mainlocked' PROVE WayBack'
  OBVIOUS
<1>0. mainlocked /\ WayBack /\ TypeOK /\ OnlyEngines
  BY DEF Inv, Next, VisitorStep, Spawn, Ask, OwnName, OpenSelf, OpenTarget, LockThread,
         Enter, Visit, Leave, Fallback, Terminated, vars
<1> USE <1>0 DEF WayBack
<1>1. ASSUME NEW t \in Threads, Spawn(t) PROVE WayBack'
  BY <1>1 DEF Spawn, TypeOK, OnThread
<1>2. ASSUME NEW v \in Visitors, Ask(v) PROVE WayBack'
  BY <1>2 DEF Ask, Goes, TypeOK, OnThread
<1>3. ASSUME NEW v \in Visitors, OwnName(v) PROVE WayBack'
  BY <1>3 DEF OwnName, Goes, TypeOK, OnThread
<1>4. ASSUME NEW v \in Visitors, OpenSelf(v) PROVE WayBack'
  BY <1>4 DEF OpenSelf, Goes, TypeOK, OnThread
<1>5. ASSUME NEW v \in Visitors, OpenTarget(v) PROVE WayBack'
  BY <1>5 DEF OpenTarget, Goes, TypeOK, OnThread
<1>6. ASSUME NEW v \in Visitors, LockThread(v) PROVE WayBack'
  BY <1>6 DEF LockThread, LockOSThread, Goes, TypeOK, OnThread
<1>7. ASSUME NEW v \in Visitors, Enter(v) PROVE WayBack'
  BY <1>7 DEF Enter, EnterFails, Ends, Goes, TypeOK, OnThread
<1>8. ASSUME NEW v \in Visitors, Visit(v) PROVE WayBack'
  BY <1>8 DEF Visit, Goes, TypeOK, OnThread
<1>9. ASSUME NEW v \in Visitors, Leave(v) PROVE WayBack'
  BY <1>9 DEF Leave, LeaveFails, Ends, Goes, TypeOK, OnThread
<1>10. ASSUME NEW v \in Visitors, Fallback(v) PROVE WayBack'
  BY <1>10 DEF Fallback, Goes, TypeOK, OnThread
<1>11. CASE UNCHANGED vars
  BY <1>11 DEF vars, OnThread
<1> QED
  BY <1>1, <1>2, <1>3, <1>4, <1>5, <1>6, <1>7, <1>8, <1>9, <1>10, <1>11
     DEF Next, VisitorStep, Terminated

\* A name is taken where the visitor wanted to go, or at home.
LEMMA RightNameStep == Inv /\ [Next]_vars => RightName'
<1> SUFFICES ASSUME Inv, [Next]_vars PROVE RightName'
  OBVIOUS
<1>0. RightName /\ TypeOK /\ OnItsWay /\ OnlyEngines
  BY DEF Inv
<1> USE <1>0 DEF RightName, Answers
<1>1. ASSUME UNCHANGED <<mainlocked, name>> PROVE RightName'
  BY <1>1
<1>2. ASSUME NEW v \in Visitors, OwnName(v) PROVE RightName'
  <2>1. PICK t \in Threads :
          /\ thread[t] = "open" \/ (t = M0 /\ mainlocked)
          /\ name' = [name EXCEPT ![v] = UTSName(space[t])]
    BY <1>2 DEF OwnName
  <2>2. TargetOf[v] = Own /\ UNCHANGED mainlocked
    BY <1>2 DEF OwnName, OnlyEngines
  <2>3. mainlocked => space[t] = Home
    BY <2>1 DEF Inv, WayBack
  <2> QED
    BY <2>1, <2>2, <2>3 DEF NameSpace, TypeOK
<1>3. ASSUME NEW v \in Visitors, Visit(v) PROVE RightName'
  BY <1>3 DEF Visit, OnItsWay, OnlyEngines, NameSpace, TypeOK
<1>4. ASSUME NEW v \in Visitors, Fallback(v) PROVE RightName'
  BY <1>4 DEF Fallback, TypeOK
<1> QED
  BY <1>1, <1>2, <1>3, <1>4
     DEF Next, VisitorStep, Spawn, Ask, OpenSelf, OpenTarget, LockThread, Enter, Leave,
         Terminated, vars
-----------------------------------------------------------------------------
\* The invariant holds throughout.
LEMMA InvCorrect == Spec => []Inv
<1>1. Inv /\ [Next]_vars => Inv'
  BY TypeStep, OnItsWayStep, WayBackStep, RightNameStep DEF Inv
<1> QED
  BY InvInit, <1>1, PTL DEF Spec

\* However many visitors there are, each has its thread for itself.
THEOREM TypeCorrect == Spec => []TypeOK
BY InvCorrect, PTL DEF Inv

\* When M0 is locked, no thread that the scheduler may use is ever in a foreign
\* namespace (hostname.go:62-88), whatever fails on the way there and back.
THEOREM NoForeignThreadCorrect == Spec => []NoForeignThread
<1>1. Inv => NoForeignThread
  BY DEF Inv, WayBack, NoForeignThread
<1> QED
  BY InvCorrect, <1>1, PTL

\* Nobody gets the name of another host than the one asked about, also when
\* namespaces cannot be entered or left (hostname.go:29-52).
THEOREM NameOfTargetCorrect == Spec => []NameOfTarget
<1>1. Inv => NameOfTarget
  BY DEF Inv, RightName, Answers, NameOfTarget
<1> QED
  BY InvCorrect, <1>1, PTL
===============================================================================

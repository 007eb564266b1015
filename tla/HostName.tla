------------------------------- MODULE HostName -------------------------------
(***************************************************************************)
(* hostname and visitUTS of engineclient/cri/hostname.go: how the CRI      *)
(* client's ID finds the name of the host that an engine runs on.  It      *)
(* takes an OS thread of its own process into the UTS namespace of the     *)
(* engine's process and back, while other goroutines go on and are put by  *)
(* the Go scheduler on any thread that is not locked to a goroutine.       *)
(***************************************************************************)
CONSTANTS Threads,    \* OS threads of the process, those to come included
          M0,         \* its first, whose namespaces /proc/self shows
          Visitors,   \* callers of hostname
          Spaces,     \* UTS namespaces
          Home,       \* the one that the process was started in
          TargetOf,   \* the namespace of the engine each visitor asks about
          Own,        \* in place of that: asks with a PID of zero
          Nameless,   \* the namespaces without a host name
          NoThread    \* not a thread

ASSUME ThreadsAssumption == M0 \in Threads /\ NoThread \notin Threads
ASSUME SpacesAssumption == Home \in Spaces /\ Nameless \subseteq Spaces
ASSUME TargetsAssumption == /\ TargetOf \in [Visitors -> Spaces \union {Own}]
                            /\ Own \notin Spaces

VARIABLES
    mainlocked,  \* has the application locked M0 to its initial goroutine?
    thread,      \* the state of each thread
    space,       \* the UTS namespace it is in
    pc,          \* where each visitor is
    on,          \* the thread its goroutine is locked to
    orig,        \* the namespace of origUTSfd
    name         \* the host name it has so far

vars == <<mainlocked, thread, space, pc, on, orig, name>>
-----------------------------------------------------------------------------
NoName == <<>>
UTSName(ns) == IF ns \in Nameless THEN NoName ELSE <<"uts", ns>>
EtcName(ns) == <<"etc/hostname", ns>>
NameSpace(v) == IF TargetOf[v] = Own THEN Home ELSE TargetOf[v]

Init ==
    /\ mainlocked \in BOOLEAN
    /\ thread = [t \in Threads |->
                   IF t # M0 THEN "unborn" ELSE IF mainlocked THEN "locked" ELSE "open"]
    /\ space = [t \in Threads |-> Home]
    /\ pc = [v \in Visitors |-> "idle"]
    /\ on = [v \in Visitors |-> NoThread]
    /\ orig = [v \in Visitors |-> Home]
    /\ name = [v \in Visitors |-> NoName]

\* The Go runtime starts threads as needed, from one nobody has ever locked.
Spawn(t) ==
    /\ thread[t] = "unborn"
    /\ thread' = [thread EXCEPT ![t] = "open"]
    /\ UNCHANGED <<mainlocked, space, pc, on, orig, name>>
-----------------------------------------------------------------------------
Goes(v, next) == pc' = [pc EXCEPT ![v] = next]

Ask(v) ==
    /\ pc[v] = "idle"
    /\ Goes(v, IF TargetOf[v] = Own THEN "own" ELSE "openself")
    /\ UNCHANGED <<mainlocked, thread, space, on, orig, name>>

\* With a PID of zero: os.Hostname, on whatever thread that is.
OwnName(v) ==
    /\ pc[v] = "own"
    /\ \E t \in Threads :
         /\ thread[t] = "open" \/ (t = M0 /\ mainlocked)
         /\ name' = [name EXCEPT ![v] = UTSName(space[t])]
    /\ Goes(v, "fallback")
    /\ UNCHANGED <<mainlocked, thread, space, on, orig>>

\* visitUTS: the files of the two namespaces.  Either may fail to open.
OpenSelf(v) ==
    /\ pc[v] = "openself"
    /\ \/ orig' = [orig EXCEPT ![v] = space[M0]] /\ Goes(v, "opentarget")
       \/ Goes(v, "fallback") /\ UNCHANGED orig
    /\ UNCHANGED <<mainlocked, thread, space, on, name>>

OpenTarget(v) ==
    /\ pc[v] = "opentarget"
    /\ Goes(v, "gosync") \/ Goes(v, "fallback")
    /\ UNCHANGED <<mainlocked, thread, space, on, orig, name>>

\* From now on the scheduler keeps other goroutines off the thread.
LockOSThread_Forgets(t) == UNCHANGED thread
LockOSThread(t) == thread' = [thread EXCEPT ![t] = "locked"]

\* A new goroutine, and the thread that it happens to be on when it locks it.
LockThread(v) ==
    /\ pc[v] = "gosync"
    /\ \E t \in Threads :
         /\ thread[t] = "open"
         /\ LockOSThread(t)
         /\ on' = [on EXCEPT ![v] = t]
    /\ Goes(v, "enter")
    /\ UNCHANGED <<mainlocked, space, orig, name>>

\* The goroutine ends, and leaves its thread in the given state.
Ends(v, state) ==
    /\ thread' = [thread EXCEPT ![on[v]] = state]
    /\ on' = [on EXCEPT ![v] = NoThread]
    /\ Goes(v, "fallback")

EnterFails_GoesOn(v) == Goes(v, "visit") /\ UNCHANGED <<thread, on>>
EnterFails(v) == Ends(v, "open")

Enter(v) ==
    /\ pc[v] = "enter"
    /\ \/ /\ space' = [space EXCEPT ![on[v]] = TargetOf[v]]
          /\ Goes(v, "visit")
          /\ UNCHANGED <<thread, on>>
       \/ EnterFails(v) /\ UNCHANGED space
    /\ UNCHANGED <<mainlocked, orig, name>>

Visit(v) ==
    /\ pc[v] = "visit"
    /\ name' = [name EXCEPT ![v] = UTSName(space[on[v]])]
    /\ Goes(v, "leave")
    /\ UNCHANGED <<mainlocked, thread, space, on, orig>>

\* With no way back, the goroutine ends with its thread still locked: the runtime
\* throws the thread away, or lets M0 sleep for good.
LeaveFails_Unlocks(v) == Ends(v, "open")
LeaveFails(v) == Ends(v, "dead")

Leave(v) ==
    /\ pc[v] = "leave"
    /\ \/ space' = [space EXCEPT ![on[v]] = orig[v]] /\ Ends(v, "open")
       \/ LeaveFails(v) /\ UNCHANGED space
    /\ UNCHANGED <<mainlocked, orig, name>>

\* /etc/hostname as the process sees it, if it can be read.
Fallback(v) ==
    /\ pc[v] = "fallback"
    /\ Goes(v, "done")
    /\ IF name[v] # NoName THEN UNCHANGED name
       ELSE \/ name' = [name EXCEPT ![v] = EtcName(NameSpace(v))]
            \/ UNCHANGED name
    /\ UNCHANGED <<mainlocked, thread, space, on, orig>>

VisitorStep(v) == \/ Ask(v) \/ OwnName(v) \/ OpenSelf(v) \/ OpenTarget(v)
                  \/ LockThread(v) \/ Enter(v) \/ Visit(v) \/ Leave(v)
                  \/ Fallback(v)

\* Everyone is done, or waits for a thread that is not among those of the bound.
Terminated == /\ \A v \in Visitors : pc[v] \in {"done", "own", "gosync"}
              /\ \A t \in Threads : thread[t] # "unborn"
              /\ UNCHANGED vars

Next == \/ \E t \in Threads : Spawn(t)
        \/ \E v \in Visitors : VisitorStep(v)
        \/ Terminated

Spec == Init /\ [][Next]_vars
-----------------------------------------------------------------------------
PCs == {"idle", "own", "openself", "opentarget", "gosync", "enter", "visit",
        "leave", "fallback", "done"}
OnThread(v) == pc[v] \in {"enter", "visit", "leave"}
Names == {NoName} \union {<<kind, ns>> : kind \in {"uts", "etc/hostname"}, ns \in Spaces}

\* Every variable keeps to its type; a visiting goroutine has its thread for itself.
TypeOK ==
    /\ mainlocked \in BOOLEAN
    /\ thread \in [Threads -> {"unborn", "open", "locked", "dead"}]
    /\ space \in [Threads -> Spaces]
    /\ pc \in [Visitors -> PCs]
    /\ orig \in [Visitors -> Spaces]
    /\ name \in [Visitors -> Names]
    /\ on \in [Visitors -> Threads \union {NoThread}]
    /\ \A v \in Visitors : OnThread(v) => on[v] \in Threads /\ thread[on[v]] = "locked"
    /\ \A v, w \in Visitors : OnThread(v) /\ OnThread(w) /\ on[v] = on[w] => v = w

\* No other goroutine of the application ever runs in a foreign UTS namespace: a
\* thread that the scheduler may use is where the process was started.  It takes an
\* application that keeps M0 to its initial goroutine (hostname.go:79-85); else
\* another visitor takes the namespace that M0 visits for the one to return to.
NoForeignThread ==
    mainlocked => \A t \in Threads : thread[t] = "open" => space[t] = Home

\* Who asks about an engine gets its host's name, from its UTS namespace or its
\* /etc/hostname, or none: never the name of the visitor's own host, nor that of
\* an engine that another visitor asks about (hostname.go:29-52).  Who asks with a
\* PID of zero gets the name of the own host, if M0 is kept out of it.
NameOfTarget ==
    \A v \in Visitors :
      pc[v] = "done" /\ (TargetOf[v] = Own => mainlocked) =>
        name[v] \in {NoName, UTSName(NameSpace(v)), EtcName(NameSpace(v))}
=============================================================================

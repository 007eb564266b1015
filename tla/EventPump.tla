------------------------------ MODULE EventPump ------------------------------
(***************************************************************************)
(* LifecycleEvents of the engine clients: a goroutine that subscribes to   *)
(* the engine, translates the messages of interest into events for Watch,  *)
(* and ends with an error.  The clients for Docker and containerd hand     *)
(* over each event to Watch in person (an unbuffered channel); the one for *)
(* the Container Runtime Interface has a buffer in between.                *)
(***************************************************************************)
EXTENDS Naturals, Sequences

CONSTANTS Capacities,  \* sizes of an event channel's buffer: 0, or 16 for CRI
          MaxMessages  \* bound: messages of the engine

ASSUME SizesAssumption == Capacities \subseteq Nat /\ MaxMessages \in Nat

VARIABLES
    subscribed, \* the engine knows of the subscription
    broken,     \* the engine's library has an error to report
    messages,   \* messages in the library, not yet taken
    count,      \* messages sent so far
    pump,       \* where the goroutine is
    hand,       \* the event it is sending
    capacity,   \* the size of the event channel's buffer: it depends on the client
    channel,    \* what is in the buffer of the event channel
    errstream,  \* the buffer of the error channel
    watch,      \* Watch is in its select, busy with an event, or gone
    cancelled   \* the context of LifecycleEvents

vars == <<subscribed, broken, messages, count, pump, hand, capacity, channel,
          errstream, watch, cancelled>>

\* A message is of interest or is not: another topic, an ignored namespace.
Messages == [nr : 1..MaxMessages, wanted : BOOLEAN]
Wanted_All(m) == TRUE
Wanted(m) == m.wanted

Init ==
    /\ subscribed = FALSE /\ broken = FALSE /\ messages = <<>> /\ count = 0
    /\ pump = "start" /\ hand = <<>> /\ channel = <<>> /\ errstream = <<>>
    /\ watch = "select" /\ cancelled = FALSE
    /\ capacity \in Capacities
-----------------------------------------------------------------------------
EngineSends ==
    /\ subscribed /\ ~broken /\ count < MaxMessages
    /\ count' = count + 1
    /\ \E w \in BOOLEAN :
         messages' = Append(messages, [nr |-> count + 1, wanted |-> w])
    /\ UNCHANGED <<subscribed, broken, pump, hand, channel, errstream, watch,
                   cancelled, capacity>>

\* The connection is lost, or the library notices the cancelled context.
Break ==
    /\ ~broken
    /\ broken' = TRUE
    /\ UNCHANGED <<subscribed, messages, count, pump, hand, channel, errstream,
                   watch, cancelled, capacity>>

Cancel ==
    /\ ~cancelled
    /\ cancelled' = TRUE
    /\ UNCHANGED <<subscribed, broken, messages, count, pump, hand, channel,
                   errstream, watch, capacity>>
-----------------------------------------------------------------------------
PumpSubscribe ==
    /\ pump = "start"
    /\ pump' = "select"
    /\ subscribed' = ~broken
    /\ UNCHANGED <<broken, messages, count, hand, channel, errstream, watch,
                   cancelled, capacity>>

\* A message that is not wanted is dropped, any other one is to be sent.
PumpTake ==
    /\ pump = "select" /\ messages # <<>>
    /\ messages' = Tail(messages)
    /\ IF Wanted(Head(messages))
       THEN hand' = <<Head(messages)>> /\ pump' = "send"
       ELSE UNCHANGED <<hand, pump>>
    /\ UNCHANGED <<subscribed, broken, count, channel, errstream, watch,
                   cancelled, capacity>>

HasRoom_OneMore == Len(channel) <= capacity
HasRoom == Len(channel) < capacity

PumpSend ==
    /\ pump = "send" /\ HasRoom
    /\ channel' = channel \o hand
    /\ hand' = <<>> /\ pump' = "select"
    /\ UNCHANGED <<subscribed, broken, messages, count, errstream, watch,
                   cancelled, capacity>>

\* An error of the library ends the loop, whatever messages there still are.
PumpErr ==
    /\ pump = "select" /\ broken
    /\ pump' = "report"
    /\ UNCHANGED <<subscribed, broken, messages, count, hand, channel, errstream,
                   watch, cancelled, capacity>>

\* The error is sent, to a channel with room for one, ...
PumpReport_UnlessCancelled ==
    /\ pump = "report" /\ Len(errstream) < 1 /\ ~cancelled
    /\ errstream' = Append(errstream, "error")
    /\ pump' = "return"
    /\ UNCHANGED <<subscribed, broken, messages, count, hand, channel, watch,
                   cancelled, capacity>>
PumpReport ==
    /\ pump = "report" /\ Len(errstream) < 1
    /\ errstream' = Append(errstream, IF cancelled THEN "cancelled" ELSE "error")
    /\ pump' = "return"
    /\ UNCHANGED <<subscribed, broken, messages, count, hand, channel, watch,
                   cancelled, capacity>>

\* ... and when the goroutine returns, the deferred close of that channel is done.
Returns_Early == pump \in {"report", "return"}
Returns == pump = "return"

PumpReturn ==
    /\ Returns
    /\ pump' = "ended"
    /\ UNCHANGED <<subscribed, broken, messages, count, hand, channel, errstream,
                   watch, cancelled, capacity>>
-----------------------------------------------------------------------------
\* Watch receives from the buffer, or else from the goroutine in person.
WatchRecv ==
    /\ watch = "select"
    /\ \/ /\ channel # <<>>
          /\ channel' = Tail(channel)
          /\ UNCHANGED <<hand, pump>>
       \/ /\ capacity = 0 /\ pump = "send"
          /\ hand' = <<>> /\ pump' = "select"
          /\ UNCHANGED channel
    /\ watch' = "busy"
    /\ UNCHANGED <<subscribed, broken, messages, count, errstream, cancelled,
                   capacity>>

WatchHandled ==
    /\ watch = "busy"
    /\ watch' = "select"
    /\ UNCHANGED <<subscribed, broken, messages, count, pump, hand, channel,
                   errstream, cancelled, capacity>>

\* From a closed error channel Watch would receive nil, and return it.
WatchErr ==
    /\ watch = "select"
    /\ \/ errstream # <<>> /\ errstream' = Tail(errstream)
       \/ errstream = <<>> /\ pump = "ended" /\ UNCHANGED errstream
    /\ watch' = "gone"
    /\ UNCHANGED <<subscribed, broken, messages, count, pump, hand, channel,
                   cancelled, capacity>>

\* The listing failed: Watch cancels the context of its subscription and leaves.
CancelEvents_Forgets == UNCHANGED cancelled
CancelEvents == cancelled' = TRUE

WatchListErr ==
    /\ watch = "select"
    /\ CancelEvents
    /\ watch' = "gone"
    /\ UNCHANGED <<subscribed, broken, messages, count, pump, hand, channel,
                   errstream, capacity>>

Terminated == watch = "gone" /\ UNCHANGED vars

PumpStep == PumpSubscribe \/ PumpTake \/ PumpSend \/ PumpErr \/ PumpReport \/ PumpReturn
WatchStep == WatchRecv \/ WatchHandled \/ WatchErr

Next == \/ EngineSends \/ Break \/ Cancel \/ PumpStep \/ WatchStep \/ WatchListErr
        \/ Terminated

Spec == Init /\ [][Next]_vars

\* The goroutines run, and the library notices that its context was cancelled.
Fairness == WF_vars(PumpStep) /\ WF_vars(WatchStep) /\ WF_vars(cancelled /\ Break)
FairSpec == Spec /\ Fairness
-----------------------------------------------------------------------------
\* Every variable keeps to its type: at most one error is ever reported, and the
\* goroutine holds an event exactly while it sends one (moby.go:226-270).
TypeOK ==
    /\ subscribed \in BOOLEAN /\ broken \in BOOLEAN /\ cancelled \in BOOLEAN
    /\ messages \in Seq(Messages) /\ count \in 0..MaxMessages
    /\ pump \in {"start", "select", "send", "report", "return", "ended"}
    /\ hand \in Seq(Messages) /\ (pump = "send" <=> Len(hand) = 1)
    /\ channel \in Seq(Messages) /\ capacity \in Capacities /\ Len(channel) <= capacity
    /\ errstream \in Seq({"error", "cancelled"}) /\ Len(errstream) <= 1
    /\ watch \in {"select", "busy", "gone"}

OfInterest == {m \in Messages : m.wanted}
Selected(s) ==
    LET f[n \in 0..Len(s)] == IF n = 0 THEN <<>>
                              ELSE IF s[n] \in OfInterest THEN Append(f[n - 1], s[n])
                              ELSE f[n - 1]
    IN  f[Len(s)]

\* What EventStream sees of it: one queue, of the events of interest.
InFlight == channel \o hand \o Selected(messages)
Stream == INSTANCE EventStream
            WITH Events <- OfInterest,
                 sub <- IF watch = "gone" THEN "off" ELSE IF broken THEN "broken"
                        ELSE IF subscribed THEN "live" ELSE "pending",
                 stream <- IF watch = "gone" THEN <<>> ELSE InFlight

\* For Watch, the goroutine, the buffer and the library add up to one queue of the
\* engine's events since the subscription: in order, nothing lost or made up, until
\* Watch leaves (watcher.go:236-237, 262-295).  This is what the module Watcher
\* takes its variables sub and stream to be.
IsEventStream == Stream!Spec

\* An error of the library reaches Watch, unless it has left for another reason:
\* the goroutine is never stuck as long as Watch receives (watcher.go:264-273).
ErrorReachesWatch == broken ~> watch = "gone"

\* Once Watch has left, the goroutine ends, and with it the subscription, unless it
\* is already about to hand over an event: it sends without looking at its context,
\* and stays there for good (moby.go:241-265, containerd.go:341-372, cri.go:398-411;
\* watcher.go:275-280 has Watch cancel the context of the subscription).
GoroutineEnds ==
    watch = "gone" ~> pump = "ended" \/ (pump = "send" /\ Len(channel) = capacity)

\* The closing of the error channel does not get ahead of the error: Watch never
\* mistakes the end of the stream for success, which would end it without a retry
\* (moby.go:220-237, watcher.go:264-273).
NeverNilError == [][WatchErr => errstream # <<>>]_vars
=============================================================================

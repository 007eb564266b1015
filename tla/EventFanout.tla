---------------------------- MODULE EventFanout ------------------------------
(***************************************************************************)
(* How a watcher passes lifecycle events on (watcher/watcher.go): Events   *)
(* hands out buffered channels, notify sends an event to each of them, and *)
(* Close closes them.  All three hold eventchmux, notify also while it     *)
(* waits for room in a channel.  Two goroutines call notify: the one in    *)
(* Watch, and the listing, which closes the ready channel when it is       *)
(* through.                                                                *)
(***************************************************************************)
EXTENDS Naturals, Sequences, FiniteSets

CONSTANTS Receivers,   \* callers of Events, each for one channel
          Deserters,   \* the receivers that may stop receiving
          Waiters,     \* the receivers that wait for Ready before they receive
          Notifiers,   \* the goroutines that call notify
          Listing,     \* the one of them that lists
          Cap,         \* the size of a channel's buffer (10 in the code)
          MaxEvents    \* bound: events notified in a behavior

ASSUME ReceiversAssumption == Deserters \union Waiters \subseteq Receivers
ASSUME SizesAssumption == Cap \in Nat \ {0} /\ MaxEvents \in Nat

Nobody == "nobody"
ASSUME NotifiersAssumption == Nobody \notin Notifiers /\ Listing \in Notifiers

VARIABLES
    mux,        \* who holds eventchmux
    eventchs,   \* the channels to send to, named after their receivers
    buffer,     \* what is in each channel: events, numbered as they are notified
    isclosed,   \* the channels that are closed
    ranged,     \* the channels that the notifier that holds mux ranges over
    next,       \* index of the one it sends to next
    told,       \* number of events notified (the last one perhaps in part)
    closing,    \* Close was called and has not returned
    first,      \* the number of the first event each receiver must get, 0 before
    got,        \* how many events each receiver has received
    deserted,   \* receivers that have stopped receiving
    ready       \* the ready channel is closed

vars == <<mux, eventchs, buffer, isclosed, ranged, next, told, closing, first, got,
          deserted, ready>>

Init ==
    /\ mux = Nobody /\ eventchs = <<>> /\ ranged = <<>> /\ next = 1 /\ told = 0
    /\ buffer = [r \in Receivers |-> <<>>] /\ isclosed = {}
    /\ closing = FALSE
    /\ first = [r \in Receivers |-> 0] /\ got = [r \in Receivers |-> 0]
    /\ deserted = {} /\ ready = FALSE
-----------------------------------------------------------------------------
Events(r) ==
    /\ mux = Nobody /\ first[r] = 0
    /\ eventchs' = Append(eventchs, r)
    /\ first' = [first EXCEPT ![r] = told + 1]
    /\ UNCHANGED <<mux, buffer, isclosed, ranged, next, told, closing, got, deserted,
                   ready>>

\* notify: lock, send to one channel after the other, unlock.  The range loop looks
\* at eventchs once, when it begins.
NotifyBegin_Unlocked(n) ==
    /\ told < MaxEvents
    /\ told' = told + 1 /\ mux' = n /\ ranged' = eventchs /\ next' = 1
    /\ UNCHANGED <<eventchs, buffer, isclosed, closing, first, got, deserted,
                   ready>>
NotifyBegin(n) ==
    /\ mux = Nobody /\ told < MaxEvents
    /\ told' = told + 1 /\ mux' = n /\ ranged' = eventchs /\ next' = 1
    /\ UNCHANGED <<eventchs, buffer, isclosed, closing, first, got, deserted,
                   ready>>

HasRoom_Always(r) == TRUE
HasRoom(r) == Len(buffer[r]) < Cap

\* A send blocks for as long as the channel is full.
NotifySend(n) ==
    /\ mux = n /\ next <= Len(ranged)
    /\ HasRoom(ranged[next])
    /\ buffer' = [buffer EXCEPT ![ranged[next]] = Append(@, told)]
    /\ next' = next + 1
    /\ UNCHANGED <<mux, eventchs, isclosed, ranged, told, closing, first, got,
                   deserted, ready>>

NotifyEnd_KeepsLock(n) ==
    mux = n /\ next > Len(ranged) /\ UNCHANGED vars
NotifyEnd(n) ==
    /\ mux = n /\ next > Len(ranged)
    /\ mux' = Nobody /\ ranged' = <<>>
    /\ UNCHANGED <<eventchs, buffer, isclosed, next, told, closing, first, got,
                   deserted, ready>>

CloseCall ==
    /\ ~closing
    /\ closing' = TRUE
    /\ UNCHANGED <<mux, eventchs, buffer, isclosed, ranged, next, told, first, got,
                   deserted, ready>>

\* Close: under the lock, close every channel and forget them all.
HandedOut == {eventchs[i] : i \in 1..Len(eventchs)}
Close_Unlocked ==
    /\ closing
    /\ isclosed' = isclosed \union HandedOut
    /\ eventchs' = <<>>
    /\ closing' = FALSE
    /\ UNCHANGED <<mux, buffer, ranged, next, told, first, got, deserted, ready>>
Close ==
    /\ closing /\ mux = Nobody
    /\ isclosed' = isclosed \union HandedOut
    /\ eventchs' = <<>>
    /\ closing' = FALSE
    /\ UNCHANGED <<mux, buffer, ranged, next, told, first, got, deserted, ready>>

\* list closes the ready channel once it is through with its announcements, of as
\* many containers as there are, or none: it may also fail.
CloseReady ==
    /\ ~ready /\ mux # Listing
    /\ ready' = TRUE
    /\ UNCHANGED <<mux, eventchs, buffer, isclosed, ranged, next, told, closing,
                   first, got, deserted>>

\* A receiver takes what is in its channel, also after the channel was closed.
Receive(r) ==
    /\ r \notin deserted /\ buffer[r] # <<>>
    /\ r \in Waiters => ready
    /\ buffer' = [buffer EXCEPT ![r] = Tail(@)]
    /\ got' = [got EXCEPT ![r] = @ + 1]
    /\ UNCHANGED <<mux, eventchs, isclosed, ranged, next, told, closing, first,
                   deserted, ready>>

Desert(r) ==
    /\ r \in Deserters \ deserted
    /\ deserted' = deserted \union {r}
    /\ UNCHANGED <<mux, eventchs, buffer, isclosed, ranged, next, told, closing,
                   first, got, ready>>

NotifyStep(n) == NotifyBegin(n) \/ NotifySend(n) \/ NotifyEnd(n)

Next == \/ \E r \in Receivers : Events(r) \/ Receive(r) \/ Desert(r)
        \/ \E n \in Notifiers : NotifyStep(n)
        \/ CloseReady \/ CloseCall \/ Close

Spec == Init /\ [][Next]_vars

\* Goroutines in a call go on, a mutex is not kept from one that waits for it (Go's
\* mutexes see to that), and a receiver that has not deserted receives.
Fairness == /\ \A n \in Notifiers : /\ WF_vars(NotifySend(n))
                                    /\ WF_vars(NotifyEnd(n))
            /\ SF_vars(Close) /\ WF_vars(CloseReady)
            /\ \A r \in Receivers : WF_vars(Receive(r))
FairSpec == Spec /\ Fairness
-----------------------------------------------------------------------------
\* Every variable keeps to its type, and no channel holds more than its buffer:
\* notify waits for room (watcher.go:306-311).
TypeOK ==
    /\ mux \in Notifiers \union {Nobody}
    /\ eventchs \in Seq(Receivers) /\ ranged \in Seq(Receivers)
    /\ buffer \in [Receivers -> Seq(1..MaxEvents)]
    /\ \A r \in Receivers : Len(buffer[r]) <= Cap
    /\ isclosed \subseteq Receivers /\ deserted \subseteq Deserters
    /\ next \in Nat \ {0} /\ told \in 0..MaxEvents
    /\ closing \in BOOLEAN /\ ready \in BOOLEAN
    /\ first \in [Receivers -> 0..(MaxEvents + 1)]
    /\ got \in [Receivers -> 0..MaxEvents]

\* Nobody ever sends to a closed channel, which would be a panic: what Close closes
\* is neither among the channels that a notifier still has before it nor will it be
\* among those of the next one (watcher.go:182-192, 306-311).
NoSendToClosed ==
    /\ \A i \in next..Len(ranged) : ranged[i] \notin isclosed
    /\ \A i \in 1..Len(eventchs) : eventchs[i] \notin isclosed

\* The number of the last event that has been sent to a receiver.
Reached(r) == first[r] + got[r] + Len(buffer[r]) - 1

\* Every receiver gets every event from its call of Events on, once and in the
\* same order as all others, whoever notifies (watcher.go:300-312): what waits in
\* its channel is what comes next for it, without a hole up to the last event;
\* only the event being sent right now may not have reached it yet.
InOrderWithoutLoss ==
    \A r \in Receivers :
      /\ \A i \in 1..Len(buffer[r]) : buffer[r][i] = first[r] + got[r] + i - 1
      /\ \A i \in 1..Len(eventchs) :
           eventchs[i] = r
           => Reached(r) = IF mux # Nobody /\ i >= next THEN told - 1 ELSE told

\* Somebody does not receive any longer, or waits with a full channel for Ready.
Stuck == \/ deserted # {}
         \/ ~ready /\ \E r \in Waiters : Len(buffer[r]) = Cap

\* As long as receivers receive, Close gets through: it waits for the notifiers,
\* who wait for the receivers, who wait for nobody (watcher.go:182-192).
CloseReturns == closing ~> ~closing \/ Stuck

\* ... and every notify returns, too (watcher.go:300-312).
NotifyReturns == mux # Nobody ~> mux = Nobody \/ Stuck

\* Ready is closed whatever the listing has to announce (watcher.go:149-156), unless
\* one of those who wait for it has a channel from Events that is full by then:
\* list waits in notify for it, and it for list (watcher.go:307, 454, 471).
ReadyCloses == <>(ready \/ Stuck)
=============================================================================

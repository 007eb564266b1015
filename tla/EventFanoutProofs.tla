-------------------------- MODULE EventFanoutProofs --------------------------
(***************************************************************************)
(* Proofs about EventFanout, for any number of receivers and notifiers,    *)
(* and any size of the channels' buffers.                                  *)
(***************************************************************************)
EXTENDS EventFanout, SequenceTheorems, TLAPS

\* A receiver has one channel at most, and nothing in it before it has one; it has
\* not been sent events that there have not been.
Registered ==
    /\ \A i \in 1..Len(eventchs) : first[eventchs[i]] # 0
    /\ \A i, j \in 1..Len(eventchs) : eventchs[i] = eventchs[j] => i = j
    /\ \A r \in isclosed : first[r] # 0
    /\ \A r \in Receivers :
         IF first[r] = 0 THEN buffer[r] = <<>> /\ got[r] = 0
         ELSE Reached(r) <= told

\* Nothing is registered or closed while a notifier ranges over the channels.
Ranging == ranged = IF mux = Nobody THEN <<>> ELSE eventchs

Inv == TypeOK /\ Registered /\ Ranging /\ NoSendToClosed /\ InOrderWithoutLoss

\* What the types say of one receiver.
LEMMA ReceiverTypes ==
    ASSUME Inv, NEW r \in Receivers
    PROVE  /\ buffer[r] \in Seq(1..MaxEvents) /\ Len(buffer[r]) \in 0..Cap
           /\ first[r] \in Nat /\ got[r] \in Nat /\ told \in Nat /\ Cap \in Nat
           /\ Reached(r) = first[r] + got[r] + Len(buffer[r]) - 1
<1>1. /\ buffer[r] \in Seq(1..MaxEvents) /\ Len(buffer[r]) <= Cap
      /\ first[r] \in Nat /\ got[r] \in Nat /\ told \in Nat
  BY SizesAssumption DEF Inv, TypeOK
<1>2. Len(buffer[r]) \in Nat
  BY <1>1, LenProperties
<1> QED
  BY <1>1, <1>2, SizesAssumption DEF Reached

\* What is left of a channel's buffer when its first event has been taken.
LEMMA TailOfNonempty ==
    ASSUME NEW S, NEW s \in Seq(S), s # <<>>
    PROVE  /\ Tail(s) \in Seq(S) /\ Len(s) > 0 /\ Len(Tail(s)) = Len(s) - 1
           /\ \A i \in 1..(Len(s) - 1) : Tail(s)[i] = s[i + 1]
<1>1. Len(s) \in Nat /\ Len(s) # 0
  BY EmptySeq, LenProperties
<1>2. /\ Tail(s) \in Seq(S) /\ Len(Tail(s)) = Len(s) - 1
      /\ \A i \in 1..Len(Tail(s)) : Tail(s)[i] = s[i + 1]
  BY HeadTailProperties
<1> QED
  BY <1>1, <1>2
-----------------------------------------------------------------------------
LEMMA InvInit == Init => Inv
<1> SUFFICES ASSUME Init PROVE Inv
  OBVIOUS
<1>1. \A r \in Receivers : Len(buffer[r]) = 0
  BY DEF Init
<1>2. /\ Len(eventchs) = 0 /\ eventchs \in Seq(Receivers)
      /\ ranged \in Seq(Receivers)
  BY DEF Init
<1>3. TypeOK
  <2>1. \A r \in Receivers : Len(buffer[r]) <= Cap
    BY <1>1, SizesAssumption
  <2>2. buffer \in [Receivers -> Seq(1..MaxEvents)]
    BY DEF Init
  <2>3. first \in [Receivers -> 0..(MaxEvents + 1)]
    BY SizesAssumption DEF Init
  <2>4. got \in [Receivers -> 0..MaxEvents]
    BY SizesAssumption DEF Init
  <2>5. /\ mux = Nobody /\ isclosed = {} /\ deserted = {} /\ next = 1 /\ told = 0
        /\ closing = FALSE /\ ready = FALSE
    BY DEF Init
  <2>6. next \in Nat \ {0} /\ told \in 0..MaxEvents
    BY <2>5, SizesAssumption
  <2> QED
    BY <1>2, <2>1, <2>2, <2>3, <2>4, <2>5, <2>6 DEF TypeOK
<1>4. Registered /\ Ranging /\ NoSendToClosed /\ InOrderWithoutLoss
  BY <1>1, <1>2 DEF Init, Registered, Ranging, NoSendToClosed, InOrderWithoutLoss
<1> QED
  BY <1>3, <1>4 DEF Inv
-----------------------------------------------------------------------------
(***************************************************************************)
(* The steps, one lemma for each action that does more than it looks like. *)
(***************************************************************************)

\* A new channel starts with the next event, as nobody is notifying.
LEMMA EventsStep == ASSUME Inv, NEW r \in Receivers, Events(r) PROVE Inv'
<1> DEFINE n == Len(eventchs)
<1>1. /\ mux = Nobody /\ first[r] = 0
      /\ first' = [first EXCEPT ![r] = told + 1]
      /\ UNCHANGED <<mux, buffer, isclosed, ranged, next, told, closing, got, deserted,
                     ready>>
  BY DEF Events
<1>2. /\ eventchs' \in Seq(Receivers) /\ Len(eventchs') = n + 1
      /\ \A i \in 1..n : eventchs'[i] = eventchs[i]
      /\ eventchs'[n + 1] = r
  BY DEF Events, Inv, TypeOK
<1>3. /\ \A i \in 1..n : eventchs[i] # r
      /\ r \notin isclosed
      /\ buffer[r] = <<>> /\ got[r] = 0 /\ Len(buffer[r]) = 0
  BY <1>1 DEF Inv, Registered
<1>4. n \in Nat /\ first' \in [Receivers -> Nat] /\ told \in Nat
  BY <1>1, <1>2 DEF Inv, TypeOK
<1>5. \A i \in 1..(n + 1) : i \in 1..n \/ i = n + 1
  BY <1>4
<1>6. TypeOK'
  <2>1. first' \in [Receivers -> 0..(MaxEvents + 1)]
    <3>1. told + 1 \in 0..(MaxEvents + 1)
      BY SizesAssumption DEF Inv, TypeOK
    <3> QED
      BY <1>1, <3>1 DEF Inv, TypeOK
  <2> QED
    BY <1>1, <1>2, <2>1 DEF Inv, TypeOK
<1>7. \A q \in Receivers : q # r => Reached(q)' = Reached(q) /\ first'[q] = first[q]
  BY <1>1 DEF Reached, Inv, TypeOK
<1>8. Reached(r)' = told /\ first'[r] = told + 1
  BY <1>1, <1>3, <1>4 DEF Reached, Inv, TypeOK
<1>9. Registered'
  <2>1. \A q \in Receivers :
           IF first'[q] = 0 THEN buffer'[q] = <<>> /\ got'[q] = 0
           ELSE Reached(q)' <= told'
    BY <1>1, <1>4, <1>7, <1>8 DEF Inv, Registered
  <2>2. \A i \in 1..(n + 1) : first'[eventchs'[i]] # 0
    <3>1. \A i \in 1..n : eventchs[i] \in Receivers /\ first[eventchs[i]] # 0
      BY DEF Inv, TypeOK, Registered
    <3> QED
      BY <1>2, <1>3, <1>4, <1>5, <1>7, <1>8, <3>1
  <2>3. \A i, j \in 1..(n + 1) : eventchs'[i] = eventchs'[j] => i = j
    BY <1>2, <1>3, <1>5 DEF Inv, Registered
  <2>4. \A q \in isclosed' : first'[q] # 0
    BY <1>1, <1>3, <1>7 DEF Inv, TypeOK, Registered
  <2> QED
    BY <1>2, <2>1, <2>2, <2>3, <2>4 DEF Registered
<1>10. Ranging' /\ NoSendToClosed'
  <2>1. ranged = <<>> /\ Ranging'
    BY <1>1 DEF Inv, Ranging
  <2>2. \A i \in 1..(n + 1) : eventchs'[i] \notin isclosed'
    BY <1>1, <1>2, <1>3, <1>5 DEF Inv, NoSendToClosed
  <2>3. \A i \in next'..Len(ranged') : ranged'[i] \notin isclosed'
    BY <1>1 DEF Inv, NoSendToClosed
  <2> QED
    BY <1>2, <2>1, <2>2, <2>3 DEF NoSendToClosed
<1>11. InOrderWithoutLoss'
  <2> SUFFICES ASSUME NEW q \in Receivers
               PROVE  /\ \A i \in 1..Len(buffer'[q]) :
                           buffer'[q][i] = first'[q] + got'[q] + i - 1
                      /\ \A i \in 1..(n + 1) :
                           eventchs'[i] = q => Reached(q)' = told'
    BY <1>1, <1>2 DEF InOrderWithoutLoss
  <2>1. CASE q = r
    BY <1>1, <1>2, <1>3, <1>8, <2>1
  <2>2. CASE q # r
    BY <1>1, <1>2, <1>5, <1>7, <2>2 DEF Inv, InOrderWithoutLoss
  <2> QED
    BY <2>1, <2>2
<1> QED
  BY <1>6, <1>9, <1>10, <1>11 DEF Inv

\* A new event has reached nobody yet.
LEMMA BeginStep == ASSUME Inv, NEW n \in Notifiers, NotifyBegin(n) PROVE Inv'
<1>1. TypeOK'
  BY SizesAssumption DEF NotifyBegin, Inv, TypeOK
<1>2. \A r \in Receivers : Reached(r)' = Reached(r)
  BY DEF NotifyBegin, Reached
<1>3. Registered'
  <2>1. \A r \in Receivers : Reached(r) \in Int
    BY DEF Inv, TypeOK, Reached
  <2> QED
    BY <1>2, <2>1 DEF NotifyBegin, Inv, TypeOK, Registered
<1>4. Ranging' /\ NoSendToClosed'
  BY NotifiersAssumption DEF NotifyBegin, Inv, Ranging, NoSendToClosed
<1>5. InOrderWithoutLoss'
  <2>1. /\ mux = Nobody /\ mux' # Nobody /\ next' = 1 /\ told' = told + 1
        /\ UNCHANGED <<eventchs, buffer, first, got>>
    BY NotifiersAssumption DEF NotifyBegin
  <2>2. told \in Nat
    BY DEF Inv, TypeOK
  <2> SUFFICES ASSUME NEW r \in Receivers, NEW i \in 1..Len(eventchs), eventchs[i] = r
               PROVE  Reached(r)' = told' - 1
    BY <2>1 DEF Inv, InOrderWithoutLoss
  <2>3. Reached(r) = told
    BY <2>1 DEF Inv, InOrderWithoutLoss
  <2> QED
    BY <1>2, <2>1, <2>2, <2>3
<1> QED
  BY <1>1, <1>3, <1>4, <1>5 DEF Inv

\* The event follows what the receiver has been sent before.
LEMMA SendStep == ASSUME Inv, NEW n \in Notifiers, NotifySend(n) PROVE Inv'
<1>0. /\ next \in 1..Len(eventchs) /\ eventchs[next] \in Receivers
      /\ ranged = eventchs
  <2>1. ranged = eventchs
    BY NotifiersAssumption DEF NotifySend, Inv, Ranging
  <2> QED
    BY <2>1 DEF NotifySend, Inv, TypeOK
<1>r. PICK r \in Receivers : r = eventchs[next]
  BY <1>0
<1>k. PICK k \in Nat : k = Len(buffer[r])
  BY ReceiverTypes
<1>1. /\ mux = n /\ mux # Nobody /\ k < Cap
      /\ buffer' = [buffer EXCEPT ![r] = Append(@, told)]
      /\ next' = next + 1
      /\ UNCHANGED <<mux, eventchs, isclosed, ranged, told, closing, first, got,
                     deserted, ready>>
  BY <1>0, <1>r, <1>k, NotifiersAssumption DEF NotifySend, HasRoom, Inv, TypeOK
<1>3. first[r] # 0 /\ Reached(r) = told - 1
  BY <1>0, <1>1, <1>r DEF Inv, Registered, InOrderWithoutLoss
<1>4. first[r] \in Nat /\ got[r] \in Nat
  BY ReceiverTypes
<1>5. told = first[r] + got[r] + k /\ told \in 1..MaxEvents
  <2>1. Reached(r) = first[r] + got[r] + k - 1
    BY <1>k DEF Reached
  <2>2. told \in 0..MaxEvents
    BY DEF Inv, TypeOK
  <2> QED
    BY <1>3, <1>4, <2>1, <2>2
<1>6. /\ buffer'[r] \in Seq(1..MaxEvents) /\ Len(buffer'[r]) = k + 1
      /\ \A i \in 1..k : buffer'[r][i] = buffer[r][i]
      /\ buffer'[r][k + 1] = told
  <2>1. buffer'[r] = Append(buffer[r], told)
    BY <1>1 DEF Inv, TypeOK
  <2> QED
    BY <1>5, <1>k, <2>1, AppendProperties, ReceiverTypes
<1>7. \A q \in Receivers : q # r => buffer'[q] = buffer[q]
  BY <1>1 DEF Inv, TypeOK
<1>8. TypeOK'
  <2>1. buffer' \in [Receivers -> Seq(1..MaxEvents)]
    BY <1>1, <1>6, <1>7 DEF Inv, TypeOK
  <2>2. \A q \in Receivers : Len(buffer'[q]) <= Cap
    <3>1. Len(buffer'[r]) <= Cap
      BY <1>1, <1>6, SizesAssumption
    <3> QED
      BY <1>7, <3>1 DEF Inv, TypeOK
  <2>3. next' \in Nat \ {0}
    BY <1>0, <1>1
  <2>4. UNCHANGED <<mux, eventchs, isclosed, ranged, told, closing, first, got,
                    deserted, ready>>
    BY <1>1
  <2> QED
    BY <2>1, <2>2, <2>3, <2>4 DEF Inv, TypeOK
<1>9. Reached(r)' = told
  <2>1. UNCHANGED <<first, got>> /\ Len(buffer'[r]) = k + 1
    BY <1>1, <1>6
  <2> QED
    BY <1>4, <1>5, <2>1 DEF Reached
<1>10. \A q \in Receivers : q # r => Reached(q)' = Reached(q)
  BY <1>1, <1>7 DEF Reached
<1>11. Registered'
  <2>1. UNCHANGED <<eventchs, isclosed, told, first, got>>
    BY <1>1
  <2>2. ASSUME NEW q \in Receivers
        PROVE  IF first[q] = 0 THEN buffer'[q] = <<>> /\ got[q] = 0
               ELSE Reached(q)' <= told
    <3>1. CASE q = r
      BY <1>3, <1>5, <1>9, <3>1
    <3>2. CASE q # r
      BY <1>7, <1>10, <3>2 DEF Inv, Registered
    <3> QED
      BY <3>1, <3>2
  <2> QED
    BY <2>1, <2>2 DEF Inv, Registered
<1>12. Ranging' /\ NoSendToClosed'
  <2>1. next \in Nat /\ \A i \in (next + 1)..Len(ranged) : i \in next..Len(ranged)
    BY <1>0
  <2> QED
    BY <1>1, <2>1 DEF Inv, Ranging, NoSendToClosed
<1>13. InOrderWithoutLoss'
  <2> SUFFICES ASSUME NEW q \in Receivers
               PROVE  /\ \A i \in 1..Len(buffer'[q]) :
                           buffer'[q][i] = first[q] + got[q] + i - 1
                      /\ \A i \in 1..Len(eventchs) :
                           eventchs[i] = q =>
                             Reached(q)' = IF i >= next + 1 THEN told - 1 ELSE told
    BY <1>1 DEF InOrderWithoutLoss
  <2>1. CASE q = r
    <3>1. \A i \in 1..(k + 1) : i \in 1..k \/ i = k + 1
      BY <1>4
    <3>2. \A i \in 1..Len(buffer'[q]) : buffer'[q][i] = first[q] + got[q] + i - 1
      <4>1. \A i \in 1..k : buffer[r][i] = first[r] + got[r] + i - 1
        BY <1>k DEF Inv, InOrderWithoutLoss
      <4>2. /\ Len(buffer'[r]) = k + 1 /\ buffer'[r][k + 1] = told
            /\ \A i \in 1..k : buffer'[r][i] = buffer[r][i]
        BY <1>6
      <4>3. told = first[r] + got[r] + (k + 1) - 1
        BY <1>4, <1>5
      <4> QED
        BY <2>1, <3>1, <4>1, <4>2, <4>3
    <3>3. \A i \in 1..Len(eventchs) : eventchs[i] = q => i = next
      BY <1>0, <1>r, <2>1 DEF Inv, Registered
    <3>4. ~(next >= next + 1)
      BY <1>0
    <3> QED
      BY <1>9, <2>1, <3>2, <3>3, <3>4
  <2>2. CASE q # r
    <3>1. \A i \in 1..Len(buffer'[q]) : buffer'[q][i] = first[q] + got[q] + i - 1
      BY <1>7, <2>2 DEF Inv, InOrderWithoutLoss
    <3>2. \A i \in 1..Len(eventchs) :
            eventchs[i] = q => (i >= next + 1 <=> i >= next)
      BY <1>0, <1>r, <2>2
    <3> QED
      BY <1>1, <1>10, <2>2, <3>1, <3>2 DEF Inv, InOrderWithoutLoss
  <2> QED
    BY <2>1, <2>2
<1> QED
  BY <1>8, <1>11, <1>12, <1>13 DEF Inv

\* The event has reached everyone.
LEMMA EndStep == ASSUME Inv, NEW n \in Notifiers, NotifyEnd(n) PROVE Inv'
<1>0. ranged = eventchs /\ ranged' = <<>> /\ <<>> \in Seq(Receivers)
  BY NotifiersAssumption DEF NotifyEnd, Inv, Ranging
<1>1. TypeOK' /\ Registered' /\ Ranging'
  BY <1>0 DEF NotifyEnd, Inv, TypeOK, Registered, Ranging, Reached
<1>2. Len(eventchs) \in Nat /\ next \in Nat
  BY DEF Inv, TypeOK
<1>3. InOrderWithoutLoss'
  BY <1>0, <1>2 DEF NotifyEnd, Inv, InOrderWithoutLoss, Reached
<1>4. \A i \in 1..Len(eventchs') : eventchs'[i] \notin isclosed'
  BY DEF NotifyEnd, Inv, NoSendToClosed
<1>5. NoSendToClosed'
  <2>1. next' = next /\ Len(ranged') = 0 /\ next \in Nat \ {0}
    BY <1>0 DEF NotifyEnd, Inv, TypeOK
  <2> QED
    BY <1>4, <2>1 DEF NoSendToClosed
<1> QED
  BY <1>1, <1>3, <1>5 DEF Inv

\* Who has been handed out a channel that is closed is sent to no more.
LEMMA CloseStep == ASSUME Inv, Close PROVE Inv'
<1>1. eventchs' = <<>> /\ Len(eventchs') = 0 /\ eventchs' \in Seq(Receivers)
  BY DEF Close
<1>2. HandedOut \subseteq Receivers /\ \A r \in HandedOut : first[r] # 0
  <2>1. \A i \in 1..Len(eventchs) : eventchs[i] \in Receivers
    BY DEF Inv, TypeOK
  <2> QED
    BY <2>1 DEF HandedOut, Inv, Registered
<1>3. TypeOK'
  BY <1>1, <1>2 DEF Close, Inv, TypeOK
<1>4. Registered'
  BY <1>1, <1>2 DEF Close, Inv, Registered, Reached
<1>5. Ranging' /\ NoSendToClosed'
  <2>1. UNCHANGED <<mux, ranged, next>> /\ mux = Nobody /\ ranged = <<>>
    BY DEF Close, Inv, Ranging
  <2>2. Len(ranged') = 0 /\ next \in Nat \ {0}
    BY <2>1 DEF Inv, TypeOK
  <2> QED
    BY <1>1, <2>1, <2>2 DEF Ranging, NoSendToClosed
<1>6. InOrderWithoutLoss'
  BY <1>1 DEF Close, Inv, InOrderWithoutLoss
<1> QED
  BY <1>3, <1>4, <1>5, <1>6 DEF Inv

\* What is taken from a channel is what comes next for its receiver.
LEMMA ReceiveStep == ASSUME Inv, NEW r \in Receivers, Receive(r) PROVE Inv'
<1>k. PICK k \in 0..Cap : k = Len(buffer[r])
  BY ReceiverTypes
<1>1. /\ buffer[r] # <<>>
      /\ buffer' = [buffer EXCEPT ![r] = Tail(@)]
      /\ got' = [got EXCEPT ![r] = @ + 1]
      /\ UNCHANGED <<mux, eventchs, isclosed, ranged, next, told, closing, first,
                     deserted, ready>>
  BY DEF Receive
<1>2. k \in Nat /\ Cap \in Nat /\ first[r] \in Nat /\ got[r] \in Nat
  BY ReceiverTypes
<1>3. /\ buffer'[r] \in Seq(1..MaxEvents) /\ k > 0 /\ Len(buffer'[r]) = k - 1
      /\ \A i \in 1..(k - 1) : buffer'[r][i] = buffer[r][i + 1]
  <2>1. buffer'[r] = Tail(buffer[r])
    BY <1>1 DEF Inv, TypeOK
  <2>2. buffer[r] \in Seq(1..MaxEvents) /\ buffer[r] # <<>>
    BY <1>1, ReceiverTypes
  <2> QED
    BY <1>k, <2>1, <2>2, TailOfNonempty
<1>4. got'[r] = got[r] + 1
  BY <1>1 DEF Inv, TypeOK
<1>5. \A q \in Receivers : q # r => buffer'[q] = buffer[q] /\ got'[q] = got[q]
  BY <1>1 DEF Inv, TypeOK
<1>6. \A q \in Receivers : Reached(q)' = Reached(q)
  <2>1. Reached(r)' = first[r] + (got[r] + 1) + (k - 1) - 1
    BY <1>1, <1>3, <1>4 DEF Reached
  <2>2. Reached(r) = first[r] + got[r] + k - 1
    BY <1>k DEF Reached
  <2>3. Reached(r)' = Reached(r)
    BY <1>2, <2>1, <2>2
  <2>4. \A q \in Receivers : q # r => Reached(q)' = Reached(q)
    BY <1>1, <1>5 DEF Reached
  <2> QED
    BY <2>3, <2>4
<1>7. first[r] # 0 /\ Reached(r) <= told /\ first[r] + got[r] + k - 1 <= told
  BY <1>1, <1>2, <1>k DEF Inv, Registered, Reached
<1>8. TypeOK'
  <2>1. got' \in [Receivers -> 0..MaxEvents]
    <3>1. told <= MaxEvents /\ told \in Nat
      BY DEF Inv, TypeOK
    <3>2. k > 0 /\ first[r] > 0
      BY <1>2, <1>3, <1>7
    <3>3. got[r] + 1 \in 0..MaxEvents
      BY <1>2, <1>7, <3>1, <3>2, SizesAssumption
    <3> QED
      BY <1>1, <3>3 DEF Inv, TypeOK
  <2>2. buffer' \in [Receivers -> Seq(1..MaxEvents)]
    BY <1>1, <1>3, <1>5 DEF Inv, TypeOK
  <2>3. \A q \in Receivers : Len(buffer'[q]) <= Cap
    <3>1. Len(buffer'[r]) <= Cap
      BY <1>2, <1>3, SizesAssumption
    <3> QED
      BY <1>5, <3>1 DEF Inv, TypeOK
  <2> QED
    BY <1>1, <2>1, <2>2, <2>3 DEF Inv, TypeOK
<1>9. Registered'
  BY <1>1, <1>5, <1>6, <1>7 DEF Inv, Registered
<1>10. Ranging' /\ NoSendToClosed'
  BY <1>1 DEF Inv, Ranging, NoSendToClosed
<1>11. InOrderWithoutLoss'
  <2>1. \A i \in 1..(k - 1) : /\ i + 1 \in 1..k
                              /\ buffer'[r][i] = first'[r] + got'[r] + i - 1
    <3>1. \A i \in 1..k : buffer[r][i] = first[r] + got[r] + i - 1
      BY <1>k DEF Inv, InOrderWithoutLoss
    <3>2. first'[r] = first[r]
      BY <1>1
    <3>3. ASSUME NEW i \in 1..(k - 1)
          PROVE  i + 1 \in 1..k /\ buffer'[r][i] = buffer[r][i + 1]
      BY <1>2, <1>3
    <3> QED
      BY <1>2, <1>4, <3>1, <3>2, <3>3
  <2> QED
    BY <1>1, <1>3, <1>5, <1>6, <2>1 DEF Inv, InOrderWithoutLoss
<1> QED
  BY <1>8, <1>9, <1>10, <1>11 DEF Inv

\* The rest touches nothing that the invariant is about.
LEMMA OtherSteps ==
  ASSUME Inv,
         \/ \E r \in Receivers : Desert(r)
         \/ CloseReady \/ CloseCall \/ UNCHANGED vars
  PROVE  Inv'
<1>1. /\ UNCHANGED <<mux, eventchs, buffer, isclosed, ranged, next, told, first, got>>
      /\ closing' \in BOOLEAN /\ ready' \in BOOLEAN /\ deserted' \subseteq Deserters
  BY DEF Desert, CloseReady, CloseCall, vars, Inv, TypeOK
<1> QED
  BY <1>1 DEF Inv, TypeOK, Registered, Ranging, NoSendToClosed, InOrderWithoutLoss,
              Reached
-----------------------------------------------------------------------------
\* The invariant holds throughout.
LEMMA InvCorrect == Spec => []Inv
<1>1. Inv /\ [Next]_vars => Inv'
  BY EventsStep, BeginStep, SendStep, EndStep, CloseStep, ReceiveStep, OtherSteps
     DEF Next, NotifyStep
<1> QED
  BY InvInit, <1>1, PTL DEF Spec

\* No channel ever holds more than its buffer, whoever notifies and however slowly
\* receivers receive (watcher.go:306-311).
THEOREM TypeCorrect == Spec => []TypeOK
BY InvCorrect, PTL DEF Inv

\* Nobody ever sends to a closed channel, however calls of Events, notify and Close
\* are interleaved (watcher.go:171-192, 300-312).
THEOREM NoSendToClosedCorrect == Spec => []NoSendToClosed
BY InvCorrect, PTL DEF Inv

\* Every receiver gets every event from its call of Events on, once, in the order in
\* which they were notified and without a hole (watcher.go:300-312).
THEOREM InOrderWithoutLossCorrect == Spec => []InOrderWithoutLoss
BY InvCorrect, PTL DEF Inv
=============================================================================

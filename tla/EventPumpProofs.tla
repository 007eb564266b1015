--------------------------- MODULE EventPumpProofs ---------------------------
(***************************************************************************)
(* Proofs about EventPump, for any number of messages and any sizes of the *)
(* event channel's buffer.                                                 *)
(***************************************************************************)
EXTENDS EventPump, SequenceTheorems, Induction, TLAPS

(***************************************************************************)
(* The messages of interest in a sequence of messages, by induction.       *)
(***************************************************************************)

\* One step of the definition of Selected, and what its function is.
Select(t, m) == IF m \in OfInterest THEN Append(t, m) ELSE t
Selects(f, s) ==
    f = [n \in 0..Len(s) |-> IF n = 0 THEN <<>> ELSE Select(f[n - 1], s[n])]

LEMMA SelectType ==
    ASSUME NEW t \in Seq(OfInterest), NEW m \in Messages
    PROVE  Select(t, m) \in Seq(OfInterest)
BY AppendProperties DEF Select

\* There is such a function.
LEMMA SelectsExists ==
    ASSUME NEW s \in Seq(Messages)
    PROVE  \E f \in [0..Len(s) -> Seq(OfInterest)] : Selects(f, s)
<1> DEFINE Done(t) == \E f \in [0..Len(t) -> Seq(OfInterest)] : Selects(f, t)
           S == {n \in Nat : \A t \in Seq(Messages) : Len(t) = n => Done(t)}
<1>1. 0 \in S
  <2> SUFFICES ASSUME NEW t \in Seq(Messages), Len(t) = 0 PROVE Done(t)
    OBVIOUS
  <2> DEFINE f == [n \in 0..0 |-> <<>>]
  <2>1. f \in [0..0 -> Seq(OfInterest)]
    BY EmptySeq
  <2>2. \A n \in 0..0 : n = 0
    OBVIOUS
  <2>3. Selects(f, t)
    BY <2>2 DEF Selects
  <2> QED
    BY <2>1, <2>3
<1>2. ASSUME NEW n \in S PROVE n + 1 \in S
  <2> SUFFICES ASSUME NEW t \in Seq(Messages), Len(t) = n + 1 PROVE Done(t)
    OBVIOUS
  <2> DEFINE p == SubSeq(t, 1, n)
  <2>1. /\ n \in Nat /\ p \in Seq(Messages) /\ Len(p) = n
        /\ \A i \in 1..n : p[i] = t[i]
    BY SubSeqProperties
  <2>2. PICK g \in [0..n -> Seq(OfInterest)] : Selects(g, p)
    BY <2>1
  <2> HIDE DEF p
  <2> DEFINE f == [i \in 0..(n + 1) |-> IF i = n + 1 THEN Select(g[n], t[n + 1])
                                        ELSE g[i]]
  <2>3. g[n] \in Seq(OfInterest) /\ t[n + 1] \in Messages
    BY <2>1, <2>2
  <2>4. Select(g[n], t[n + 1]) \in Seq(OfInterest)
    BY <2>3, SelectType
  <2>5. f \in [0..(n + 1) -> Seq(OfInterest)]
    BY <2>1, <2>4
  <2>6. ASSUME NEW i \in 0..(n + 1)
        PROVE  f[i] = IF i = 0 THEN <<>> ELSE Select(f[i - 1], t[i])
    <3>1. CASE i = n + 1
      BY <2>1, <3>1
    <3>2. CASE i # n + 1
      <4>1. i \in 0..n /\ f[i] = g[i]
        BY <2>1, <3>2
      <4>2. g[i] = IF i = 0 THEN <<>> ELSE Select(g[i - 1], p[i])
        BY <2>1, <2>2, <4>1 DEF Selects
      <4>3. i # 0 => f[i - 1] = g[i - 1] /\ p[i] = t[i]
        BY <2>1, <4>1
      <4> QED
        BY <4>1, <4>2, <4>3
    <3> QED
      BY <3>1, <3>2
  <2>7. Selects(f, t)
    BY <2>1, <2>6 DEF Selects
  <2> QED
    BY <2>5, <2>7
<1>3. S = Nat
  <2> HIDE DEF S
  <2>1. S \in SUBSET Nat
    BY DEF S
  <2> QED
    BY <1>1, <1>2, <2>1, SetInduction, Zenon
<1> QED
  BY <1>3, LenProperties

\* There is no other.
LEMMA SelectsUnique ==
    ASSUME NEW s \in Seq(Messages), NEW f, NEW g, Selects(f, s), Selects(g, s)
    PROVE  f = g
<1> DEFINE S == {n \in 0..Len(s) : f[n] = g[n]}
<1>0. Len(s) \in Nat
  BY LenProperties
<1>1. 0 \in S
  BY <1>0 DEF Selects
<1>2. ASSUME NEW n \in S, n < Len(s) PROVE n + 1 \in S
  <2>1. /\ n + 1 \in 0..Len(s) /\ (n + 1) - 1 = n /\ n + 1 # 0
        /\ f[n] = g[n]
    BY <1>0, <1>2
  <2>2. f[n + 1] = Select(f[n], s[n + 1]) /\ g[n + 1] = Select(g[n], s[n + 1])
    BY <2>1 DEF Selects
  <2> QED
    BY <2>1, <2>2
<1>3. S \in SUBSET (0..Len(s))
  OBVIOUS
<1> HIDE DEF S
<1>4. S = 0..Len(s)
  BY <1>0, <1>1, <1>2, <1>3, BoundedInduction, Zenon
<1> QED
  BY <1>4 DEF S, Selects

\* So it is the one that Selected takes its value from.
LEMMA SelectedIs ==
    ASSUME NEW s \in Seq(Messages), NEW f, Selects(f, s)
    PROVE  Selected(s) = f[Len(s)]
<1>1. Selected(s) = (CHOOSE g : Selects(g, s))[Len(s)]
  BY DEF Selected, Selects, Select
<1>2. (CHOOSE g : Selects(g, s)) = f
  BY SelectsUnique
<1> QED
  BY <1>1, <1>2

LEMMA SelectedType ==
    ASSUME NEW s \in Seq(Messages)
    PROVE  Selected(s) \in Seq(OfInterest)
<1>1. PICK f \in [0..Len(s) -> Seq(OfInterest)] : Selects(f, s)
  BY SelectsExists
<1>2. Len(s) \in 0..Len(s)
  BY LenProperties
<1> QED
  BY <1>1, <1>2, SelectedIs

LEMMA SelectedEmpty == Selected(<<>>) = <<>>
<1> DEFINE f == [n \in 0..0 |-> <<>>]
<1>1. <<>> \in Seq(Messages) /\ Len(<<>>) = 0
  BY EmptySeq
<1>2. \A n \in 0..0 : n = 0
  OBVIOUS
<1>3. Selects(f, <<>>)
  BY <1>1, <1>2 DEF Selects
<1> QED
  BY <1>1, <1>3, SelectedIs

\* A message at the end is the last one to be selected.
LEMMA SelectedAppend ==
    ASSUME NEW s \in Seq(Messages), NEW m \in Messages
    PROVE  Selected(Append(s, m)) = Select(Selected(s), m)
<1> DEFINE t == Append(s, m)
           n == Len(s)
<1>1. /\ t \in Seq(Messages) /\ n \in Nat /\ Len(t) = n + 1
      /\ \A i \in 1..n : t[i] = s[i]
      /\ t[n + 1] = m
  BY AppendProperties, LenProperties
<1>2. PICK f \in [0..n -> Seq(OfInterest)] : Selects(f, s)
  BY SelectsExists
<1>3. PICK g \in [0..(n + 1) -> Seq(OfInterest)] : Selects(g, t)
  BY <1>1, SelectsExists
<1> HIDE DEF t, n
<1> DEFINE h == [i \in 0..n |-> g[i]]
<1>4. ASSUME NEW i \in 0..n
      PROVE  h[i] = IF i = 0 THEN <<>> ELSE Select(h[i - 1], s[i])
  <2>1. /\ i \in 0..(n + 1) /\ i \in 0..Len(t)
        /\ i # 0 => i - 1 \in 0..n /\ t[i] = s[i]
    BY <1>1
  <2>2. g[i] = IF i = 0 THEN <<>> ELSE Select(g[i - 1], t[i])
    BY <1>3, <2>1 DEF Selects
  <2> QED
    BY <2>1, <2>2
<1>5. Selects(h, s)
  BY <1>4 DEF Selects, n
<1>6. Selected(s) = g[n]
  BY <1>1, <1>5, SelectedIs DEF n
<1>7. Selected(t) = g[n + 1]
  BY <1>1, <1>3, SelectedIs
<1>8. g[n + 1] = Select(g[n], m)
  <2>1. n + 1 \in 0..Len(t) /\ n + 1 # 0 /\ (n + 1) - 1 = n
    BY <1>1
  <2> QED
    BY <1>1, <1>3, <2>1 DEF Selects
<1> QED
  BY <1>6, <1>7, <1>8 DEF t

LEMMA OfInterestSeq == Seq(OfInterest) \subseteq Seq(Messages)
<1>1. OfInterest \subseteq Messages
  BY DEF OfInterest
<1> QED
  BY <1>1, SeqMonotonic

\* Sequences: one more event behind those of another one.
LEMMA OneMore ==
    ASSUME NEW s \in Seq(Messages), NEW t \in Seq(Messages), Len(t) = 1
    PROVE  s \o t \in Seq(Messages) /\ Len(s \o t) = Len(s) + 1
<1>1. s \o t \in Seq(Messages) /\ Len(s \o t) = Len(s) + Len(t)
  BY ConcatProperties, Zenon
<1> QED
  BY <1>1

\* Sequences: an element at the end of the second of two, and at the front.
LEMMA ConcatAppend ==
    ASSUME NEW s \in Seq(Messages), NEW t \in Seq(Messages), NEW e \in Messages
    PROVE  Append(s \o t, e) = s \o Append(t, e)
<1>1. s \o t \in Seq(Messages) /\ <<e>> \in Seq(Messages)
  BY ConcatProperties
<1>2. Append(s \o t, e) = (s \o t) \o <<e>>
  BY <1>1, AppendIsConcat
<1>3. Append(t, e) = t \o <<e>>
  BY AppendIsConcat
<1> QED
  BY <1>1, <1>2, <1>3, ConcatAssociative

LEMMA TailOfConcat ==
    ASSUME NEW S, NEW s \in Seq(S), NEW t \in Seq(S), s # <<>>
    PROVE  s \o t # <<>> /\ Tail(s \o t) = Tail(s) \o t
<1>1. /\ s \o t \in Seq(S) /\ Len(s \o t) = Len(s) + Len(t)
      /\ \A i \in 1..(Len(s) + Len(t)) :
           (s \o t)[i] = IF i <= Len(s) THEN s[i] ELSE t[i - Len(s)]
  BY ConcatProperties
<1>2. Len(s) \in Nat /\ Len(t) \in Nat /\ Len(s) # 0
  BY EmptySeq, LenProperties
<1>3. s \o t # <<>>
  BY <1>1, <1>2
<1>4. /\ Tail(s) \in Seq(S) /\ Len(Tail(s)) = Len(s) - 1
      /\ \A i \in 1..Len(Tail(s)) : Tail(s)[i] = s[i + 1]
  BY HeadTailProperties
<1>5. /\ Tail(s \o t) \in Seq(S) /\ Len(Tail(s \o t)) = Len(s \o t) - 1
      /\ \A i \in 1..Len(Tail(s \o t)) : Tail(s \o t)[i] = (s \o t)[i + 1]
  BY <1>1, <1>3, HeadTailProperties
<1>6. /\ Tail(s) \o t \in Seq(S) /\ Len(Tail(s) \o t) = Len(s) - 1 + Len(t)
      /\ \A i \in 1..(Len(s) - 1 + Len(t)) :
           (Tail(s) \o t)[i] = IF i <= Len(s) - 1 THEN Tail(s)[i]
                                ELSE t[i - (Len(s) - 1)]
  BY <1>4, ConcatProperties
<1>7. ASSUME NEW i \in 1..(Len(s) - 1 + Len(t))
      PROVE  Tail(s \o t)[i] = (Tail(s) \o t)[i]
  <2>1. /\ i + 1 \in 1..(Len(s) + Len(t)) /\ i \in 1..Len(Tail(s \o t))
        /\ i + 1 - Len(s) = i - (Len(s) - 1)
        /\ i + 1 <= Len(s) <=> i <= Len(s) - 1
    BY <1>1, <1>2, <1>5
  <2>2. Tail(s \o t)[i] = IF i + 1 <= Len(s) THEN s[i + 1] ELSE t[i + 1 - Len(s)]
    BY <1>1, <1>5, <2>1
  <2>3. i <= Len(s) - 1 => Tail(s)[i] = s[i + 1]
    BY <1>2, <1>4
  <2> QED
    BY <1>6, <2>1, <2>2, <2>3
<1>8. Len(Tail(s \o t)) = Len(Tail(s) \o t)
  BY <1>1, <1>2, <1>5, <1>6
<1> QED
  BY <1>1, <1>2, <1>3, <1>5, <1>6, <1>7, <1>8, SeqEqual

\* A message at the front is the first one to be selected.
LEMMA SelectedTail ==
    ASSUME NEW s \in Seq(Messages), s # <<>>
    PROVE  Selected(s) = Select(<<>>, Head(s)) \o Selected(Tail(s))
<1> DEFINE t == Tail(s)
           n == Len(t)
           first == Select(<<>>, s[1])
<1>1. /\ t \in Seq(Messages) /\ n \in Nat /\ Len(s) = n + 1
      /\ \A i \in 1..n : t[i] = s[i + 1]
      /\ s[1] \in Messages /\ Head(s) = s[1]
  <2>1. Len(s) \in Nat /\ Len(s) # 0
    BY EmptySeq, LenProperties
  <2>2. /\ t \in Seq(Messages) /\ n = Len(s) - 1
        /\ \A i \in 1..n : t[i] = s[i + 1]
    BY HeadTailProperties
  <2> QED
    BY <2>1, <2>2
<1>2. PICK f \in [0..(n + 1) -> Seq(OfInterest)] : Selects(f, s)
  BY <1>1, SelectsExists
<1>3. PICK g \in [0..n -> Seq(OfInterest)] : Selects(g, t)
  BY <1>1, SelectsExists
<1>4. first \in Seq(OfInterest)
  BY <1>1, EmptySeq, SelectType
<1>s. \A i \in 0..(n + 1) : f[i] = IF i = 0 THEN <<>> ELSE Select(f[i - 1], s[i])
  BY <1>1, <1>2 DEF Selects
<1>t. \A i \in 0..n : g[i] = IF i = 0 THEN <<>> ELSE Select(g[i - 1], t[i])
  BY <1>3 DEF Selects
<1> HIDE DEF t, n, first
<1> DEFINE S == {i \in 0..n : f[i + 1] = first \o g[i]}
<1>5. 0 \in S
  <2>1. f[0] = <<>> /\ f[1] = Select(f[0], s[1]) /\ g[0] = <<>>
    BY <1>1, <1>s, <1>t
  <2>2. first \o <<>> = first
    BY <1>4, ConcatEmptySeq
  <2>3. f[1] = first \o g[0]
    BY <2>1, <2>2 DEF first
  <2> QED
    BY <1>1, <2>3
<1>6. ASSUME NEW i \in S, i < n PROVE i + 1 \in S
  <2>1. /\ i + 1 \in 0..n /\ i + 1 \in 1..n /\ i + 2 \in 0..(n + 1)
        /\ i + 1 # 0 /\ i + 2 # 0
        /\ (i + 1) - 1 = i /\ (i + 2) - 1 = i + 1 /\ (i + 1) + 1 = i + 2
    <3>1. i \in Nat /\ n \in Nat /\ i < n
      BY <1>1, <1>6
    <3>2. i + 1 \in 0..n /\ i + 1 \in 1..n /\ i + 2 \in 0..(n + 1)
      BY <3>1
    <3>3. i + 1 # 0 /\ i + 2 # 0
      BY <3>1
    <3>4. (i + 1) - 1 = i /\ (i + 2) - 1 = i + 1
      BY <3>1
    <3>5. (i + 1) + 1 = i + 2
      BY <3>1
    <3> QED
      BY <3>2, <3>3, <3>4, <3>5
  <2>2. /\ g[i] \in Seq(OfInterest) /\ f[i + 1] = first \o g[i]
    BY <1>3, <1>6
  <2>3. t[i + 1] = s[i + 2] /\ t[i + 1] \in Messages
    <3>1. t[i + 1] = s[(i + 1) + 1]
      BY <1>1, <2>1
    <3>2. t[i + 1] \in Messages
      BY <1>1, <2>1 DEF n
    <3> QED
      BY <2>1, <3>1, <3>2
  <2>4. f[i + 2] = Select(first \o g[i], t[i + 1])
    BY <1>s, <2>1, <2>2, <2>3
  <2>5. g[i + 1] = Select(g[i], t[i + 1])
    BY <1>t, <2>1
  <2>6. Select(first \o g[i], t[i + 1]) = first \o Select(g[i], t[i + 1])
    <3>1. CASE t[i + 1] \in OfInterest
      <4>1. Append(first \o g[i], t[i + 1]) = first \o Append(g[i], t[i + 1])
        BY <1>4, <2>2, <2>3, OfInterestSeq, ConcatAppend
      <4> QED
        BY <3>1, <4>1 DEF Select
    <3>2. CASE t[i + 1] \notin OfInterest
      BY <3>2 DEF Select
    <3> QED
      BY <3>1, <3>2
  <2> QED
    BY <2>1, <2>4, <2>5, <2>6
<1>7. S \in SUBSET (0..n)
  OBVIOUS
<1> HIDE DEF S
<1>8. S = 0..n
  BY <1>1, <1>5, <1>6, <1>7, BoundedInduction, Zenon
<1>9. f[n + 1] = first \o g[n]
  <2>1. n \in S
    BY <1>1, <1>8
  <2> QED
    BY <2>1 DEF S
<1>10. Selected(s) = f[n + 1] /\ Selected(t) = g[n]
  BY <1>1, <1>2, <1>3, SelectedIs DEF n
<1> QED
  BY <1>1, <1>9, <1>10 DEF t, first
-----------------------------------------------------------------------------
(***************************************************************************)
(* The invariant.                                                          *)
(***************************************************************************)

\* An event that is not being sent is not at hand; an error is only reported by the
\* goroutine before it returns, and stays until Watch takes it and leaves; and there
\* are no messages but for a subscription.
Reported == /\ pump \notin {"return", "ended"} => errstream = <<>>
            /\ pump \in {"return", "ended"} /\ watch # "gone" => errstream # <<>>
AtHand == pump # "send" => hand = <<>>
OnlySubscribed == /\ pump = "start" => ~subscribed
                  /\ ~subscribed => messages = <<>> /\ hand = <<>> /\ channel = <<>>

Inv == TypeOK /\ Reported /\ AtHand /\ OnlySubscribed

LEMMA InvInit == Init => Inv
<1> SUFFICES ASSUME Init PROVE Inv
  OBVIOUS
<1>1. /\ messages = <<>> /\ hand = <<>> /\ channel = <<>> /\ errstream = <<>>
      /\ count = 0 /\ pump = "start" /\ watch = "select" /\ ~subscribed /\ ~broken
      /\ ~cancelled /\ capacity \in Capacities /\ subscribed \in BOOLEAN
      /\ broken \in BOOLEAN /\ cancelled \in BOOLEAN
  BY DEF Init
<1>2. \A S : <<>> \in Seq(S) /\ Len(<<>>) = 0
  BY EmptySeq
<1>3. capacity \in Nat /\ 0 \in 0..MaxMessages
  BY <1>1, SizesAssumption
<1>4. TypeOK
  BY <1>1, <1>2, <1>3 DEF TypeOK
<1> QED
  BY <1>1, <1>4 DEF Inv, Reported, AtHand, OnlySubscribed

LEMMA InvStep == Inv /\ [Next]_vars => Inv'
<1> SUFFICES ASSUME Inv, [Next]_vars PROVE Inv'
  OBVIOUS
<1> USE DEF Inv, TypeOK, Reported, AtHand, OnlySubscribed
<1>0. capacity \in Nat
  BY SizesAssumption
<1>1. CASE EngineSends
  <2>1. PICK w \in BOOLEAN : messages' = Append(messages, [nr |-> count + 1, wanted |-> w])
    BY <1>1 DEF EngineSends
  <2>2. count' \in 1..MaxMessages /\ [nr |-> count + 1, wanted |-> w] \in Messages
    BY <1>1, SizesAssumption DEF EngineSends, Messages
  <2>3. messages' \in Seq(Messages)
    BY <2>1, <2>2, AppendProperties
  <2> QED
    BY <1>1, <2>2, <2>3 DEF EngineSends
<1>2. CASE Break
  BY <1>2 DEF Break
<1>3. CASE Cancel
  BY <1>3 DEF Cancel
<1>4. CASE PumpSubscribe
  BY <1>4 DEF PumpSubscribe
<1>5. CASE PumpTake
  <2>1. /\ Tail(messages) \in Seq(Messages) /\ <<Head(messages)>> \in Seq(Messages)
        /\ Len(<<Head(messages)>>) = 1 /\ messages # <<>>
    BY <1>5, HeadTailProperties DEF PumpTake
  <2> QED
    BY <1>5, <2>1 DEF PumpTake
<1>6. CASE PumpSend
  <2>1. channel \o hand \in Seq(Messages) /\ Len(channel \o hand) = Len(channel) + 1
    BY <1>6, OneMore DEF PumpSend
  <2>2. Len(channel \o hand) <= capacity
    BY <1>0, <1>6, <2>1, LenProperties DEF PumpSend, HasRoom
  <2>3. <<>> \in Seq(Messages) /\ Len(<<>>) = 0
    BY EmptySeq
  <2> QED
    BY <1>6, <2>1, <2>2, <2>3 DEF PumpSend
<1>7. CASE PumpErr
  BY <1>7 DEF PumpErr
<1>7a. CASE PumpReport
  <2>1. Len(errstream) = 0 /\ errstream = <<>>
    BY <1>7a, EmptySeq DEF PumpReport
  <2>2. PICK e \in {"error", "cancelled"} : errstream' = Append(errstream, e)
    BY <1>7a DEF PumpReport
  <2>3. errstream' \in Seq({"error", "cancelled"}) /\ Len(errstream') = 1
    BY <2>1, <2>2, AppendProperties
  <2>4. errstream' # <<>>
    BY <2>1, <2>2, AppendProperties
  <2> QED
    BY <1>7a, <2>3, <2>4 DEF PumpReport
<1>7b. CASE PumpReturn
  BY <1>7b DEF PumpReturn, Returns
<1>8. CASE WatchRecv
  <2>1. <<>> \in Seq(Messages) /\ Len(<<>>) = 0
    BY EmptySeq
  <2>2. CASE channel # <<>> /\ channel' = Tail(channel) /\ UNCHANGED <<hand, pump>>
    <3>1. Tail(channel) \in Seq(Messages) /\ Len(Tail(channel)) = Len(channel) - 1
      BY <2>2, HeadTailProperties
    <3>2. Len(channel') <= capacity
      BY <1>0, <2>2, <3>1, LenProperties
    <3> QED
      BY <1>8, <2>2, <3>1, <3>2 DEF WatchRecv
  <2>3. CASE hand' = <<>> /\ pump' = "select" /\ pump = "send" /\ UNCHANGED channel
    BY <1>8, <2>1, <2>3 DEF WatchRecv
  <2> QED
    BY <1>8, <2>2, <2>3 DEF WatchRecv
<1>9. CASE WatchHandled
  BY <1>9 DEF WatchHandled
<1>10. CASE WatchErr
  <2>1. errstream' \in Seq({"error", "cancelled"}) /\ Len(errstream') <= 1
    <3>1. CASE errstream # <<>> /\ errstream' = Tail(errstream)
      BY <3>1, HeadTailProperties, LenProperties
    <3>2. CASE UNCHANGED errstream
      BY <3>2
    <3> QED
      BY <1>10, <3>1, <3>2 DEF WatchErr
  <2>2. pump \notin {"return", "ended"} => errstream' = <<>>
    BY <1>10 DEF WatchErr
  <2> QED
    BY <1>10, <2>1, <2>2 DEF WatchErr
<1>11. CASE WatchListErr
  BY <1>11 DEF WatchListErr, CancelEvents
<1>12. CASE UNCHANGED vars
  BY <1>12 DEF vars
<1> QED
  BY <1>1, <1>2, <1>3, <1>4, <1>5, <1>6, <1>7, <1>8, <1>9, <1>10, <1>11, <1>12,
     <1>7a, <1>7b DEF Next, PumpStep, WatchStep, Terminated

LEMMA InvCorrect == Spec => []Inv
BY InvInit, InvStep, PTL DEF Spec

\* Whatever the client and however slow Watch is, its buffer does not overflow, at
\* most one event is being sent, and at most one error is reported (moby.go:226-270).
THEOREM TypeCorrect == Spec => []TypeOK
BY InvCorrect, PTL DEF Inv

\* Watch never takes the end of the stream for the end of an error: there is an error
\* to receive for as long as it has not left (moby.go:220-237, watcher.go:264-273).
THEOREM NeverNilErrorCorrect == Spec => NeverNilError
<1>1. Inv /\ [Next]_vars => [WatchErr => errstream # <<>>]_vars
  BY DEF Inv, Reported, WatchErr
<1> QED
  BY InvCorrect, <1>1, PTL DEF Spec, NeverNilError
-----------------------------------------------------------------------------
(***************************************************************************)
(* The refinement.                                                         *)
(***************************************************************************)

\* What happens to the queue as a whole when one of its parts changes.
LEMMA InFlightTypes ==
    ASSUME Inv
    PROVE  /\ channel \in Seq(Messages) /\ hand \in Seq(Messages)
           /\ Selected(messages) \in Seq(Messages)
<1>1. Selected(messages) \in Seq(OfInterest)
  BY SelectedType DEF Inv, TypeOK
<1> QED
  BY <1>1, OfInterestSeq DEF Inv, TypeOK

\* A new message of interest joins the queue at its end, any other one does not.
LEMMA SendsInFlight ==
    ASSUME Inv, EngineSends
    PROVE  \/ \E e \in OfInterest : InFlight' = Append(InFlight, e)
           \/ UNCHANGED InFlight
<1> DEFINE m(w) == [nr |-> count + 1, wanted |-> w]
<1>1. PICK w \in BOOLEAN : messages' = Append(messages, m(w))
  BY DEF EngineSends
<1>2. m(w) \in Messages
  BY SizesAssumption DEF EngineSends, Messages, Inv, TypeOK
<1> HIDE DEF m
<1>3. Selected(messages') = Select(Selected(messages), m(w))
  BY <1>1, <1>2, SelectedAppend DEF Inv, TypeOK
<1>4. UNCHANGED <<channel, hand>>
  BY DEF EngineSends
<1>5. CASE m(w) \in OfInterest
  <2>1. InFlight' = (channel \o hand) \o Append(Selected(messages), m(w))
    BY <1>3, <1>4, <1>5 DEF InFlight, Select
  <2>2. channel \o hand \in Seq(Messages)
    BY InFlightTypes, ConcatProperties
  <2>3. InFlight' = Append((channel \o hand) \o Selected(messages), m(w))
    BY <1>2, <2>1, <2>2, InFlightTypes, ConcatAppend
  <2> QED
    BY <1>5, <2>3 DEF InFlight
<1>6. CASE m(w) \notin OfInterest
  BY <1>3, <1>4, <1>6 DEF InFlight, Select
<1> QED
  BY <1>5, <1>6

\* Taking the first message moves it to the hand, or drops it for good reason.
LEMMA TakeInFlight == ASSUME Inv, PumpTake PROVE UNCHANGED InFlight
<1> DEFINE h == Head(messages)
<1>1. messages \in Seq(Messages) /\ messages # <<>> /\ h \in Messages
  BY HeadTailProperties DEF PumpTake, Inv, TypeOK
<1>2. Selected(messages) = Select(<<>>, h) \o Selected(messages')
  BY <1>1, SelectedTail DEF PumpTake
<1>3. hand = <<>> /\ UNCHANGED channel
  BY DEF PumpTake, Inv, AtHand
<1>4. Selected(messages') \in Seq(Messages)
  <2>1. messages' \in Seq(Messages)
    BY <1>1, HeadTailProperties DEF PumpTake
  <2>2. Selected(messages') \in Seq(OfInterest)
    BY <2>1, SelectedType
  <2> QED
    BY <2>2, OfInterestSeq
<1>5. Select(<<>>, h) = hand'
  <2>1. h \in OfInterest <=> Wanted(h)
    BY <1>1 DEF OfInterest, Wanted
  <2>2. Append(<<>>, h) = <<h>>
    BY <1>1
  <2> QED
    BY <1>3, <2>1, <2>2 DEF Select, PumpTake
<1>6. hand' \in Seq(Messages)
  BY <1>1, <1>3, <1>5, EmptySeq, AppendProperties DEF Select
<1>7. InFlight = channel \o (hand' \o Selected(messages'))
  <2>1. channel \o <<>> = channel
    BY InFlightTypes, ConcatEmptySeq
  <2> QED
    BY <1>2, <1>3, <1>5, <2>1 DEF InFlight
<1>8. channel \o (hand' \o Selected(messages')) = (channel \o hand') \o Selected(messages')
  <2>1. channel \in Seq(Messages)
    BY InFlightTypes
  <2> QED
    BY <1>4, <1>6, <2>1, ConcatAssociative
<1> QED
  BY <1>3, <1>7, <1>8 DEF InFlight

\* Moving the event at hand into the buffer changes nothing of the queue.
LEMMA PumpSendInFlight == ASSUME Inv, PumpSend PROVE UNCHANGED InFlight
<1>1. channel' = channel \o hand /\ hand' = <<>> /\ UNCHANGED messages
  BY DEF PumpSend
<1>2. (channel \o hand) \o <<>> = channel \o hand
  BY InFlightTypes, ConcatProperties, ConcatEmptySeq
<1> QED
  BY <1>1, <1>2 DEF InFlight

\* What Watch receives is the first in the queue.
LEMMA RecvInFlight ==
    ASSUME Inv, WatchRecv
    PROVE  InFlight # <<>> /\ InFlight' = Tail(InFlight)
<1>0. UNCHANGED messages
  BY DEF WatchRecv
<1>t. channel \o hand \in Seq(Messages)
  BY InFlightTypes, ConcatProperties
<1>1. CASE channel # <<>> /\ channel' = Tail(channel) /\ UNCHANGED hand
  <2>1. channel \o hand # <<>> /\ Tail(channel \o hand) = channel' \o hand
    BY <1>1, InFlightTypes, TailOfConcat
  <2>2. LET q == (channel \o hand) \o Selected(messages)
        IN  q # <<>> /\ Tail(q) = Tail(channel \o hand) \o Selected(messages)
    BY <1>t, <2>1, InFlightTypes, TailOfConcat
  <2> QED
    BY <1>0, <1>1, <2>1, <2>2 DEF InFlight
<1>2. CASE capacity = 0 /\ pump = "send" /\ hand' = <<>> /\ UNCHANGED channel
  <2>1. Len(channel) = 0 /\ Len(hand) = 1
    <3>1. channel \in Seq(Messages) /\ Len(channel) <= 0 /\ Len(hand) = 1
      BY <1>2 DEF Inv, TypeOK
    <3>2. Len(channel) \in Nat
      BY <3>1, LenProperties
    <3> QED
      BY <3>1, <3>2
  <2>2. channel = <<>> /\ hand # <<>> /\ Tail(hand) = <<>>
    <3>0. channel \in Seq(Messages) /\ hand \in Seq(Messages)
      BY InFlightTypes
    <3>1. hand # <<>> /\ channel = <<>>
      BY <2>1, <3>0, EmptySeq
    <3>2. Len(Tail(hand)) = 0 /\ Tail(hand) \in Seq(Messages)
      BY <2>1, <3>1, InFlightTypes, HeadTailProperties
    <3>3. Tail(hand) = <<>>
      BY <3>2, EmptySeq
    <3> QED
      BY <3>1, <3>3
  <2>3. channel \o hand = hand /\ channel \o <<>> = <<>>
    BY <2>2, InFlightTypes, EmptySeq, ConcatEmptySeq
  <2> QED
    <3>1. LET q == hand \o Selected(messages)
          IN  q # <<>> /\ Tail(q) = Tail(hand) \o Selected(messages)
      BY <2>2, InFlightTypes, TailOfConcat
    <3> QED
      BY <1>0, <1>2, <2>2, <2>3, <3>1 DEF InFlight
<1> QED
  BY <1>1, <1>2 DEF WatchRecv


LEMMA NothingBeforeSubscribing == ASSUME Inv, ~subscribed PROVE InFlight = <<>>
<1>1. messages = <<>> /\ hand = <<>> /\ channel = <<>>
  BY DEF Inv, OnlySubscribed
<1>2. <<>> \o <<>> = <<>>
  BY EmptySeq, ConcatEmptySeq
<1> QED
  BY <1>1, <1>2, SelectedEmpty DEF InFlight

\* A step that neither Watch nor the library shows leaves the queue as it is.
LEMMA NothingToSee ==
    ASSUME UNCHANGED <<subscribed, broken>>, watch' = "gone" <=> watch = "gone",
           UNCHANGED InFlight
    PROVE  UNCHANGED Stream!vars
BY DEF Stream!vars

LEMMA StreamInit == Init => Stream!Init
<1> SUFFICES ASSUME Init PROVE Stream!Init
  OBVIOUS
<1>1. InFlight = <<>>
  BY InvInit, NothingBeforeSubscribing DEF Init
<1> QED
  BY <1>1 DEF Init, Stream!Init

LEMMA StreamStep == Inv /\ [Next]_vars => [Stream!Next]_(Stream!vars)
<1> SUFFICES ASSUME Inv, [Next]_vars PROVE [Stream!Next]_(Stream!vars)
  OBVIOUS
<1>1. CASE EngineSends
  <2>1. UNCHANGED <<subscribed, broken, watch>> /\ subscribed /\ ~broken
    BY <1>1 DEF EngineSends
  <2>2. CASE watch # "gone" /\ \E e \in OfInterest : InFlight' = Append(InFlight, e)
    BY <2>1, <2>2 DEF Stream!Next, Stream!Emit
  <2>3. CASE watch = "gone"
    BY <2>1, <2>3 DEF Stream!vars
  <2>4. CASE UNCHANGED InFlight
    BY <2>1, <2>4 DEF Stream!vars
  <2> QED
    BY <1>1, <2>2, <2>3, <2>4, SendsInFlight
<1>2. CASE Break
  <2>1. UNCHANGED <<subscribed, watch, InFlight>> /\ ~broken /\ broken'
    BY <1>2 DEF Break, InFlight
  <2>2. CASE watch = "gone"
    BY <2>1, <2>2 DEF Stream!vars
  <2>3. CASE watch # "gone"
    BY <2>1, <2>3 DEF Stream!Next, Stream!Break
  <2> QED
    BY <2>2, <2>3
<1>3. CASE Cancel
  BY <1>3, NothingToSee DEF Cancel, InFlight
<1>4. CASE PumpSubscribe
  <2>1. UNCHANGED <<broken, watch, InFlight>> /\ subscribed' = ~broken /\ ~subscribed
    BY <1>4 DEF PumpSubscribe, InFlight, Inv, OnlySubscribed
  <2>2. CASE watch = "gone" \/ broken
    BY <2>1, <2>2 DEF Stream!vars
  <2>3. CASE watch # "gone" /\ ~broken
    BY <2>1, <2>3 DEF Stream!Next, Stream!Subscribe
  <2> QED
    BY <2>2, <2>3
<1>5. CASE PumpTake
  BY <1>5, TakeInFlight, NothingToSee DEF PumpTake
<1>6. CASE PumpSend
  BY <1>6, PumpSendInFlight, NothingToSee DEF PumpSend
<1>7. CASE PumpErr
  BY <1>7, NothingToSee DEF PumpErr, InFlight
<1>7a. CASE PumpReport
  BY <1>7a, NothingToSee DEF PumpReport, InFlight
<1>7b. CASE PumpReturn
  BY <1>7b, NothingToSee DEF PumpReturn, InFlight
<1>8. CASE WatchRecv
  <2>1. UNCHANGED <<subscribed, broken>> /\ watch = "select" /\ watch' = "busy"
    BY <1>8 DEF WatchRecv
  <2>2. InFlight # <<>> /\ InFlight' = Tail(InFlight)
    BY <1>8, RecvInFlight
  <2>3. subscribed
    BY <2>2, NothingBeforeSubscribing
  <2> QED
    BY <2>1, <2>2, <2>3 DEF Stream!Next, Stream!Recv
<1>9. CASE WatchHandled
  BY <1>9, NothingToSee DEF WatchHandled, InFlight
<1>10. CASE WatchErr
  BY <1>10 DEF WatchErr, Stream!Next, Stream!Leave
<1>11. CASE WatchListErr
  BY <1>11 DEF WatchListErr, Stream!Next, Stream!Leave
<1>12. CASE UNCHANGED vars
  BY <1>12, NothingToSee DEF vars, InFlight
<1> QED
  BY <1>1, <1>2, <1>3, <1>4, <1>5, <1>6, <1>7, <1>8, <1>9, <1>10, <1>11, <1>12,
     <1>7a, <1>7b DEF Next, PumpStep, WatchStep, Terminated

\* The library, the goroutine, the buffer and Watch's receiving add up to one queue:
\* nothing is lost, made up or reordered on the way, for any size of the buffer
\* (moby.go:241-265, containerd.go:341-372, cri.go:363-411, watcher.go:262-295).
THEOREM EventStreamRefined == Spec => IsEventStream
<1>1. Init => Stream!Init
  BY StreamInit
<1>2. Inv /\ [Next]_vars => [Stream!Next]_(Stream!vars)
  BY StreamStep
<1> QED
  BY <1>1, <1>2, InvCorrect, PTL DEF Spec, IsEventStream, Stream!Spec
=============================================================================

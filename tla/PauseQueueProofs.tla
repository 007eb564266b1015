-------------------------- MODULE PauseQueueProofs ---------------------------
(***************************************************************************)
(* The queue of pending pause states implements a map, for any set of IDs. *)
(***************************************************************************)
EXTENDS PauseQueue, TLAPS

QueueInv == pauses \in Seq(PauseStates) /\ NoDuplicates

\* Without duplicates, the index found first is the only one.
LEMMA FirstIsOnly ==
    ASSUME QueueInv, NEW id \in IDs, Holding(pauses, id) # {}
    PROVE  /\ First(pauses, id) \in 1..Len(pauses)
           /\ pauses[First(pauses, id)].id = id
           /\ Holding(pauses, id) = {First(pauses, id)}
<1>1. PICK i \in 1..Len(pauses) : pauses[i].id = id
  BY DEF Holding
<1>2. Holding(pauses, id) = {i}
  BY <1>1 DEF QueueInv, NoDuplicates, Holding
<1>3. i <= i
  BY <1>1
<1>4. First(pauses, id) = i
  BY <1>2, <1>3 DEF First
<1> QED
  BY <1>1, <1>2, <1>4

LEMMA QueueAdd ==
    ASSUME QueueInv, NEW id \in IDs, NEW paused \in BOOLEAN, Add(id, paused)
    PROVE  QueueInv' /\ Abstract!Add(id, paused)
<1> DEFINE q == pauses
           new == [id |-> id, paused |-> paused]
<1>1. q \in Seq(PauseStates) /\ new \in PauseStates
  BY DEF QueueInv, PauseStates
<1>2. CASE Holding(q, id) = {}
  <2>1. pauses' = Append(q, new)
    BY <1>2 DEF Add, Added
  <2>2. /\ Len(pauses') = Len(q) + 1
        /\ \A i \in 1..Len(q) : pauses'[i] = q[i]
        /\ pauses'[Len(q) + 1] = new
        /\ pauses' \in Seq(PauseStates)
    BY <1>1, <2>1
  <2>3. NoDuplicates'
    BY <1>1, <1>2, <2>2 DEF QueueInv, NoDuplicates, Holding
  <2>4. ASSUME NEW x \in IDs
        PROVE  PendingOf(pauses')[x] = [PendingOf(q) EXCEPT ![id] = {paused}][x]
    <3>1. CASE x = id
      <4>1. Holding(pauses', x) = {Len(q) + 1}
        BY <1>1, <1>2, <2>2, <3>1 DEF Holding
      <4> QED
        BY <4>1, <2>2, <3>1 DEF PendingOf
    <3>2. CASE x # id
      <4>1. Holding(pauses', x) = Holding(q, x)
        BY <1>1, <2>2, <3>2 DEF Holding
      <4>2. \A i \in Holding(q, x) : pauses'[i] = q[i]
        BY <2>2 DEF Holding
      <4> QED
        BY <4>1, <4>2, <3>2 DEF PendingOf
    <3> QED
      BY <3>1, <3>2
  <2>5. PendingOf(pauses') = [PendingOf(q) EXCEPT ![id] = {paused}]
    BY <2>4 DEF PendingOf
  <2> QED
    BY <2>2, <2>3, <2>5 DEF QueueInv, Add, Abstract!Add
<1>3. CASE Holding(q, id) # {}
  <2> DEFINE f == First(q, id)
  <2>1. f \in 1..Len(q) /\ q[f].id = id /\ Holding(q, id) = {f}
    BY <1>3, FirstIsOnly
  <2> HIDE DEF f
  <2>2. pauses' = [q EXCEPT ![f].paused = paused]
    BY <1>3 DEF Add, Added, f
  <2>3. q[f] \in PauseStates
    BY <1>1, <2>1
  <2>4. /\ Len(pauses') = Len(q)
        /\ \A i \in 1..Len(q) : i # f => pauses'[i] = q[i]
        /\ pauses'[f] = [q[f] EXCEPT !.paused = paused]
        /\ pauses' \in Seq(PauseStates)
    BY <1>1, <2>1, <2>2, <2>3 DEF PauseStates
  <2>5. pauses'[f].id = id /\ pauses'[f].paused = paused
    BY <2>1, <2>3, <2>4 DEF PauseStates
  <2>6. \A i \in 1..Len(q) : pauses'[i].id = q[i].id
    BY <2>1, <2>4, <2>5
  <2>7. NoDuplicates'
    BY <2>4, <2>6 DEF QueueInv, NoDuplicates
  <2>8. ASSUME NEW x \in IDs
        PROVE  PendingOf(pauses')[x] = [PendingOf(q) EXCEPT ![id] = {paused}][x]
    <3>1. Holding(pauses', x) = Holding(q, x)
      BY <2>4, <2>6 DEF Holding
    <3>2. CASE x = id
      BY <2>1, <2>5, <3>1, <3>2 DEF PendingOf
    <3>3. CASE x # id
      <4>1. \A i \in Holding(q, x) : pauses'[i] = q[i]
        BY <2>1, <2>4, <3>3 DEF Holding
      <4> QED
        BY <4>1, <3>1, <3>3 DEF PendingOf
    <3> QED
      BY <3>2, <3>3
  <2>9. PendingOf(pauses') = [PendingOf(q) EXCEPT ![id] = {paused}]
    BY <2>8 DEF PendingOf
  <2> QED
    BY <2>4, <2>7, <2>9 DEF QueueInv, Add, Abstract!Add
<1> QED
  BY <1>2, <1>3

LEMMA QueueRemove ==
    ASSUME QueueInv, NEW id \in IDs, Remove(id)
    PROVE  QueueInv' /\ Abstract!Remove(id)
<1> DEFINE q == pauses
<1>1. q \in Seq(PauseStates) /\ Len(q) \in Nat
  BY DEF QueueInv
<1>2. CASE Holding(q, id) = {}
  <2>1. pauses' = q
    BY <1>2 DEF Remove, Removed
  <2>2. PendingOf(q) = [PendingOf(q) EXCEPT ![id] = {}]
    BY <1>2 DEF PendingOf
  <2> QED
    BY <2>1, <2>2 DEF QueueInv, NoDuplicates, Remove, Abstract!Remove
<1>3. CASE Holding(q, id) # {}
  <2> DEFINE f == First(q, id)
             last == Len(q)
  <2>1. f \in 1..last /\ q[f].id = id /\ Holding(q, id) = {f}
    BY <1>3, FirstIsOnly
  <2> HIDE DEF f
  <2>2. pauses' = [i \in 1..(last - 1) |-> IF i = f THEN q[last] ELSE q[i]]
    BY <1>3 DEF Remove, Removed, f
  <2>3. last - 1 \in Nat
    BY <1>1, <2>1
  <2>4. /\ Len(pauses') = last - 1
        /\ \A i \in 1..(last - 1) : pauses'[i] = IF i = f THEN q[last] ELSE q[i]
        /\ pauses' \in Seq(PauseStates)
    <3>1. last \in 1..last /\ \A i \in 1..(last - 1) : i \in 1..last
      BY <1>1, <2>1
    <3>2. \A i \in 1..last : q[i] \in PauseStates
      BY <1>1
    <3>3. pauses' \in [1..(last - 1) -> PauseStates]
      BY <2>2, <3>1, <3>2
    <3> QED
      BY <2>2, <2>3, <3>3
  <2>5. NoDuplicates'
    <3> SUFFICES ASSUME NEW i \in 1..(last - 1), NEW j \in 1..(last - 1),
                        pauses'[i].id = pauses'[j].id
                 PROVE  i = j
      BY <2>4 DEF NoDuplicates
    <3>1. /\ i \in 1..last /\ j \in 1..last /\ last \in 1..last
          /\ i # last /\ j # last
      BY <1>1, <2>1
    <3>2. \A m, n \in 1..last : q[m].id = q[n].id => m = n
      BY DEF QueueInv, NoDuplicates
    <3> QED
      BY <2>4, <3>1, <3>2
  <2>6. ASSUME NEW x \in IDs
        PROVE  PendingOf(pauses')[x] = [PendingOf(q) EXCEPT ![id] = {}][x]
    <3>1. CASE x = id
      <4>1. Holding(pauses', x) = {}
        BY <1>1, <2>1, <2>4, <3>1 DEF Holding, QueueInv, NoDuplicates
      <4> QED
        BY <4>1, <3>1 DEF PendingOf
    <3>2. CASE x # id
      <4>1. ASSUME NEW i \in Holding(pauses', x)
            PROVE  \E j \in Holding(q, x) : q[j].paused = pauses'[i].paused
        <5>1. i \in 1..(last - 1) /\ pauses'[i].id = x
          BY <4>1, <2>4 DEF Holding
        <5>2. CASE i = f
          BY <1>1, <2>1, <2>4, <5>1, <5>2 DEF Holding
        <5>3. CASE i # f
          BY <1>1, <2>4, <5>1, <5>3 DEF Holding
        <5> QED
          BY <5>2, <5>3
      <4>2. ASSUME NEW j \in Holding(q, x)
            PROVE  \E i \in Holding(pauses', x) : pauses'[i].paused = q[j].paused
        <5>1. j \in 1..last /\ q[j].id = x /\ j # f
          BY <2>1, <3>2, <4>2 DEF Holding
        <5>2. CASE j = last
          BY <1>1, <2>1, <2>4, <5>1, <5>2 DEF Holding
        <5>3. CASE j # last
          BY <1>1, <2>4, <5>1, <5>3 DEF Holding
        <5> QED
          BY <5>2, <5>3
      <4>3. {pauses'[i].paused : i \in Holding(pauses', x)}
              = {q[j].paused : j \in Holding(q, x)}
        BY <4>1, <4>2
      <4> QED
        BY <4>3, <3>2 DEF PendingOf
    <3> QED
      BY <3>1, <3>2
  <2>7. PendingOf(pauses') = [PendingOf(q) EXCEPT ![id] = {}]
    BY <2>6 DEF PendingOf
  <2> QED
    BY <2>4, <2>5, <2>7 DEF QueueInv, Remove, Abstract!Remove
<1> QED
  BY <1>2, <1>3

LEMMA QueueEmpty ==
    ASSUME NEW q, q = <<>>
    PROVE  PendingOf(q) = [id \in IDs |-> {}] /\ q \in Seq(PauseStates) /\ Len(q) = 0
BY DEF PendingOf, Holding

LEMMA QueueInit == Init => QueueInv /\ Abstract!Init
BY QueueEmpty DEF Init, QueueInv, NoDuplicates, Abstract!Init

LEMMA QueueNext ==
    ASSUME QueueInv, [Next]_vars
    PROVE  QueueInv' /\ [Abstract!Next]_(Abstract!vars)
<1>1. CASE \E id \in IDs, paused \in BOOLEAN : Add(id, paused)
  BY <1>1, QueueAdd DEF Abstract!Next
<1>2. CASE \E id \in IDs : Remove(id)
  BY <1>2, QueueRemove DEF Abstract!Next
<1>3. CASE Clear
  <2>1. /\ PendingOf(pauses') = [id \in IDs |-> {}]
        /\ pauses' \in Seq(PauseStates)
        /\ Len(pauses') = 0
    BY <1>3, QueueEmpty DEF Clear
  <2> QED
    BY <1>3, <2>1 DEF QueueInv, NoDuplicates, Clear, Abstract!Next, Abstract!Clear
<1>4. CASE UNCHANGED vars
  BY <1>4 DEF vars, QueueInv, NoDuplicates, Abstract!vars
<1> QED
  BY <1>1, <1>2, <1>3, <1>4 DEF Next

\* An ID is never in the queue twice.
THEOREM NoDuplicatesCorrect == Spec => []NoDuplicates
<1>1. Spec => []QueueInv
  BY QueueInit, QueueNext, PTL DEF Spec
<1> QED
  BY <1>1, PTL DEF QueueInv

\* The queue implements the map from IDs to their most recent pending state.
THEOREM QueueImplementsMap == Spec => ImplementsPendingPauses
<1>1. Spec => []QueueInv
  BY QueueInit, QueueNext, PTL DEF Spec
<1> QED
  BY <1>1, QueueInit, QueueNext, PTL DEF Spec, ImplementsPendingPauses, Abstract!Spec
=============================================================================

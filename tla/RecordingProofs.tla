-------------------------- MODULE RecordingProofs ---------------------------
(***************************************************************************)
(* Proofs about a recording, in three parts: the ring by itself, the       *)
(* threads that use it, and the samples that pass through it.              *)
(***************************************************************************)
EXTENDS RecordingProperties, TLAPS

-----------------------------------------------------------------------------
(***************************************************************************)
(* The audio ring is safe for every capacity, every size of block and      *)
(* every buffer of the reader.                                             *)
(*                                                                         *)
(* SlotsDisjoint speaks of one moment, but both threads work with an index *)
(* of the other that they loaded when their call began.  What makes the    *)
(* old value harmless is that the indices move in one direction only: on   *)
(* the way round from the read index that push() saw to the slot it is     *)
(* about to write lie, in this order, the read index, the slot pop() is    *)
(* copying, the write index pop() saw and the write index, and the way is  *)
(* never longer than Capacity.                                             *)
(***************************************************************************)


\* Where each thread is, and what it knows of the other; a thread that is in no
\* call is where its index is and could load the other's index now.
WritesAt == IF push.pc = "idle" THEN writeIndex ELSE push.write
SeenRead == IF push.pc = "idle" THEN readIndex ELSE push.read
ReadsAt == IF pop.pc = "idle" THEN readIndex ELSE pop.read
SeenWrite == IF pop.pc = "idle" THEN writeIndex ELSE pop.write

\* The way round that passes a, b, c, d, e and f in this order.
Way(a, b, c, d, e, f) ==
  Distance(a, b) + Distance(b, c) + Distance(c, d) + Distance(d, e) + Distance(e, f)

InOrder == Way(SeenRead, readIndex, ReadsAt, SeenWrite, writeIndex, WritesAt) <= Capacity

USE CapacityAssumption DEF Size, Slots

LEMMA AfterInSlots ==
  ASSUME NEW i \in Slots
  PROVE  /\ After(i) \in Slots
         /\ After(i) = IF i = Capacity THEN 0 ELSE i + 1
<1>1. CASE i = Capacity
  <2>1. (Capacity + 1) % (Capacity + 1) = 0
    OBVIOUS
  <2> QED BY <1>1, <2>1 DEF After
<1>2. CASE i # Capacity
  <2>1. (i + 1) % (Capacity + 1) = i + 1
    BY <1>2
  <2> QED BY <1>2, <2>1 DEF After
<1> QED BY <1>1, <1>2

\* What the calls do to the way: the last place steps forward if that does not
\* run into the first one, the third if it has not reached the fourth, and a
\* place moves up to a later one.
LEMMA WaySteps ==
  ASSUME NEW a \in Slots, NEW b \in Slots, NEW c \in Slots,
         NEW d \in Slots, NEW e \in Slots, NEW f \in Slots,
         Way(a, b, c, d, e, f) <= Capacity
  PROVE  /\ After(f) # a => Way(a, b, c, d, e, After(f)) <= Capacity
         /\ c # d => Way(a, b, After(c), d, e, f) <= Capacity
         /\ Way(b, b, c, d, e, f) <= Capacity
         /\ Way(b, b, c, d, f, f) <= Capacity
         /\ Way(b, b, b, f, f, f) <= Capacity
         /\ Way(a, c, c, e, e, f) <= Capacity
         /\ Way(c, c, c, e, e, f) <= Capacity
         /\ Way(e, e, e, e, e, e) <= Capacity
<1> USE AfterInSlots DEF Way, Distance
<1>1. After(f) # a => Way(a, b, c, d, e, After(f)) <= Capacity
  OBVIOUS
<1>2. c # d => Way(a, b, After(c), d, e, f) <= Capacity
  OBVIOUS
<1>3. Way(b, b, c, d, e, f) <= Capacity /\ Way(b, b, c, d, f, f) <= Capacity
  OBVIOUS
<1>4. Way(b, b, b, f, f, f) <= Capacity /\ Way(e, e, e, e, e, e) <= Capacity
  OBVIOUS
<1>5. Way(a, c, c, e, e, f) <= Capacity /\ Way(c, c, c, e, e, f) <= Capacity
  OBVIOUS
<1> QED BY <1>1, <1>2, <1>3, <1>4, <1>5

\* What a reader in the middle of a call has before it is not empty, and a writer
\* in the middle of one is past it.
LEMMA WayUses ==
  ASSUME NEW a \in Slots, NEW b \in Slots, NEW c \in Slots,
         NEW d \in Slots, NEW e \in Slots, NEW f \in Slots,
         Way(a, b, c, d, e, f) <= Capacity
  PROVE  /\ c # d => Distance(b, c) < Distance(b, e)
         /\ After(f) # a => ~(Distance(b, f) < Distance(b, e))
BY AfterInSlots DEF Way, Distance

PushState == [pc : {"idle", "copy", "publish"}, block : Seq(Nat),
              written : Nat, write : Slots, read : Slots]
PopState == [pc : {"idle", "copy"}, count : Nat, out : Seq(Nat), read : Slots, write : Slots]

LEMMA Typed == RingSpec => []RingTypeOK
<1>1. RingInit => RingTypeOK
  BY DEF RingInit, RingTypeOK, IdlePush, IdlePop
<1>2. RingTypeOK /\ [RingNext]_ringVars => RingTypeOK'
  <2> SUFFICES ASSUME RingTypeOK, [RingNext]_ringVars PROVE RingTypeOK'
    OBVIOUS
  <2> USE DEF RingTypeOK
  <2>1. ASSUME NEW block \in Seq(Nat), PushBegin(block) PROVE RingTypeOK'
    <3>1. push' \in PushState
      BY <2>1 DEF PushBegin, PushState
    <3>2. push'.written <= Len(push'.block)
      <4>1. push'.written = 0 /\ push'.block = block
        BY <2>1 DEF PushBegin
      <4>2. Len(block) \in Nat
        OBVIOUS
      <4> QED BY <4>1, <4>2
    <3> QED BY <2>1, <3>1, <3>2 DEF PushBegin, PushState
  <2>2. CASE PushSample
    <3>1. After(push.write) \in Slots
      BY AfterInSlots
    <3>2. /\ push.pc = "copy" /\ push.written < Len(push.block)
          /\ push' = [push EXCEPT !.written = push.written + 1, !.write = After(push.write)]
      BY <2>2 DEF PushSample, Copying
    <3>3. Len(push.block) \in Nat
      OBVIOUS
    <3>0. push \in PushState
      BY DEF PushState
    <3>4. push' \in PushState
      <4>1. push.written + 1 \in Nat
        OBVIOUS
      <4> DEFINE w == push.written + 1
                 n == After(push.write)
      <4>2. push' = [push EXCEPT !.written = w, !.write = n]
        BY <3>2
      <4> HIDE DEF RingTypeOK, Slots, w, n
      <4>3. w \in Nat /\ n \in Slots
        BY <3>1, <4>1 DEF w, n
      <4> QED BY <3>0, <4>2, <4>3 DEF PushState
    <3>5. push'.written <= Len(push'.block)
      <4>1. push'.written = push.written + 1 /\ push'.block = push.block
        <5> HIDE DEF RingTypeOK
        <5> QED BY <3>0, <3>2 DEF PushState
      <4>2. push.written \in Nat
        OBVIOUS
      <4> HIDE DEF RingTypeOK
      <4> QED BY <4>1, <4>2, <3>2, <3>3
    <3>6. data' \in [Slots -> Nat]
      <4>1. push.block[push.written + 1] \in Nat
        <5>1. push.block \in Seq(Nat) /\ push.written \in Nat
          OBVIOUS
        <5> HIDE DEF RingTypeOK
        <5>2. push.written + 1 \in 1..Len(push.block)
          BY <5>1, <3>2, <3>3
        <5> QED BY <5>1, <5>2
      <4> QED BY <4>1, <2>2 DEF PushSample
    <3> QED BY <2>2, <3>4, <3>5, <3>6 DEF PushSample, PushState
  <2>3. CASE PushDrop
    <3>1. push' \in PushState /\ push'.written = push.written /\ push'.block = push.block
      BY <2>3 DEF PushDrop, PushState
    <3>2. dropped' \in Nat
      <4>1. Len(push.block) \in Nat /\ push.written <= Len(push.block)
        OBVIOUS
      <4>2. push.written \in Nat /\ dropped \in Nat
        OBVIOUS
      <4>3. dropped' = dropped + (Len(push.block) - push.written)
        BY <2>3 DEF PushDrop
      <4> HIDE DEF RingTypeOK
      <4> QED BY <4>1, <4>2, <4>3
    <3> QED BY <2>3, <3>1, <3>2 DEF PushDrop, PushState
  <2>4. CASE PushPublish
    BY <2>4 DEF PushPublish, IdlePush
  <2>5. ASSUME NEW count \in Nat, PopBegin(count) PROVE RingTypeOK'
    <3>1. pop' \in PopState
      BY <2>5 DEF PopBegin, PopState
    <3>2. Len(pop'.out) <= pop'.count
      <4>1. pop'.out = <<>> /\ pop'.count = count
        BY <2>5 DEF PopBegin
      <4> QED BY <4>1
    <3> QED BY <2>5, <3>1, <3>2 DEF PopBegin, PopState
  <2>6. CASE PopSample
    <3>1. /\ pop.pc = "copy" /\ Len(pop.out) # pop.count
          /\ pop' = [pop EXCEPT !.out = Append(pop.out, data[pop.read]),
                                !.read = After(pop.read)]
      BY <2>6 DEF PopSample, PopDone
    <3>2. data[pop.read] \in Nat /\ After(pop.read) \in Slots
      BY AfterInSlots
    <3>3. /\ Append(pop.out, data[pop.read]) \in Seq(Nat)
          /\ Len(Append(pop.out, data[pop.read])) = Len(pop.out) + 1
      BY <3>2
    <3>4. pop' \in PopState
      BY <3>1, <3>2, <3>3 DEF PopState
    <3>5. Len(pop'.out) <= pop'.count
      <4>1. pop'.out = Append(pop.out, data[pop.read]) /\ pop'.count = pop.count
        BY <3>1
      <4>2. Len(pop.out) \in Nat
        OBVIOUS
      <4> QED BY <4>1, <4>2, <3>1, <3>3
    <3> QED BY <2>6, <3>4, <3>5 DEF PopSample, PopState
  <2>7. CASE PopReturn
    <3>1. taken' \in Seq(Nat)
      <4>1. taken \in Seq(Nat) /\ pop.out \in Seq(Nat)
        OBVIOUS
      <4> QED BY <4>1, <2>7 DEF PopReturn
    <3>2. pop' \in PopState /\ Len(pop'.out) <= pop'.count
      BY <2>7 DEF PopReturn, IdlePop, PopState
    <3>3. readIndex' \in Slots
      BY <2>7 DEF PopReturn
    <3> QED BY <2>7, <3>1, <3>2, <3>3 DEF PopReturn, PopState
  <2>8. CASE RingClear
    BY <2>8 DEF RingClear
  <2>9. CASE UNCHANGED ringVars
    BY <2>9 DEF ringVars
  <2> QED
    BY <2>1, <2>2, <2>3, <2>4, <2>5, <2>6, <2>7, <2>8, <2>9 DEF RingNext
<1> QED BY <1>1, <1>2, PTL DEF RingSpec

LEMMA Ordered == RingSpec => []InOrder
<1>1. RingInit => InOrder
  BY DEF RingInit, InOrder, WritesAt, SeenRead, ReadsAt, SeenWrite, IdlePush, IdlePop, Way, Distance
<1>2. RingTypeOK /\ InOrder /\ [RingNext]_ringVars => InOrder'
  <2> SUFFICES ASSUME RingTypeOK, InOrder, [RingNext]_ringVars PROVE InOrder'
    OBVIOUS
  <2> DEFINE Same == UNCHANGED <<SeenRead, readIndex, ReadsAt, SeenWrite, writeIndex, WritesAt>>
  <2>a. Same => InOrder'
    BY DEF InOrder, Way, Distance
  <2>b. /\ WritesAt \in Slots /\ SeenRead \in Slots /\ ReadsAt \in Slots /\ SeenWrite \in Slots
        /\ readIndex \in Slots /\ writeIndex \in Slots
    BY DEF RingTypeOK, WritesAt, SeenRead, ReadsAt, SeenWrite
  <2>c. Way(SeenRead, readIndex, ReadsAt, SeenWrite, writeIndex, WritesAt) <= Capacity
    BY DEF InOrder
  <2>1. ASSUME NEW block \in Seq(Nat), PushBegin(block) PROVE InOrder'
    <3>1. /\ SeenRead' = readIndex /\ WritesAt' = WritesAt
          /\ UNCHANGED <<readIndex, ReadsAt, SeenWrite, writeIndex>>
      BY <2>1 DEF PushBegin, WritesAt, SeenRead, ReadsAt, SeenWrite
    <3>2. Way(readIndex, readIndex, ReadsAt, SeenWrite, writeIndex, WritesAt) <= Capacity
      BY <2>b, <2>c, WaySteps
    <3> QED BY <3>1, <3>2 DEF InOrder, Way, Distance
  <2>2. CASE PushSample
    <3>1. /\ push.pc = "copy" /\ push' = [push EXCEPT !.written = @ + 1, !.write = After(@)]
          /\ After(push.write) # push.read
          /\ UNCHANGED <<readIndex, writeIndex, pop>>
      BY <2>2 DEF PushSample, Copying, Full
    <3>2. push'.pc = "copy" /\ push'.write = After(push.write) /\ push'.read = push.read
      BY <3>1 DEF RingTypeOK
    <3>3. /\ After(WritesAt) # SeenRead /\ WritesAt' = After(WritesAt)
          /\ UNCHANGED <<SeenRead, readIndex, ReadsAt, SeenWrite, writeIndex>>
      BY <3>1, <3>2 DEF WritesAt, SeenRead, ReadsAt, SeenWrite
    <3>4. Way(SeenRead, readIndex, ReadsAt, SeenWrite, writeIndex, After(WritesAt)) <= Capacity
      BY <2>b, <2>c, <3>3, WaySteps
    <3> QED BY <3>3, <3>4 DEF InOrder, Way, Distance
  <2>3. CASE PushDrop
    <3>1. /\ push.pc = "copy" /\ push' = [push EXCEPT !.pc = "publish"]
          /\ UNCHANGED <<readIndex, writeIndex, pop>>
      BY <2>3 DEF PushDrop, Copying
    <3>2. push'.pc = "publish" /\ push'.write = push.write /\ push'.read = push.read
      BY <3>1 DEF RingTypeOK
    <3> QED BY <3>1, <3>2, <2>a DEF WritesAt, SeenRead, ReadsAt, SeenWrite
  <2>4. CASE PushPublish
    <3>1. /\ push.pc # "idle" /\ push'.pc = "idle" /\ writeIndex' = push.write
          /\ UNCHANGED <<readIndex, pop>>
      BY <2>4 DEF PushPublish, IdlePush
    <3>2. /\ SeenRead' = readIndex /\ writeIndex' = WritesAt /\ WritesAt' = WritesAt
          /\ UNCHANGED <<readIndex, ReadsAt>>
      BY <3>1 DEF WritesAt, SeenRead, ReadsAt
    <3>3. CASE pop.pc = "idle"
      <4>1. SeenWrite' = WritesAt /\ ReadsAt = readIndex
        BY <3>1, <3>3 DEF WritesAt, ReadsAt, SeenWrite
      <4>2. Way(readIndex, readIndex, readIndex, WritesAt, WritesAt, WritesAt) <= Capacity
        BY <2>b, <2>c, WaySteps
      <4> QED BY <3>2, <4>1, <4>2 DEF InOrder, Way, Distance
    <3>4. CASE pop.pc # "idle"
      <4>1. SeenWrite' = SeenWrite
        BY <3>1, <3>4 DEF SeenWrite
      <4>2. Way(readIndex, readIndex, ReadsAt, SeenWrite, WritesAt, WritesAt) <= Capacity
        BY <2>b, <2>c, WaySteps
      <4> QED BY <3>2, <4>1, <4>2 DEF InOrder, Way, Distance
    <3> QED BY <3>3, <3>4
  <2>5. ASSUME NEW count \in Nat, PopBegin(count) PROVE InOrder'
    BY <2>5, <2>a DEF PopBegin, WritesAt, SeenRead, ReadsAt, SeenWrite
  <2>6. CASE PopSample
    <3>1. /\ pop.pc = "copy" /\ pop.read # pop.write
          /\ pop' = [pop EXCEPT !.out = Append(@, data[pop.read]), !.read = After(@)]
          /\ UNCHANGED <<readIndex, writeIndex, push>>
      BY <2>6 DEF PopSample, PopDone
    <3>2. pop'.pc = "copy" /\ pop'.read = After(pop.read) /\ pop'.write = pop.write
      BY <3>1 DEF RingTypeOK
    <3>3. /\ ReadsAt # SeenWrite /\ ReadsAt' = After(ReadsAt)
          /\ UNCHANGED <<SeenRead, readIndex, SeenWrite, writeIndex, WritesAt>>
      BY <3>1, <3>2 DEF WritesAt, SeenRead, ReadsAt, SeenWrite
    <3>4. Way(SeenRead, readIndex, After(ReadsAt), SeenWrite, writeIndex, WritesAt) <= Capacity
      BY <2>b, <2>c, <3>3, WaySteps
    <3> QED BY <3>3, <3>4 DEF InOrder, Way, Distance
  <2>7. CASE PopReturn
    <3>1. /\ pop.pc = "copy" /\ pop'.pc = "idle" /\ readIndex' = pop.read
          /\ UNCHANGED <<writeIndex, push>>
      BY <2>7 DEF PopReturn, IdlePop
    <3>2. /\ readIndex' = ReadsAt /\ ReadsAt' = ReadsAt /\ SeenWrite' = writeIndex
          /\ SeenRead' \in {SeenRead, ReadsAt}
          /\ UNCHANGED <<writeIndex, WritesAt>>
      BY <3>1 DEF WritesAt, SeenRead, ReadsAt, SeenWrite
    <3>3. /\ Way(SeenRead, ReadsAt, ReadsAt, writeIndex, writeIndex, WritesAt) <= Capacity
          /\ Way(ReadsAt, ReadsAt, ReadsAt, writeIndex, writeIndex, WritesAt) <= Capacity
      BY <2>b, <2>c, WaySteps
    <3> QED BY <3>2, <3>3 DEF InOrder, Way, Distance
  <2>8. CASE RingClear
    <3>1. /\ push.pc = "idle" /\ pop.pc = "idle" /\ readIndex' = writeIndex
          /\ UNCHANGED <<writeIndex, push, pop>>
      BY <2>8 DEF RingClear
    <3>2. /\ SeenRead' = writeIndex /\ readIndex' = writeIndex /\ ReadsAt' = writeIndex
          /\ SeenWrite' = writeIndex /\ writeIndex' = writeIndex /\ WritesAt' = writeIndex
      BY <3>1 DEF WritesAt, SeenRead, ReadsAt, SeenWrite
    <3>3. Way(writeIndex, writeIndex, writeIndex, writeIndex, writeIndex, writeIndex) <= Capacity
      BY <2>b, <2>c, WaySteps
    <3> QED BY <3>2, <3>3 DEF InOrder, Way, Distance
  <2>9. CASE UNCHANGED ringVars
    BY <2>9, <2>a DEF ringVars, WritesAt, SeenRead, ReadsAt, SeenWrite
  <2> QED
    BY <2>1, <2>2, <2>3, <2>4, <2>5, <2>6, <2>7, <2>8, <2>9 DEF RingNext
<1> QED BY Typed, <1>1, <1>2, PTL DEF RingSpec

(***************************************************************************)
(* The audio callback never overwrites a sample that waits to be read, and *)
(* the feed thread never copies one that is not there, whatever their      *)
(* speeds.                                                                 *)
(***************************************************************************)
THEOREM SlotsNeverShared == RingSpec => []SlotsDisjoint
<1>1. ASSUME RingTypeOK, InOrder PROVE SlotsDisjoint
  <2>1. /\ readIndex \in Slots /\ writeIndex \in Slots
        /\ push.read \in Slots /\ push.write \in Slots
        /\ pop.read \in Slots /\ pop.write \in Slots
    BY <1>1 DEF RingTypeOK
  <2>2. ASSUME Copying, ~Full PROVE push.write \notin Occupied
    <3>1. WritesAt = push.write
      BY <2>2 DEF Copying, WritesAt
    <3> DEFINE r == ReadsAt
               w == SeenWrite
    <3>2. r \in Slots /\ w \in Slots
      BY <1>1 DEF RingTypeOK, ReadsAt, SeenWrite
    <3>3. Way(push.read, readIndex, r, w, writeIndex, push.write) <= Capacity
      BY <1>1, <2>2, <3>1 DEF InOrder, SeenRead, Copying
    <3>4. After(push.write) # push.read
      BY <2>2 DEF Full
    <3> HIDE DEF r, w
    <3>5. ~(Distance(readIndex, push.write) < Distance(readIndex, writeIndex))
      BY <2>1, <3>2, <3>3, <3>4, WayUses
    <3> QED BY <3>5 DEF Occupied, Available
  <2>3. ASSUME pop.pc = "copy", ~PopDone PROVE pop.read \in Occupied
    <3>1. ReadsAt = pop.read /\ SeenWrite = pop.write /\ pop.read # pop.write
      BY <2>3 DEF ReadsAt, SeenWrite, PopDone
    <3> DEFINE a == SeenRead
               f == WritesAt
    <3>2. a \in Slots /\ f \in Slots
      BY <1>1 DEF RingTypeOK, SeenRead, WritesAt
    <3>3. Way(a, readIndex, pop.read, pop.write, writeIndex, f) <= Capacity
      BY <1>1, <3>1 DEF InOrder
    <3> HIDE DEF a, f
    <3>4. Distance(readIndex, pop.read) < Distance(readIndex, writeIndex)
      BY <2>1, <3>1, <3>2, <3>3, WayUses
    <3> QED BY <2>1, <3>4 DEF Occupied, Available
  <2> QED BY <2>2, <2>3 DEF SlotsDisjoint
<1> QED BY Typed, Ordered, <1>1, PTL

---------------------------------------------------------------------------
(***************************************************************************)
(* The audio ring implements the bounded queue, for every capacity: the    *)
(* samples between the two indices are the queue, and what pop() has       *)
(* copied so far is the beginning of it.                                   *)
(***************************************************************************)

\* The k-th slot from i, going round, and the samples that d holds in
\* the n slots from i.
Nth(i, k) == (i + k - 1) % Size
Held(d, i, n) == [k \in 1..n |-> d[Nth(i, k)]]

\* pop() has copied what lies between its index and the ring's.
Copied == pop.pc = "copy" => pop.out = Held(data, readIndex, Distance(readIndex, pop.read))


LEMMA NthSlot ==
  ASSUME NEW i \in Slots, NEW k \in 1..Capacity + 1
  PROVE  /\ Nth(i, k) = IF i + k - 1 <= Capacity THEN i + k - 1 ELSE i + k - 2 - Capacity
         /\ Nth(i, k) \in Slots
         /\ Distance(i, Nth(i, k)) = k - 1
<1>1. CASE i + k - 1 <= Capacity
  <2>1. (i + k - 1) % (Capacity + 1) = i + k - 1
    BY <1>1
  <2> QED BY <1>1, <2>1 DEF Nth, Distance
<1>2. CASE i + k - 1 > Capacity
  <2> DEFINE m == i + k - 2 - Capacity
  <2>1. m \in 0..Capacity /\ i + k - 1 = m + 1 * (Capacity + 1)
    BY <1>2
  <2>2. (m + 1 * (Capacity + 1)) % (Capacity + 1) = m
    BY <2>1
  <2> QED BY <1>2, <2>1, <2>2 DEF Nth, Distance
<1> QED BY <1>1, <1>2 DEF Distance

LEMMA HeldSeq ==
  ASSUME NEW d \in [Slots -> Nat], NEW i \in Slots, NEW n \in 0..Capacity + 1
  PROVE  /\ Held(d, i, n) \in Seq(Nat)
         /\ Len(Held(d, i, n)) = n
         /\ \A k \in 1..n : Held(d, i, n)[k] = d[Nth(i, k)]
<1>1. \A k \in 1..n : Nth(i, k) \in Slots
  BY NthSlot
<1>2. \A k \in 1..n : d[Nth(i, k)] \in Nat
  BY <1>1
<1> QED BY <1>2 DEF Held

LEMMA HeldOneMore ==
  ASSUME NEW d \in [Slots -> Nat], NEW i \in Slots, NEW n \in 0..Capacity
  PROVE  Held(d, i, n + 1) = Append(Held(d, i, n), d[Nth(i, n + 1)])
<1> DEFINE m == n + 1
           x == d[Nth(i, m)]
           s == Held(d, i, n)
           t == Held(d, i, m)
<1>1. n \in 0..Capacity + 1 /\ m \in 0..Capacity + 1 /\ m \in 1..Capacity + 1
  OBVIOUS
<1> HIDE DEF m
<1>2. s \in Seq(Nat) /\ Len(s) = n /\ \A k \in 1..n : s[k] = d[Nth(i, k)]
  BY <1>1, HeldSeq
<1>3. t \in Seq(Nat) /\ Len(t) = m /\ \A k \in 1..m : t[k] = d[Nth(i, k)]
  BY <1>1, HeldSeq
<1>4. x \in Nat
  <2>1. Nth(i, m) \in Slots
    BY <1>1, NthSlot
  <2> QED BY <2>1
<1> HIDE DEF s, t
<1>5. ASSUME NEW k \in 1..m PROVE t[k] = Append(s, x)[k]
  <2>1. CASE k = m
    BY <2>1, <1>2, <1>3, <1>4 DEF m
  <2>2. CASE k # m
    <3>1. k \in 1..n
      BY <2>2, <1>1 DEF m
    <3>2. Append(s, x)[k] = s[k]
      BY <3>1, <1>2
    <3> QED BY <3>1, <3>2, <1>2, <1>3
  <2> QED BY <2>1, <2>2
<1> HIDE DEF x
<1>6. Append(s, x) \in Seq(Nat) /\ Len(Append(s, x)) = m
  BY <1>2, <1>4 DEF m
<1>7. t = Append(s, x)
  BY <1>3, <1>5, <1>6
<1> QED BY <1>7 DEF s, t, x, m

LEMMA HeldParts ==
  ASSUME NEW d \in [Slots -> Nat], NEW i \in Slots,
         NEW m \in 0..Capacity, NEW n \in 0..m
  PROVE  /\ SubSeq(Held(d, i, m), 1, n) = Held(d, i, n)
         /\ SubSeq(Held(d, i, m), n + 1, m) = Held(d, Nth(i, n + 1), m - n)
<1> DEFINE s == Held(d, i, m)
           t == Held(d, i, n)
           j == Nth(i, n + 1)
           u == Held(d, j, m - n)
<1>0. /\ m \in 0..Capacity + 1 /\ n \in 0..Capacity + 1 /\ m - n \in 0..Capacity + 1
      /\ n + 1 \in 1..Capacity + 1
  OBVIOUS
<1>1. j \in Slots
  BY <1>0, NthSlot
<1>2. /\ s \in Seq(Nat) /\ Len(s) = m /\ \A k \in 1..m : s[k] = d[Nth(i, k)]
      /\ t \in Seq(Nat) /\ Len(t) = n /\ \A k \in 1..n : t[k] = d[Nth(i, k)]
  BY <1>0, HeldSeq
<1>3. u \in Seq(Nat) /\ Len(u) = m - n /\ \A k \in 1..m - n : u[k] = d[Nth(j, k)]
  BY <1>0, <1>1, HeldSeq
<1>4. \A k \in 1..m - n : Nth(j, k) = Nth(i, n + k)
  <2> SUFFICES ASSUME NEW k \in 1..m - n PROVE Nth(j, k) = Nth(i, n + k)
    OBVIOUS
  <2>1. n + k \in 1..Capacity + 1 /\ n + 1 \in 1..Capacity + 1 /\ k \in 1..Capacity + 1
    OBVIOUS
  <2> DEFINE q == n + k
  <2>2. /\ j = IF i + n <= Capacity THEN i + n ELSE i + n - 1 - Capacity
        /\ Nth(i, q) = IF i + q - 1 <= Capacity THEN i + q - 1 ELSE i + q - 2 - Capacity
        /\ Nth(j, k) = IF j + k - 1 <= Capacity THEN j + k - 1 ELSE j + k - 2 - Capacity
    <3> HIDE DEF q, j
    <3>1. Nth(i, q) = IF i + q - 1 <= Capacity THEN i + q - 1 ELSE i + q - 2 - Capacity
      BY <2>1, NthSlot DEF q
    <3>2. Nth(j, k) = IF j + k - 1 <= Capacity THEN j + k - 1 ELSE j + k - 2 - Capacity
      BY <2>1, <1>1, NthSlot
    <3>3. j = IF i + n <= Capacity THEN i + n ELSE i + n - 1 - Capacity
      <4> DEFINE p == n + 1
      <4>1. p \in 1..Capacity + 1 /\ j = Nth(i, p)
        BY DEF j
      <4> HIDE DEF p
      <4>2. Nth(i, p) = IF i + p - 1 <= Capacity THEN i + p - 1 ELSE i + p - 2 - Capacity
        BY <4>1, NthSlot
      <4> QED BY <4>1, <4>2 DEF p
    <3> QED BY <3>1, <3>2, <3>3
  <2> HIDE DEF j
  <2> QED BY <2>1, <2>2, <1>1
<1> HIDE DEF s, t, j, u
<1>5. SubSeq(s, 1, n) = t
  <2>1. SubSeq(s, 1, n) \in Seq(Nat) /\ Len(SubSeq(s, 1, n)) = n
    BY <1>2
  <2>2. ASSUME NEW k \in 1..n PROVE SubSeq(s, 1, n)[k] = t[k]
    <3>1. k \in 1..m
      OBVIOUS
    <3>2. SubSeq(s, 1, n)[k] = s[k]
      BY <1>2
    <3> QED BY <3>1, <3>2, <1>2
  <2> QED BY <1>2, <2>1, <2>2
<1>6. SubSeq(s, n + 1, m) = u
  <2>1. SubSeq(s, n + 1, m) \in Seq(Nat) /\ Len(SubSeq(s, n + 1, m)) = m - n
    BY <1>2
  <2>2. \A k \in 1..m - n : n + k \in 1..m /\ SubSeq(s, n + 1, m)[k] = s[n + k]
    BY <1>2
  <2>3. ASSUME NEW k \in 1..m - n PROVE SubSeq(s, n + 1, m)[k] = u[k]
    <3>1. n + k \in 1..m /\ SubSeq(s, n + 1, m)[k] = s[n + k]
      BY <2>2
    <3>2. s[n + k] = d[Nth(i, n + k)]
      BY <3>1, <1>2
    <3>3. u[k] = d[Nth(j, k)] /\ Nth(j, k) = Nth(i, n + k)
      BY <1>3, <1>4
    <3> QED BY <3>1, <3>2, <3>3
  <2> QED BY <1>3, <2>1, <2>3
<1> QED BY <1>5, <1>6 DEF s, t, j, u

\* What is written past them does not change them.
LEMMA HeldAway ==
  ASSUME NEW d \in [Slots -> Nat], NEW i \in Slots, NEW n \in 0..Capacity,
         NEW w \in Slots, ~(Distance(i, w) < n),
         NEW e, \A s \in Slots \ {w} : e[s] = d[s]
  PROVE  Held(e, i, n) = Held(d, i, n)
<1>1. \A k \in 1..n : Nth(i, k) \in Slots /\ Nth(i, k) # w
  <2> SUFFICES ASSUME NEW k \in 1..n PROVE Nth(i, k) \in Slots /\ Nth(i, k) # w
    OBVIOUS
  <2>1. k \in 1..Capacity + 1 /\ k - 1 < n
    OBVIOUS
  <2>2. Nth(i, k) \in Slots /\ Distance(i, Nth(i, k)) = k - 1
    BY <2>1, NthSlot
  <2> QED BY <2>1, <2>2
<1>2. \A k \in 1..n : e[Nth(i, k)] = d[Nth(i, k)]
  BY <1>1
<1> QED BY <1>2 DEF Held

-----------------------------------------------------------------------------
\* How far from the read index the others are.
LEMMA WayOrders ==
  ASSUME NEW a \in Slots, NEW b \in Slots, NEW c \in Slots,
         NEW d \in Slots, NEW e \in Slots, NEW f \in Slots,
         Way(a, b, c, d, e, f) <= Capacity
  PROVE  /\ Distance(b, b) = 0
         /\ Distance(b, c) \in 0..Distance(b, e)
         /\ Distance(b, e) \in 0..Distance(b, f)
         /\ Distance(b, f) \in 0..Capacity
         /\ Distance(c, e) = Distance(b, e) - Distance(b, c)
         /\ c # d => Distance(b, After(c)) = Distance(b, c) + 1
         /\ c # d => Distance(b, c) < Distance(b, e)
         /\ c = Nth(b, Distance(b, c) + 1)
<1>1. /\ Distance(b, b) = 0
      /\ Distance(b, c) \in 0..Distance(b, e)
      /\ Distance(b, e) \in 0..Distance(b, f)
      /\ Distance(b, f) \in 0..Capacity
  BY DEF Way, Distance
<1>2. Distance(c, e) = Distance(b, e) - Distance(b, c)
  BY DEF Way, Distance
<1>3. c # d => Distance(b, After(c)) = Distance(b, c) + 1
  BY AfterInSlots DEF Way, Distance
<1>4. c # d => Distance(b, c) < Distance(b, e)
  BY WayUses
<1>5. c = Nth(b, Distance(b, c) + 1)
  <2> DEFINE k == Distance(b, c) + 1
  <2>1. k \in 1..Capacity + 1
    BY <1>1
  <2>2. c = IF b + k - 1 <= Capacity THEN b + k - 1 ELSE b + k - 2 - Capacity
    BY DEF Distance
  <2> HIDE DEF k
  <2>3. Nth(b, k) = IF b + k - 1 <= Capacity THEN b + k - 1 ELSE b + k - 2 - Capacity
    BY <2>1, NthSlot
  <2> QED BY <2>2, <2>3 DEF k
<1> QED BY <1>1, <1>2, <1>3, <1>4, <1>5

\* The same of the ring.
LEMMA IndicesOrdered ==
  ASSUME RingTypeOK, InOrder
  PROVE  /\ Available \in 0..Capacity
         /\ Distance(readIndex, readIndex) = 0
         /\ push.pc # "idle" => Distance(readIndex, push.write) \in Available..Capacity
         /\ pop.pc = "copy" =>
              /\ Distance(readIndex, pop.read) \in 0..Available
              /\ Distance(pop.read, writeIndex) = Available - Distance(readIndex, pop.read)
              /\ pop.read = Nth(readIndex, Distance(readIndex, pop.read) + 1)
              /\ pop.read # pop.write =>
                   /\ Distance(readIndex, pop.read) < Available
                   /\ Distance(readIndex, After(pop.read)) = Distance(readIndex, pop.read) + 1
<1> DEFINE a == SeenRead
           c == ReadsAt
           d == SeenWrite
           f == WritesAt
<1>1. /\ a \in Slots /\ c \in Slots /\ d \in Slots /\ f \in Slots
      /\ readIndex \in Slots /\ writeIndex \in Slots
  BY DEF RingTypeOK, SeenRead, ReadsAt, SeenWrite, WritesAt
<1>2. Way(a, readIndex, c, d, writeIndex, f) <= Capacity
  BY DEF InOrder
<1>3. /\ push.pc # "idle" => f = push.write
      /\ pop.pc = "copy" => c = pop.read /\ d = pop.write
  BY DEF WritesAt, ReadsAt, SeenWrite
<1> HIDE DEF a, c, d, f
<1>4. /\ Distance(readIndex, readIndex) = 0
      /\ Distance(readIndex, c) \in 0..Distance(readIndex, writeIndex)
      /\ Distance(readIndex, writeIndex) \in 0..Distance(readIndex, f)
      /\ Distance(readIndex, f) \in 0..Capacity
      /\ Distance(c, writeIndex) = Distance(readIndex, writeIndex) - Distance(readIndex, c)
      /\ c # d => Distance(readIndex, After(c)) = Distance(readIndex, c) + 1
      /\ c # d => Distance(readIndex, c) < Distance(readIndex, writeIndex)
      /\ c = Nth(readIndex, Distance(readIndex, c) + 1)
  BY <1>1, <1>2, WayOrders
<1>5. Available = Distance(readIndex, writeIndex)
  BY DEF Available
<1>6. Available \in 0..Capacity
  BY <1>4, <1>5
<1>7. push.pc # "idle" => Distance(readIndex, push.write) \in Available..Capacity
  BY <1>3, <1>4, <1>5
<1>8. ASSUME pop.pc = "copy"
      PROVE  /\ Distance(readIndex, pop.read) \in 0..Available
             /\ Distance(pop.read, writeIndex) = Available - Distance(readIndex, pop.read)
             /\ pop.read = Nth(readIndex, Distance(readIndex, pop.read) + 1)
             /\ pop.read # pop.write =>
                  /\ Distance(readIndex, pop.read) < Available
                  /\ Distance(readIndex, After(pop.read)) = Distance(readIndex, pop.read) + 1
  BY <1>8, <1>3, <1>4, <1>5
<1> QED BY <1>4, <1>6, <1>7, <1>8

\* A sample that is being written is not one of those that wait.
LEMMA WritingChangesNothing ==
  ASSUME RingTypeOK, InOrder, SlotsDisjoint, PushSample,
         NEW n \in 0..Available
  PROVE  Held(data', readIndex, n) = Held(data, readIndex, n)
<1>1. push.write \in Slots /\ readIndex \in Slots /\ data \in [Slots -> Nat]
  BY DEF RingTypeOK
<1>2. ~(Distance(readIndex, push.write) < n)
  <2>1. Copying /\ ~Full
    BY DEF PushSample
  <2>2. ~(Distance(readIndex, push.write) < Available)
    BY <1>1, <2>1 DEF SlotsDisjoint, Occupied
  <2>3. Available \in 0..Capacity
    BY IndicesOrdered
  <2>4. Distance(readIndex, push.write) \in Int
    BY <1>1 DEF Distance
  <2> QED BY <2>2, <2>3, <2>4
<1>3. n \in 0..Capacity
  BY IndicesOrdered
<1>4. \A s \in Slots \ {push.write} : data'[s] = data[s]
  BY <1>1 DEF PushSample
<1> DEFINE w == push.write
           d == data
           e == data'
           i == readIndex
<1>5. /\ w \in Slots /\ ~(Distance(i, w) < n)
      /\ d \in [Slots -> Nat] /\ i \in Slots
      /\ \A s \in Slots \ {w} : e[s] = d[s]
  BY <1>1, <1>2, <1>4
<1> HIDE DEF w, d, e, i
<1>6. Held(e, i, n) = Held(d, i, n)
  BY <1>3, <1>5, HeldAway
<1> QED BY <1>6 DEF d, e, i

LEMMA CopiedAlways == RingSpec => []Copied
<1>1. RingInit => Copied
  BY DEF RingInit, Copied, IdlePop
<1>2. RingTypeOK /\ RingTypeOK' /\ InOrder /\ SlotsDisjoint /\ Copied /\ [RingNext]_ringVars
        => Copied'
  <2> SUFFICES ASSUME RingTypeOK, RingTypeOK', InOrder, SlotsDisjoint, Copied,
                      [RingNext]_ringVars, pop'.pc = "copy"
               PROVE  pop'.out = Held(data', readIndex', Distance(readIndex', pop'.read))
    BY DEF Copied
  <2>1. /\ data \in [Slots -> Nat] /\ readIndex \in Slots
        /\ pop.read \in Slots /\ pop.pc \in {"idle", "copy"}
    BY DEF RingTypeOK
  <2>2. ASSUME UNCHANGED <<data, readIndex, pop>>
        PROVE  pop'.out = Held(data', readIndex', Distance(readIndex', pop'.read))
    BY <2>2 DEF Copied
  <2>3. ASSUME NEW block \in Seq(Nat), PushBegin(block)
        PROVE  UNCHANGED <<data, readIndex, pop>>
    BY <2>3 DEF PushBegin
  <2>4. CASE PushSample
    <3>1. UNCHANGED <<readIndex, pop>>
      BY <2>4 DEF PushSample
    <3>2. Distance(readIndex, pop.read) \in 0..Available
      BY <3>1, IndicesOrdered
    <3>3. Held(data', readIndex, Distance(readIndex, pop.read))
            = Held(data, readIndex, Distance(readIndex, pop.read))
      BY <2>4, <3>2, WritingChangesNothing
    <3> QED BY <3>1, <3>3 DEF Copied
  <2>5. CASE PushDrop \/ PushPublish
    BY <2>5, <2>2 DEF PushDrop, PushPublish
  <2>6. ASSUME NEW count \in Nat, PopBegin(count)
        PROVE  pop'.out = Held(data', readIndex', Distance(readIndex', pop'.read))
    <3>1. pop'.out = <<>> /\ pop'.read = readIndex /\ UNCHANGED <<data, readIndex>>
      BY <2>6 DEF PopBegin
    <3>2. Distance(readIndex, readIndex) = 0 /\ 0 \in 0..Capacity + 1
      BY IndicesOrdered
    <3>3. Held(data, readIndex, 0) \in Seq(Nat) /\ Len(Held(data, readIndex, 0)) = 0
      BY <2>1, <3>2, HeldSeq
    <3>4. Held(data, readIndex, 0) = <<>>
      BY <3>3
    <3> QED BY <3>1, <3>2, <3>4
  <2>7. CASE PopSample
    <3> DEFINE n == Distance(readIndex, pop.read)
    <3>1. /\ pop.pc = "copy" /\ pop.read # pop.write
          /\ UNCHANGED <<data, readIndex>>
      BY <2>7 DEF PopSample, PopDone
    <3>2. pop' = [pop EXCEPT !.out = Append(pop.out, data[pop.read]), !.read = After(pop.read)]
      BY <2>7 DEF PopSample
    <3>3. pop'.out = Append(pop.out, data[pop.read]) /\ pop'.read = After(pop.read)
      <4>1. pop \in PopState
        BY DEF RingTypeOK, PopState
      <4> QED BY <4>1, <3>2 DEF PopState
    <3>4. /\ n \in 0..Available /\ n < Available /\ Available \in 0..Capacity
          /\ pop.read = Nth(readIndex, n + 1)
          /\ Distance(readIndex, After(pop.read)) = n + 1
      BY <3>1, IndicesOrdered
    <3>5. pop.out = Held(data, readIndex, n)
      BY <3>1 DEF Copied
    <3> HIDE DEF n
    <3>6. n \in 0..Capacity
      BY <3>4
    <3>7. Held(data, readIndex, n + 1) = Append(Held(data, readIndex, n), data[Nth(readIndex, n + 1)])
      BY <2>1, <3>6, HeldOneMore
    <3> QED BY <3>1, <3>3, <3>4, <3>5, <3>7
  <2>8. CASE PopReturn \/ RingClear
    BY <2>8 DEF PopReturn, RingClear, IdlePop
  <2>9. CASE UNCHANGED ringVars
    BY <2>9, <2>2 DEF ringVars
  <2> QED
    BY <2>2, <2>3, <2>4, <2>5, <2>6, <2>7, <2>8, <2>9 DEF RingNext
<1> QED BY Typed, Ordered, SlotsNeverShared, <1>1, <1>2, PTL DEF RingSpec

-----------------------------------------------------------------------------
LEMMA PublishedHeld ==
  /\ Published = Held(data, readIndex, Available)
  /\ Published' = Held(data', readIndex', Available')
BY DEF Published, Held, Nth

\* Publishing appends to the queue what was written, or nothing.
LEMMA PublishPuts ==
  ASSUME RingTypeOK, InOrder, PushPublish
  PROVE  Queue!Put \/ UNCHANGED <<Published, taken, dropped>>
<1> DEFINE n == Distance(readIndex, push.write)
<1>1. /\ data \in [Slots -> Nat] /\ readIndex \in Slots
      /\ push.pc # "idle" /\ writeIndex' = push.write
      /\ UNCHANGED <<data, readIndex, taken, dropped>>
  BY DEF PushPublish, RingTypeOK
<1>2. Available \in 0..Capacity /\ n \in Available..Capacity
  BY <1>1, IndicesOrdered
<1>3. Available' = n
  BY <1>1 DEF Available
<1>4. Published = Held(data, readIndex, Available) /\ Published' = Held(data, readIndex, n)
  <2>1. Published' = Held(data', readIndex', Available')
    BY PublishedHeld
  <2> QED BY <2>1, <1>1, <1>3, PublishedHeld
<1> HIDE DEF n
<1>5. n \in 0..Capacity /\ n \in 0..Capacity + 1 /\ Available \in 0..n /\ Available \in 0..Capacity + 1
  BY <1>2
<1>6. Len(Published) = Available /\ Len(Published') = n
  BY <1>1, <1>4, <1>5, HeldSeq
<1>7. SubSeq(Published', 1, Available) = Published
  BY <1>1, <1>4, <1>5, HeldParts
<1>8. CASE n = Available
  BY <1>8, <1>1, <1>4
<1>9. CASE n # Available
  <2>1. n \in Available + 1..Capacity
    BY <1>9, <1>2
  <2> QED BY <2>1, <1>1, <1>6, <1>7 DEF Queue!Put
<1> QED BY <1>8, <1>9

\* Returning from pop() takes what was copied from the queue, or nothing.
LEMMA ReturnTakes ==
  ASSUME RingTypeOK, RingTypeOK', InOrder, Copied, PopReturn
  PROVE  Queue!Take \/ UNCHANGED <<Published, taken, dropped>>
<1> DEFINE n == Distance(readIndex, pop.read)
<1>1. /\ data \in [Slots -> Nat] /\ readIndex \in Slots /\ taken \in Seq(Nat)
      /\ pop.pc = "copy" /\ readIndex' = pop.read /\ taken' = taken \o pop.out
      /\ UNCHANGED <<data, writeIndex, dropped>>
  BY DEF PopReturn, RingTypeOK
<1>2. /\ Available \in 0..Capacity /\ n \in 0..Available
      /\ Available' = Available - n
      /\ pop.read = Nth(readIndex, n + 1)
  BY <1>1, IndicesOrdered DEF Available
<1>3. pop.out = Held(data, readIndex, n)
  BY <1>1 DEF Copied
<1> DEFINE m == Available
<1>4. Published = Held(data, readIndex, m)
  BY PublishedHeld
<1>5. Published' = Held(data, Nth(readIndex, n + 1), m - n)
  <2>1. Published' = Held(data', readIndex', Available')
    BY PublishedHeld
  <2> QED BY <2>1, <1>1, <1>2
<1>6. m \in 0..Capacity /\ m \in 0..Capacity + 1 /\ n \in 0..m
  BY <1>2
<1> HIDE DEF n, m
<1>7. /\ SubSeq(Published, 1, n) = pop.out
      /\ SubSeq(Published, n + 1, m) = Published'
      /\ Published \in Seq(Nat) /\ Len(Published) = m
  BY <1>1, <1>3, <1>4, <1>5, <1>6, HeldParts, HeldSeq
<1>8. CASE n = 0
  <2>1. pop.out = <<>> /\ Published' = Published
    <3>1. SubSeq(Published, 1, 0) = <<>>
      BY <1>7
    <3>2. SubSeq(Published, 1, m) = Published
      BY <1>6, <1>7
    <3>3. n + 1 = 1
      BY <1>8
    <3>4. SubSeq(Published, 1, 0) = pop.out /\ SubSeq(Published, 1, m) = Published'
      BY <1>7, <1>8, <3>3
    <3> QED BY <3>1, <3>2, <3>4
  <2>2. taken' = taken
    BY <2>1, <1>1
  <2> QED BY <2>1, <2>2, <1>1
<1>9. CASE n # 0
  <2>1. n \in 1..Len(Published)
    BY <1>6, <1>7, <1>9
  <2>2. /\ taken' = taken \o SubSeq(Published, 1, n)
        /\ Published' = SubSeq(Published, n + 1, Len(Published))
        /\ UNCHANGED dropped
    BY <1>1, <1>7
  <2> QED BY <2>1, <2>2 DEF Queue!Take
<1> QED BY <1>8, <1>9

(***************************************************************************)
(* Refinement: for every capacity, the ring is a first-in first-out queue  *)
(* of at most Capacity samples that counts what it loses: pop() returns    *)
(* exactly what push() published, once and in order, although both copy    *)
(* sample by sample with an old index of the other.                        *)
(***************************************************************************)
THEOREM RingIsQueue == RingSpec => QueuePromise
<1>1. RingInit => Queue!Init
  <2> SUFFICES ASSUME RingInit PROVE Published = <<>> /\ taken = <<>> /\ dropped = 0
    BY DEF Queue!Init
  <2>1. data \in [Slots -> Nat] /\ readIndex \in Slots /\ Available = 0 /\ 0 \in 0..Capacity + 1
    BY DEF RingInit, Available, Distance
  <2>2. Published \in Seq(Nat) /\ Len(Published) = 0
    BY <2>1, PublishedHeld, HeldSeq
  <2> QED BY <2>2 DEF RingInit
<1>2. RingTypeOK /\ RingTypeOK' /\ InOrder /\ SlotsDisjoint /\ Copied /\ [RingNext]_ringVars
        => [Queue!Next]_<<Published, taken, dropped>>
  <2> SUFFICES ASSUME RingTypeOK, RingTypeOK', InOrder, SlotsDisjoint, Copied,
                      [RingNext]_ringVars
               PROVE  Queue!Next \/ UNCHANGED <<Published, taken, dropped>>
    OBVIOUS
  <2>1. ASSUME UNCHANGED <<data, readIndex, writeIndex>> PROVE Published' = Published
    <3>1. Available' = Available
      BY <2>1 DEF Available
    <3>2. Published' = Held(data', readIndex', Available')
      BY PublishedHeld
    <3> QED BY <3>1, <3>2, <2>1, PublishedHeld
  <2>2. ASSUME NEW block \in Seq(Nat), PushBegin(block)
        PROVE  UNCHANGED <<Published, taken, dropped>>
    BY <2>1, <2>2 DEF PushBegin
  <2>3. CASE PushSample
    <3>1. UNCHANGED <<readIndex, writeIndex, taken, dropped>>
      BY <2>3 DEF PushSample
    <3>2. Available' = Available
      BY <3>1 DEF Available
    <3>3. Available \in 0..Available
      BY IndicesOrdered
    <3>4. Held(data', readIndex, Available) = Held(data, readIndex, Available)
      BY <2>3, <3>3, WritingChangesNothing
    <3>5. Published' = Held(data', readIndex', Available')
      BY PublishedHeld
    <3> QED BY <3>1, <3>2, <3>4, <3>5, PublishedHeld
  <2>4. CASE PushDrop
    <3>1. UNCHANGED <<data, readIndex, writeIndex, taken>>
      BY <2>4 DEF PushDrop
    <3>2. dropped' > dropped
      <4>1. /\ dropped' = dropped + (Len(push.block) - push.written)
            /\ push.written < Len(push.block)
        BY <2>4 DEF PushDrop, Copying
      <4>2. dropped \in Nat /\ push.written \in Nat /\ push.block \in Seq(Nat)
        BY DEF RingTypeOK
      <4>3. Len(push.block) \in Nat
        BY <4>2
      <4> QED BY <4>1, <4>2, <4>3
    <3> QED BY <3>1, <3>2, <2>1 DEF Queue!Lose, Queue!Next
  <2>5. CASE PushPublish
    BY <2>5, PublishPuts DEF Queue!Next
  <2>6. ASSUME NEW count \in Nat, PopBegin(count)
        PROVE  UNCHANGED <<Published, taken, dropped>>
    BY <2>1, <2>6 DEF PopBegin
  <2>7. CASE PopSample
    BY <2>1, <2>7 DEF PopSample
  <2>8. CASE PopReturn
    BY <2>8, ReturnTakes DEF Queue!Next
  <2>9. CASE RingClear
    <3>1. /\ readIndex' = writeIndex /\ writeIndex' = writeIndex
          /\ taken' = <<>> /\ dropped' = 0
          /\ data' \in [Slots -> Nat] /\ readIndex' \in Slots
      BY <2>9 DEF RingClear, RingTypeOK
    <3>2. Available' = 0 /\ 0 \in 0..Capacity + 1
      BY <3>1 DEF Available, Distance, RingTypeOK
    <3>3. Published' = Held(data', readIndex', 0)
      BY <3>2, PublishedHeld
    <3>4. Held(data', readIndex', 0) \in Seq(Nat) /\ Len(Held(data', readIndex', 0)) = 0
      <4> DEFINE d == data'
                 i == readIndex'
      <4>1. d \in [Slots -> Nat] /\ i \in Slots
        BY <3>1
      <4> HIDE DEF d, i
      <4>2. Held(d, i, 0) \in Seq(Nat) /\ Len(Held(d, i, 0)) = 0
        BY <4>1, <3>2, HeldSeq
      <4> QED BY <4>2 DEF d, i
    <3>5. Published' = <<>>
      BY <3>3, <3>4
    <3> QED BY <3>1, <3>5 DEF Queue!Clear, Queue!Next
  <2>10. CASE UNCHANGED ringVars
    BY <2>1, <2>10 DEF ringVars
  <2> QED
    BY <2>2, <2>3, <2>4, <2>5, <2>6, <2>7, <2>8, <2>9, <2>10 DEF RingNext
<1>3. RingSpec => QueuePromise
  BY Typed, Ordered, SlotsNeverShared, CopiedAlways, <1>1, <1>2, PTL
  DEF RingSpec, QueuePromise, Queue!Spec
<1> QED BY <1>3

HIDE CapacityAssumption DEF Size, Slots

-----------------------------------------------------------------------------
(***************************************************************************)
(* The threads of a recording, for every capacity, block, audio device and *)
(* number of recordings: they use the ring as it may be used, their        *)
(* variables keep their types, and a recording leaves nothing behind.      *)
(***************************************************************************)
\* Samples have numbers.
Numbered == captured \in Nat

LEMMA CapturedNat == RuntimeInit /\ [][RuntimeNext]_vars => []Numbered
<1>1. RuntimeInit => Numbered
  BY DEF RuntimeInit, Numbered
<1>2. Numbered /\ [RuntimeNext]_vars => Numbered'
  <2> SUFFICES ASSUME captured \in Nat, [RuntimeNext]_vars PROVE captured' \in Nat
    BY DEF Numbered
  <2>1. CASE CallbackPushes \/ CallbackDiscards
    BY <2>1, RuntimeAssumption DEF CallbackPushes, CallbackDiscards
  <2>2. CASE UNCHANGED captured
    BY <2>2
  <2>3. Commands => UNCHANGED captured
    BY DEF Commands, StartDevice, StartFails, Reject, StopCommand
  <2>4. MainThread => UNCHANGED captured
    BY DEF MainThread, StartRecording, StopChecks, StopsDevice, UninitsDevice, StopReturns,
           JoinFeed, JoinMeter, FinishStop, FinishStopFails, FinishCancel, FinishShutdown, Finish
  <2>5. FeedThread => UNCHANGED captured
    BY DEF FeedThread, FeedTests, FeedDrains, FeedPops, FeedCopies, FeedPopped, FeedEngine,
           FeedWarns, FeedFails, FeedEnds, StopChecks, StopsDevice, UninitsDevice, OnlyFeed
  <2>6. MeterThread \/ StopsCollide \/ CallbackCopies \/ Terminated \/ UNCHANGED vars
          => UNCHANGED captured
    BY DEF MeterThread, MeterTests, MeterEmits, StopsCollide, CallbackCopies, Terminated, vars
  <2> QED BY <2>1, <2>2, <2>3, <2>4, <2>5, <2>6 DEF RuntimeNext
<1> QED BY <1>1, <1>2, PTL

\* The runtime calls the ring as one writer and one reader that clear it between
\* their calls: each of its steps is a step of the ring, or none.
LEMMA RuntimeUsesRing ==
  ASSUME captured \in Nat, [RuntimeNext]_vars
  PROVE  [RingNext]_ringVars
<1>1. CASE CallbackPushes
  <2>1. PICK n \in Frames : PushBegin(Block(n))
    BY <1>1 DEF CallbackPushes
  <2>2. n \in Nat
    BY <2>1, RuntimeAssumption
  <2>3. Block(n) \in Seq(Nat)
    BY <2>2 DEF Block
  <2> QED BY <2>1, <2>3 DEF RingNext
<1>2. CASE CallbackCopies \/ FeedCopies
  BY <1>2 DEF CallbackCopies, FeedCopies, RingNext
<1>3. CASE FeedPops
  <2>1. PopBegin(BlockSize) /\ BlockSize \in Nat
    BY <1>3, RuntimeAssumption DEF FeedPops
  <2> QED BY <2>1 DEF RingNext
<1>4. CASE FeedPopped
  BY <1>4 DEF FeedPopped, RingNext
<1>5. CASE StartDevice \/ StartFails
  BY <1>5 DEF StartDevice, StartFails, RingNext
<1>6. Reject \/ StopCommand \/ MainThread => UNCHANGED ringVars
  BY DEF Reject, StopCommand,
         MainThread, StartRecording, StopChecks, StopsDevice, UninitsDevice, StopReturns,
         JoinFeed, JoinMeter, FinishStop, FinishStopFails, FinishCancel, FinishShutdown, Finish
<1>7. FeedThread => FeedPops \/ FeedCopies \/ FeedPopped \/ UNCHANGED ringVars
  BY DEF FeedThread, FeedTests, FeedDrains, FeedEngine,
         FeedWarns, FeedFails, FeedEnds, StopChecks, StopsDevice, UninitsDevice, OnlyFeed
<1>8. MeterThread \/ StopsCollide \/ CallbackDiscards \/ Terminated \/ UNCHANGED vars
        => UNCHANGED ringVars
  BY DEF MeterThread, MeterTests, MeterEmits, StopsCollide, CallbackDiscards, Terminated, vars
<1> QED
  BY <1>1, <1>2, <1>3, <1>4, <1>5, <1>6, <1>7, <1>8 DEF RuntimeNext, Commands

LEMMA RuntimeIsRing == RuntimeSpec => RingSpec
<1>1. RuntimeInit => RingInit
  BY DEF RuntimeInit
<1>2. Numbered /\ [RuntimeNext]_vars => [RingNext]_ringVars
  BY RuntimeUsesRing DEF Numbered
<1> QED BY CapturedNat, <1>1, <1>2, PTL DEF RuntimeSpec, RingSpec

(***************************************************************************)
(* Refinement: with its real callers, the audio callback and the feed      *)
(* thread and their cleared and restarted recordings, the ring is a queue. *)
(***************************************************************************)
THEOREM RecordingIsQueued == RuntimeSpec => QueuePromise
BY RuntimeIsRing, RingIsQueue, PTL

(***************************************************************************)
(* The callback and the feed thread never meet in one slot of the ring.    *)
(***************************************************************************)
THEOREM RecordingSlotsDisjoint == RuntimeSpec => []SlotsDisjoint
BY RuntimeIsRing, SlotsNeverShared, PTL

-----------------------------------------------------------------------------
(* Types *)

MainStates ==
  [pc : {"read", "starting", "stop", "join_feed", "join_meter", "finish"},
   state : {"Ready", "Recording", "Finalizing", "ShuttingDown", "Exited", "Crashed"},
   session : 0..MaxSessions, op : {"none", "stop", "cancel", "shutdown"}]
Captures == [running : BOOLEAN, initialized : BOOLEAN, device : {"closed", "started", "stopped"}]
Stoppers == [Callers -> {"out", "check", "device", "uninit", "done"}]
FeedStates ==
  [pc : {"none", "loop", "drain", "pop", "popping", "engine", "warn", "failing", "ended"},
   block : Seq(Nat), warned : BOOLEAN, failed : BOOLEAN]
Meters == {"none", "loop", "emit", "ended"}
LastEvents == [type : Events, session : 0..MaxSessions]

\* All but the ring.
ThreadsTyped ==
  /\ main \in MainStates /\ capture \in Captures /\ stopper \in Stoppers
  /\ feed \in FeedStates /\ meter \in Meters /\ stream \in BOOLEAN
  /\ last \in LastEvents /\ captured \in 0..MaxSamples /\ session \in SessionHistory

LEMMA TypesSplit == RuntimeTypeOK <=> RingTypeOK /\ ThreadsTyped
BY DEF RuntimeTypeOK, ThreadsTyped, MainStates, Captures, Stoppers, FeedStates, Meters, LastEvents

LEMMA AvailableNat == ASSUME RingTypeOK PROVE Available \in Nat
BY CapacityAssumption DEF RingTypeOK, Available, Distance, Size, Slots

LEMMA NoFeedTyped == NoFeed \in FeedStates
<1>1. <<>> \in Seq(Nat)
  OBVIOUS
<1> QED BY <1>1 DEF NoFeed, FeedStates

LEMMA CommandsTyped ==
  ASSUME RingTypeOK, ThreadsTyped, Commands
  PROVE  ThreadsTyped'
<1> USE RuntimeAssumption DEF ThreadsTyped
<1>1. ASSUME NextSession, NewHistory PROVE session' \in SessionHistory
  BY <1>1 DEF NewHistory, SessionHistory
<1>2. CASE StartDevice
  <2>1. main' \in MainStates
    <3> DEFINE n == main.session + 1
    <3>1. main.session \in 0..MaxSessions /\ main.session < MaxSessions
      BY <1>2 DEF StartDevice, NextSession, MainStates
    <3>2. n \in 0..MaxSessions
      BY <3>1
    <3>3. main' = [main EXCEPT !.pc = "starting", !.session = n]
      BY <1>2 DEF StartDevice
    <3> HIDE DEF n
    <3> QED BY <3>2, <3>3 DEF MainStates
  <2>2. capture' \in Captures
    BY <1>2 DEF StartDevice, Captures
  <2>3. session' \in SessionHistory
    BY <1>2, <1>1 DEF StartDevice
  <2> QED BY <1>2, <2>1, <2>2, <2>3 DEF StartDevice
<1>3. ASSUME NEW type \in Events, Emit(type) PROVE last' \in LastEvents
  BY <1>3 DEF Emit, LastEvents, MainStates
<1>4. CASE StartFails
  <2>1. last' \in LastEvents
    BY <1>3, <1>4 DEF StartFails, Events
  <2>2. session' \in SessionHistory
    BY <1>4, <1>1 DEF StartFails
  <2> QED BY <1>4, <2>1, <2>2 DEF StartFails
<1>5. CASE Reject
  <2>1. last' \in LastEvents
    BY <1>3, <1>5 DEF Reject, Events
  <2> QED BY <1>5, <2>1 DEF Reject
<1>6. CASE StopCommand
  <2>1. main' \in MainStates
    BY <1>6 DEF StopCommand, MainStates
  <2>2. capture' \in Captures /\ stopper' \in Stoppers
    BY <1>6 DEF StopCommand, Captures, Stoppers, Callers
  <2>3. session' \in SessionHistory
    <3> DEFINE p == IF main.state = "Recording" THEN Len(taken) + Available ELSE session.promised
    <3>1. p \in Nat
      BY AvailableNat DEF RingTypeOK, SessionHistory
    <3>2. session' = [session EXCEPT !.promised = p]
      BY <1>6 DEF StopCommand
    <3> HIDE DEF p
    <3> QED BY <3>1, <3>2 DEF SessionHistory
  <2> QED BY <1>6, <2>1, <2>2, <2>3 DEF StopCommand
<1> QED BY <1>2, <1>4, <1>5, <1>6 DEF Commands

LEMMA StopperTyped ==
  ASSUME ThreadsTyped, NEW t \in Callers,
         StopChecks(t) \/ StopsDevice(t) \/ UninitsDevice(t)
  PROVE  ThreadsTyped'
<1> USE DEF ThreadsTyped
<1>1. CASE StopChecks(t)
  BY <1>1 DEF StopChecks, Stoppers
<1>2. CASE StopsDevice(t)
  <2>1. capture' \in Captures
    BY <1>2 DEF StopsDevice, Captures
  <2>2. stopper' \in Stoppers
    BY <1>2 DEF StopsDevice, Stoppers
  <2> QED BY <1>2, <2>1, <2>2 DEF StopsDevice
<1>3. CASE UninitsDevice(t)
  <2>1. capture' \in Captures
    BY <1>3 DEF UninitsDevice, Captures
  <2>2. stopper' \in Stoppers
    BY <1>3 DEF UninitsDevice, Stoppers
  <2> QED BY <1>3, <2>1, <2>2 DEF UninitsDevice
<1> QED BY <1>1, <1>2, <1>3

LEMMA MainTyped ==
  ASSUME ThreadsTyped, MainThread
  PROVE  ThreadsTyped'
<1> USE DEF ThreadsTyped
<1>1. ASSUME NEW type \in Events, Emit(type) PROVE last' \in LastEvents
  BY <1>1 DEF Emit, LastEvents, MainStates
<1>2. CASE StartRecording
  <2>1. main' \in MainStates /\ capture' \in Captures
    BY <1>2 DEF StartRecording, MainStates, Captures
  <2>2. feed' \in FeedStates /\ meter' \in Meters
    <3>1. feed' = [NoFeed EXCEPT !.pc = "loop"] /\ meter' = "loop"
      BY <1>2 DEF StartRecording
    <3> QED BY <3>1, NoFeedTyped DEF FeedStates, Meters
  <2>3. last' \in LastEvents
    BY <1>2, <1>1 DEF StartRecording, Events
  <2> QED BY <1>2, <2>1, <2>2, <2>3 DEF StartRecording
<1>3. CASE StopChecks("main") \/ StopsDevice("main") \/ UninitsDevice("main")
  BY <1>3, StopperTyped DEF Callers
<1>4. CASE StopReturns
  <2>1. main' \in MainStates /\ stopper' \in Stoppers
    BY <1>4 DEF StopReturns, MainStates, Stoppers, Callers
  <2> QED BY <1>4, <2>1 DEF StopReturns
<1>5. CASE JoinFeed
  <2>1. main' \in MainStates /\ feed' \in FeedStates
    BY <1>5 DEF JoinFeed, MainStates, FeedStates
  <2> QED BY <1>5, <2>1 DEF JoinFeed
<1>6. CASE JoinMeter
  <2>1. main' \in MainStates /\ meter' \in Meters
    BY <1>6 DEF JoinMeter, MainStates, Meters
  <2> QED BY <1>6, <2>1 DEF JoinMeter
<1>7. ASSUME NEW op, NEW result \in {"none", "finalized", "cancelled", "failed"},
             NEW event \in Events, NEW state \in {"Ready", "Exited"},
             Finish(op, result, event, state), stream' \in BOOLEAN
      PROVE  ThreadsTyped'
  <2>1. main' \in MainStates
    BY <1>7 DEF Finish, MainStates
  <2>2. session' \in SessionHistory
    BY <1>7 DEF Finish, SessionHistory
  <2>3. last' \in LastEvents
    BY <1>7, <1>1 DEF Finish
  <2> QED BY <1>7, <2>1, <2>2, <2>3 DEF Finish
<1>8. CASE FinishStop
  BY <1>8, <1>7 DEF FinishStop, Events
<1>9. CASE FinishStopFails
  BY <1>9, <1>7 DEF FinishStopFails, Events
<1>10. CASE FinishCancel
  BY <1>10, <1>7 DEF FinishCancel, Events
<1>11. CASE FinishShutdown
  <2>1. session.result \in {"none", "finalized", "cancelled", "failed"}
    BY DEF SessionHistory
  <2> QED BY <1>11, <2>1, <1>7 DEF FinishShutdown, Events
<1> QED
  BY <1>2, <1>3, <1>4, <1>5, <1>6, <1>8, <1>9, <1>10, <1>11 DEF MainThread

LEMMA FeedTyped ==
  ASSUME RingTypeOK, ThreadsTyped, FeedThread
  PROVE  ThreadsTyped'
<1> USE DEF ThreadsTyped
<1>1. ASSUME NEW type \in Events, Emit(type) PROVE last' \in LastEvents
  BY <1>1 DEF Emit, LastEvents, MainStates
<1>2. ASSUME NEW from, NEW to \in {"loop", "drain", "pop", "popping", "engine", "warn", "ended"},
             FeedGoes(from, to)
      PROVE  feed' \in FeedStates
  BY <1>2 DEF FeedGoes, FeedStates
<1>3. CASE FeedTests \/ FeedDrains
  BY <1>3, <1>2 DEF FeedTests, FeedDrains, OnlyFeed
<1>4. CASE FeedPops
  BY <1>4, <1>2 DEF FeedPops
<1>5. CASE FeedCopies
  BY <1>5 DEF FeedCopies, runtimeVars
<1>6. CASE FeedPopped
  <2>1. pop.out \in Seq(Nat)
    BY DEF RingTypeOK
  <2>2. feed' \in FeedStates
    <3> DEFINE b == pop.out
               pc == IF pop.out = <<>> THEN "loop" ELSE "engine"
    <3>1. b \in Seq(Nat) /\ pc \in {"loop", "engine"}
      BY <2>1
    <3>2. feed' = [feed EXCEPT !.pc = pc, !.block = b]
      BY <1>6 DEF FeedPopped
    <3> HIDE DEF b, pc
    <3> QED BY <3>1, <3>2 DEF FeedStates
  <2> QED BY <1>6, <2>2 DEF FeedPopped
<1>7. CASE FeedEngine
  <2>1. feed' \in FeedStates
    BY <1>7, <1>2 DEF FeedEngine
  <2>2. session' \in SessionHistory
    <3> DEFINE h == session.heard \o feed.block
    <3>1. h \in Seq(Nat)
      BY DEF SessionHistory, FeedStates
    <3>2. session' = [session EXCEPT !.heard = h]
      BY <1>7 DEF FeedEngine
    <3> HIDE DEF h
    <3> QED BY <3>1, <3>2 DEF SessionHistory
  <2>3. last' \in LastEvents
    BY <1>7, <1>1 DEF FeedEngine, Events
  <2> QED BY <1>7, <2>1, <2>2, <2>3 DEF FeedEngine
<1>8. CASE FeedWarns
  <2>1. feed' \in FeedStates
    BY <1>8 DEF FeedWarns, FeedStates
  <2>2. last' \in LastEvents
    BY <1>8, <1>1 DEF FeedWarns, Events
  <2> QED BY <1>8, <2>1, <2>2 DEF FeedWarns
<1>9. CASE FeedFails
  <2>1. feed' \in FeedStates /\ capture' \in Captures
    BY <1>9 DEF FeedFails, FeedStates, Captures
  <2>2. last' \in LastEvents
    BY <1>9, <1>1 DEF FeedFails, Events
  <2>3. stopper' \in Stoppers
    BY <1>9 DEF FeedFails, Stoppers, Callers
  <2> QED BY <1>9, <2>1, <2>2, <2>3 DEF FeedFails
<1>10. CASE FeedEnds
  <2>1. feed' \in FeedStates
    BY <1>10, <1>2 DEF FeedEnds
  <2>2. stopper' \in Stoppers
    BY <1>10 DEF FeedEnds, Stoppers, Callers
  <2> QED BY <1>10, <2>1, <2>2 DEF FeedEnds
<1>11. CASE StopChecks("feed") \/ StopsDevice("feed") \/ UninitsDevice("feed")
  BY <1>11, StopperTyped DEF Callers
<1> QED
  BY <1>3, <1>4, <1>5, <1>6, <1>7, <1>8, <1>9, <1>10, <1>11 DEF FeedThread

LEMMA OthersTyped ==
  ASSUME ThreadsTyped,
         MeterThread \/ StopsCollide \/ CallbackPushes \/ CallbackDiscards \/ CallbackCopies
           \/ Terminated \/ UNCHANGED vars
  PROVE  ThreadsTyped'
<1> USE RuntimeAssumption DEF ThreadsTyped
<1>1. CASE MeterTests
  BY <1>1 DEF MeterTests, Meters
<1>2. CASE MeterEmits
  <2>1. last' \in LastEvents
    BY <1>2 DEF MeterEmits, Emit, LastEvents, Events, MainStates
  <2> QED BY <1>2, <2>1 DEF MeterEmits, Meters
<1>3. CASE StopsCollide
  <2>1. main' \in MainStates
    BY <1>3 DEF StopsCollide, MainStates
  <2> QED BY <1>3, <2>1 DEF StopsCollide
<1>4. CASE CallbackPushes
  <2>1. PICK n \in Frames : /\ captured + n <= MaxSamples
                            /\ captured' = captured + n
                            /\ session' = [session EXCEPT !.pushed = session.pushed + n]
    BY <1>4 DEF CallbackPushes
  <2>2. n \in Nat /\ captured' \in 0..MaxSamples
    BY <2>1
  <2>3. session' \in SessionHistory
    <3>1. session.pushed + n \in Nat
      BY <2>2 DEF SessionHistory
    <3> QED BY <2>1, <3>1 DEF SessionHistory
  <2> QED BY <1>4, <2>2, <2>3 DEF CallbackPushes, runtimeVars
<1>5. CASE CallbackDiscards
  BY <1>5 DEF CallbackDiscards, runtimeVars
<1>6. CASE CallbackCopies
  BY <1>6 DEF CallbackCopies, runtimeVars
<1>7. CASE Terminated \/ UNCHANGED vars
  BY <1>7 DEF Terminated, vars, runtimeVars
<1> QED BY <1>1, <1>2, <1>3, <1>4, <1>5, <1>6, <1>7 DEF MeterThread

(***************************************************************************)
(* Type correctness of the runtime, for every capacity, block size, frame  *)
(* count, failure and bound.                                               *)
(***************************************************************************)
THEOREM RuntimeTyped == RuntimeSpec => []RuntimeTypeOK
<1>1. RuntimeInit => ThreadsTyped
  <2> SUFFICES ASSUME RuntimeInit PROVE ThreadsTyped
    OBVIOUS
  <2>1. main \in MainStates /\ capture \in Captures /\ stopper \in Stoppers
    BY RuntimeAssumption DEF RuntimeInit, MainStates, Captures, Stoppers, Callers
  <2>2. feed \in FeedStates /\ meter \in Meters /\ stream \in BOOLEAN
    BY NoFeedTyped DEF RuntimeInit, Meters
  <2>3. last \in LastEvents /\ captured \in 0..MaxSamples
    BY RuntimeAssumption DEF RuntimeInit, LastEvents, Events
  <2>4. session \in SessionHistory
    <3>1. <<>> \in Seq(Nat)
      OBVIOUS
    <3> QED BY <3>1 DEF RuntimeInit, SessionHistory
  <2> QED BY <2>1, <2>2, <2>3, <2>4 DEF ThreadsTyped
<1>2. RingTypeOK /\ ThreadsTyped /\ [RuntimeNext]_vars => ThreadsTyped'
  BY CommandsTyped, MainTyped, FeedTyped, OthersTyped DEF RuntimeNext
<1>3. RuntimeSpec => []RingTypeOK
  BY RuntimeIsRing, Typed, PTL
<1> QED BY <1>1, <1>2, <1>3, TypesSplit, PTL DEF RuntimeSpec

-----------------------------------------------------------------------------
(* What is over when the main thread is at each place of a stop.           *)

FeedGone == feed.pc = "none"
MeterGone == meter = "none"
DeviceGone == ~capture.running /\ ~capture.initialized

\* The two threads in AudioCapture::stop(), and the device they close.
StoppersInv ==
  /\ stopper["main"] # "out" => main.pc = "stop"
  /\ stopper["feed"] # "out" => feed.pc = "failing"
  /\ \A t \in Callers : stopper[t] = "uninit" => capture.device # "started"
  /\ stopper["main"] = "done" => ~capture.initialized
  /\ capture.device = "closed" <=> ~capture.initialized

\* Who is inside the ring.
CallsInv ==
  /\ push.pc # "idle" => capture.device = "started"
  /\ pop.pc # "idle" => feed.pc = "popping"

PlacesInv ==
  /\ main.pc # "read" => ~capture.running
  /\ main.pc \in {"join_feed", "join_meter", "finish"} => DeviceGone
  /\ main.pc \in {"join_meter", "finish", "starting"} => FeedGone
  /\ main.pc \in {"finish", "starting"} => MeterGone
  /\ main.pc = "read" /\ main.state = "Ready" => FeedGone /\ MeterGone /\ DeviceGone

\* A recording has no result as long as one of its threads lives.
ResultInv ==
  ~FeedGone \/ ~MeterGone \/ main.pc = "starting" => session.result = "none"

QuietInv == StoppersInv /\ CallsInv /\ PlacesInv /\ ResultInv

\* What a step does to the fields that the invariant speaks of.
LEMMA Fields ==
  ASSUME ThreadsTyped
  PROVE  /\ main \in MainStates /\ capture \in Captures /\ stopper \in Stoppers
         /\ feed \in FeedStates /\ session \in SessionHistory
BY DEF ThreadsTyped

LEMMA CommandsQuiet ==
  ASSUME ThreadsTyped, QuietInv, Commands
  PROVE  QuietInv'
<1> USE Fields DEF QuietInv, StoppersInv, CallsInv, PlacesInv, ResultInv,
                   FeedGone, MeterGone, DeviceGone, Callers
<1>1. CASE StartDevice
  <2>1. /\ main.pc = "read" /\ main.state = "Ready"
        /\ push.pc = "idle" /\ pop.pc = "idle" /\ UNCHANGED <<push, pop, stopper, feed, meter>>
    BY <1>1 DEF StartDevice, NextSession, Reading, RingClear
  <2>2. main'.pc = "starting" /\ main'.state = main.state
    BY <1>1 DEF StartDevice, MainStates
  <2>3. capture'.initialized /\ capture'.device = "started" /\ capture'.running = capture.running
    BY <1>1 DEF StartDevice, Captures
  <2>4. session'.result = "none"
    BY <1>1 DEF StartDevice, NewHistory
  <2> QED BY <2>1, <2>2, <2>3, <2>4
<1>2. CASE StartFails
  <2>1. /\ main.pc = "read" /\ main.state = "Ready"
        /\ UNCHANGED <<main, capture, stopper, feed, meter, push, pop>>
    BY <1>2 DEF StartFails, NextSession, Reading, RingClear, ringVars
  <2> QED BY <2>1
<1>3. CASE Reject
  BY <1>3 DEF Reject, ringVars
<1>4. CASE StopCommand
  <2>1. main.pc = "read" /\ main'.pc = "stop"
    BY <1>4 DEF StopCommand, Reading, MainStates
  <2>2. /\ ~capture'.running /\ capture'.initialized = capture.initialized
        /\ capture'.device = capture.device
    BY <1>4 DEF StopCommand, Captures
  <2>3. stopper'["main"] = "check" /\ stopper'["feed"] = stopper["feed"]
    BY <1>4 DEF StopCommand, Stoppers
  <2>4. session'.result = session.result /\ UNCHANGED <<push, pop, feed, meter>>
    BY <1>4 DEF StopCommand, SessionHistory, ringVars
  <2> QED BY <2>1, <2>2, <2>3, <2>4
<1> QED BY <1>1, <1>2, <1>3, <1>4 DEF Commands

LEMMA StopperQuiet ==
  ASSUME ThreadsTyped, QuietInv, NEW t \in Callers,
         StopChecks(t) \/ StopsDevice(t) \/ UninitsDevice(t)
  PROVE  QuietInv'
<1> USE Fields DEF QuietInv, StoppersInv, CallsInv, PlacesInv, ResultInv,
                   FeedGone, MeterGone, DeviceGone, Callers
<1>1. UNCHANGED <<main, feed, meter, session, push, pop>>
  BY DEF StopChecks, StopsDevice, UninitsDevice, ringVars
<1>2. \A u \in Callers : u # t => stopper'[u] = stopper[u]
  BY DEF StopChecks, StopsDevice, UninitsDevice, Stoppers
<1>3. CASE StopChecks(t)
  <2>1. UNCHANGED capture /\ stopper[t] = "check"
    BY <1>3 DEF StopChecks
  <2>2. stopper'[t] = IF capture.initialized THEN "device" ELSE "done"
    BY <1>3 DEF StopChecks, Stoppers
  <2> QED BY <1>1, <1>2, <2>1, <2>2
<1>4. CASE StopsDevice(t)
  <2>1. stopper[t] = "device" /\ stopper'[t] = "uninit" /\ push.pc = "idle"
    BY <1>4 DEF StopsDevice, Stoppers
  <2>2. /\ capture'.running = capture.running /\ capture'.initialized = capture.initialized
        /\ capture'.device = IF capture.device = "started" THEN "stopped" ELSE capture.device
    BY <1>4 DEF StopsDevice, Captures
  <2> QED BY <1>1, <1>2, <2>1, <2>2
<1>5. CASE UninitsDevice(t)
  <2>1. stopper[t] = "uninit" /\ stopper'[t] = "done"
    BY <1>5 DEF UninitsDevice, Stoppers
  <2>2. /\ capture'.running = capture.running /\ ~capture'.initialized
        /\ capture'.device = "closed"
    BY <1>5 DEF UninitsDevice, Captures
  <2> QED BY <1>1, <1>2, <2>1, <2>2
<1> QED BY <1>3, <1>4, <1>5

LEMMA MainQuiet ==
  ASSUME ThreadsTyped, QuietInv, MainThread
  PROVE  QuietInv'
<1> USE Fields DEF QuietInv, StoppersInv, CallsInv, PlacesInv, ResultInv,
                   FeedGone, MeterGone, DeviceGone, Callers
<1>1. CASE StartRecording
  <2>1. main.pc = "starting" /\ main'.pc = "read" /\ main'.state = "Recording"
    BY <1>1 DEF StartRecording, MainStates
  <2>2. /\ capture'.running /\ capture'.initialized = capture.initialized
        /\ capture'.device = capture.device
    BY <1>1 DEF StartRecording, Captures
  <2>3. UNCHANGED <<stopper, push, pop, session>>
    BY <1>1 DEF StartRecording, ringVars
  <2> QED BY <2>1, <2>2, <2>3
<1>2. CASE StopChecks("main") \/ StopsDevice("main") \/ UninitsDevice("main")
  BY <1>2, StopperQuiet
<1>3. CASE StopReturns
  <2>1. main.pc = "stop" /\ main'.pc = "join_feed" /\ stopper["main"] = "done"
    BY <1>3 DEF StopReturns, MainStates
  <2>2. stopper'["main"] = "out" /\ stopper'["feed"] = stopper["feed"]
    BY <1>3 DEF StopReturns, Stoppers
  <2>3. UNCHANGED <<capture, feed, meter, session, push, pop>>
    BY <1>3 DEF StopReturns, ringVars
  <2> QED BY <2>1, <2>2, <2>3
<1>4. CASE JoinFeed
  <2>1. main.pc = "join_feed" /\ main'.pc = "join_meter"
    BY <1>4 DEF JoinFeed, MainStates
  <2>2. feed.pc \in {"none", "ended"} /\ feed'.pc = "none"
    BY <1>4 DEF JoinFeed, FeedStates
  <2>3. UNCHANGED <<capture, stopper, meter, session, push, pop>>
    BY <1>4 DEF JoinFeed, ringVars
  <2> QED BY <2>1, <2>2, <2>3
<1>5. CASE JoinMeter
  <2>1. main.pc = "join_meter" /\ main'.pc = "finish" /\ meter' = "none"
    BY <1>5 DEF JoinMeter, MainStates
  <2>2. UNCHANGED <<capture, stopper, feed, session, push, pop>>
    BY <1>5 DEF JoinMeter, ringVars
  <2> QED BY <2>1, <2>2
<1>6. ASSUME NEW op, NEW result, NEW event, NEW state, Finish(op, result, event, state)
      PROVE  QuietInv'
  <2>1. main.pc = "finish" /\ main'.pc = "read"
    BY <1>6 DEF Finish, MainStates
  <2>2. UNCHANGED <<capture, stopper, feed, meter, push, pop>>
    BY <1>6 DEF Finish, ringVars
  <2> QED BY <2>1, <2>2
<1>7. CASE FinishStop \/ FinishStopFails \/ FinishCancel \/ FinishShutdown
  BY <1>6, <1>7 DEF FinishStop, FinishStopFails, FinishCancel, FinishShutdown
<1> QED BY <1>1, <1>2, <1>3, <1>4, <1>5, <1>7 DEF MainThread

LEMMA FeedQuiet ==
  ASSUME ThreadsTyped, QuietInv, FeedThread
  PROVE  QuietInv'
<1> USE Fields DEF QuietInv, StoppersInv, CallsInv, PlacesInv, ResultInv,
                   FeedGone, MeterGone, DeviceGone, Callers
<1>1. ASSUME NEW from, NEW to, from \notin {"none", "failing"}, to \notin {"none", "failing"},
             FeedGoes(from, to)
      PROVE  feed.pc = from /\ feed'.pc = to /\ ~FeedGone /\ ~FeedGone'
  BY <1>1 DEF FeedGoes, FeedStates
<1>2. CASE FeedTests \/ FeedDrains
  <2>1. feed.pc \in {"loop", "drain"} /\ feed'.pc \in {"pop", "drain", "ended"}
    BY <1>2, <1>1 DEF FeedTests, FeedDrains
  <2>2. UNCHANGED <<main, capture, stopper, meter, session, push, pop>>
    BY <1>2 DEF FeedTests, FeedDrains, OnlyFeed, ringVars
  <2> QED BY <2>1, <2>2
<1>3. CASE FeedPops
  <2>1. feed.pc = "pop" /\ feed'.pc = "popping"
    BY <1>3, <1>1 DEF FeedPops
  <2>2. UNCHANGED <<main, capture, stopper, meter, session, push>>
    BY <1>3 DEF FeedPops, PopBegin
  <2> QED BY <2>1, <2>2
<1>4. CASE FeedCopies
  <2>1. pop.pc # "idle" /\ UNCHANGED <<main, capture, stopper, feed, meter, session, push>>
    BY <1>4 DEF FeedCopies, PopSample, runtimeVars
  <2> QED BY <2>1
<1>5. CASE FeedPopped
  <2>1. feed.pc = "popping" /\ feed'.pc \in {"loop", "engine"}
    BY <1>5 DEF FeedPopped, FeedStates
  <2>2. UNCHANGED <<main, capture, stopper, meter, session, push>> /\ pop'.pc = "idle"
    BY <1>5 DEF FeedPopped, PopReturn, IdlePop
  <2> QED BY <2>1, <2>2
<1>6. CASE FeedEngine
  <2>1. feed.pc = "engine" /\ feed'.pc = "warn"
    BY <1>6, <1>1 DEF FeedEngine
  <2>2. UNCHANGED <<main, capture, stopper, meter, push, pop>>
    BY <1>6 DEF FeedEngine, ringVars
  <2>3. session'.result = session.result
    BY <1>6 DEF FeedEngine, SessionHistory
  <2> QED BY <2>1, <2>2, <2>3
<1>7. CASE FeedWarns
  <2>1. feed.pc = "warn" /\ feed'.pc = "loop"
    BY <1>7 DEF FeedWarns, FeedStates
  <2>2. UNCHANGED <<main, capture, stopper, meter, session, push, pop>>
    BY <1>7 DEF FeedWarns, ringVars
  <2> QED BY <2>1, <2>2
<1>8. CASE FeedFails
  <2>1. feed.pc = "engine" /\ feed'.pc = "failing"
    BY <1>8 DEF FeedFails, FeedStates
  <2>2. /\ ~capture'.running /\ capture'.initialized = capture.initialized
        /\ capture'.device = capture.device
    BY <1>8 DEF FeedFails, Captures
  <2>3. stopper'["feed"] = "check" /\ stopper'["main"] = stopper["main"]
    BY <1>8 DEF FeedFails, Stoppers
  <2>4. UNCHANGED <<main, meter, session, push, pop>>
    BY <1>8 DEF FeedFails, ringVars
  <2> QED BY <2>1, <2>2, <2>3, <2>4
<1>9. CASE FeedEnds
  <2>1. feed.pc = "failing" /\ feed'.pc = "ended"
    BY <1>9 DEF FeedEnds, FeedGoes, FeedStates
  <2>2. stopper'["feed"] = "out" /\ stopper'["main"] = stopper["main"]
    BY <1>9 DEF FeedEnds, Stoppers
  <2>3. UNCHANGED <<main, capture, meter, session, push, pop>>
    BY <1>9 DEF FeedEnds, ringVars
  <2> QED BY <2>1, <2>2, <2>3
<1>10. CASE StopChecks("feed") \/ StopsDevice("feed") \/ UninitsDevice("feed")
  BY <1>10, StopperQuiet
<1> QED BY <1>2, <1>3, <1>4, <1>5, <1>6, <1>7, <1>8, <1>9, <1>10 DEF FeedThread

LEMMA OthersQuiet ==
  ASSUME ThreadsTyped, QuietInv,
         MeterThread \/ StopsCollide \/ CallbackPushes \/ CallbackDiscards \/ CallbackCopies
           \/ Terminated \/ UNCHANGED vars
  PROVE  QuietInv'
<1> USE Fields DEF QuietInv, StoppersInv, CallsInv, PlacesInv, ResultInv,
                   FeedGone, MeterGone, DeviceGone, Callers
<1>1. CASE MeterThread
  <2>1. meter # "none" /\ meter' # "none"
    BY <1>1 DEF MeterThread, MeterTests, MeterEmits
  <2>2. UNCHANGED <<main, capture, stopper, feed, session, push, pop>>
    BY <1>1 DEF MeterThread, MeterTests, MeterEmits, ringVars
  <2> QED BY <2>1, <2>2
<1>2. CASE StopsCollide
  <2>1. main'.pc = main.pc /\ main'.state = "Crashed"
    BY <1>2 DEF StopsCollide, MainStates
  <2>2. UNCHANGED <<capture, stopper, feed, meter, session, push, pop>>
    BY <1>2 DEF StopsCollide, ringVars
  <2> QED BY <2>1, <2>2
<1>3. CASE CallbackPushes
  <2>1. capture.device = "started"
    BY <1>3 DEF CallbackPushes
  <2>2. UNCHANGED <<main, capture, stopper, feed, meter, pop>>
    BY <1>3 DEF CallbackPushes, PushBegin, runtimeVars
  <2>3. session'.result = session.result
    BY <1>3 DEF CallbackPushes, SessionHistory
  <2> QED BY <2>1, <2>2, <2>3
<1>4. CASE CallbackDiscards
  BY <1>4 DEF CallbackDiscards, runtimeVars, ringVars
<1>5. CASE CallbackCopies
  <2>1. push.pc # "idle" /\ UNCHANGED <<main, capture, stopper, feed, meter, session, pop>>
    BY <1>5 DEF CallbackCopies, PushSample, PushDrop, PushPublish, Copying, runtimeVars
  <2> QED BY <2>1
<1>6. CASE Terminated \/ UNCHANGED vars
  BY <1>6 DEF Terminated, vars, runtimeVars, ringVars
<1> QED BY <1>1, <1>2, <1>3, <1>4, <1>5, <1>6

LEMMA Quiet == RuntimeSpec => []QuietInv
<1>1. RuntimeInit => QuietInv
  BY DEF RuntimeInit, RingInit, IdlePush, IdlePop, NoFeed, QuietInv, StoppersInv, CallsInv,
         PlacesInv, ResultInv, FeedGone, MeterGone, DeviceGone, Callers
<1>2. RuntimeTypeOK /\ QuietInv /\ [RuntimeNext]_vars => QuietInv'
  BY TypesSplit, CommandsQuiet, MainQuiet, FeedQuiet, OthersQuiet DEF RuntimeNext
<1> QED BY RuntimeTyped, <1>1, <1>2, PTL DEF RuntimeSpec

(***************************************************************************)
(* When the worker takes commands in the ready state, no thread of the     *)
(* last recording lives, its device is closed and nobody is in the ring.   *)
(***************************************************************************)
THEOREM ReadyAlwaysQuiet == RuntimeSpec => []ReadyIsQuiet
<1>1. QuietInv => ReadyIsQuiet
  BY DEF QuietInv, StoppersInv, CallsInv, PlacesInv, FeedGone, MeterGone, DeviceGone,
         ReadyIsQuiet, Reading
<1> QED BY <1>1, Quiet, PTL

\* Who writes levels, transcripts and warnings.
LEMMA WhoEmits ==
  ASSUME [RuntimeNext]_vars, last' # last,
         last'.type \in {"audio_level", "transcript_update", "warning"}
  PROVE  ~FeedGone \/ ~MeterGone
<1> USE DEF FeedGone, MeterGone
<1>1. ASSUME NEW type \in Events \ {"audio_level", "transcript_update", "warning"}
      PROVE  ~Emit(type)
  BY <1>1 DEF Emit
<1>2. ~Commands
  BY <1>1 DEF Commands, StartDevice, StartFails, Reject, StopCommand, Events
<1>3. ~(StopChecks("main") \/ StopsDevice("main") \/ UninitsDevice("main"))
  BY DEF StopChecks, StopsDevice, UninitsDevice
<1>4. ~(StartRecording \/ StopReturns \/ JoinFeed \/ JoinMeter)
  BY <1>1 DEF StartRecording, StopReturns, JoinFeed, JoinMeter, Events
<1>5. ~(FinishStop \/ FinishStopFails \/ FinishCancel \/ FinishShutdown)
  BY <1>1 DEF FinishStop, FinishStopFails, FinishCancel, FinishShutdown, Finish, Events
<1>6. FeedEngine \/ FeedWarns => feed.pc # "none"
  BY DEF FeedEngine, FeedWarns, FeedGoes
<1>7. ~FeedFails
  BY <1>1 DEF FeedFails, Events
<1>8. ~(FeedTests \/ FeedDrains \/ FeedPops \/ FeedCopies \/ FeedPopped \/ FeedEnds)
  BY DEF FeedTests, FeedDrains, FeedPops, FeedCopies, FeedPopped, FeedEnds, OnlyFeed, runtimeVars
<1>9. ~(StopChecks("feed") \/ StopsDevice("feed") \/ UninitsDevice("feed"))
  BY DEF StopChecks, StopsDevice, UninitsDevice
<1>10. MeterThread => meter # "none"
  BY DEF MeterThread, MeterTests, MeterEmits
<1>11. ~(StopsCollide \/ CallbackPushes \/ CallbackDiscards \/ CallbackCopies
           \/ Terminated \/ UNCHANGED vars)
  BY DEF StopsCollide, CallbackPushes, CallbackDiscards, CallbackCopies, Terminated,
         vars, runtimeVars
<1> QED
  BY <1>2, <1>3, <1>4, <1>5, <1>6, <1>7, <1>8, <1>9, <1>10, <1>11
     DEF RuntimeNext, MainThread, FeedThread

(***************************************************************************)
(* No level, transcript or warning of a recording follows its result.      *)
(***************************************************************************)
THEOREM NothingFollowsResult == RuntimeSpec => NothingAfterResult
<1>1. QuietInv /\ [RuntimeNext]_vars
        => [last' # last /\ last'.type \in {"audio_level", "transcript_update", "warning"}
              => session.result = "none"]_vars
  BY WhoEmits DEF QuietInv, ResultInv
<1> QED BY <1>1, Quiet, PTL DEF RuntimeSpec, NothingAfterResult

---------------------------------------------------------------------------
(***************************************************************************)
(* Where the samples of a recording are, for every capacity, block, audio  *)
(* device and number of recordings: none is lost uncounted, a finalized    *)
(* recording was heard to its end, and the engine hears the samples in the *)
(* order they were spoken.                                                 *)
(***************************************************************************)

\* What of the block of a push() in progress is neither written nor given up.
Unwritten == IF push.pc = "copy" THEN Len(push.block) - push.written ELSE 0

\* Read, written (published or not), dropped, or still in the callback's block.
Total == Len(taken) + Distance(readIndex, WritesAt) + dropped + Unwritten

SamplesInv == session.pushed = Total

USE CapacityAssumption DEF Size, Slots

\* How far from the read index the writer is.
LEMMA WriterAhead ==
  ASSUME RingTypeOK, InOrder
  PROVE  /\ Distance(readIndex, WritesAt) \in 0..Capacity
         /\ push.pc # "idle" /\ ~Full
              => Distance(readIndex, After(push.write)) = Distance(readIndex, push.write) + 1
         /\ pop.pc = "copy" => Distance(pop.read, WritesAt)
                                 = Distance(readIndex, WritesAt) - Distance(readIndex, pop.read)
<1> DEFINE a == SeenRead
           b == readIndex
           c == ReadsAt
           d == SeenWrite
           e == writeIndex
           f == WritesAt
<1>1. a \in Slots /\ b \in Slots /\ c \in Slots /\ d \in Slots /\ e \in Slots /\ f \in Slots
  BY DEF RingTypeOK, SeenRead, ReadsAt, SeenWrite, WritesAt
<1>2. Way(a, b, c, d, e, f) <= Capacity
  BY DEF InOrder
<1>3. /\ push.pc # "idle" => f = push.write /\ a = push.read
      /\ pop.pc = "copy" => c = pop.read
  BY DEF WritesAt, ReadsAt, SeenRead
<1> HIDE DEF a, b, c, d, e, f
<1>4. Distance(b, f) \in 0..Capacity
  BY <1>1, <1>2, WayOrders
<1>5. After(f) # a => Distance(b, After(f)) = Distance(b, f) + 1
  BY <1>1, <1>2, AfterInSlots DEF Way, Distance
<1>6. Distance(c, f) = Distance(b, f) - Distance(b, c)
  BY <1>1, <1>2 DEF Way, Distance
<1> QED BY <1>3, <1>4, <1>5, <1>6 DEF Full, b, f

\* A call takes all its samples at its beginning, and no later step of either
\* thread changes how many there are.
LEMMA BeginTotals ==
  ASSUME RingTypeOK, NEW block \in Seq(Nat), PushBegin(block)
  PROVE  Total' = Total + Len(block)
<1>1. /\ push.pc = "idle" /\ push'.pc = "copy" /\ push'.write = writeIndex
      /\ push'.written = 0 /\ push'.block = block
      /\ UNCHANGED <<taken, readIndex, dropped>>
  BY DEF PushBegin
<1>2. WritesAt' = WritesAt
  BY <1>1 DEF WritesAt
<1>3. Distance(readIndex, WritesAt)' = Distance(readIndex, WritesAt)
  BY <1>1, <1>2 DEF Distance
<1>4. Unwritten = 0 /\ Unwritten' = Len(block) /\ Len(block) \in Nat
  BY <1>1 DEF Unwritten
<1>5. Len(taken) \in Nat /\ dropped \in Nat
  BY DEF RingTypeOK
<1>6. Distance(readIndex, WritesAt) \in Int
  BY <1>1 DEF RingTypeOK, Distance, WritesAt
<1> QED BY <1>1, <1>3, <1>4, <1>5, <1>6 DEF Total

LEMMA StepTotals ==
  ASSUME RingTypeOK, RingTypeOK', InOrder, Copied,
         \/ PushSample \/ PushDrop \/ PushPublish
         \/ (\E count \in Nat : PopBegin(count)) \/ PopSample \/ PopReturn
         \/ UNCHANGED ringVars
  PROVE  Total' = Total
<1> DEFINE g == Distance(readIndex, WritesAt)
           l == Len(taken)
<1>1. /\ l \in Nat /\ dropped \in Nat /\ g \in 0..Capacity
      /\ push.written \in Nat /\ Len(push.block) \in Nat /\ Unwritten \in Int
  <2>1. g \in 0..Capacity
    BY WriterAhead
  <2>2. taken \in Seq(Nat) /\ push.block \in Seq(Nat) /\ dropped \in Nat /\ push.written \in Nat
    BY DEF RingTypeOK
  <2>3. Len(taken) \in Nat /\ Len(push.block) \in Nat
    BY <2>2
  <2> QED BY <2>1, <2>2, <2>3 DEF Unwritten
<1>2. CASE PushSample
  <2>1. /\ push.pc = "copy" /\ ~Full /\ UNCHANGED <<taken, readIndex, dropped>>
        /\ push'.pc = "copy" /\ push'.block = push.block
        /\ push'.written = push.written + 1 /\ push'.write = After(push.write)
    BY <1>2 DEF PushSample, Copying, RingTypeOK
  <2>2. g = Distance(readIndex, push.write) /\ g' = Distance(readIndex, After(push.write))
    BY <2>1 DEF WritesAt, Distance
  <2>3. g' = g + 1
    BY <2>1, <2>2, WriterAhead
  <2>4. Unwritten' = Unwritten - 1
    BY <2>1, <1>1 DEF Unwritten
  <2> HIDE DEF g
  <2>5. Total = l + g + dropped + Unwritten /\ Total' = l + g' + dropped + Unwritten'
    BY <2>1 DEF Total, g
  <2> QED BY <2>3, <2>4, <2>5, <1>1
<1>3. CASE PushDrop
  <2>1. /\ push.pc = "copy" /\ UNCHANGED <<taken, readIndex>>
        /\ push'.pc = "publish" /\ push'.write = push.write
        /\ dropped' = dropped + (Len(push.block) - push.written)
    BY <1>3 DEF PushDrop, Copying, RingTypeOK
  <2>2. g' = g
    BY <2>1 DEF WritesAt, Distance
  <2>3. Unwritten = Len(push.block) - push.written /\ Unwritten' = 0
    BY <2>1 DEF Unwritten
  <2> HIDE DEF g
  <2>4. Total = l + g + dropped + Unwritten /\ Total' = l + g' + dropped' + Unwritten'
    BY <2>1 DEF Total, g
  <2> QED BY <2>1, <2>2, <2>3, <2>4, <1>1
<1>4. CASE PushPublish
  <2>1. /\ push.pc # "idle" /\ push'.pc = "idle" /\ writeIndex' = push.write
        /\ push.pc = "copy" => push.written = Len(push.block)
        /\ UNCHANGED <<taken, readIndex, dropped>>
    BY <1>4 DEF PushPublish, IdlePush
  <2>2. g' = g
    BY <2>1 DEF WritesAt, Distance
  <2>3. Unwritten = 0 /\ Unwritten' = 0
    BY <2>1, <1>1 DEF Unwritten
  <2> QED BY <2>1, <2>2, <2>3 DEF Total
<1>5. CASE PopReturn
  <2> DEFINE n == Distance(readIndex, pop.read)
  <2>1. /\ pop.pc = "copy" /\ readIndex' = pop.read /\ taken' = taken \o pop.out
        /\ UNCHANGED <<writeIndex, dropped, push>>
    BY <1>5 DEF PopReturn
  <2>2. n \in 0..Capacity /\ readIndex \in Slots /\ data \in [Slots -> Nat]
    <3>1. Available \in 0..Capacity /\ n \in 0..Available
      BY <2>1, IndicesOrdered
    <3>2. n \in 0..Capacity
      <4> HIDE DEF n
      <4> QED BY <3>1
    <3> QED BY <3>2 DEF RingTypeOK
  <2>3. pop.out = Held(data, readIndex, n)
    BY <2>1 DEF Copied
  <2>4. Len(pop.out) = n
    <3> HIDE DEF n
    <3> QED BY <2>2, <2>3, HeldSeq
  <2>5. l' = l + n
    <3>1. taken \in Seq(Nat) /\ pop.out \in Seq(Nat)
      BY DEF RingTypeOK
    <3>2. Len(taken \o pop.out) = Len(taken) + Len(pop.out)
      BY <3>1
    <3> QED BY <2>1, <2>4, <3>2
  <2>6. g' = g - n
    <3>1. g' = Distance(pop.read, WritesAt)
      BY <2>1 DEF WritesAt, Distance
    <3> QED BY <3>1, <2>1, WriterAhead
  <2>7. Unwritten' = Unwritten
    BY <2>1 DEF Unwritten
  <2> HIDE DEF g, n, l
  <2>8. Total = l + g + dropped + Unwritten /\ Total' = l' + g' + dropped + Unwritten'
    BY <2>1 DEF Total, g, l
  <2> QED BY <2>2, <2>5, <2>6, <2>7, <2>8, <1>1
<1>6. CASE (\E count \in Nat : PopBegin(count)) \/ PopSample \/ UNCHANGED ringVars
  <2>1. UNCHANGED <<taken, readIndex, writeIndex, dropped, push>>
    BY <1>6 DEF PopBegin, PopSample, ringVars
  <2> QED BY <2>1 DEF Total, WritesAt, Unwritten, Distance
<1> QED BY <1>2, <1>3, <1>4, <1>5, <1>6

LEMMA ClearTotals ==
  ASSUME RingTypeOK, RingClear
  PROVE  Total' = 0
<1>1. /\ readIndex' = writeIndex /\ writeIndex' = writeIndex /\ writeIndex \in Slots
      /\ push'.pc = "idle" /\ taken' = <<>> /\ dropped' = 0
  BY DEF RingClear, RingTypeOK
<1>2. WritesAt' = writeIndex /\ Unwritten' = 0
  BY <1>1 DEF WritesAt, Unwritten
<1>3. Distance(readIndex, WritesAt)' = 0
  BY <1>1, <1>2 DEF Distance
<1> QED BY <1>1, <1>2, <1>3 DEF Total

LEMMA SamplesKept ==
  ASSUME RuntimeTypeOK, RuntimeTypeOK', InOrder, Copied, SamplesInv, [RuntimeNext]_vars
  PROVE  SamplesInv'
<1> USE DEF SamplesInv
<1>1. RingTypeOK /\ RingTypeOK' /\ session \in SessionHistory /\ captured \in Nat
  BY DEF RuntimeTypeOK
<1>2. ASSUME session'.pushed = session.pushed,
             \/ PushSample \/ PushDrop \/ PushPublish
             \/ (\E count \in Nat : PopBegin(count)) \/ PopSample \/ PopReturn
             \/ UNCHANGED ringVars
      PROVE  SamplesInv'
  BY <1>1, <1>2, StepTotals
<1>3. CASE CallbackPushes
  <2>1. PICK n \in Frames : /\ PushBegin(Block(n))
                            /\ session' = [session EXCEPT !.pushed = session.pushed + n]
    BY <1>3 DEF CallbackPushes
  <2>2. n \in Nat /\ Block(n) \in Seq(Nat) /\ Len(Block(n)) = n
    BY <1>1, RuntimeAssumption DEF Block
  <2>3. session'.pushed = session.pushed + n
    BY <2>1, <1>1 DEF SessionHistory
  <2> QED BY <2>1, <2>2, <2>3, <1>1, BeginTotals
<1>4. CASE RingClear /\ NewHistory
  BY <1>4, <1>1, ClearTotals DEF NewHistory
<1>5. CASE CallbackCopies
  BY <1>5, <1>2 DEF CallbackCopies
<1>6. CASE CallbackDiscards
  BY <1>6, <1>2 DEF CallbackDiscards
<1>7. CASE Commands
  <2>1. CASE StartDevice
    BY <2>1, <1>4 DEF StartDevice
  <2>2. CASE StartFails
    <3>1. (UNCHANGED <<ringVars, session>>) \/ (RingClear /\ NewHistory)
      BY <2>2 DEF StartFails
    <3> QED BY <3>1, <1>2, <1>4
  <2>3. CASE Reject
    BY <2>3, <1>2 DEF Reject
  <2>4. CASE StopCommand
    <3>1. session'.pushed = session.pushed
      BY <2>4, <1>1 DEF StopCommand, SessionHistory
    <3> QED BY <2>4, <3>1, <1>2 DEF StopCommand
  <2> QED BY <1>7, <2>1, <2>2, <2>3, <2>4 DEF Commands
<1>8. CASE MainThread
  <2>1. ASSUME NEW op, NEW result, NEW event, NEW state, Finish(op, result, event, state)
        PROVE  session'.pushed = session.pushed /\ UNCHANGED ringVars
    BY <2>1, <1>1 DEF Finish, SessionHistory
  <2>2. FinishStop \/ FinishStopFails \/ FinishCancel \/ FinishShutdown
          => session'.pushed = session.pushed /\ UNCHANGED ringVars
    BY <2>1 DEF FinishStop, FinishStopFails, FinishCancel, FinishShutdown
  <2>3. StartRecording \/ StopReturns \/ JoinFeed \/ JoinMeter => UNCHANGED <<session, ringVars>>
    BY DEF StartRecording, StopReturns, JoinFeed, JoinMeter
  <2>4. StopChecks("main") \/ StopsDevice("main") \/ UninitsDevice("main")
          => UNCHANGED <<session, ringVars>>
    BY DEF StopChecks, StopsDevice, UninitsDevice
  <2> QED BY <1>8, <1>2, <2>2, <2>3, <2>4 DEF MainThread
<1>9. CASE FeedThread
  <2>1. CASE FeedPops
    <3>1. PopBegin(BlockSize) /\ BlockSize \in Nat /\ UNCHANGED session
      BY <2>1, RuntimeAssumption DEF FeedPops
    <3> QED BY <3>1, <1>2
  <2>2. CASE FeedCopies \/ FeedPopped
    BY <2>2, <1>2 DEF FeedCopies, FeedPopped
  <2>3. CASE FeedEngine
    <3>1. session'.pushed = session.pushed
      BY <2>3, <1>1 DEF FeedEngine, SessionHistory
    <3> QED BY <2>3, <3>1, <1>2 DEF FeedEngine
  <2>4. FeedTests \/ FeedDrains \/ FeedWarns \/ FeedFails \/ FeedEnds
          \/ StopChecks("feed") \/ StopsDevice("feed") \/ UninitsDevice("feed")
          => UNCHANGED <<session, ringVars>>
    BY DEF FeedTests, FeedDrains, OnlyFeed, FeedWarns, FeedFails, FeedEnds,
           StopChecks, StopsDevice, UninitsDevice
  <2> QED BY <1>9, <1>2, <2>1, <2>2, <2>3, <2>4 DEF FeedThread
<1>10. CASE MeterThread \/ StopsCollide \/ Terminated \/ UNCHANGED vars
  BY <1>10, <1>2 DEF MeterThread, MeterTests, MeterEmits, StopsCollide, Terminated, vars
<1> QED BY <1>3, <1>5, <1>6, <1>7, <1>8, <1>9, <1>10 DEF RuntimeNext

(***************************************************************************)
(* Whenever the callback is not at work, every sample it handed over was   *)
(* read, waits in the ring or was counted as dropped.                      *)
(***************************************************************************)
THEOREM SamplesAlwaysAccounted == RuntimeSpec => []SamplesAccountedFor
<1>1. RuntimeInit => SamplesInv
  BY DEF RuntimeInit, RingInit, IdlePush, SamplesInv, Total, WritesAt, Unwritten, Distance
<1>2. RuntimeTypeOK /\ RuntimeTypeOK' /\ InOrder /\ Copied /\ SamplesInv /\ [RuntimeNext]_vars
        => SamplesInv'
  BY SamplesKept
<1>3. RuntimeTypeOK /\ SamplesInv => SamplesAccountedFor
  <2> SUFFICES ASSUME RuntimeTypeOK, SamplesInv, push.pc = "idle"
               PROVE  session.pushed = Len(taken) + Available + dropped
    BY DEF SamplesAccountedFor
  <2>1. Unwritten = 0 /\ Distance(readIndex, WritesAt) = Available
    BY DEF Unwritten, WritesAt, Available
  <2>2. Len(taken) \in Nat /\ dropped \in Nat /\ Available \in Nat
    BY AvailableNat DEF RuntimeTypeOK, RingTypeOK
  <2> QED BY <2>1, <2>2 DEF SamplesInv, Total
<1> QED
  BY RuntimeTyped, RuntimeIsRing, Ordered, CopiedAlways, <1>1, <1>2, <1>3, PTL DEF RuntimeSpec

-----------------------------------------------------------------------------
(* What the feed thread has passed on *)

\* The block between pop() and the engine.
InHand == IF feed.pc = "engine" THEN Len(feed.block) ELSE 0

HeardInv ==
  /\ ~feed.failed => Len(session.heard) + InHand = Len(taken)
  /\ main.pc = "starting" => Len(session.heard) = Len(taken)

\* What stop() promised is in the ring or was read; once the thread is over,
\* the engine heard it.  A thread ends before a stop only after a failure.
PromiseInv ==
  /\ session.promised <= Len(taken) + Available
  /\ feed.pc \in {"none", "ended"} /\ ~feed.failed => session.promised <= Len(session.heard)
  /\ feed.pc = "failing" => feed.failed
  /\ main.pc = "read" /\ main.state = "Recording" /\ ~feed.failed =>
       capture.running /\ feed.pc \notin {"none", "drain", "ended"}

DrainInv == HeardInv /\ PromiseInv

LEMMA DistanceNat ==
  ASSUME NEW i \in Slots, NEW j \in Slots
  PROVE  Distance(i, j) \in Nat
BY DEF Distance

LEMMA Counts ==
  ASSUME RuntimeTypeOK
  PROVE  /\ Len(taken) \in Nat /\ Available \in Nat
         /\ Len(session.heard) \in Nat /\ session.promised \in Nat
         /\ feed.block \in Seq(Nat) /\ Len(feed.block) \in Nat
<1>1. taken \in Seq(Nat) /\ session.heard \in Seq(Nat) /\ feed.block \in Seq(Nat)
      /\ session.promised \in Nat
  BY DEF RuntimeTypeOK, RingTypeOK, SessionHistory
<1>2. Available \in Nat
  BY AvailableNat DEF RuntimeTypeOK
<1> QED BY <1>1, <1>2

\* Samples that are read or wait stay so until the ring is cleared.
LEMMA ReadOrWaiting ==
  ASSUME RingTypeOK, RingTypeOK', InOrder, Copied,
         \/ PushSample \/ PushDrop \/ PushPublish
         \/ (\E block : PushBegin(block)) \/ (\E count : PopBegin(count))
         \/ PopSample \/ PopReturn \/ UNCHANGED ringVars
  PROVE  Len(taken) + Available <= Len(taken') + Available'
<1>1. Len(taken) \in Nat /\ Available \in 0..Capacity
  <2>1. taken \in Seq(Nat)
    BY DEF RingTypeOK
  <2> QED BY <2>1, IndicesOrdered
<1>2. CASE PushPublish
  <2>1. /\ push.pc # "idle" /\ writeIndex' = push.write /\ UNCHANGED <<taken, readIndex>>
    BY <1>2 DEF PushPublish
  <2>2. Available' = Distance(readIndex, push.write)
    BY <2>1 DEF Available, Distance
  <2>3. Available' \in Available..Capacity
    BY <2>1, <2>2, IndicesOrdered
  <2> QED BY <2>1, <2>3, <1>1
<1>3. CASE PopReturn
  <2> DEFINE n == Distance(readIndex, pop.read)
  <2>1. /\ pop.pc = "copy" /\ readIndex' = pop.read /\ taken' = taken \o pop.out
        /\ writeIndex' = writeIndex
    BY <1>3 DEF PopReturn
  <2>2. n \in 0..Available /\ Distance(pop.read, writeIndex) = Available - n
    BY <2>1, IndicesOrdered
  <2>3. Available' = Available - n
    BY <2>1, <2>2 DEF Available, Distance
  <2>4. Len(pop.out) = n
    <3>1. pop.out = Held(data, readIndex, n)
      BY <2>1 DEF Copied
    <3>2. readIndex \in Slots /\ data \in [Slots -> Nat]
      BY DEF RingTypeOK
    <3> HIDE DEF n
    <3> QED BY <3>1, <3>2, <2>2, <1>1, HeldSeq
  <2>5. Len(taken') = Len(taken) + n
    <3>1. taken \in Seq(Nat) /\ pop.out \in Seq(Nat)
      BY DEF RingTypeOK
    <3>2. Len(taken \o pop.out) = Len(taken) + Len(pop.out)
      BY <3>1
    <3> QED BY <2>1, <2>4, <3>2
  <2> HIDE DEF n
  <2> QED BY <2>2, <2>3, <2>5, <1>1
<1>4. CASE UNCHANGED <<taken, readIndex, writeIndex>>
  BY <1>4, <1>1 DEF Available, Distance
<1> QED
  BY <1>2, <1>3, <1>4 DEF PushSample, PushDrop, PushBegin, PopBegin, PopSample, ringVars

\* A step that moves neither the feed thread nor what the invariant counts.
LEMMA DrainStutters ==
  ASSUME RuntimeTypeOK, RuntimeTypeOK', InOrder, Copied, DrainInv,
         UNCHANGED <<feed, session>>,
         \/ PushSample \/ PushDrop \/ PushPublish
         \/ (\E block : PushBegin(block)) \/ (\E count : PopBegin(count))
         \/ PopSample \/ UNCHANGED ringVars,
         main'.pc = "starting" => main.pc = "starting",
         main'.pc = "read" /\ main'.state = "Recording"
           => main.pc = "read" /\ main.state = "Recording" /\ capture'.running = capture.running
  PROVE  DrainInv'
<1>1. taken' = taken
  BY DEF PushSample, PushDrop, PushPublish, PushBegin, PopBegin, PopSample, ringVars
<1>2. RingTypeOK /\ RingTypeOK'
  BY DEF RuntimeTypeOK
<1>3. Len(taken) + Available <= Len(taken') + Available'
  BY <1>2, ReadOrWaiting
<1>4. Available' \in Nat
  <2>1. readIndex' \in Slots /\ writeIndex' \in Slots
    BY <1>2 DEF RingTypeOK
  <2>2. Available' = Distance(readIndex', writeIndex')
    BY DEF Available, Distance
  <2> QED BY <2>1, <2>2, DistanceNat
<1>5. HeardInv'
  BY <1>1 DEF DrainInv, HeardInv, InHand
<1>6. session.promised <= Len(taken) + Available
  BY DEF DrainInv, PromiseInv
<1>7. session.promised <= Len(taken') + Available'
  <2> DEFINE p == session.promised
             l == Len(taken)
             a == Available
             b == Available'
  <2>1. p \in Nat /\ l \in Nat /\ a \in Nat /\ b \in Nat /\ p <= l + a /\ l + a <= l + b
    BY <1>1, <1>3, <1>4, <1>6, Counts
  <2> HIDE DEF p, l, a, b
  <2>2. p <= l + b
    BY <2>1
  <2> QED BY <2>2, <1>1 DEF p, l, b
<1> QED BY <1>5, <1>7 DEF DrainInv, PromiseInv

LEMMA DrainCommands ==
  ASSUME RuntimeTypeOK, RuntimeTypeOK', InOrder, Copied, QuietInv, DrainInv, Commands
  PROVE  DrainInv'
<1>1. RingTypeOK /\ main \in MainStates /\ session \in SessionHistory /\ capture \in Captures
  BY TypesSplit, Fields DEF RuntimeTypeOK
<1>2. ASSUME RingClear, NewHistory, UNCHANGED feed, feed.pc = "none",
             ~(main'.pc = "read" /\ main'.state = "Recording")
      PROVE  DrainInv'
  <2>1. /\ taken' = <<>> /\ session'.heard = <<>> /\ session'.promised = 0
        /\ readIndex' = writeIndex /\ writeIndex' = writeIndex /\ writeIndex \in Slots
    BY <1>2, <1>1 DEF RingClear, NewHistory, RingTypeOK
  <2>2. Available' = 0 /\ InHand' = 0
    BY <2>1, <1>2 DEF Available, Distance, InHand
  <2>3. Len(taken') = 0 /\ Len(session'.heard) = 0
    BY <2>1
  <2> QED BY <2>1, <2>2, <2>3, <1>2 DEF DrainInv, HeardInv, PromiseInv
<1>3. CASE StartDevice
  <2>1. /\ RingClear /\ NewHistory /\ UNCHANGED feed
        /\ main.pc = "read" /\ main.state = "Ready"
    BY <1>3 DEF StartDevice, NextSession, Reading
  <2>2. main'.pc = "starting" /\ feed.pc = "none"
    BY <1>1, <1>3, <2>1 DEF StartDevice, MainStates, QuietInv, PlacesInv, FeedGone
  <2> QED BY <2>1, <2>2, <1>2
<1>4. CASE StartFails
  <2>1. /\ (UNCHANGED <<ringVars, session>>) \/ (RingClear /\ NewHistory)
        /\ UNCHANGED <<main, capture, feed>> /\ main.pc = "read" /\ main.state = "Ready"
    BY <1>4 DEF StartFails, NextSession, Reading
  <2>2. feed.pc = "none"
    BY <2>1 DEF QuietInv, PlacesInv, FeedGone
  <2>3. CASE RingClear /\ NewHistory
    BY <2>1, <2>2, <2>3, <1>2
  <2>4. CASE UNCHANGED <<ringVars, session>>
    BY <2>1, <2>4, DrainStutters
  <2> QED BY <2>1, <2>3, <2>4
<1>5. CASE Reject
  BY <1>5, DrainStutters DEF Reject
<1>6. CASE StopCommand
  <2>1. /\ UNCHANGED <<ringVars, feed>> /\ main.pc = "read" /\ main'.pc = "stop"
    BY <1>1, <1>6 DEF StopCommand, Reading, MainStates
  <2>2. UNCHANGED <<taken, readIndex, writeIndex>>
    BY <2>1 DEF ringVars
  <2>3. Available' = Available
    BY <2>2 DEF Available, Distance
  <2>4. /\ session'.heard = session.heard
        /\ session'.promised = IF main.state = "Recording" THEN Len(taken) + Available
                                                           ELSE session.promised
    BY <1>1, <1>6 DEF StopCommand, SessionHistory
  <2>5. HeardInv'
    BY <2>1, <2>2, <2>4 DEF DrainInv, HeardInv, InHand
  <2>6. session'.promised <= Len(taken) + Available
    BY <2>4, Counts DEF DrainInv, PromiseInv
  <2>7. feed.pc \in {"none", "ended"} /\ ~feed.failed => session'.promised <= Len(session.heard)
    BY <2>1, <2>4 DEF DrainInv, PromiseInv
  <2> QED BY <2>1, <2>2, <2>3, <2>4, <2>5, <2>6, <2>7 DEF DrainInv, PromiseInv
<1> QED BY <1>3, <1>4, <1>5, <1>6 DEF Commands

LEMMA DrainMain ==
  ASSUME RuntimeTypeOK, RuntimeTypeOK', InOrder, Copied, QuietInv, DrainInv,
         MainThread \/ MeterThread \/ StopsCollide \/ CallbackPushes \/ CallbackDiscards
           \/ CallbackCopies \/ Terminated \/ UNCHANGED vars
  PROVE  DrainInv'
<1>1. /\ RingTypeOK /\ main \in MainStates /\ session \in SessionHistory
      /\ capture \in Captures /\ feed \in FeedStates
  BY TypesSplit, Fields DEF RuntimeTypeOK
<1>2. ASSUME UNCHANGED <<ringVars, feed>>, session'.heard = session.heard,
             session'.promised = session.promised,
             main'.pc # "starting", ~(main'.pc = "read" /\ main'.state = "Recording")
      PROVE  DrainInv'
  <2>1. UNCHANGED <<taken, readIndex, writeIndex>>
    BY <1>2 DEF ringVars
  <2>2. Available' = Available
    BY <2>1 DEF Available, Distance
  <2> QED BY <1>2, <2>1, <2>2 DEF DrainInv, HeardInv, PromiseInv, InHand
<1>3. CASE StartRecording
  <2>1. main.pc = "starting" /\ UNCHANGED <<ringVars, session>> /\ capture'.running
    BY <1>1, <1>3 DEF StartRecording, Captures
  <2>2. /\ main'.pc = "read" /\ feed'.pc = "loop" /\ ~feed'.failed
    BY <1>1, <1>3 DEF StartRecording, MainStates, NoFeed
  <2>3. UNCHANGED <<taken, readIndex, writeIndex>>
    BY <2>1 DEF ringVars
  <2>4. Available' = Available
    BY <2>3 DEF Available, Distance
  <2>5. Len(session.heard) = Len(taken) /\ Len(taken) \in Nat
    BY <2>1, Counts DEF DrainInv, HeardInv
  <2>6. HeardInv'
    BY <2>1, <2>2, <2>3, <2>5 DEF HeardInv, InHand
  <2>7. session.promised <= Len(taken) + Available
    BY DEF DrainInv, PromiseInv
  <2> QED BY <2>1, <2>2, <2>3, <2>4, <2>6, <2>7 DEF DrainInv, PromiseInv
<1>4. CASE StopChecks("main") \/ StopsDevice("main") \/ UninitsDevice("main")
  <2>1. UNCHANGED <<ringVars, feed, session, main>>
    BY <1>4 DEF StopChecks, StopsDevice, UninitsDevice
  <2>2. capture'.running = capture.running
    BY <1>1, <1>4 DEF StopChecks, StopsDevice, UninitsDevice, Captures
  <2> QED BY <2>1, <2>2, DrainStutters
<1>5. CASE StopReturns
  BY <1>1, <1>2, <1>5 DEF StopReturns, MainStates
<1>6. CASE JoinFeed
  <2>1. /\ UNCHANGED <<ringVars, session>> /\ main'.pc = "join_meter"
        /\ feed.pc \in {"none", "ended"} /\ feed'.pc = "none" /\ feed'.failed = feed.failed
    BY <1>1, <1>6 DEF JoinFeed, MainStates, FeedStates
  <2>2. UNCHANGED <<taken, readIndex, writeIndex>>
    BY <2>1 DEF ringVars
  <2>3. Available' = Available
    BY <2>2 DEF Available, Distance
  <2>4. InHand = 0 /\ InHand' = 0
    BY <2>1 DEF InHand
  <2> QED BY <2>1, <2>2, <2>3, <2>4 DEF DrainInv, HeardInv, PromiseInv
<1>7. CASE JoinMeter
  BY <1>1, <1>2, <1>7 DEF JoinMeter, MainStates
<1>8. ASSUME NEW op, NEW result, NEW event, NEW state \in {"Ready", "Exited"},
             Finish(op, result, event, state)
      PROVE  DrainInv'
  <2>1. main'.pc = "read" /\ main'.state = state /\ UNCHANGED <<ringVars, feed>>
    BY <1>1, <1>8 DEF Finish, MainStates
  <2>2. session'.heard = session.heard /\ session'.promised = session.promised
    BY <1>1, <1>8 DEF Finish, SessionHistory
  <2> QED BY <2>1, <2>2, <1>2
<1>9. CASE FinishStop \/ FinishStopFails \/ FinishCancel \/ FinishShutdown
  BY <1>8, <1>9 DEF FinishStop, FinishStopFails, FinishCancel, FinishShutdown
<1>10. CASE CallbackPushes
  <2>1. PICK n \in Frames : /\ PushBegin(Block(n))
                            /\ session' = [session EXCEPT !.pushed = session.pushed + n]
    BY <1>10 DEF CallbackPushes
  <2>2. UNCHANGED <<taken, readIndex, writeIndex>> /\ UNCHANGED <<main, capture, feed>>
    BY <1>10, <2>1 DEF PushBegin, CallbackPushes, runtimeVars
  <2>3. Available' = Available
    BY <2>2 DEF Available, Distance
  <2>4. session'.heard = session.heard /\ session'.promised = session.promised
    BY <1>1, <2>1 DEF SessionHistory
  <2> QED BY <2>2, <2>3, <2>4 DEF DrainInv, HeardInv, PromiseInv, InHand
<1>11. CASE CallbackCopies
  <2>1. PushSample \/ PushDrop \/ PushPublish
    BY <1>11 DEF CallbackCopies
  <2>2. UNCHANGED <<feed, session, main, capture>>
    BY <1>11 DEF CallbackCopies, runtimeVars
  <2> QED BY <2>1, <2>2, DrainStutters
<1>12. CASE MeterThread \/ CallbackDiscards \/ Terminated \/ UNCHANGED vars
  <2>1. UNCHANGED <<ringVars, feed, session, main, capture>>
    BY <1>12 DEF MeterThread, MeterTests, MeterEmits, CallbackDiscards, Terminated, vars, runtimeVars
  <2> QED BY <2>1, DrainStutters
<1>13. CASE StopsCollide
  <2>1. UNCHANGED <<ringVars, feed, session, capture>> /\ main'.state = "Crashed" /\ main'.pc = main.pc
    BY <1>1, <1>13 DEF StopsCollide, MainStates
  <2> QED BY <2>1, DrainStutters
<1> QED
  BY <1>3, <1>4, <1>5, <1>6, <1>7, <1>9, <1>10, <1>11, <1>12, <1>13 DEF MainThread

LEMMA DrainFeed ==
  ASSUME RuntimeTypeOK, RuntimeTypeOK', InOrder, Copied, QuietInv, DrainInv, FeedThread
  PROVE  DrainInv'
<1>1. /\ RingTypeOK /\ RingTypeOK' /\ main \in MainStates /\ session \in SessionHistory
      /\ capture \in Captures /\ feed \in FeedStates
  BY TypesSplit, Fields DEF RuntimeTypeOK
<1>2. ASSUME NEW from, NEW to, FeedGoes(from, to)
      PROVE  /\ feed.pc = from /\ feed'.pc = to
             /\ feed'.block = feed.block /\ feed'.failed = feed.failed
  BY <1>1, <1>2 DEF FeedGoes, FeedStates
\* The ring and what was heard stay, and the thread does not come to its end.
<1>3. ASSUME UNCHANGED <<taken, readIndex, writeIndex, session, main>>,
             capture'.running = capture.running, feed'.failed = feed.failed,
             feed.pc # "engine", feed'.pc \notin {"engine", "none", "ended", "failing"},
             feed'.pc = "drain" => ~capture.running
      PROVE  DrainInv'
  <2>1. Available' = Available /\ InHand = 0 /\ InHand' = 0
    BY <1>3 DEF Available, Distance, InHand
  <2> QED BY <1>3, <2>1 DEF DrainInv, HeardInv, PromiseInv
<1>4. CASE FeedTests
  <2>1. /\ feed.pc = "loop" /\ feed'.pc = IF capture.running THEN "pop" ELSE "drain"
        /\ feed'.failed = feed.failed
    BY <1>4, <1>2 DEF FeedTests
  <2>2. UNCHANGED <<taken, readIndex, writeIndex, session, main, capture>>
    BY <1>4 DEF FeedTests, OnlyFeed, ringVars
  <2> QED BY <2>1, <2>2, <1>3
<1>5. CASE FeedDrains
  <2>1. /\ feed.pc = "drain" /\ feed'.pc = IF Available > 0 THEN "pop" ELSE "ended"
        /\ feed'.failed = feed.failed
    BY <1>5, <1>2 DEF FeedDrains
  <2>2. UNCHANGED <<taken, readIndex, writeIndex, session, main, capture>>
    BY <1>5 DEF FeedDrains, OnlyFeed, ringVars
  <2>3. CASE Available > 0
    BY <2>1, <2>2, <2>3, <1>3
  <2>4. CASE ~(Available > 0)
    <3>1. Available = 0 /\ Len(taken) \in Nat
      BY <2>4, Counts
    <3>2. Available' = Available /\ InHand = 0 /\ InHand' = 0
      BY <2>1, <2>2, <2>4 DEF Available, Distance, InHand
    <3>3. session.promised <= Len(taken)
      BY <3>1, Counts DEF DrainInv, PromiseInv
    <3>4. ~feed.failed => Len(session.heard) = Len(taken)
      BY <3>2, Counts DEF DrainInv, HeardInv
    <3>5. ~(main.pc = "read" /\ main.state = "Recording" /\ ~feed.failed)
      BY <2>1 DEF DrainInv, PromiseInv
    <3> QED BY <2>1, <2>2, <2>4, <3>2, <3>3, <3>4, <3>5 DEF DrainInv, HeardInv, PromiseInv
  <2> QED BY <2>3, <2>4
<1>6. CASE FeedPops
  <2>1. feed.pc = "pop" /\ feed'.pc = "popping" /\ feed'.failed = feed.failed
    BY <1>6, <1>2 DEF FeedPops
  <2>2. UNCHANGED <<taken, readIndex, writeIndex, session, main, capture>>
    BY <1>6 DEF FeedPops, PopBegin
  <2> QED BY <2>1, <2>2, <1>3
<1>7. CASE FeedCopies
  <2>1. PopSample /\ UNCHANGED <<feed, session, main, capture>>
    BY <1>7 DEF FeedCopies, runtimeVars
  <2> QED BY <2>1, DrainStutters
<1>8. CASE FeedPopped
  <2>1. /\ PopReturn /\ feed.pc = "popping" /\ feed'.block = pop.out
        /\ feed'.pc = IF pop.out = <<>> THEN "loop" ELSE "engine"
        /\ feed'.failed = feed.failed /\ UNCHANGED <<session, main, capture>>
    BY <1>1, <1>8 DEF FeedPopped, FeedStates
  <2>2. Len(taken) + Available <= Len(taken') + Available'
    BY <1>1, <2>1, ReadOrWaiting
  <2>3. Len(taken') = Len(taken) + Len(pop.out) /\ Len(pop.out) \in Nat
    <3>1. taken \in Seq(Nat) /\ pop.out \in Seq(Nat) /\ taken' = taken \o pop.out
      BY <1>1, <2>1 DEF RingTypeOK, PopReturn
    <3>2. Len(taken \o pop.out) = Len(taken) + Len(pop.out) /\ Len(pop.out) \in Nat
      BY <3>1
    <3> QED BY <3>1, <3>2
  <2>4. InHand = 0 /\ InHand' = Len(pop.out)
    <3>1. InHand = 0
      BY <2>1 DEF InHand
    <3>2. CASE pop.out = <<>>
      BY <2>1, <3>1, <3>2 DEF InHand
    <3>3. CASE pop.out # <<>>
      BY <2>1, <3>1, <3>3 DEF InHand
    <3> QED BY <3>2, <3>3
  <2>5. main.pc # "starting"
    BY <2>1 DEF QuietInv, PlacesInv, FeedGone
  <2>6. HeardInv'
    <3> DEFINE h == Len(session.heard)
               l == Len(taken)
               n == Len(pop.out)
    <3>1. ~feed.failed => h = l
      BY <2>4, Counts DEF DrainInv, HeardInv
    <3>2. ~feed'.failed => Len(session'.heard) + InHand' = Len(taken')
      <4>1. Len(session'.heard) = h /\ InHand' = n /\ Len(taken') = l + n
        BY <2>1, <2>3, <2>4
      <4>2. feed'.failed = feed.failed
        BY <2>1
      <4> HIDE DEF h, l, n
      <4> QED BY <4>1, <4>2, <3>1
    <3> QED BY <3>2, <2>1, <2>5 DEF HeardInv
  <2>7. session.promised <= Len(taken') + Available'
    <3>1. readIndex' \in Slots /\ writeIndex' \in Slots
      BY <1>1 DEF RingTypeOK
    <3>2. Available' = Distance(readIndex', writeIndex')
      BY DEF Available, Distance
    <3>3. Available' \in Nat /\ Len(taken') \in Nat
      <4>1. Distance(readIndex', writeIndex') \in Nat
        BY <3>1, DistanceNat
      <4>2. Len(taken) \in Nat
        BY Counts
      <4> QED BY <4>1, <4>2, <3>2, <2>3
    <3>4. session.promised <= Len(taken) + Available
      BY DEF DrainInv, PromiseInv
    <3> DEFINE p == session.promised
               l == Len(taken)
               m == Len(taken')
               a == Available
               b == Available'
    <3>5. p \in Nat /\ l \in Nat /\ m \in Nat /\ a \in Nat /\ b \in Nat
          /\ p <= l + a /\ l + a <= m + b
      BY <2>2, <3>3, <3>4, Counts
    <3> HIDE DEF p, l, m, a, b
    <3>6. p <= m + b
      BY <3>5
    <3> QED BY <3>6 DEF p, m, b
  <2> QED BY <2>1, <2>6, <2>7 DEF DrainInv, PromiseInv
<1>9. CASE FeedEngine
  <2>1. /\ feed.pc = "engine" /\ feed'.pc = "warn" /\ feed'.failed = feed.failed
    BY <1>9, <1>2 DEF FeedEngine
  <2>2. UNCHANGED <<taken, readIndex, writeIndex, main, capture>>
    BY <1>9 DEF FeedEngine, ringVars
  <2>3. Available' = Available /\ InHand = Len(feed.block) /\ InHand' = 0
    BY <2>1, <2>2 DEF Available, Distance, InHand
  <2>4. session'.promised = session.promised /\ session'.heard = session.heard \o feed.block
    BY <1>1, <1>9 DEF FeedEngine, SessionHistory
  <2>5. Len(session'.heard) = Len(session.heard) + Len(feed.block)
    <3>1. session.heard \in Seq(Nat) /\ feed.block \in Seq(Nat)
      BY <1>1 DEF SessionHistory, FeedStates
    <3>2. Len(session.heard \o feed.block) = Len(session.heard) + Len(feed.block)
      BY <3>1
    <3> QED BY <2>4, <3>2
  <2>6. main.pc # "starting"
    BY <2>1 DEF QuietInv, PlacesInv, FeedGone
  <2>7. HeardInv'
    <3> DEFINE h == Len(session.heard)
               l == Len(taken)
               n == Len(feed.block)
    <3>1. h \in Nat /\ l \in Nat /\ n \in Nat
      BY Counts
    <3>2. ~feed.failed => h + n = l
      BY <2>3 DEF DrainInv, HeardInv
    <3>3. Len(session'.heard) = h + n /\ Len(taken') = l /\ feed'.failed = feed.failed
      BY <2>1, <2>2, <2>5
    <3>4. ~feed'.failed => Len(session'.heard) + InHand' = Len(taken')
      <4>1. InHand' = 0
        BY <2>3
      <4> HIDE DEF h, l, n
      <4> QED BY <4>1, <3>1, <3>2, <3>3
    <3> QED BY <3>4, <2>2, <2>6 DEF HeardInv
  <2> QED BY <2>1, <2>2, <2>3, <2>4, <2>7 DEF DrainInv, PromiseInv
<1>10. CASE FeedWarns
  <2>1. feed.pc = "warn" /\ feed'.pc = "loop" /\ feed'.failed = feed.failed
    BY <1>1, <1>10 DEF FeedWarns, FeedStates
  <2>2. UNCHANGED <<taken, readIndex, writeIndex, session, main, capture>>
    BY <1>10 DEF FeedWarns, ringVars
  <2> QED BY <2>1, <2>2, <1>3
<1>11. CASE FeedFails
  <2>1. feed.pc = "engine" /\ feed'.pc = "failing" /\ feed'.failed
    BY <1>1, <1>11 DEF FeedFails, FeedStates
  <2>2. UNCHANGED <<taken, readIndex, writeIndex, session, main>>
    BY <1>11 DEF FeedFails, ringVars
  <2>3. Available' = Available
    BY <2>2 DEF Available, Distance
  <2>4. main.pc # "starting"
    BY <2>1 DEF QuietInv, PlacesInv, FeedGone
  <2> QED BY <2>1, <2>2, <2>3, <2>4 DEF DrainInv, HeardInv, PromiseInv
<1>12. CASE FeedEnds
  <2>1. feed.pc = "failing" /\ feed'.pc = "ended" /\ feed'.failed = feed.failed
    BY <1>12, <1>2 DEF FeedEnds
  <2>2. UNCHANGED <<taken, readIndex, writeIndex, session, main, capture>>
    BY <1>12 DEF FeedEnds, ringVars
  <2>3. Available' = Available /\ feed.failed
    BY <2>1, <2>2 DEF Available, Distance, DrainInv, PromiseInv
  <2> QED BY <2>1, <2>2, <2>3 DEF DrainInv, HeardInv, PromiseInv
<1>13. CASE StopChecks("feed") \/ StopsDevice("feed") \/ UninitsDevice("feed")
  <2>1. UNCHANGED <<ringVars, feed, session, main>>
    BY <1>13 DEF StopChecks, StopsDevice, UninitsDevice
  <2>2. capture'.running = capture.running
    BY <1>1, <1>13 DEF StopChecks, StopsDevice, UninitsDevice, Captures
  <2> QED BY <2>1, <2>2, DrainStutters
<1> QED
  BY <1>4, <1>5, <1>6, <1>7, <1>8, <1>9, <1>10, <1>11, <1>12, <1>13 DEF FeedThread

LEMMA DrainAlways == RuntimeSpec => []DrainInv
<1>1. RuntimeInit => DrainInv
  <2> SUFFICES ASSUME RuntimeInit PROVE DrainInv
    OBVIOUS
  <2>1. /\ taken = <<>> /\ readIndex = 0 /\ writeIndex = 0 /\ feed = NoFeed
        /\ session.heard = <<>> /\ session.promised = 0 /\ main.pc = "read" /\ main.state = "Ready"
    BY DEF RuntimeInit, RingInit
  <2>2. Available = 0 /\ InHand = 0 /\ Len(taken) = 0 /\ Len(session.heard) = 0
    BY <2>1 DEF Available, Distance, InHand, NoFeed
  <2> QED BY <2>1, <2>2 DEF DrainInv, HeardInv, PromiseInv, NoFeed
<1>2. RuntimeTypeOK /\ RuntimeTypeOK' /\ InOrder /\ Copied /\ QuietInv /\ DrainInv
        /\ [RuntimeNext]_vars => DrainInv'
  BY DrainCommands, DrainMain, DrainFeed DEF RuntimeNext
<1> QED
  BY RuntimeTyped, RuntimeIsRing, Ordered, CopiedAlways, Quiet, <1>1, <1>2, PTL DEF RuntimeSpec

(***************************************************************************)
(* A finalized recording was fed every sample the ring held when stop()    *)
(* ended the capture.                                                      *)
(***************************************************************************)
THEOREM StopAlwaysDrains == RuntimeSpec => []StopDrains
<1>1. QuietInv /\ DrainInv => StopDrains
  BY DEF QuietInv, ResultInv, FeedGone, DrainInv, PromiseInv, StopDrains
<1> QED BY Quiet, DrainAlways, <1>1, PTL

-----------------------------------------------------------------------------
(* In which order the samples are *)

Ahead == Distance(readIndex, WritesAt)
Known == Len(taken) + Ahead + Unwritten

\* The k-th sample of the recording: read, in the array, or in the callback's block.
Sample(k) ==
  IF k <= Len(taken) THEN taken[k]
  ELSE IF k <= Len(taken) + Ahead THEN data[Nth(readIndex, k - Len(taken))]
  ELSE push.block[push.written + (k - Len(taken) - Ahead)]

SpokenInv ==
  \A k \in 1..Known :
    /\ Sample(k) \in session.first..captured
    /\ k < Known => Sample(k) < Sample(k + 1)

\* What the engine heard is the beginning of what was read.
BeginsInv ==
  /\ Len(session.heard) <= Len(taken)
  /\ \A k \in 1..Len(session.heard) : session.heard[k] = taken[k]
  /\ feed.pc = "engine" =>
       \A k \in 1..Len(feed.block) : feed.block[k] = taken[Len(session.heard) + k]
  /\ feed.failed => feed.pc \in {"none", "failing", "ended"}

\* Going on from a slot.
LEMMA NthOn ==
  ASSUME NEW i \in Slots, NEW n \in 0..Capacity, NEW k \in Nat \ {0}, n + k <= Capacity + 1
  PROVE  Nth(Nth(i, n + 1), k) = Nth(i, n + k)
<1> DEFINE p == n + 1
           q == n + k
           j == Nth(i, p)
<1>1. p \in 1..Capacity + 1 /\ q \in 1..Capacity + 1 /\ k \in 1..Capacity + 1
  OBVIOUS
<1>2. j = (IF i + p - 1 <= Capacity THEN i + p - 1 ELSE i + p - 2 - Capacity) /\ j \in Slots
  <2> HIDE DEF p
  <2> QED BY <1>1, NthSlot
<1>3. Nth(i, q) = IF i + q - 1 <= Capacity THEN i + q - 1 ELSE i + q - 2 - Capacity
  <2> HIDE DEF q
  <2> QED BY <1>1, NthSlot
<1>4. Nth(j, k) = IF j + k - 1 <= Capacity THEN j + k - 1 ELSE j + k - 2 - Capacity
  <2> HIDE DEF j
  <2> QED BY <1>1, <1>2, NthSlot
<1> HIDE DEF j
<1> QED BY <1>2, <1>3, <1>4 DEF j

LEMMA SampleCounts ==
  ASSUME RingTypeOK, InOrder
  PROVE  /\ Len(taken) \in Nat /\ Ahead \in 0..Capacity /\ Unwritten \in Nat
         /\ push.written \in Nat /\ Len(push.block) \in Nat
<1>1. /\ taken \in Seq(Nat) /\ push.block \in Seq(Nat) /\ push.written \in Nat
      /\ push.written <= Len(push.block)
  BY DEF RingTypeOK
<1>2. Len(taken) \in Nat /\ Len(push.block) \in Nat
  BY <1>1
<1>3. Unwritten \in Nat
  BY <1>1, <1>2 DEF Unwritten
<1> QED BY <1>1, <1>2, <1>3, WriterAhead DEF Ahead

\* The slot push() writes is the next one after what is in the array.
LEMMA WritesNext ==
  ASSUME RingTypeOK, InOrder, push.pc # "idle"
  PROVE  push.write = Nth(readIndex, Ahead + 1)
<1>1. readIndex \in Slots /\ push.write \in Slots /\ WritesAt = push.write
  BY DEF RingTypeOK, WritesAt
<1> DEFINE n == Distance(readIndex, push.write)
           k == n + 1
<1>2. n \in 0..Capacity /\ Ahead = n
  BY <1>1, WriterAhead DEF Ahead
<1>3. k \in 1..Capacity + 1
  BY <1>2
<1>4. push.write = IF readIndex + k - 1 <= Capacity THEN readIndex + k - 1
                                                    ELSE readIndex + k - 2 - Capacity
  BY <1>1 DEF Distance
<1> HIDE DEF k
<1>5. Nth(readIndex, k) = IF readIndex + k - 1 <= Capacity THEN readIndex + k - 1
                                                            ELSE readIndex + k - 2 - Capacity
  BY <1>1, <1>3, NthSlot
<1> QED BY <1>2, <1>4, <1>5 DEF k

\* Different places are different slots.
LEMMA NthApart ==
  ASSUME NEW i \in Slots, NEW m \in 1..Capacity + 1, NEW n \in 1..Capacity + 1, m # n
  PROVE  Nth(i, m) # Nth(i, n)
BY NthSlot

LEMMA SamplesStay ==
  ASSUME RingTypeOK, RingTypeOK', InOrder, Copied,
         \/ PushSample \/ PushDrop \/ PushPublish
         \/ (\E count : PopBegin(count)) \/ PopSample \/ PopReturn \/ UNCHANGED ringVars
  PROVE  /\ Known' \in 0..Known
         /\ \A k \in 1..Known' : Sample(k)' = Sample(k)
<1> DEFINE l == Len(taken)
           a == Ahead
           u == Unwritten
<1>1. /\ l \in Nat /\ a \in 0..Capacity /\ u \in Nat
      /\ push.written \in Nat /\ Len(push.block) \in Nat
  BY SampleCounts
<1>2. CASE PushSample
  <2>1. /\ push.pc = "copy" /\ ~Full /\ UNCHANGED <<taken, readIndex>>
        /\ push'.pc = "copy" /\ push'.block = push.block
        /\ push'.written = push.written + 1 /\ push'.write = After(push.write)
        /\ data' = [data EXCEPT ![push.write] = push.block[push.written + 1]]
        /\ push.written < Len(push.block)
    BY <1>2 DEF PushSample, Copying, RingTypeOK
  <2>2. a' = a + 1
    <3>1. a = Distance(readIndex, push.write) /\ a' = Distance(readIndex, After(push.write))
      BY <2>1 DEF WritesAt, Distance, Ahead
    <3> QED BY <2>1, <3>1, WriterAhead
  <2>3. u = Len(push.block) - push.written /\ u' = u - 1
    BY <2>1, <1>1 DEF Unwritten
  <2>4. Known' = Known
    <3>1. Known = l + a + u /\ Known' = l + a' + u'
      BY <2>1 DEF Known
    <3> HIDE DEF l, a, u
    <3> QED BY <3>1, <2>2, <2>3, <1>1
  <2>5. push.write = Nth(readIndex, a + 1)
    BY <2>1, WritesNext
  <2>6. data \in [Slots -> Nat] /\ readIndex \in Slots /\ push.write \in Slots
    BY DEF RingTypeOK
  <2>7. a + 1 \in 1..Capacity + 1
    BY <1>1
  <2>8. data'[Nth(readIndex, a + 1)] = push.block[push.written + 1]
    BY <2>1, <2>5, <2>6
  <2>9. ASSUME NEW k \in 1..a PROVE data'[Nth(readIndex, k)] = data[Nth(readIndex, k)]
    <3>1. k \in 1..Capacity + 1 /\ k # a + 1
      BY <1>1
    <3>2. Nth(readIndex, k) # Nth(readIndex, a + 1) /\ Nth(readIndex, k) \in Slots
      <4> DEFINE n == a + 1
      <4>1. n \in 1..Capacity + 1 /\ k # n
        BY <2>7, <3>1
      <4> HIDE DEF n
      <4>2. Nth(readIndex, k) # Nth(readIndex, n) /\ Nth(readIndex, k) \in Slots
        BY <2>6, <3>1, <4>1, NthApart, NthSlot
      <4> QED BY <4>2 DEF n
    <3> QED BY <3>2, <2>1, <2>5, <2>6
  <2> SUFFICES ASSUME NEW k \in 1..Known PROVE Sample(k)' = Sample(k)
    <3>1. Known \in Nat
      BY <1>1 DEF Known
    <3> QED BY <3>1, <2>4
  <2>10. CASE k <= l
    BY <2>10, <2>1 DEF Sample
  <2>11. CASE ~(k <= l) /\ k <= l + a
    <3>1. k - l \in 1..a
      BY <2>11, <1>1
    <3>2. Sample(k) = data[Nth(readIndex, k - l)]
      BY <2>11 DEF Sample
    <3>3. Sample(k)' = data'[Nth(readIndex, k - l)]
      <4>1. k <= l + a'
        BY <2>2, <2>11, <1>1
      <4>2. l' = l /\ Nth(readIndex, k - l)' = Nth(readIndex, k - l)
        BY <2>1 DEF Nth
      <4> QED BY <4>1, <4>2, <2>1, <2>11 DEF Sample
    <3> QED BY <3>1, <3>2, <3>3, <2>9
  <2>12. CASE k = l + a + 1
    <3>1. Sample(k) = push.block[push.written + 1]
      <4>1. ~(k <= l) /\ ~(k <= l + a) /\ k - l - a = 1
        BY <2>12, <1>1
      <4> QED BY <4>1 DEF Sample
    <3>2. Sample(k)' = data'[Nth(readIndex, a + 1)]
      <4>1. ~(k <= l) /\ k <= l + a' /\ k - l = a + 1
        BY <2>2, <2>12, <1>1
      <4>2. l' = l /\ Nth(readIndex, k - l)' = Nth(readIndex, k - l)
        BY <2>1 DEF Nth
      <4> QED BY <4>1, <4>2, <2>1 DEF Sample
    <3> QED BY <3>1, <3>2, <2>8
  <2>13. CASE k > l + a + 1
    <3>1. /\ ~(k <= l) /\ ~(k <= l + a) /\ ~(k <= l + a')
          /\ push.written + (k - l - a) = push'.written + (k - l - a')
      BY <2>1, <2>2, <2>13, <1>1
    <3>2. l' = l
      BY <2>1
    <3> QED BY <3>1, <3>2, <2>1 DEF Sample
  <2>14. k <= l \/ (~(k <= l) /\ k <= l + a) \/ k = l + a + 1 \/ k > l + a + 1
    BY <1>1
  <2> QED BY <2>10, <2>11, <2>12, <2>13, <2>14
<1>3. CASE PushDrop \/ PushPublish
  <2>1. /\ UNCHANGED <<taken, readIndex, data>>
        /\ push.pc # "idle" /\ push'.pc # "copy"
        /\ push'.pc = "idle" => writeIndex' = push.write
        /\ push'.pc # "idle" => push'.write = push.write
    <3>1. CASE PushDrop
      <4>1. push'.pc = "publish" /\ push'.write = push.write
        BY <3>1 DEF PushDrop, RingTypeOK
      <4> QED BY <3>1, <4>1 DEF PushDrop, Copying
    <3>2. CASE PushPublish
      BY <3>2 DEF PushPublish, IdlePush
    <3> QED BY <1>3, <3>1, <3>2
  <2>2. a' = a /\ u' = 0 /\ l' = l
    BY <2>1 DEF Ahead, WritesAt, Distance, Unwritten
  <2>3. Known = l + a + u /\ Known' = l + a
    <3>1. Known' = l' + a' + u'
      BY DEF Known
    <3> HIDE DEF l, a, u
    <3>2. Known' = l + a
      BY <3>1, <2>2, <1>1
    <3> QED BY <3>2 DEF Known, l, a, u
  <2>4. ASSUME NEW k \in 1..l + a PROVE Sample(k)' = Sample(k)
    <3>1. Nth(readIndex, k - l)' = Nth(readIndex, k - l)
      BY <2>1 DEF Nth
    <3>2. CASE k <= l
      BY <3>2, <2>1 DEF Sample
    <3>3. CASE ~(k <= l)
      <4>1. k <= l + a /\ k <= l' + a' /\ ~(k <= l')
        BY <3>3, <2>2, <1>1
      <4> QED BY <3>1, <3>3, <4>1, <2>1, <2>2 DEF Sample
    <3> QED BY <3>2, <3>3
  <2>5. Known' \in 0..Known
    <3> HIDE DEF l, a, u
    <3> QED BY <2>3, <1>1
  <2> QED BY <2>3, <2>4, <2>5
<1>4. CASE PopReturn
  <2> DEFINE n == Distance(readIndex, pop.read)
  <2>1. /\ pop.pc = "copy" /\ readIndex' = pop.read /\ taken' = taken \o pop.out
        /\ UNCHANGED <<writeIndex, push, data>>
    BY <1>4 DEF PopReturn
  <2>2. /\ Available \in 0..Capacity /\ n \in 0..Available
        /\ pop.read = Nth(readIndex, n + 1)
    BY <2>1, IndicesOrdered
  <2>3. readIndex \in Slots /\ data \in [Slots -> Nat] /\ n \in 0..Capacity
    <3>1. n \in 0..Capacity
      <4> HIDE DEF n
      <4> QED BY <2>2
    <3> QED BY <3>1 DEF RingTypeOK
  <2>4. pop.out = Held(data, readIndex, n)
    BY <2>1 DEF Copied
  <2>5. Len(pop.out) = n /\ \A k \in 1..n : pop.out[k] = data[Nth(readIndex, k)]
    <3> HIDE DEF n
    <3>1. n \in 0..Capacity + 1
      BY <2>3
    <3>2. /\ Len(Held(data, readIndex, n)) = n
          /\ \A k \in 1..n : Held(data, readIndex, n)[k] = data[Nth(readIndex, k)]
      BY <3>1, <2>3, HeldSeq
    <3> QED BY <3>2, <2>4
  <2>6. l' = l + n /\ \A k \in 1..l + n : taken'[k] = IF k <= l THEN taken[k] ELSE pop.out[k - l]
    <3>1. taken \in Seq(Nat) /\ pop.out \in Seq(Nat)
      BY DEF RingTypeOK
    <3>2. /\ Len(taken \o pop.out) = Len(taken) + Len(pop.out)
          /\ \A k \in 1..Len(taken) + Len(pop.out) :
               (taken \o pop.out)[k] = IF k <= Len(taken) THEN taken[k] ELSE pop.out[k - Len(taken)]
      BY <3>1
    <3> HIDE DEF n
    <3> QED BY <2>1, <2>5, <3>2
  <2>7. a' = a - n /\ u' = u
    <3>1. Ahead' = Distance(pop.read, WritesAt)
      BY <2>1 DEF WritesAt, Distance, Ahead
    <3>2. u' = u
      BY <2>1 DEF Unwritten
    <3> QED BY <3>1, <3>2, <2>1, WriterAhead DEF Ahead
  <2> HIDE DEF n
  <2>8. n \in Nat /\ n <= a
    <3>1. a' \in Nat
      <4>1. readIndex' \in Slots /\ WritesAt' \in Slots
        BY DEF RingTypeOK, WritesAt
      <4>2. Ahead' = Distance(readIndex', WritesAt')
        BY DEF Ahead, Distance
      <4> QED BY <4>1, <4>2, DistanceNat
    <3> QED BY <3>1, <2>3, <2>7, <1>1
  <2>9. Known' = Known
    <3>1. Known' = l' + a' + u'
      BY DEF Known
    <3>2. Known = l + a + u
      BY DEF Known
    <3> HIDE DEF l, a, u
    <3> QED BY <3>1, <3>2, <2>3, <2>6, <2>7, <1>1
  <2> SUFFICES ASSUME NEW k \in 1..Known PROVE Sample(k)' = Sample(k)
    <3>1. Known \in Nat
      BY <1>1 DEF Known
    <3> QED BY <3>1, <2>9
  <2>10. CASE k <= l
    <3>1. k <= l' /\ k \in 1..l + n
      BY <2>3, <2>6, <2>10, <1>1
    <3> QED BY <3>1, <2>6, <2>10 DEF Sample
  <2>11. CASE ~(k <= l) /\ k <= l + n
    <3>1. k \in 1..l + n /\ k - l \in 1..n /\ k <= l + a
      BY <2>8, <2>11, <1>1
    <3>2. Sample(k)' = pop.out[k - l]
      BY <3>1, <2>6, <2>11 DEF Sample
    <3>3. Sample(k) = data[Nth(readIndex, k - l)]
      BY <3>1, <2>11 DEF Sample
    <3> QED BY <3>1, <3>2, <3>3, <2>5
  <2>12. CASE ~(k <= l + n) /\ k <= l + a
    <3> DEFINE j == k - (l + n)
    <3>1. j \in Nat \ {0} /\ n + j <= Capacity + 1 /\ n + j = k - l /\ ~(k <= l)
      BY <2>8, <2>12, <1>1
    <3>2. Nth(pop.read, j) = Nth(readIndex, k - l)
      <4> HIDE DEF j
      <4>1. Nth(Nth(readIndex, n + 1), j) = Nth(readIndex, n + j)
        BY <2>3, <3>1, NthOn
      <4> QED BY <4>1, <3>1, <2>2 DEF n
    <3>3. Sample(k) = data[Nth(readIndex, k - l)]
      BY <3>1, <2>12 DEF Sample
    <3>4. Sample(k)' = data[Nth(pop.read, j)]
      <4>1. ~(k <= l') /\ k <= l' + a' /\ k - l' = j
        BY <2>6, <2>7, <2>8, <2>12, <1>1
      <4>2. Sample(k)' = data'[Nth(readIndex', k - l')]
        BY <4>1 DEF Sample, Nth
      <4> QED BY <4>1, <4>2, <2>1
    <3> QED BY <3>2, <3>3, <3>4
  <2>13. CASE ~(k <= l + a)
    <3>1. /\ ~(k <= l) /\ ~(k <= l') /\ ~(k <= l' + a')
          /\ k - l - a = k - l' - a'
      BY <2>6, <2>7, <2>8, <2>13, <1>1
    <3> QED BY <3>1, <2>13, <2>1 DEF Sample
  <2>14. k <= l \/ (~(k <= l) /\ k <= l + n) \/ (~(k <= l + n) /\ k <= l + a) \/ ~(k <= l + a)
    BY <1>1, <2>8
  <2> QED BY <2>9, <2>10, <2>11, <2>12, <2>13, <2>14
<1>5. CASE (\E count : PopBegin(count)) \/ PopSample \/ UNCHANGED ringVars
  <2>1. UNCHANGED <<taken, readIndex, writeIndex, push, data>>
    BY <1>5 DEF PopBegin, PopSample, ringVars
  <2>2. Known' = Known /\ Ahead' = Ahead
    BY <2>1 DEF Known, Ahead, WritesAt, Unwritten, Distance
  <2>3. ASSUME NEW k \in 1..Known PROVE Sample(k)' = Sample(k)
    BY <2>1, <2>2 DEF Sample, Nth
  <2>4. Known \in Nat
    BY <1>1 DEF Known
  <2> QED BY <2>2, <2>3, <2>4
<1> QED BY <1>2, <1>3, <1>4, <1>5

\* A step that takes no new sample keeps the order.
LEMMA SpokenStays ==
  ASSUME RingTypeOK, RingTypeOK', InOrder, Copied, SpokenInv,
         \/ PushSample \/ PushDrop \/ PushPublish
         \/ (\E count : PopBegin(count)) \/ PopSample \/ PopReturn \/ UNCHANGED ringVars,
         session \in SessionHistory, captured \in Nat, captured' \in Nat,
         session'.first = session.first, captured <= captured'
  PROVE  SpokenInv'
<1>1. Known' \in 0..Known /\ \A k \in 1..Known' : Sample(k)' = Sample(k)
  BY SamplesStay
<1>2. Known \in Nat
  BY SampleCounts DEF Known
<1>3. SUFFICES ASSUME NEW k \in 1..Known'
               PROVE  /\ Sample(k)' \in session'.first..captured'
                      /\ k < Known' => Sample(k)' < Sample(k + 1)'
  BY DEF SpokenInv
<1>4. k \in 1..Known /\ (k < Known' => k < Known /\ k + 1 \in 1..Known')
  BY <1>1, <1>2
<1>5. Sample(k) \in session.first..captured /\ (k < Known => Sample(k) < Sample(k + 1))
  BY <1>4 DEF SpokenInv
<1>6. Sample(k)' = Sample(k) /\ (k < Known' => Sample(k + 1)' = Sample(k + 1))
  BY <1>1, <1>4
<1>7. session.first \in Nat
  BY DEF SessionHistory
<1> QED BY <1>4, <1>5, <1>6, <1>7

\* The callback's block follows what was spoken before.
LEMMA SpokenGrows ==
  ASSUME RingTypeOK, RingTypeOK', InOrder, SpokenInv,
         session \in SessionHistory, captured \in Nat,
         NEW n \in Nat, PushBegin(Block(n)), captured' = captured + n,
         session'.first = session.first, session.first <= captured + 1
  PROVE  SpokenInv'
<1> DEFINE l == Len(taken)
           a == Ahead
<1>1. l \in Nat /\ a \in 0..Capacity /\ session.first \in Nat
  BY SampleCounts DEF SessionHistory
<1>2. /\ push.pc = "idle" /\ push'.pc = "copy" /\ push'.write = writeIndex
      /\ push'.written = 0 /\ push'.block = Block(n)
      /\ UNCHANGED <<taken, readIndex, data>>
  BY DEF PushBegin
<1>3. Len(Block(n)) = n /\ \A k \in 1..n : Block(n)[k] = captured + k
  BY <1>1 DEF Block
<1>4. WritesAt' = WritesAt
  BY <1>2 DEF WritesAt
<1>5. a' = a /\ l' = l /\ Unwritten = 0 /\ Unwritten' = n
  BY <1>2, <1>3, <1>4 DEF Ahead, Distance, Unwritten
<1>6. Known = l + a /\ Known' = l + a + n
  <2>1. Known = l + a + Unwritten /\ Known' = l' + a' + Unwritten'
    BY DEF Known
  <2> HIDE DEF l, a
  <2> QED BY <2>1, <1>1, <1>5
<1>7. ASSUME NEW k \in 1..l + a PROVE Sample(k)' = Sample(k)
  <2>1. CASE k <= l
    BY <2>1, <1>2 DEF Sample
  <2>2. CASE ~(k <= l)
    <3>1. /\ ~(k <= l') /\ k <= l' + a' /\ k <= l + a /\ k - l' = k - l
      BY <2>2, <1>1, <1>5
    <3>2. Sample(k)' = data'[Nth(readIndex', k - l')]
      BY <3>1 DEF Sample, Nth
    <3>3. Sample(k) = data[Nth(readIndex, k - l)]
      BY <3>1, <2>2 DEF Sample
    <3> QED BY <3>1, <3>2, <3>3, <1>2
  <2> QED BY <2>1, <2>2
<1>8. ASSUME NEW k \in Nat, k > l + a, k <= l + a + n
      PROVE  Sample(k)' = captured + (k - l - a)
  <2>1. /\ ~(k <= l') /\ ~(k <= l' + a') /\ k - l' - a' = k - l - a /\ k - l - a \in 1..n
    BY <1>1, <1>5, <1>8
  <2>2. Sample(k)' = push'.block[push'.written + (k - l' - a')]
    BY <2>1 DEF Sample
  <2>3. push'.written + (k - l' - a') = k - l - a
    BY <2>1, <1>2
  <2> QED BY <2>1, <2>2, <2>3, <1>2, <1>3
<1>9. \A k \in 1..Known : Sample(k) \in session.first..captured
                          /\ (k < Known => Sample(k) < Sample(k + 1))
  BY DEF SpokenInv
<1>10. SUFFICES ASSUME NEW k \in 1..Known'
                PROVE  /\ Sample(k)' \in session'.first..captured'
                       /\ k < Known' => Sample(k)' < Sample(k + 1)'
  BY DEF SpokenInv
<1>11. CASE k \in 1..l + a /\ k # l + a
  <2>1. k \in 1..Known /\ k < Known /\ k + 1 \in 1..l + a
    BY <1>1, <1>6, <1>11
  <2>2. Sample(k)' = Sample(k) /\ Sample(k + 1)' = Sample(k + 1)
    BY <2>1, <1>7, <1>11
  <2> QED BY <2>1, <2>2, <1>1, <1>9
<1>12. CASE k = l + a
  <2>1. k \in 1..l + a /\ k \in 1..Known
    BY <1>6, <1>12
  <2>2. Sample(k)' = Sample(k) /\ Sample(k) \in session.first..captured
    BY <2>1, <1>7, <1>9
  <2>3. k < Known' => Sample(k + 1)' = captured + 1
    <3> DEFINE i == k + 1
    <3>1. k < Known' => i \in Nat /\ i > l + a /\ i <= l + a + n /\ i - l - a = 1
      BY <1>1, <1>6, <1>12
    <3> HIDE DEF i
    <3>2. k < Known' => Sample(i)' = captured + 1
      BY <3>1, <1>8
    <3> QED BY <3>2 DEF i
  <2> QED BY <2>2, <2>3, <1>1
<1>13. CASE k > l + a
  <2> DEFINE i == k + 1
             j == k - l - a
  <2>1. k \in Nat /\ k <= l + a + n /\ j \in 1..n
    BY <1>1, <1>6, <1>13
  <2>2. k < Known' => i \in Nat /\ i > l + a /\ i <= l + a + n /\ i - l - a = j + 1
    BY <1>1, <1>6, <1>13
  <2>3. Sample(k)' = captured + j
    BY <2>1, <1>8, <1>13
  <2> HIDE DEF i, j
  <2>4. k < Known' => Sample(i)' = captured + (j + 1)
    BY <2>2, <1>8
  <2> QED BY <2>1, <2>3, <2>4, <1>1 DEF i
<1>14. k \in 1..l + a \/ k > l + a
  BY <1>1, <1>6
<1> QED BY <1>11, <1>12, <1>13, <1>14

\* A recording's first sample is not later than the next one.
FirstInv == session.first <= captured + 1

LEMMA Cleared ==
  ASSUME RingTypeOK, RingClear
  PROVE  Known' = 0 /\ taken' = <<>>
<1>1. /\ readIndex' = writeIndex /\ writeIndex' = writeIndex /\ writeIndex \in Slots
      /\ push'.pc = "idle" /\ taken' = <<>>
  BY DEF RingClear, RingTypeOK
<1>2. WritesAt' = writeIndex /\ Unwritten' = 0
  BY <1>1 DEF WritesAt, Unwritten
<1>3. Ahead' = 0
  BY <1>1, <1>2 DEF Ahead, Distance
<1> QED BY <1>1, <1>2, <1>3 DEF Known

\* What the steps of the runtime are for the samples.
LEMMA SampleSteps ==
  ASSUME RuntimeTypeOK, [RuntimeNext]_vars
  PROVE  \/ RingClear /\ NewHistory /\ UNCHANGED captured
         \/ \E n \in Nat : /\ PushBegin(Block(n)) /\ captured' = captured + n
                           /\ session'.first = session.first
         \/ /\ \/ PushSample \/ PushDrop \/ PushPublish
               \/ (\E count : PopBegin(count)) \/ PopSample \/ PopReturn \/ UNCHANGED ringVars
            /\ session'.first = session.first /\ captured <= captured'
<1>1. session \in SessionHistory /\ captured \in Nat
  BY DEF RuntimeTypeOK
<1>2. CASE CallbackPushes
  <2>1. PICK n \in Frames : /\ PushBegin(Block(n)) /\ captured' = captured + n
                            /\ session' = [session EXCEPT !.pushed = session.pushed + n]
    BY <1>2 DEF CallbackPushes
  <2>2. n \in Nat /\ session'.first = session.first
    BY <2>1, <1>1, RuntimeAssumption DEF SessionHistory
  <2> QED BY <2>1, <2>2
<1>3. CASE CallbackDiscards
  <2>1. PICK n \in Frames : captured' = captured + n
    BY <1>3 DEF CallbackDiscards
  <2>2. captured <= captured'
    BY <2>1, <1>1, RuntimeAssumption
  <2> QED BY <2>2, <1>3 DEF CallbackDiscards
<1>4. CASE CallbackCopies
  BY <1>1, <1>4 DEF CallbackCopies
<1>5. CASE Commands
  <2>1. CASE StopCommand
    <3>1. session'.first = session.first
      BY <2>1, <1>1 DEF StopCommand, SessionHistory
    <3> QED BY <2>1, <3>1, <1>1 DEF StopCommand
  <2>2. CASE StartDevice
    BY <2>2 DEF StartDevice
  <2>3. CASE StartFails
    <3>1. /\ (UNCHANGED <<ringVars, session>>) \/ (RingClear /\ NewHistory)
          /\ UNCHANGED captured
      BY <2>3 DEF StartFails
    <3> QED BY <3>1, <1>1
  <2>4. CASE Reject
    BY <2>4, <1>1 DEF Reject
  <2> QED BY <1>5, <2>1, <2>2, <2>3, <2>4 DEF Commands
<1>6. CASE MainThread
  <2>1. ASSUME NEW op, NEW result, NEW event, NEW state, Finish(op, result, event, state)
        PROVE  session'.first = session.first /\ UNCHANGED <<ringVars, captured>>
    BY <2>1, <1>1 DEF Finish, SessionHistory
  <2>2. FinishStop \/ FinishStopFails \/ FinishCancel \/ FinishShutdown
          => session'.first = session.first /\ UNCHANGED <<ringVars, captured>>
    BY <2>1 DEF FinishStop, FinishStopFails, FinishCancel, FinishShutdown
  <2>3. StartRecording \/ StopReturns \/ JoinFeed \/ JoinMeter
          => UNCHANGED <<session, ringVars, captured>>
    BY DEF StartRecording, StopReturns, JoinFeed, JoinMeter
  <2>4. StopChecks("main") \/ StopsDevice("main") \/ UninitsDevice("main")
          => UNCHANGED <<session, ringVars, captured>>
    BY DEF StopChecks, StopsDevice, UninitsDevice
  <2> QED BY <1>6, <1>1, <2>2, <2>3, <2>4 DEF MainThread
<1>7. CASE FeedThread
  <2>1. CASE FeedPops
    <3>1. PopBegin(BlockSize) /\ UNCHANGED <<session, captured>>
      BY <2>1 DEF FeedPops
    <3> QED BY <3>1, <1>1
  <2>2. CASE FeedCopies \/ FeedPopped
    BY <2>2, <1>1 DEF FeedCopies, FeedPopped
  <2>3. CASE FeedEngine
    <3>1. session'.first = session.first
      BY <2>3, <1>1 DEF FeedEngine, SessionHistory
    <3> QED BY <2>3, <3>1, <1>1 DEF FeedEngine
  <2>4. FeedTests \/ FeedDrains \/ FeedWarns \/ FeedFails \/ FeedEnds
          \/ StopChecks("feed") \/ StopsDevice("feed") \/ UninitsDevice("feed")
          => UNCHANGED <<session, ringVars, captured>>
    BY DEF FeedTests, FeedDrains, OnlyFeed, FeedWarns, FeedFails, FeedEnds,
           StopChecks, StopsDevice, UninitsDevice
  <2> QED BY <1>7, <1>1, <2>1, <2>2, <2>3, <2>4 DEF FeedThread
<1>8. CASE MeterThread \/ StopsCollide \/ Terminated \/ UNCHANGED vars
  BY <1>8, <1>1 DEF MeterThread, MeterTests, MeterEmits, StopsCollide, Terminated, vars
<1> QED BY <1>2, <1>3, <1>4, <1>5, <1>6, <1>7, <1>8 DEF RuntimeNext

LEMMA SpokenKept ==
  ASSUME RuntimeTypeOK, RuntimeTypeOK', InOrder, Copied, FirstInv, SpokenInv, [RuntimeNext]_vars
  PROVE  FirstInv' /\ SpokenInv'
<1>1. /\ RingTypeOK /\ RingTypeOK' /\ session \in SessionHistory
      /\ captured \in Nat /\ captured' \in Nat /\ session.first \in Nat
  BY DEF RuntimeTypeOK, SessionHistory
<1>2. CASE RingClear /\ NewHistory /\ UNCHANGED captured
  <2>1. Known' = 0
    BY <1>1, <1>2, Cleared
  <2> QED BY <2>1, <1>1, <1>2 DEF SpokenInv, FirstInv, NewHistory
<1>3. CASE \E n \in Nat : /\ PushBegin(Block(n)) /\ captured' = captured + n
                          /\ session'.first = session.first
  BY <1>1, <1>3, SpokenGrows DEF FirstInv
<1>4. CASE /\ \/ PushSample \/ PushDrop \/ PushPublish
              \/ (\E count : PopBegin(count)) \/ PopSample \/ PopReturn \/ UNCHANGED ringVars
           /\ session'.first = session.first /\ captured <= captured'
  BY <1>1, <1>4, SpokenStays DEF FirstInv
<1> QED BY <1>2, <1>3, <1>4, SampleSteps

\* Only the feed thread reads, and only the engine hears.
LEMMA BeginsKept ==
  ASSUME RuntimeTypeOK, RuntimeTypeOK', QuietInv, DrainInv, BeginsInv, [RuntimeNext]_vars
  PROVE  BeginsInv'
<1>1. /\ RingTypeOK /\ session \in SessionHistory /\ feed \in FeedStates
      /\ main \in MainStates /\ taken \in Seq(Nat) /\ session.heard \in Seq(Nat)
      /\ feed.block \in Seq(Nat) /\ pop.out \in Seq(Nat)
  BY TypesSplit, Fields DEF RuntimeTypeOK, RingTypeOK, SessionHistory, FeedStates
<1>2. ASSUME UNCHANGED taken, session'.heard = session.heard,
             feed'.pc # "engine" \/ UNCHANGED feed,
             feed'.failed => feed'.pc \in {"none", "failing", "ended"}
      PROVE  BeginsInv'
  BY <1>2 DEF BeginsInv
<1>3. ASSUME RingClear, NewHistory, UNCHANGED feed, feed.pc = "none"
      PROVE  BeginsInv'
  <2>1. taken' = <<>> /\ session'.heard = <<>>
    BY <1>1, <1>3, Cleared DEF NewHistory
  <2>2. Len(taken') = 0 /\ Len(session'.heard) = 0
    BY <2>1
  <2> QED BY <2>2, <1>3 DEF BeginsInv
<1>4. CASE Commands
  <2>1. CASE StopCommand
    <3>1. session'.heard = session.heard /\ UNCHANGED <<taken, feed>>
      BY <2>1, <1>1 DEF StopCommand, SessionHistory, ringVars
    <3> QED BY <3>1, <1>2 DEF BeginsInv
  <2>2. CASE StartDevice \/ StartFails
    <3>1. /\ main.pc = "read" /\ main.state = "Ready" /\ UNCHANGED feed
          /\ (UNCHANGED <<ringVars, session>>) \/ (RingClear /\ NewHistory)
      BY <2>2 DEF StartDevice, StartFails, NextSession, Reading
    <3>2. feed.pc = "none"
      BY <3>1 DEF QuietInv, PlacesInv, FeedGone
    <3>3. CASE UNCHANGED <<ringVars, session>>
      BY <3>1, <3>3, <1>2 DEF BeginsInv, ringVars
    <3> QED BY <3>1, <3>2, <3>3, <1>3
  <2>3. CASE Reject
    BY <2>3, <1>2 DEF Reject, BeginsInv, ringVars
  <2> QED BY <1>4, <2>1, <2>2, <2>3 DEF Commands
<1>5. CASE MainThread
  <2>1. ASSUME NEW op, NEW result, NEW event, NEW state, Finish(op, result, event, state)
        PROVE  session'.heard = session.heard /\ UNCHANGED <<taken, feed>>
    BY <2>1, <1>1 DEF Finish, SessionHistory, ringVars
  <2>2. CASE FinishStop \/ FinishStopFails \/ FinishCancel \/ FinishShutdown
    BY <2>1, <2>2, <1>2 DEF FinishStop, FinishStopFails, FinishCancel, FinishShutdown, BeginsInv
  <2>3. CASE StartRecording
    <3>1. UNCHANGED <<taken, session>> /\ feed'.pc = "loop" /\ ~feed'.failed
      BY <2>3 DEF StartRecording, NoFeed, ringVars
    <3> QED BY <3>1, <1>2
  <2>4. CASE JoinFeed
    <3>1. UNCHANGED <<taken, session>> /\ feed'.pc = "none"
      BY <2>4, <1>1 DEF JoinFeed, FeedStates, ringVars
    <3> QED BY <3>1, <1>2
  <2>5. StopReturns \/ JoinMeter
          \/ StopChecks("main") \/ StopsDevice("main") \/ UninitsDevice("main")
          => UNCHANGED <<taken, session, feed>>
    BY DEF StopReturns, JoinMeter, StopChecks, StopsDevice, UninitsDevice, ringVars
  <2> QED BY <1>5, <1>2, <2>2, <2>3, <2>4, <2>5 DEF MainThread, BeginsInv
<1>6. CASE FeedThread
  <2>1. ASSUME NEW from, NEW to, FeedGoes(from, to)
        PROVE  feed.pc = from /\ feed'.pc = to /\ feed'.failed = feed.failed
    BY <2>1, <1>1 DEF FeedGoes, FeedStates
  <2>2. CASE FeedTests \/ FeedDrains \/ FeedPops
    <3>1. /\ UNCHANGED <<taken, session>> /\ feed'.failed = feed.failed
          /\ feed.pc \in {"loop", "drain", "pop"} /\ feed'.pc # "engine"
      BY <2>1, <2>2 DEF FeedTests, FeedDrains, FeedPops, PopBegin, OnlyFeed, ringVars
    <3> QED BY <3>1, <1>2 DEF BeginsInv
  <2>3. CASE FeedCopies
    BY <2>3, <1>2 DEF FeedCopies, PopSample, runtimeVars, BeginsInv
  <2>4. CASE FeedPopped
    <3>1. /\ feed.pc = "popping" /\ feed'.block = pop.out /\ feed'.failed = feed.failed
          /\ taken' = taken \o pop.out /\ UNCHANGED session
      BY <2>4, <1>1 DEF FeedPopped, PopReturn, FeedStates
    <3>2. ~feed.failed
      BY <3>1 DEF BeginsInv
    <3>3. Len(session.heard) = Len(taken)
      BY <3>1, <3>2, Counts DEF DrainInv, HeardInv, InHand
    <3>4. /\ Len(taken \o pop.out) = Len(taken) + Len(pop.out)
          /\ \A k \in 1..Len(taken) : (taken \o pop.out)[k] = taken[k]
          /\ \A k \in 1..Len(pop.out) : (taken \o pop.out)[Len(taken) + k] = pop.out[k]
          /\ Len(taken) \in Nat /\ Len(pop.out) \in Nat
      BY <1>1
    <3>5. /\ Len(session.heard) <= Len(taken')
          /\ \A k \in 1..Len(session.heard) : session.heard[k] = taken'[k]
      BY <3>1, <3>3, <3>4 DEF BeginsInv
    <3>6. \A k \in 1..Len(pop.out) : pop.out[k] = taken'[Len(session.heard) + k]
      BY <3>1, <3>3, <3>4
    <3> QED BY <3>1, <3>2, <3>5, <3>6 DEF BeginsInv
  <2>5. CASE FeedEngine
    <3>1. /\ feed.pc = "engine" /\ feed'.pc = "warn" /\ feed'.failed = feed.failed
          /\ UNCHANGED taken /\ session'.heard = session.heard \o feed.block
      BY <2>1, <2>5, <1>1 DEF FeedEngine, SessionHistory, ringVars
    <3>2. ~feed.failed
      BY <3>1 DEF BeginsInv
    <3> DEFINE h == session.heard
               b == feed.block
    <3>3. h \in Seq(Nat) /\ b \in Seq(Nat)
      BY <1>1
    <3>4. /\ \A k \in 1..Len(h) : h[k] = taken[k]
          /\ \A k \in 1..Len(b) : b[k] = taken[Len(h) + k]
      BY <3>1 DEF BeginsInv
    <3>5. Len(h) + Len(b) = Len(taken)
      BY <3>1, <3>2 DEF DrainInv, HeardInv, InHand
    <3> HIDE DEF h, b
    <3>6. /\ Len(h \o b) = Len(h) + Len(b) /\ Len(h) \in Nat /\ Len(b) \in Nat
          /\ \A k \in 1..Len(h) + Len(b) :
               (h \o b)[k] = IF k <= Len(h) THEN h[k] ELSE b[k - Len(h)]
      BY <3>3
    <3>7. ASSUME NEW k \in 1..Len(h \o b) PROVE (h \o b)[k] = taken[k]
      <4>1. CASE k <= Len(h)
        BY <4>1, <3>4, <3>6
      <4>2. CASE ~(k <= Len(h))
        <5> DEFINE j == k - Len(h)
        <5>1. j \in 1..Len(b) /\ Len(h) + j = k
          BY <4>2, <3>6
        <5>2. (h \o b)[k] = b[j]
          BY <4>2, <3>6
        <5> HIDE DEF j
        <5>3. b[j] = taken[Len(h) + j]
          BY <5>1, <3>4
        <5> QED BY <5>1, <5>2, <5>3
      <4> QED BY <4>1, <4>2
    <3>8. Len(h \o b) <= Len(taken)
      BY <3>5, <3>6
    <3> QED BY <3>1, <3>2, <3>7, <3>8 DEF BeginsInv, h, b
  <2>6. CASE FeedWarns
    <3>1. /\ UNCHANGED <<taken, session>> /\ feed.pc = "warn" /\ feed'.pc = "loop"
          /\ feed'.failed = feed.failed
      BY <2>6, <1>1 DEF FeedWarns, FeedStates, ringVars
    <3> QED BY <3>1, <1>2 DEF BeginsInv
  <2>7. CASE FeedFails
    <3>1. UNCHANGED <<taken, session>> /\ feed'.pc = "failing"
      BY <2>7, <1>1 DEF FeedFails, FeedStates, ringVars
    <3> QED BY <3>1, <1>2
  <2>8. CASE FeedEnds
    <3>1. UNCHANGED <<taken, session>> /\ feed'.pc = "ended"
      BY <2>1, <2>8 DEF FeedEnds, ringVars
    <3> QED BY <3>1, <1>2
  <2>9. CASE StopChecks("feed") \/ StopsDevice("feed") \/ UninitsDevice("feed")
    BY <2>9, <1>2 DEF StopChecks, StopsDevice, UninitsDevice, ringVars, BeginsInv
  <2> QED BY <1>6, <2>2, <2>3, <2>4, <2>5, <2>6, <2>7, <2>8, <2>9 DEF FeedThread
<1>7. CASE CallbackPushes
  <2>1. PICK n \in Frames : session' = [session EXCEPT !.pushed = session.pushed + n]
    BY <1>7 DEF CallbackPushes
  <2>2. session'.heard = session.heard /\ UNCHANGED <<taken, feed>>
    BY <2>1, <1>1, <1>7 DEF CallbackPushes, PushBegin, runtimeVars, SessionHistory
  <2> QED BY <2>2, <1>2 DEF BeginsInv
<1>8. CASE MeterThread \/ StopsCollide \/ CallbackDiscards \/ CallbackCopies
             \/ Terminated \/ UNCHANGED vars
  <2>1. UNCHANGED <<taken, session, feed>>
    BY <1>8 DEF MeterThread, MeterTests, MeterEmits, StopsCollide, CallbackDiscards,
                CallbackCopies, PushSample, PushDrop, PushPublish, Terminated, vars,
                runtimeVars, ringVars
  <2> QED BY <2>1, <1>2 DEF BeginsInv
<1> QED BY <1>4, <1>5, <1>6, <1>7, <1>8 DEF RuntimeNext

(***************************************************************************)
(* The engine hears samples of this recording only, each at most once and  *)
(* in the order they were spoken.                                          *)
(***************************************************************************)
THEOREM AlwaysHeardInOrder == RuntimeSpec => []HeardInOrder
<1>1. RuntimeInit => FirstInv /\ SpokenInv /\ BeginsInv
  <2> SUFFICES ASSUME RuntimeInit PROVE FirstInv /\ SpokenInv /\ BeginsInv
    OBVIOUS
  <2>1. /\ taken = <<>> /\ readIndex = 0 /\ writeIndex = 0 /\ feed = NoFeed
        /\ push.pc = "idle" /\ session.heard = <<>> /\ session.first = 0 /\ captured = 0
    BY DEF RuntimeInit, RingInit, IdlePush
  <2>2. Ahead = 0 /\ Unwritten = 0 /\ Len(taken) = 0 /\ Len(session.heard) = 0
    BY <2>1 DEF Ahead, WritesAt, Distance, Unwritten
  <2>3. Known = 0
    BY <2>2 DEF Known
  <2> QED BY <2>1, <2>2, <2>3 DEF FirstInv, SpokenInv, BeginsInv, NoFeed
<1>2. RuntimeTypeOK /\ RuntimeTypeOK' /\ InOrder /\ Copied /\ QuietInv /\ DrainInv
        /\ FirstInv /\ SpokenInv /\ BeginsInv /\ [RuntimeNext]_vars
        => FirstInv' /\ SpokenInv' /\ BeginsInv'
  BY SpokenKept, BeginsKept
<1>3. RuntimeTypeOK /\ InOrder /\ SpokenInv /\ BeginsInv => HeardInOrder
  <2> SUFFICES ASSUME RuntimeTypeOK, InOrder, SpokenInv, BeginsInv,
                      NEW k \in 1..Len(session.heard)
               PROVE  session.heard[k] >= IF k = 1 THEN session.first
                                                   ELSE session.heard[k - 1] + 1
    BY DEF HeardInOrder
  <2>1. /\ session.first \in Nat /\ Len(session.heard) \in Nat /\ captured \in Nat
        /\ Len(taken) \in Nat /\ Ahead \in 0..Capacity /\ Unwritten \in Nat
    BY Counts, SampleCounts DEF RuntimeTypeOK, SessionHistory
  <2>2. Len(session.heard) <= Len(taken)
    BY DEF BeginsInv
  <2>3. Len(taken) <= Known /\ Known \in Nat
    BY <2>1 DEF Known
  <2>4. ASSUME NEW i \in 1..Len(session.heard)
        PROVE  /\ session.heard[i] = Sample(i) /\ i \in 1..Known
               /\ Sample(i) \in session.first..captured
               /\ i < Known => Sample(i) < Sample(i + 1)
    <3>1. i <= Len(taken) /\ i \in 1..Known
      BY <2>1, <2>2, <2>3
    <3>2. session.heard[i] = taken[i]
      BY DEF BeginsInv
    <3>3. Sample(i) = taken[i]
      BY <3>1 DEF Sample
    <3> QED BY <3>1, <3>2, <3>3 DEF SpokenInv
  <2>5. CASE k = 1
    BY <2>1, <2>4, <2>5
  <2>6. CASE k # 1
    <3> DEFINE j == k - 1
    <3>1. j \in 1..Len(session.heard) /\ j + 1 = k /\ j < Known
      BY <2>1, <2>2, <2>3, <2>6
    <3> HIDE DEF j
    <3>2. /\ session.heard[j] = Sample(j) /\ Sample(j) < Sample(j + 1)
          /\ Sample(j) \in session.first..captured
      BY <3>1, <2>4
    <3>3. session.heard[k] = Sample(k) /\ Sample(k) \in session.first..captured
      BY <2>4
    <3>4. session.heard[k] >= session.heard[j] + 1
      BY <3>1, <3>2, <3>3, <2>1
    <3> QED BY <3>4, <2>6 DEF j
  <2> QED BY <2>5, <2>6
<1>4. RuntimeSpec => []DrainInv
  BY DrainAlways
<1> QED
  BY RuntimeTyped, RuntimeIsRing, Ordered, CopiedAlways, Quiet, <1>1, <1>2, <1>3, <1>4, PTL
     DEF RuntimeSpec
=============================================================================

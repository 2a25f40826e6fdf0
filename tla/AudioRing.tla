----------------------------- MODULE AudioRing -----------------------------
(***************************************************************************)
(* AudioRingBuffer of workers/asr/audio_capture.cpp: an array of one slot  *)
(* more than its capacity, a write index that only push() moves and a read *)
(* index that only pop() moves.  push() runs in the audio callback, pop()  *)
(* in the feed thread.  Each loads the other's index once, copies sample   *)
(* by sample with local indices, and publishes its own index at the end,   *)
(* so a call is several steps and the two interleave in every order.       *)
(* Release/acquire on the indices makes the copies visible, which is what  *)
(* interleaving steps on a shared array assumes.                           *)
(***************************************************************************)
EXTENDS Integers, Sequences

CONSTANT Capacity   \* capacity_samples, 160000 in RuntimeController

ASSUME CapacityAssumption == Capacity \in Nat \ {0}

VARIABLES
  data,         \* data_
  readIndex,    \* read_index_
  writeIndex,   \* write_index_
  dropped,      \* dropped_samples_
  push,         \* the locals of a push() in progress
  pop,          \* the locals of a pop() in progress
  taken         \* history: what pop() returned since clear()

ringVars == <<data, readIndex, writeIndex, dropped, push, pop, taken>>

Size == Capacity + 1
Slots == 0..Capacity
After(i) == (i + 1) % Size

IdlePush == [pc |-> "idle", block |-> <<>>, written |-> 0, write |-> 0, read |-> 0]
IdlePop == [pc |-> "idle", count |-> 0, out |-> <<>>, read |-> 0, write |-> 0]

RingTypeOK ==
  /\ data \in [Slots -> Nat]
  /\ readIndex \in Slots /\ writeIndex \in Slots
  /\ dropped \in Nat
  /\ push \in [pc : {"idle", "copy", "publish"}, block : Seq(Nat),
               written : Nat, write : Slots, read : Slots]
  /\ push.written <= Len(push.block)
  /\ pop \in [pc : {"idle", "copy"}, count : Nat, out : Seq(Nat),
              read : Slots, write : Slots]
  /\ Len(pop.out) <= pop.count
  /\ taken \in Seq(Nat)

RingInit ==
  /\ data = [i \in Slots |-> 0]
  /\ readIndex = 0 /\ writeIndex = 0
  /\ dropped = 0
  /\ push = IdlePush /\ pop = IdlePop
  /\ taken = <<>>

\* How many slots lie from i up to j, going round: available() of two indices.
Distance(i, j) == IF j >= i THEN j - i ELSE Size - i + j

Available == Distance(readIndex, writeIndex)

PushBegin(block) ==
  /\ push.pc = "idle" /\ block # <<>>
  /\ push' = [pc |-> "copy", block |-> block, written |-> 0,
              write |-> writeIndex, read |-> readIndex]
  /\ UNCHANGED <<data, readIndex, writeIndex, dropped, pop, taken>>

\* Mutant: the free slot is used too.
FullTooLate == push.written > 0 /\ push.write = push.read

\* next == read: one slot always stays free.
Full == After(push.write) = push.read

Copying == push.pc = "copy" /\ push.written < Len(push.block)

PushSample ==
  /\ Copying /\ ~Full
  /\ data' = [data EXCEPT ![push.write] = push.block[push.written + 1]]
  /\ push' = [push EXCEPT !.written = @ + 1, !.write = After(@)]
  /\ UNCHANGED <<readIndex, writeIndex, dropped, pop, taken>>

\* Mutant: the lost samples are not counted.
PushDropUncounted ==
  /\ Copying /\ Full
  /\ push' = [push EXCEPT !.pc = "publish"]
  /\ UNCHANGED <<data, readIndex, writeIndex, dropped, pop, taken>>

PushDrop ==
  /\ Copying /\ Full
  /\ dropped' = dropped + (Len(push.block) - push.written)
  /\ push' = [push EXCEPT !.pc = "publish"]
  /\ UNCHANGED <<data, readIndex, writeIndex, pop, taken>>

PushPublish ==
  /\ \/ push.pc = "publish"
     \/ push.pc = "copy" /\ push.written = Len(push.block)
  /\ writeIndex' = push.write
  /\ push' = IdlePush
  /\ UNCHANGED <<data, readIndex, dropped, pop, taken>>

PopBegin(count) ==
  /\ pop.pc = "idle" /\ count > 0
  /\ pop' = [pc |-> "copy", count |-> count, out |-> <<>>,
             read |-> readIndex, write |-> writeIndex]
  /\ UNCHANGED <<data, readIndex, writeIndex, dropped, push, taken>>

PopDone == Len(pop.out) = pop.count \/ pop.read = pop.write

PopSample ==
  /\ pop.pc = "copy" /\ ~PopDone
  /\ pop' = [pop EXCEPT !.out = Append(@, data[pop.read]), !.read = After(@)]
  /\ UNCHANGED <<data, readIndex, writeIndex, dropped, push, taken>>

\* Mutant: the read index jumps to where the writer was.
PopReturnSkips ==
  /\ pop.pc = "copy" /\ PopDone
  /\ readIndex' = pop.write
  /\ taken' = taken \o pop.out
  /\ pop' = IdlePop
  /\ UNCHANGED <<data, writeIndex, dropped, push>>

PopReturn ==
  /\ pop.pc = "copy" /\ PopDone
  /\ readIndex' = pop.read
  /\ taken' = taken \o pop.out
  /\ pop' = IdlePop
  /\ UNCHANGED <<data, writeIndex, dropped, push>>

\* clear() is called by a thread of its own, between recordings.
RingClear ==
  /\ push.pc = "idle" /\ pop.pc = "idle"
  /\ readIndex' = writeIndex
  /\ dropped' = 0
  /\ taken' = <<>>
  /\ UNCHANGED <<data, writeIndex, push, pop>>

\* The ring on its own, with any blocks and any counts.
RingNext ==
  \/ \E block \in Seq(Nat) : PushBegin(block)
  \/ PushSample \/ PushDrop \/ PushPublish
  \/ \E count \in Nat : PopBegin(count)
  \/ PopSample \/ PopReturn
  \/ RingClear

RingSpec == RingInit /\ [][RingNext]_ringVars

-----------------------------------------------------------------------------
\* What a reader may still read: written and published, not yet given back.
Occupied == {i \in Slots : Distance(readIndex, i) < Available}

(***************************************************************************)
(* Safety: push() never writes a slot whose sample has not been read yet,  *)
(* and pop() copies from such slots only, although each works with an      *)
(* index of the other that may be long out of date.                        *)
(***************************************************************************)
SlotsDisjoint ==
  /\ Copying /\ ~Full => push.write \notin Occupied
  /\ pop.pc = "copy" /\ ~PopDone => pop.read \in Occupied

Published == [k \in 1..Available |-> data[(readIndex + k - 1) % Size]]

Queue == INSTANCE AudioQueue
  WITH Capacity <- Capacity, queue <- Published, taken <- taken, lost <- dropped

(***************************************************************************)
(* Refinement: seen through the indices, the array is the bounded queue:   *)
(* nothing is lost uncounted, doubled, reordered or torn.                  *)
(***************************************************************************)
QueuePromise == Queue!Spec
=============================================================================

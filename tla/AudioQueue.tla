---------------------------- MODULE AudioQueue -----------------------------
(***************************************************************************)
(* What the audio ring promises: a bounded first-in first-out queue whose  *)
(* writer never waits.  Samples that find no room are counted as lost; all *)
(* others reach the reader exactly once and in the order they were put.    *)
(***************************************************************************)
EXTENDS Integers, Sequences

CONSTANT Capacity

VARIABLES
  queue,   \* the samples that wait for the reader
  taken,   \* the samples handed to the reader since the queue was cleared
  lost     \* how many found no room since the queue was cleared

Init ==
  /\ queue = <<>>
  /\ taken = <<>>
  /\ lost = 0

Put ==
  /\ Len(queue') \in Len(queue) + 1 .. Capacity
  /\ SubSeq(queue', 1, Len(queue)) = queue
  /\ UNCHANGED <<taken, lost>>

Lose ==
  /\ lost' > lost
  /\ UNCHANGED <<queue, taken>>

Take ==
  \E n \in 1..Len(queue) :
    /\ taken' = taken \o SubSeq(queue, 1, n)
    /\ queue' = SubSeq(queue, n + 1, Len(queue))
    /\ UNCHANGED lost

Clear ==
  /\ queue' = <<>>
  /\ taken' = <<>>
  /\ lost' = 0

Next == Put \/ Lose \/ Take \/ Clear

Spec == Init /\ [][Next]_<<queue, taken, lost>>
=============================================================================

-------------------------- MODULE DictationPromise --------------------------
(***************************************************************************)
(* What the voice keyboard promises its user about dictated words, with    *)
(* nothing about workers, pipes or modes.  Words are known by the          *)
(* recording session they were spoken in; a dictation is a set of sessions. *)
(***************************************************************************)
EXTENDS Naturals, Sequences

VARIABLES
  said,        \* the sessions whose words the recogniser has settled
  cancelled,   \* the sessions the user has cancelled
  inserted     \* what was typed into the target, in order

Delivered == UNION {inserted[i].dictation : i \in DOMAIN inserted}

Init == said = {} /\ cancelled = {} /\ inserted = <<>>

\* Words are settled: never those of a dictation that was already inserted.
Settle ==
  /\ \E session \in said' :
       session \notin Delivered /\ said' = said \cup {session}
  /\ UNCHANGED <<cancelled, inserted>>

Cancel ==
  /\ cancelled \subseteq cancelled'
  /\ UNCHANGED <<said, inserted>>

\* A dictation is inserted once, unless it was cancelled: all the words it
\* holds and no others.
Deliver ==
  /\ Len(inserted') = Len(inserted) + 1
  /\ LET item == inserted'[Len(inserted')]
     IN /\ inserted' = Append(inserted, item)
        /\ item.text # {}
        /\ item.dictation \cap said \subseteq item.text
        /\ item.text \subseteq item.dictation
        /\ item.dictation \cap (Delivered \cup cancelled) = {}
  /\ UNCHANGED <<said, cancelled>>

Next == Settle \/ Cancel \/ Deliver

Spec == Init /\ [][Next]_<<said, cancelled, inserted>>
=============================================================================

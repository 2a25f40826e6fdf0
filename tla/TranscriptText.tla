-------------------------- MODULE TranscriptText --------------------------
(***************************************************************************)
(* The text helpers of app/semantic_transcript.cpp, over sequences of      *)
(* bytes.  A byte is a member of a small alphabet:                         *)
(*   "_" a space, "|" a line feed, "." a full stop,                        *)
(*   "<" the lead byte of two characters of two bytes, ">1" and ">2" the   *)
(*   continuation byte of each,                                            *)
(*   anything else a letter.                                               *)
(* An offset counts the bytes before it, as in the code.  Letter case is   *)
(* left out.                                                               *)
(***************************************************************************)
EXTENDS Integers, SequencesExt

CONSTANTS
  RepeatedRun,        \* kRepeatedRun, 6 in the code
  MaxEditableBytes,   \* kMaximumEditableBytes, 4096
  BlankReach,         \* how far back freezing looks for a blank line, 256
  LineReach           \* and for a line feed, 128

Space(byte) == byte \in {"_", "|"}
Continuation(byte) == byte \in {">1", ">2"}

LeastOf(S) == CHOOSE x \in S : \A y \in S : x <= y
GreatestOf(S) == CHOOSE x \in S : \A y \in S : x >= y

-----------------------------------------------------------------------------
(* Tokens *)

\* Where a token starts.
Begins(text) ==
  {n \in 0..Len(text) - 1 : ~Space(text[n + 1]) /\ (n = 0 \/ Space(text[n]))}

\* Where a token ends with the whitespace after it: where the next one starts.
Ends(text) ==
  IF Begins(text) = {} THEN {}
  ELSE (Begins(text) \ {LeastOf(Begins(text))}) \cup {Len(text)}

TokenCount(text) == Cardinality(Begins(text))

\* The k-th smallest of a set of offsets.
Nth(k, offsets) ==
  CHOOSE n \in offsets : Cardinality({m \in offsets : m < n}) = k - 1

TokenBoundaryAtOrBefore(text, n) == GreatestOf({0} \cup {m \in Ends(text) : m <= n})

PrefixThroughTokens(text, k) ==
  IF TokenCount(text) <= k THEN Len(text) ELSE Nth(k, Ends(text))

\* Where the last k tokens start, 0 when there are no more.
LastTokens(text, k) ==
  IF TokenCount(text) <= k THEN 0 ELSE Nth(TokenCount(text) - k + 1, Begins(text))

From(text, n) == SubSeq(text, n + 1, Len(text))
Until(text, n) == SubSeq(text, 1, n)

-----------------------------------------------------------------------------
(* UTF-8 *)

\* A lead byte and a continuation byte come in pairs.
WellFormed(text) ==
  /\ \A n \in DOMAIN text : text[n] = "<" => n < Len(text) /\ Continuation(text[n + 1])
  /\ \A n \in DOMAIN text : Continuation(text[n]) => n > 1 /\ text[n - 1] = "<"

\* No character of the text lies on both sides of offset n.
Whole(text, n) == n = 0 \/ n = Len(text) \/ ~Continuation(text[n + 1])

\* Mutant: a cut may fall inside a character.
SafeCutAnywhere(text, n) == n

\* The last offset up to n that cuts no character.
SafeCut(text, n) == GreatestOf({m \in 0..n : Whole(text, m)})

Utf8SafeCommonPrefix(left, right) ==
  SafeCut(left, Len(LongestCommonPrefix({left, right})))

Utf8SafePrefixBytes(text, limit) ==
  SafeCut(text, IF Len(text) < limit THEN Len(text) ELSE limit)

Utf8SafeSuffixStart(text, limit) ==
  IF Len(text) <= limit THEN 0
  ELSE LeastOf({m \in Len(text) - limit..Len(text) :
                  m = Len(text) \/ ~Continuation(text[m + 1])})

SuffixByTokens(text, tokens, bytes) ==
  From(text, GreatestOf({LastTokens(text, tokens), Utf8SafeSuffixStart(text, bytes)}))

-----------------------------------------------------------------------------
AppendText(prefix, suffix) ==
  IF suffix = <<>> \/ prefix = <<>> \/ Space(Last(prefix)) \/ Space(Head(suffix))
  THEN prefix \o suffix
  ELSE prefix \o <<"_">> \o suffix

\* The tokens without punctuation at their ends; those that are nothing else
\* are left out.
NormalizedContentTokens(text) ==
  LET token(k) == SubSeq(text, Nth(k, Begins(text)) + 1, Nth(k, Ends(text)))
      inner(t) == {n \in DOMAIN t : ~Space(t[n]) /\ t[n] # "."}
      stripped(t) == IF inner(t) = {} THEN <<>>
                     ELSE SubSeq(t, LeastOf(inner(t)), GreatestOf(inner(t)))
  IN  SelectSeq([k \in 1..TokenCount(text) |-> stripped(token(k))], LAMBDA t : t # <<>>)

CountIn(tokens, t) == Cardinality({k \in DOMAIN tokens : tokens[k] = t})

\* How many tokens the replacement keeps, each as often as it has it.
RetainedTokenCount(expected, replacement) ==
  LET kept == NormalizedContentTokens(replacement)
  IN  Cardinality({k \in DOMAIN expected :
        CountIn(SubSeq(expected, 1, k), expected[k]) <= CountIn(kept, expected[k])})

\* Four fifths of the editable tail and half of the new text must be there.
PreservesRequiredContent(editable, incoming, replacement) ==
  LET old == NormalizedContentTokens(editable)
      new == NormalizedContentTokens(incoming)
  IN  /\ RetainedTokenCount(old, replacement) >= (Len(old) * 4 + 4) \div 5
      /\ RetainedTokenCount(new, replacement) >= (Len(new) + 1) \div 2

RepeatsReadOnlyContent(context, replacement) ==
  LET runs(text) ==
        LET tokens == NormalizedContentTokens(text)
        IN  {SubSeq(tokens, k, k + RepeatedRun - 1) : k \in 1..Len(tokens) - RepeatedRun + 1}
  IN  runs(context) \cap runs(replacement) # {}

-----------------------------------------------------------------------------
\* Where the second sentence from the end starts: sentences end with ". ".
SentenceStarts(text) ==
  {n \in 2..Len(text) - 1 :
     /\ ~Space(text[n + 1])
     /\ \E m \in 1..n - 1 : text[m] = "." /\ \A k \in m + 1..n : Space(text[k])}

LastTwoSentences(text) ==
  LET starts == SentenceStarts(text)
  IN  IF Cardinality(starts) < 2 THEN 0 ELSE Nth(Cardinality(starts) - 1, starts)

\* A blank line or a line feed shortly before is preferred to the start found.
EditableSuffixStart(text, tokens) ==
  LET start == GreatestOf({LastTokens(text, tokens), LastTwoSentences(text),
                           Utf8SafeSuffixStart(text, MaxEditableBytes)})
      feeds == {n \in 0..start : n < Len(text) /\ text[n + 1] = "|"}
      blanks == {n \in feeds : n + 1 < Len(text) /\ text[n + 2] = "|"}
  IN  IF start = 0 THEN 0
      ELSE IF blanks # {} /\ start - GreatestOf(blanks) < BlankReach
      THEN GreatestOf(blanks) + 2
      ELSE IF feeds # {} /\ start - GreatestOf(feeds) < LineReach
      THEN GreatestOf(feeds) + 1
      ELSE start
=============================================================================

----------------------- MODULE TranscriptProperties -----------------------
(***************************************************************************)
(* What the regions of a SemanticTranscript owe the dictation, and the     *)
(* texts with which it is model-checked.                                   *)
(***************************************************************************)
EXTENDS SemanticTranscript

\* A text that grows, with a sentence and with a token longer than a span, and
\* one that revises its first word.
SmallHypotheses == {
  <<"a", "_", "b">>,
  <<"a", "_", "b", ".", "_", "c", "_", "<", ">1", "<", ">1", "<", ">2">>,
  <<"d", "_", "b", ".", "_", "c">> }

\* The tail with the new text, with a blank line between them, the new text
\* alone, one that repeats the context, and nothing at all.
SmallReplacements(s) == {
  AppendText(s.editable, s.new),
  s.editable \o <<"|", "|">> \o s.new,
  s.new,
  AppendText(AppendText(s.editable, s.context), s.new),
  <<>> }

\* A text without its spaces and line feeds.
Letters(text) ==
  LET letters[k \in 0..Len(text)] ==
        IF k = 0 THEN <<>>
        ELSE letters[k - 1] \o (IF Space(text[k]) THEN <<>> ELSE <<text[k]>>)
  IN  letters[Len(text)]

(***************************************************************************)
(* Safety: what the cleaned regions stand for, the stable spans and the    *)
(* unstable end are together the raw text: promotion, finalization,        *)
(* commits, late and repeated answers lose no word and double none.        *)
(***************************************************************************)
RegionsCoverRaw ==
  safe => Letters(covered \o Joined(backlog) \o suffix) = Letters(RawText)

(***************************************************************************)
(* Safety: as long as no answer of the model was taken, the composed text  *)
(* has the letters of the raw text, also after a revision of promoted text *)
(* and after old output was frozen.                                        *)
(***************************************************************************)
UnrewrittenIsRaw == ~rewritten => Letters(ComposedText) = Letters(RawText)

(***************************************************************************)
(* Safety: no region, span or request begins or ends inside a character,   *)
(* although all are cut at byte limits.                                    *)
(***************************************************************************)
CharactersWhole ==
  \A text \in {frozen, editable, suffix} \cup {backlog[k].text : k \in DOMAIN backlog}
              \cup UNION {{s.new, s.context} : s \in held} :
    text # <<>> => ~Continuation(Head(text)) /\ Last(text) # "<"

(***************************************************************************)
(* Safety: a request stays within its limits however long the dictation    *)
(* is and however its spans were cut.                                      *)
(***************************************************************************)
RequestsBounded ==
  \A s \in held :
    /\ TokenCount(s.new) <= RequestTokens /\ Len(s.new) <= MaxNewBytes
    /\ TokenCount(s.context) <= ContextTokens /\ Len(s.context) <= MaxReadOnlyBytes
    /\ Len(s.editable) <= MaxEditableBytes + BlankReach

(***************************************************************************)
(* Safety: a commit replaces the tail for exactly the spans its snapshot   *)
(* was made of: a snapshot of an earlier dictation, of an earlier tail or  *)
(* one committed before changes nothing.                                   *)
(***************************************************************************)
CommitsWhatWasAsked ==
  [][revision' > revision =>
       \E k \in DOMAIN backlog :
         /\ backlog' = From(backlog, k)
         /\ covered' = AppendText(covered, Joined(SubSeq(backlog, 1, k)))]_vars
=============================================================================

------------------------ MODULE SemanticTranscript ------------------------
(***************************************************************************)
(* SemanticTranscript of app/semantic_transcript.cpp: what is kept of a    *)
(* dictation while it is recognized and cleaned up piece by piece.  Words  *)
(* move from the unstable end of the hypothesis into a backlog of stable   *)
(* spans, from there, rewritten or raw, into the editable tail, and from   *)
(* there into the frozen text.                                             *)
(*                                                                         *)
(* The caller is external: it resets with a new generation, opens a        *)
(* segment, reports hypotheses, and holds snapshots it commits at any      *)
(* time and as often as it likes, as late and repeated answers of a        *)
(* rewrite worker would.                                                   *)
(***************************************************************************)
EXTENDS TranscriptText

CONSTANTS
  MinimumHypotheses,  \* kMinimumHypothesesForPromotion, 3 in the code
  ProtectedTokens,    \* kProtectedTrailingTokens, 5
  ContextTokens,      \* kReadOnlyContextTokens, 48
  EditableTokens,     \* kEditableTailTokens, 64
  RequestTokens,      \* kNewAsrTokensPerRequest, 128
  MaxReadOnlyBytes,   \* kMaximumReadOnlyBytes, 2048
  MaxNewBytes,        \* kMaximumNewAsrBytes, 4096
  Hypotheses,         \* texts the recognizer may report
  Replacements(_),    \* texts a caller may commit for a snapshot
  MaxGenerations,     \* bounds the dictations,
  MaxSegments,        \* the segments of one,
  MaxUpdates,         \* the updates of a segment
  MaxHeld             \* and the snapshots held

\* Messages of the worker are JSON, so what it recognized is well-formed UTF-8.
ASSUME TranscriptAssumption ==
  /\ Hypotheses \subseteq {text \in Seq(STRING) : WellFormed(text)}
  /\ MinimumHypotheses \in Nat \ {0} /\ RequestTokens \in Nat \ {0}
  /\ ContextTokens \in Nat \ {0} /\ EditableTokens \in Nat \ {0}
  /\ ProtectedTokens \in Nat /\ MaxReadOnlyBytes \in Nat
  /\ MaxEditableBytes \in Nat /\ BlankReach \in Nat /\ LineReach \in 0..BlankReach
  /\ MaxNewBytes \in Nat /\ MaxNewBytes >= 2

VARIABLES
  frozen,        \* frozen_output_
  editable,      \* editable_output_
  backlog,       \* stable_backlog_
  suffix,        \* unstable_asr_suffix_
  finished,      \* raw_finished_segments_
  current,       \* current_raw_hypothesis_
  recent,        \* recent_hypotheses_
  promoted,      \* promoted_segment_text_; promoted_segment_bytes_ is its length
  safe,          \* cleanup_safe_
  generation,    \* session_generation_
  revision,      \* tail_revision_
  nextSpan,      \* next_stable_span_id_
  held,          \* the caller's snapshots
  segment,       \* the caller's place in a dictation
  covered,       \* history: the raw text that frozen and editable stand for,
  rewritten      \* and whether they hold an answer of the model

asr == <<suffix, finished, current, recent, promoted>>
tail == <<frozen, editable, revision, covered, rewritten>>
vars == <<frozen, editable, backlog, suffix, finished, current, recent, promoted,
          safe, generation, revision, nextSpan, held, segment, covered, rewritten>>

TranscriptInit ==
  /\ frozen = <<>> /\ editable = <<>> /\ backlog = <<>>
  /\ suffix = <<>> /\ finished = <<>> /\ current = <<>> /\ recent = <<>>
  /\ promoted = <<>> /\ covered = <<>>
  /\ safe = TRUE /\ rewritten = FALSE /\ generation = 0 /\ revision = 0 /\ nextSpan = 1
  /\ held = {}
  /\ segment = [open |-> FALSE, count |-> 0, updates |-> 0]

-----------------------------------------------------------------------------
(* reset(), begin_asr_segment() *)

Reset ==
  /\ generation < MaxGenerations
  /\ frozen' = <<>> /\ editable' = <<>> /\ backlog' = <<>>
  /\ suffix' = <<>> /\ finished' = <<>> /\ current' = <<>> /\ recent' = <<>>
  /\ promoted' = <<>> /\ covered' = <<>>
  /\ safe' = TRUE /\ rewritten' = FALSE
  /\ generation' = generation + 1 /\ revision' = 0 /\ nextSpan' = 1
  /\ segment' = [open |-> FALSE, count |-> 0, updates |-> 0]
  /\ UNCHANGED held

BeginSegment ==
  /\ generation > 0 /\ ~segment.open /\ segment.count < MaxSegments
  /\ current' = <<>> /\ recent' = <<>> /\ suffix' = <<>> /\ promoted' = <<>>
  /\ segment' = [open |-> TRUE, count |-> segment.count + 1, updates |-> 0]
  /\ UNCHANGED <<frozen, editable, backlog, finished, safe, generation, revision,
                 nextSpan, held, covered, rewritten>>

-----------------------------------------------------------------------------
(* promote_through(), promote_confirmed_prefix() *)

\* How much of the rest one span takes.
ChunkSize(rest) ==
  LeastOf({PrefixThroughTokens(rest, RequestTokens), Utf8SafePrefixBytes(rest, MaxNewBytes)})

\* Where a text is cut into spans: from 0 on, as long as there is something to take.
Cuts(text) ==
  LET cuts[k \in 0..Len(text)] ==
        IF k = 0 THEN <<0>>
        ELSE LET before == cuts[k - 1]
                 size == ChunkSize(From(text, Last(before)))
             IN  IF size = 0 THEN before ELSE Append(before, Last(before) + size)
  IN  cuts[Len(text)]

\* The texts of the spans.
Chunks(text) ==
  LET cuts == Cuts(text)
  IN  [k \in 1..Len(cuts) - 1 |-> SubSeq(text, cuts[k] + 1, cuts[k + 1])]

AddSpans(chunks) ==
  /\ backlog' = backlog \o
       [k \in DOMAIN chunks |-> [id |-> nextSpan + k - 1, text |-> chunks[k]]]
  /\ nextSpan' = nextSpan + Len(chunks)

PromoteThrough(text, n) ==
  LET fresh == SubSeq(text, Len(promoted) + 1, n)
  IN  /\ AddSpans(Chunks(fresh))
      /\ promoted' = promoted \o Until(fresh, Last(Cuts(fresh)))

\* How much of the last hypothesis is stable: whole tokens that all of them
\* share, without the last few.
Confirmed(hypotheses) ==
  LET text == Last(hypotheses)
      common == LeastOf({Utf8SafeCommonPrefix(Head(hypotheses), hypotheses[k]) :
                         k \in DOMAIN hypotheses})
      shared == Until(text, TokenBoundaryAtOrBefore(text, common))
      count == TokenCount(shared)
  IN  IF count <= ProtectedTokens THEN 0
      ELSE Nth(count - ProtectedTokens, Ends(shared))

-----------------------------------------------------------------------------
(* update_asr_hypothesis(), finalize_asr_hypothesis() *)

\* Mutant: a revision of promoted text is not noticed.
NeverRevised(text) == FALSE

\* promoted text is no longer how the hypothesis begins.
Revises(text) == promoted # <<>> /\ ~IsPrefix(promoted, text)

UpdateRevised(text) ==
  /\ Revises(text)
  /\ safe' = FALSE
  /\ backlog' = <<>> /\ recent' = <<>>
  /\ suffix' = text
  /\ UNCHANGED <<promoted, nextSpan>>

\* The last hypotheses, MinimumHypotheses of them.
Remember(text) ==
  LET all == Append(recent, text)
  IN  IF Len(all) > MinimumHypotheses THEN Tail(all) ELSE all

UpdateExtends(text) ==
  /\ ~Revises(text)
  /\ recent' = Remember(text)
  /\ IF safe /\ Len(recent') = MinimumHypotheses /\ Confirmed(recent') > Len(promoted)
     THEN PromoteThrough(text, Confirmed(recent'))
     ELSE UNCHANGED <<backlog, promoted, nextSpan>>
  /\ suffix' = From(text, Len(promoted'))
  /\ UNCHANGED safe

Update ==
  /\ segment.open /\ segment.updates < MaxUpdates
  /\ \E text \in Hypotheses :
       /\ UpdateRevised(text) \/ UpdateExtends(text)
       /\ current' = text
  /\ segment' = [segment EXCEPT !.updates = @ + 1]
  /\ UNCHANGED <<tail, finished, generation, held>>

\* promote_through() to the end, after which the segment has no promoted text.
Finalize ==
  /\ segment.open
  /\ \E text \in Hypotheses :
       /\ IF Revises(text)
          THEN safe' = FALSE /\ backlog' = <<>> /\ UNCHANGED nextSpan
          ELSE /\ AddSpans(IF safe THEN Chunks(From(text, Len(promoted))) ELSE <<>>)
               /\ UNCHANGED safe
       /\ finished' = AppendText(finished, text)
  /\ current' = <<>> /\ recent' = <<>> /\ suffix' = <<>> /\ promoted' = <<>>
  /\ segment' = [segment EXCEPT !.open = FALSE]
  /\ UNCHANGED <<tail, generation, held>>

-----------------------------------------------------------------------------
(* make_rewrite_snapshot() *)

\* The texts of the spans, one appended to the other.
Joined(spans) ==
  LET text[k \in 0..Len(spans)] ==
        IF k = 0 THEN <<>> ELSE AppendText(text[k - 1], spans[k].text)
  IN  text[Len(spans)]

\* Mutant: the request takes the whole backlog.
WholeBacklog == Len(backlog)

\* How many spans fit into one request.
Requested ==
  GreatestOf({k \in 1..Len(backlog) : \A j \in 2..k :
    LET text == Joined(SubSeq(backlog, 1, j))
    IN  TokenCount(text) <= RequestTokens /\ Len(text) <= MaxNewBytes})

ReadOnlyContext == SuffixByTokens(frozen, ContextTokens, MaxReadOnlyBytes)

NewSnapshot ==
  [generation |-> generation, revision |-> revision,
   first |-> Head(backlog).id, last |-> backlog[Requested].id,
   context |-> ReadOnlyContext, editable |-> editable,
   new |-> Joined(SubSeq(backlog, 1, Requested))]

MakeSnapshot ==
  /\ safe /\ backlog # <<>>
  /\ Cardinality(held) < MaxHeld
  /\ held' = held \cup {NewSnapshot}
  /\ UNCHANGED <<asr, tail, backlog, safe, generation, nextSpan, segment>>

DropSnapshot ==
  /\ \E s \in held : held' = held \ {s}
  /\ UNCHANGED <<asr, tail, backlog, safe, generation, nextSpan, segment>>

-----------------------------------------------------------------------------
(* can_commit(), commit(), preserve_raw() *)

\* Mutant: neither generation nor revision is compared.
CanCommitAny(s) ==
  /\ safe /\ backlog # <<>>
  /\ \E k \in DOMAIN backlog : backlog[k].id = s.last

CanCommit(s) ==
  /\ safe /\ backlog # <<>>
  /\ s.generation = generation /\ s.revision = revision
  /\ s.editable = editable
  /\ Head(backlog).id = s.first
  /\ \E k \in DOMAIN backlog :
       /\ backlog[k].id = s.last
       /\ \A j \in 1..k : backlog[j].id = s.first + j - 1

ConsumeStableSpans(s) ==
  \E k \in DOMAIN backlog :
    /\ backlog[k].id = s.last
    /\ backlog' = From(backlog, k)

\* Mutant: the old part of the tail is dropped.
FreezeForgets(text) ==
  LET split == EditableSuffixStart(text, EditableTokens)
  IN  frozen' = frozen /\ editable' = From(text, split)

\* freeze_old_editable_output(), of the tail just made.
FreezeOldEditable(text) ==
  LET split == EditableSuffixStart(text, EditableTokens)
  IN  frozen' = AppendText(frozen, Until(text, split)) /\ editable' = From(text, split)

ReplaceTail(s, text) ==
  /\ ConsumeStableSpans(s)
  /\ revision' = revision + 1
  /\ FreezeOldEditable(text)
  /\ covered' = AppendText(covered, s.new)
  /\ UNCHANGED <<asr, safe, generation, nextSpan, held, segment>>

Acceptable(s, text) ==
  /\ PreservesRequiredContent(editable, s.new, text)
  /\ ~RepeatsReadOnlyContent(s.context, text)

Commit ==
  \E s \in held : \E text \in Replacements(s) :
    /\ CanCommit(s) /\ text # <<>>
    /\ IF Acceptable(s, text)
       THEN ReplaceTail(s, text) /\ rewritten' = TRUE
       ELSE ReplaceTail(s, AppendText(editable, s.new)) /\ UNCHANGED rewritten

PreserveRaw ==
  \E s \in held :
    /\ CanCommit(s)
    /\ ReplaceTail(s, AppendText(editable, s.new))
    /\ UNCHANGED rewritten

-----------------------------------------------------------------------------
RawText == AppendText(finished, current)

ComposedText ==
  IF ~safe THEN RawText
  ELSE AppendText(AppendText(AppendText(frozen, editable), Joined(backlog)), suffix)

TranscriptNext ==
  \/ Reset \/ BeginSegment \/ Update \/ Finalize
  \/ MakeSnapshot \/ DropSnapshot \/ Commit \/ PreserveRaw

TranscriptSpec == TranscriptInit /\ [][TranscriptNext]_vars
=============================================================================

-------------------------- MODULE RewriteContract --------------------------
(***************************************************************************)
(* What the cleanup worker does to a text before and after the model sees  *)
(* it: technical_literals.cpp, protect_tail_field() of llama_rewriter.cpp  *)
(* and rewrite_tail_contract.cpp.                                          *)
(*                                                                         *)
(* A text is a sequence of tokens, told apart as far as these files do:    *)
(* ordinary words, numbers, the number that starts a line of an ordered    *)
(* list, technical literals (paths, names with symbols, identifiers),      *)
(* placeholders, model commentary and bytes that are not UTF-8.  Spelling, *)
(* punctuation, letter case and the digits inside a literal are left out.  *)
(***************************************************************************)
EXTENDS Integers, Sequences, FiniteSets, SequencesExt

CONSTANTS
  RepeatedTokens,      \* kMinimumRepeatedTokens, 6 in the code
  Components           \* literal -> the words it is made of

Kinds == {"word", "number", "item", "literal", "placeholder", "commentary", "bytes"}
Token(kind, n) == [n |-> n, kind |-> kind]
Tokens == [n : Nat, kind : Kinds]

CountOf(token, text) == Cardinality({k \in DOMAIN text : text[k] = token})
OfKind(kind, text) == SelectSeq(text, LAMBDA t : t.kind = kind)

\* Where tokens of a kind are, and which there are.
Places(kind, text) == {k \in DOMAIN text : text[k].kind = kind}
Having(kind, text) == {t \in ToSet(text) : t.kind = kind}

-----------------------------------------------------------------------------
(* protect_technical_literals(), protect_tail_field() *)

\* Each occurrence of a literal has a placeholder of its own, numbered from 0.
Placeholders(text) ==
  [k \in DOMAIN text |->
     IF text[k].kind = "literal"
     THEN Token("placeholder", Cardinality({j \in Places("literal", text) : j < k}))
     ELSE text[k]]

ReplaceToken(text, old, new) == [k \in DOMAIN text |-> IF text[k] = old THEN new ELSE text[k]]

\* A field after others that held offset literals: its placeholders are
\* renumbered one after the other, in the whole text each time.
ProtectTailField(text, offset) ==
  LET count == Cardinality(Places("literal", text))
      renumbered[k \in 0..count] ==
        IF k = 0 THEN Placeholders(text)
        ELSE ReplaceToken(renumbered[k - 1], Token("placeholder", k - 1),
                                             Token("placeholder", offset + k - 1))
  IN  renumbered[count]

-----------------------------------------------------------------------------
(* restore_technical_literals(), for the literals of all fields in order *)

Refused == [text |-> <<>>, ok |-> FALSE]
Accepted(text) == [text |-> text, ok |-> TRUE]

\* No placeholder is left, and no literal but the protected ones is there.
OnlyKnownLiterals(text, literals) ==
  /\ Having("placeholder", text) = {}
  /\ Having("literal", text) \subseteq ToSet(literals)

\* A placeholder may be missing, but not be there twice.
RestoreLiterals(text, literals) ==
  LET known == {Token("placeholder", k - 1) : k \in DOMAIN literals}
      restored == [j \in DOMAIN text |->
                     IF text[j] \in known THEN literals[text[j].n + 1] ELSE text[j]]
  IN  IF (\A t \in known : CountOf(t, text) <= 1) /\ OnlyKnownLiterals(restored, literals)
      THEN Accepted(restored) ELSE Refused

-----------------------------------------------------------------------------
(* validate_replacement_tail() *)

RepeatsReadOnly(context, text) ==
  LET runs(s) == {SubSeq(s, k, k + RepeatedTokens - 1) : k \in 1..Len(s) - RepeatedTokens + 1}
  IN  runs(context) \cap runs(text) # {}

\* In the source the number of a list line counts as a number too.
SourceNumbers(n, source) == CountOf(Token("number", n), source) + CountOf(Token("item", n), source)

ValidNumbers(source, text) ==
  \A t \in Having("number", text) : CountOf(t, text) <= SourceNumbers(t.n, source)

\* What a literal may be put together from.
SourceComponents(source) ==
  {t.n : t \in Having("word", source)}
    \cup UNION {Components[t.n] : t \in Having("literal", source)}

\* Mutant: occurrences are not counted.
ValidAnchorsUncounted(source, text) ==
  \A t \in Having("literal", text) :
    CountOf(t, source) > 0 \/ Components[t.n] \subseteq SourceComponents(source)

\* valid_technical_anchors()
ValidAnchors(source, text) ==
  \A t \in Having("literal", text) :
    \/ CountOf(t, source) > 0 /\ CountOf(t, text) <= CountOf(t, source)
    \/ /\ CountOf(t, source) = 0 /\ CountOf(t, text) = 1
       /\ Components[t.n] \subseteq SourceComponents(source)

Valid(context, source, text) ==
  /\ Having("bytes", text) = {}
  /\ Having("commentary", text) = {}
  /\ ~RepeatsReadOnly(context, text)
  /\ ValidNumbers(source, text)
  /\ ValidAnchors(source, text)
=============================================================================

------------------------- MODULE CleanupProperties -------------------------
(***************************************************************************)
(* What the cleanup worker promises for a text, whatever the model answers *)
(* and wherever llama.cpp fails, and the texts it is model-checked with.   *)
(***************************************************************************)
EXTENDS RewriteEngine

Word(n) == Token("word", n)
Number(n) == Token("number", n)
Literal(n) == Token("literal", n)

\* Literal 1 can be put together from words 1 and 2, literal 2 cannot.
SmallComponents == (1 :> {1, 2}) @@ (2 :> {3})

SmallTranscripts == {
  <<Word(1), Literal(1), Number(7)>>,
  <<Literal(1), Literal(1)>>,
  <<Token("item", 7), Word(1), Word(2)>> }

\* The third puts two literals behind one of the context.
SmallTails == {
  [context |-> <<Literal(2), Word(1)>>, editable |-> <<Literal(1)>>, new |-> <<Word(1)>>],
  [context |-> <<Word(1), Word(2)>>, editable |-> <<Word(2)>>, new |-> <<Literal(1), Literal(2)>>],
  [context |-> <<Literal(2)>>, editable |-> <<Literal(1), Literal(2)>>, new |-> <<>>],
  [context |-> <<>>, editable |-> <<Literal(1)>>, new |-> <<Literal(2), Number(7)>>] }

\* Also literals the speaker did not say, a number, a placeholder nobody made.
SmallAlphabet == {
  Word(1), Number(7), Literal(1), Literal(2), Token("placeholder", 3),
  Token("commentary", 0), Token("bytes", 0) }

SmallMaxOutput == [type \in {"rewrite", "rewrite_tail"} |-> 4]

Completes ==
  stage = "finish" /\ last'.type \in {"rewrite_completed", "rewrite_tail_completed"}

(***************************************************************************)
(* Safety: while the model is sampled, the prompt and all it may still     *)
(* answer fit into the context (generate() checks this before it starts).  *)
(***************************************************************************)
ContextNeverOverflows ==
  stage \in {"sample", "decode", "finish"} =>
    /\ generated <= OutputLimit
    /\ PromptTokens + Len(Given) + generated <= ContextSize

(***************************************************************************)
(* Safety: an answer holds no placeholder, no number and no literal that   *)
(* was not dictated as often, unless a literal is put together from words  *)
(* that were; a literal of the read-only context is not taken over.        *)
(***************************************************************************)
AnswersHoldWhatWasSaid ==
  [][Completes =>
       LET said(t) == CountOf(t, Source)
           text == last'.text
       IN  /\ Having("placeholder", text) = {}
           /\ \A t \in ToSet(text) :
                /\ t.kind = "number" => CountOf(t, text) <= SourceNumbers(t.n, Source)
                /\ t.kind = "literal" /\ said(t) > 0 => CountOf(t, text) <= said(t)
                /\ t.kind = "literal" /\ said(t) = 0 =>
                     Components[t.n] \subseteq SourceComponents(Source)]_vars

\* Two literals of a request can get one placeholder: see protect_tail_field().
PlaceholdersDistinct == Cardinality(Having("placeholder", Given)) = Len(Literals)

(***************************************************************************)
(* Safety: a model that changes nothing changes nothing: if it returns the *)
(* text it was given, the answer is the dictated text with every literal   *)
(* in its place (protect_, restore_technical_literals() and the checks     *)
(* undo each other), as long as the placeholders could be told apart.      *)
(***************************************************************************)
EchoIsReturned ==
  [][stage = "finish" /\ closed /\ PlaceholdersDistinct
       /\ answer = Protected.editable \o Protected.new
       /\ ~RepeatsReadOnly(command.context, Source)
     => Completes /\ last'.text = Source]_vars

(***************************************************************************)
(* Liveness: every command comes to its result: sampling stops at its      *)
(* limit even if the model never completes the object.                     *)
(***************************************************************************)
CommandsEnd == (stage \notin {"read", "exited"}) ~> (stage = "read")
=============================================================================

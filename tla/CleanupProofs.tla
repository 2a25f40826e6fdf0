--------------------------- MODULE CleanupProofs ---------------------------
(***************************************************************************)
(* Proofs about the cleanup worker: the context it evaluates never         *)
(* overflows, and an answer holds nothing that was not dictated.           *)
(***************************************************************************)
EXTENDS CleanupProperties, TLAPS, FiniteSetTheorems, WellFoundedInduction

-----------------------------------------------------------------------------
(* Induction and recursion over an initial segment of the numbers *)

\* What holds 0, and with a number the next, holds every number.
LEMMA SetInduction ==
  ASSUME NEW S, 0 \in S, \A n \in Nat : n \in S => n + 1 \in S
  PROVE  Nat \subseteq S
<1> DEFINE T == Nat \ S
<1> SUFFICES ASSUME T # {} PROVE FALSE
  OBVIOUS
<1>1. PICK n \in T : \A m \in T : ~ (<<m, n>> \in OpToRel(<, Nat))
  BY NatLessThanWellFounded, WFMin
<1>2. \A m \in T : ~ (m < n)
  BY <1>1 DEF OpToRel
<1>3. n # 0 /\ n - 1 \in Nat /\ n - 1 < n
  OBVIOUS
<1> QED
  BY <1>2, <1>3

Steps(T, n) == [T \X (1..n) -> T]

Unfolds(f, T, base, n, step) ==
  f \in [0..n -> T] /\ f[0] = base /\ \A k \in 1..n : f[k] = step[<<f[k - 1], k>>]

\* A function that is defined by what each of its values makes of the one before exists.
LEMMA RecursionExists ==
  ASSUME NEW T, NEW base \in T, NEW n \in Nat, NEW step \in Steps(T, n)
  PROVE  \E f : Unfolds(f, T, base, n, step)
<1> USE DEF Steps
<1> DEFINE G(m) == \E f \in [0..m -> T] :
                     f[0] = base /\ \A k \in 1..m : f[k] = step[<<f[k - 1], k>>]
           S == {m \in Nat : m <= n => G(m)}
<1>1. 0 \in S
  <2> DEFINE f == [k \in 0..0 |-> base]
  <2>1. f \in [0..0 -> T] /\ f[0] = base /\ \A k \in 1..0 : f[k] = step[<<f[k - 1], k>>]
    OBVIOUS
  <2> QED BY <2>1
<1>2. ASSUME NEW m \in Nat, m \in S PROVE m + 1 \in S
  <2> SUFFICES ASSUME m + 1 <= n PROVE G(m + 1)
    OBVIOUS
  <2>1. PICK f \in [0..m -> T] :
           f[0] = base /\ \A k \in 1..m : f[k] = step[<<f[k - 1], k>>]
    BY <1>2
  <2> DEFINE g == [k \in 0..m + 1 |-> IF k = m + 1 THEN step[<<f[m], m + 1>>] ELSE f[k]]
  <2>2. f[m] \in T /\ <<f[m], m + 1>> \in T \X (1..n)
    BY <2>1
  <2>3. step[<<f[m], m + 1>>] \in T
    BY <2>2
  <2>4. g \in [0..m + 1 -> T]
    BY <2>1, <2>3
  <2>5. \A k \in 0..m : g[k] = f[k]
    OBVIOUS
  <2>6. g[m + 1] = step[<<f[m], m + 1>>]
    OBVIOUS
  <2> HIDE DEF g
  <2>7. g[0] = base
    BY <2>1, <2>5
  <2>8. ASSUME NEW k \in 1..m + 1 PROVE g[k] = step[<<g[k - 1], k>>]
    <3>1. CASE k = m + 1
      <4>1. k - 1 = m /\ g[k - 1] = f[m]
        BY <3>1, <2>5
      <4> QED BY <4>1, <3>1, <2>6
    <3>2. CASE k # m + 1
      <4>1. k \in 1..m /\ k \in 0..m /\ k - 1 \in 0..m
        BY <3>2
      <4>2. g[k - 1] = f[k - 1] /\ g[k] = f[k]
        BY <4>1, <2>5
      <4> QED BY <4>1, <4>2, <2>1
    <3> QED BY <3>1, <3>2
  <2> QED BY <2>4, <2>7, <2>8
<1> HIDE DEF S
<1>3. n \in S
  BY <1>1, <1>2, SetInduction
<1> QED
  BY <1>3 DEF S, Unfolds

-----------------------------------------------------------------------------
(* Protected texts are texts *)

LEMMA PlacesFinite ==
  ASSUME NEW text \in Seq(Tokens), NEW kind, NEW P, P \subseteq Places(kind, text)
  PROVE  IsFiniteSet(P) /\ Cardinality(P) \in Nat
<1>1. P \subseteq 1..Len(text) /\ Len(text) \in Int
  BY DEF Places
<1>2. IsFiniteSet(1..Len(text))
  BY <1>1, FS_Interval
<1>3. IsFiniteSet(P)
  BY <1>1, <1>2, FS_Subset
<1> QED
  BY <1>3, FS_CardinalityType

LEMMA PlaceholdersType ==
  ASSUME NEW text \in Seq(Tokens)
  PROVE  Placeholders(text) \in Seq(Tokens)
<1> DEFINE before(k) == {j \in Places("literal", text) : j < k}
<1>1. \A k \in DOMAIN text : Cardinality(before(k)) \in Nat
  <2> TAKE k \in DOMAIN text
  <2> QED BY PlacesFinite
<1> HIDE DEF before
<1>2. \A k \in DOMAIN text : Token("placeholder", Cardinality(before(k))) \in Tokens
  BY <1>1 DEF Token, Tokens, Kinds
<1>3. Placeholders(text) = [k \in 1..Len(text) |->
         IF text[k].kind = "literal"
         THEN Token("placeholder", Cardinality(before(k))) ELSE text[k]]
  BY DEF Placeholders, before
<1>4. [k \in 1..Len(text) |->
         IF text[k].kind = "literal"
         THEN Token("placeholder", Cardinality(before(k))) ELSE text[k]] \in Seq(Tokens)
  BY <1>2
<1> QED
  BY <1>3, <1>4

LEMMA ReplaceTokenType ==
  ASSUME NEW text \in Seq(Tokens), NEW old, NEW new \in Tokens
  PROVE  ReplaceToken(text, old, new) \in Seq(Tokens)
BY DEF ReplaceToken

LEMMA ProtectTailFieldType ==
  ASSUME NEW text \in Seq(Tokens), NEW offset \in Nat
  PROVE  ProtectTailField(text, offset) \in Seq(Tokens)
<1> DEFINE T == Seq(Tokens)
           count == Cardinality(Places("literal", text))
           base == Placeholders(text)
           replaced(t, k) == ReplaceToken(t, Token("placeholder", k - 1),
                                             Token("placeholder", offset + k - 1))
           step == [p \in T \X (1..count) |-> replaced(p[1], p[2])]
           renumbered == CHOOSE f : f = [k \in 0..count |->
                           IF k = 0 THEN base ELSE replaced(f[k - 1], k)]
<1>1. count \in Nat
  BY PlacesFinite
<1>2. base \in T
  BY PlaceholdersType
<1> HIDE DEF count, base
<1>3. ASSUME NEW t \in T, NEW k \in 1..count PROVE replaced(t, k) \in T
  <2>1. offset + k - 1 \in Nat
    BY <1>1
  <2>2. Token("placeholder", offset + k - 1) \in Tokens
    BY <2>1 DEF Token, Tokens, Kinds
  <2> QED BY <2>2, ReplaceTokenType
<1> HIDE DEF replaced, T
<1>4. step \in Steps(T, count)
  BY <1>3 DEF Steps
<1>5. \A t \in T, k \in 1..count : step[<<t, k>>] = replaced(t, k)
  OBVIOUS
<1> HIDE DEF step
<1>6. PICK f : Unfolds(f, T, base, count, step)
  BY <1>1, <1>2, <1>4, RecursionExists
<1>7. ASSUME NEW k \in 0..count
      PROVE  f[k] = IF k = 0 THEN base ELSE replaced(f[k - 1], k)
  <2>1. CASE k = 0
    BY <2>1, <1>6 DEF Unfolds
  <2>2. CASE k # 0
    <3>1. k \in 1..count /\ k - 1 \in 0..count
      BY <1>1, <2>2
    <3>2. f[k - 1] \in T
      BY <1>6, <3>1 DEF Unfolds
    <3>3. f[k] = step[<<f[k - 1], k>>]
      BY <3>1, <1>6 DEF Unfolds
    <3> QED BY <3>1, <3>2, <3>3, <1>5, <2>2
  <2> QED BY <2>1, <2>2
<1>8. f = [k \in 0..count |-> IF k = 0 THEN base ELSE replaced(f[k - 1], k)]
  BY <1>6, <1>7 DEF Unfolds
<1>9. renumbered = [k \in 0..count |-> IF k = 0 THEN base ELSE replaced(renumbered[k - 1], k)]
  BY <1>8
<1> DEFINE S == {k \in Nat : k <= count => renumbered[k] \in T}
<1> HIDE DEF renumbered
<1>10. 0 \in S
  <2>1. renumbered[0] = base
    BY <1>9, <1>1
  <2> QED BY <2>1, <1>2
<1>11. ASSUME NEW k \in Nat, k \in S PROVE k + 1 \in S
  <2> SUFFICES ASSUME k + 1 <= count PROVE renumbered[k + 1] \in T
    OBVIOUS
  <2>1. k + 1 \in 0..count /\ k + 1 \in 1..count /\ k + 1 # 0 /\ (k + 1) - 1 = k
    BY <1>1
  <2>2. renumbered[k + 1] = replaced(renumbered[k], k + 1)
    BY <2>1, <1>9
  <2>3. renumbered[k] \in T
    BY <1>11, <1>1
  <2> QED BY <2>1, <2>2, <2>3, <1>3
<1> HIDE DEF S
<1>12. count \in S
  BY <1>10, <1>11, <1>1, SetInduction
<1>13. renumbered[count] \in T
  BY <1>12, <1>1 DEF S
<1>14. ProtectTailField(text, offset) = renumbered[count]
  BY DEF ProtectTailField, renumbered, count, base, replaced
<1> QED
  BY <1>13, <1>14 DEF T

-----------------------------------------------------------------------------
(***************************************************************************)
(* The invariant: a command in progress is one of the commands the worker  *)
(* reads and was acknowledged last, and once its prompt was accepted the   *)
(* prompt still fits with every token that may be sampled.                 *)
(***************************************************************************)
InProgress == {"prompt", "sample", "decode", "finish"}

EngineInv ==
  /\ stage \in InProgress \cup {"read", "exited"}
  /\ generated \in Nat
  /\ stage \in InProgress =>
       /\ command.type \in {"rewrite", "rewrite_tail"}
       /\ command.context \in Seq(Tokens)
       /\ command.editable \in Seq(Tokens)
       /\ command.new \in Seq(Tokens)
       /\ last.type = "command_ack"
  /\ stage \in {"read", "prompt"} => generated = 0
  /\ stage \in InProgress \ {"prompt"} => PromptFits /\ generated <= OutputLimit

\* What the model is given and how long its answer may be are numbers.
LEMMA PromptType ==
  ASSUME command.type \in {"rewrite", "rewrite_tail"},
         command.context \in Seq(Tokens),
         command.editable \in Seq(Tokens),
         command.new \in Seq(Tokens)
  PROVE  Len(Given) \in Nat /\ OutputLimit \in Nat
<1> DEFINE before(text) == Cardinality(Places("literal", text))
<1>1. ASSUME NEW text \in Seq(Tokens) PROVE before(text) \in Nat
  BY PlacesFinite
<1> HIDE DEF before
<1>2. command.context \o command.editable \in Seq(Tokens)
  OBVIOUS
<1>3. ASSUME NEW text \in Seq(Tokens), NEW n \in Nat PROVE ProtectTailField(text, n) \in Seq(Tokens)
  BY ProtectTailFieldType
<1>4. /\ ProtectTailField(command.context, 0) \in Seq(Tokens)
      /\ ProtectTailField(command.editable, before(command.context)) \in Seq(Tokens)
      /\ ProtectTailField(command.new, before(command.context \o command.editable)) \in Seq(Tokens)
  BY <1>1, <1>2, <1>3
<1>5. /\ Protected.context = ProtectTailField(command.context, 0)
      /\ Protected.editable = ProtectTailField(command.editable, before(command.context))
      /\ Protected.new = ProtectTailField(command.new, before(command.context \o command.editable))
  BY DEF Protected, before
<1>6. Given \in Seq(Tokens)
  BY <1>4, <1>5 DEF Given
<1>7. Source \in Seq(Tokens) /\ Len(Source) \in Nat
  <2> DEFINE T == Tokens
  <2> HIDE DEF T
  <2>1. command.editable \in Seq(T) /\ command.new \in Seq(T)
    BY DEF T
  <2>2. Source \in Seq(T)
    BY <2>1 DEF Source
  <2>3. Len(Source) \in Nat
    BY <2>2
  <2> QED BY <2>2, <2>3 DEF T
<1>8. MaxOutput[command.type] \in Nat
  BY EngineAssumption
<1>9. BaseTokens \in Nat
  BY EngineAssumption
<1>10. OutputLimit \in Nat
  BY <1>7, <1>8, <1>9 DEF OutputLimit
<1> QED
  BY <1>6, <1>10

LEMMA SamePrompt ==
  ASSUME UNCHANGED command
  PROVE  OutputLimit' = OutputLimit /\ (PromptFits' <=> PromptFits)
<1>1. Source' = Source
  BY DEF Source
<1>2. Protected' = Protected
  BY DEF Protected
<1>3. Given' = Given
  BY <1>2 DEF Given
<1>4. OutputLimit' = OutputLimit
  BY <1>1 DEF OutputLimit
<1> QED
  BY <1>3, <1>4 DEF PromptFits

LEMMA EndsKeepsInv ==
  ASSUME NEW type, NEW code, NEW text, Ends(type, code, text)
  PROVE  EngineInv'
BY DEF Ends, EngineInv, InProgress

LEMMA StartsKeepsInv ==
  ASSUME NEW type \in {"rewrite", "rewrite_tail"}, NEW context \in Seq(Tokens),
         NEW editable \in Seq(Tokens), NEW new \in Seq(Tokens),
         EngineInv, Starts(type, context, editable, new)
  PROVE  EngineInv'
<1>1. command' = [type |-> type, context |-> context, editable |-> editable, new |-> new]
  BY DEF Starts
<1>2. /\ command'.type = type /\ command'.context = context
      /\ command'.editable = editable /\ command'.new = new
  BY <1>1
<1>3. stage' = "prompt" /\ generated' = 0 /\ last'.type = "command_ack"
  BY DEF Starts, Reads, EngineInv, Emit
<1> QED
  BY <1>2, <1>3 DEF EngineInv, InProgress

LEMMA EngineInvInit == EngineInit => EngineInv
<1> SUFFICES ASSUME EngineInit PROVE EngineInv
  OBVIOUS
<1>1. stage = "read" /\ generated = 0
  BY DEF EngineInit
<1> QED
  BY <1>1 DEF EngineInv, InProgress

LEMMA EngineInvStep == EngineInv /\ [EngineNext]_vars => EngineInv'
<1> SUFFICES ASSUME EngineInv, [EngineNext]_vars PROVE EngineInv'
  OBVIOUS
<1>1. CASE UNCHANGED vars
  <2>1. OutputLimit' = OutputLimit /\ (PromptFits' <=> PromptFits)
    BY <1>1, SamePrompt DEF vars
  <2>2. UNCHANGED <<stage, generated, command, last>>
    BY <1>1 DEF vars
  <2> QED BY <2>1, <2>2 DEF EngineInv
<1>2. ASSUME NEW type, NEW code, Answers(type, code) PROVE EngineInv'
  BY <1>2 DEF Answers, Reads, EngineInv, InProgress
<1>3. CASE Shutdown
  BY <1>3 DEF Shutdown, Reads, EngineInv, InProgress
<1>4. CASE StartRewrite
  <2>1. PICK text \in Transcripts : Starts("rewrite", <<>>, <<>>, text)
    BY <1>4 DEF StartRewrite
  <2>2. text \in Seq(Tokens) /\ <<>> \in Seq(Tokens)
    BY EngineAssumption
  <2> QED BY <2>1, <2>2, StartsKeepsInv
<1>5. CASE StartTail
  <2>1. PICK t \in Tails : Starts("rewrite_tail", t.context, t.editable, t.new)
    BY <1>5 DEF StartTail
  <2>2. t.context \in Seq(Tokens) /\ t.editable \in Seq(Tokens) /\ t.new \in Seq(Tokens)
    BY EngineAssumption
  <2> QED BY <2>1, <2>2, StartsKeepsInv
<1>6. CASE EvaluatePrompt
  <2>1. OutputLimit' = OutputLimit /\ PromptFits'
    BY <1>6, SamePrompt DEF EvaluatePrompt
  <2>2. OutputLimit \in Nat
    BY <1>6, PromptType DEF EvaluatePrompt, EngineInv, InProgress
  <2>3. stage = "prompt" /\ stage' = "sample" /\ UNCHANGED <<generated, command, last>>
    BY <1>6 DEF EvaluatePrompt
  <2> QED BY <2>1, <2>2, <2>3 DEF EngineInv, InProgress
<1>7. CASE Fails
  BY <1>7, EndsKeepsInv DEF Fails
<1>8. ASSUME stage \in {"sample", "decode"}, stage' \in {"sample", "decode", "finish"},
             UNCHANGED <<command, last>>,
             generated' = generated \/ (generated' = generated + 1 /\ generated < OutputLimit)
      PROVE  EngineInv'
  <2>1. OutputLimit' = OutputLimit /\ (PromptFits' <=> PromptFits)
    BY <1>8, SamePrompt
  <2>2. OutputLimit \in Nat
    BY <1>8, PromptType DEF EngineInv, InProgress
  <2>3. generated \in Nat /\ generated <= OutputLimit /\ PromptFits
    BY <1>8 DEF EngineInv, InProgress
  <2>4. generated' \in Nat /\ generated' <= OutputLimit
    BY <2>2, <2>3, <1>8
  <2> QED BY <2>1, <2>3, <2>4, <1>8 DEF EngineInv, InProgress
<1>9. CASE Sample
  BY <1>8, <1>9 DEF Sample
<1>10. CASE DecodeToken
  BY <1>8, <1>10 DEF DecodeToken
<1>11. CASE LimitReached
  BY <1>8, <1>11 DEF LimitReached
<1>12. CASE Complete
  BY <1>12, EndsKeepsInv DEF Complete
<1>13. CASE Exited
  BY <1>1, <1>13 DEF Exited
<1> QED
  BY <1>1, <1>2, <1>3, <1>4, <1>5, <1>6, <1>7, <1>9, <1>10, <1>11, <1>12, <1>13
  DEF EngineNext, Working, Ping, RefuseCommand, PromptFails, DeadlinePasses, GenerationFails, Refuse

LEMMA EngineAlways == EngineSpec => []EngineInv
<1>1. EngineInit => EngineInv
  BY EngineInvInit
<1>2. EngineInv /\ [EngineNext]_vars => EngineInv'
  BY EngineInvStep
<1> QED
  BY <1>1, <1>2, PTL DEF EngineSpec

(***************************************************************************)
(* Theorem: whatever is dictated and whatever the model samples, prompt    *)
(* and answer fit into the context of the model.  generate() compares them *)
(* once, with the largest answer it will allow.                            *)
(***************************************************************************)
THEOREM ContextIsEnough == EngineSpec => []ContextNeverOverflows
<1>1. EngineInv => ContextNeverOverflows
  <2> SUFFICES ASSUME EngineInv, stage \in {"sample", "decode", "finish"}
               PROVE  /\ generated <= OutputLimit
                      /\ PromptTokens + Len(Given) + generated <= ContextSize
    BY DEF ContextNeverOverflows
  <2>1. Len(Given) \in Nat /\ OutputLimit \in Nat
    BY PromptType DEF EngineInv, InProgress
  <2>2. PromptFits /\ generated <= OutputLimit /\ generated \in Nat
    BY DEF EngineInv, InProgress
  <2>3. PromptTokens + Len(Given) + OutputLimit <= ContextSize
    BY <2>2 DEF PromptFits
  <2> QED BY <2>1, <2>2, <2>3, EngineAssumption
<1> QED
  BY <1>1, EngineAlways, PTL

-----------------------------------------------------------------------------
\* An answer that is emitted was restored and passed the checks.
LEMMA CompletedIsValid ==
  ASSUME EngineInv, [EngineNext]_vars, Completes
  PROVE  last'.text = Restored.text /\ Restored.ok /\ Valid(command.context, Source, Restored.text)
<1>1. stage = "finish" /\ last'.type \in {"rewrite_completed", "rewrite_tail_completed"}
  BY DEF Completes
<1>2. last.type = "command_ack"
  BY <1>1 DEF EngineInv, InProgress
<1>3. CASE Complete
  BY <1>3 DEF Complete, Good, Ends, Emit
<1>4. CASE Refuse
  <2>1. last'.type = "error"
    BY <1>4 DEF Refuse, Fails, Ends, Emit
  <2> QED BY <1>1, <2>1
<1>5. CASE UNCHANGED vars
  BY <1>1, <1>2, <1>5 DEF vars
<1> QED
  BY <1>1, <1>3, <1>4, <1>5
  DEF EngineNext, Working, Ping, RefuseCommand, Answers, Reads, Shutdown, StartRewrite, StartTail,
      Starts, EvaluatePrompt, PromptFails, Sample, DecodeToken, LimitReached, DeadlinePasses,
      GenerationFails, Exited

\* What restore_technical_literals() accepts holds no placeholder.
LEMMA RestoredIsClean ==
  ASSUME NEW text, NEW literals, RestoreLiterals(text, literals).ok
  PROVE  Having("placeholder", RestoreLiterals(text, literals).text) = {}
BY DEF RestoreLiterals, Accepted, Refused, OnlyKnownLiterals

(***************************************************************************)
(* Theorem: for every text, every answer of the model and every table of   *)
(* components, an answer that is returned holds no placeholder, and no     *)
(* number and no literal more often than they were dictated, unless a      *)
(* literal is put together from words that were.                           *)
(***************************************************************************)
THEOREM NothingIsMadeUp == EngineSpec => AnswersHoldWhatWasSaid
<1> DEFINE Holds(text) ==
             LET said(t) == CountOf(t, Source)
             IN  /\ Having("placeholder", text) = {}
                 /\ \A t \in ToSet(text) :
                      /\ t.kind = "number" => CountOf(t, text) <= SourceNumbers(t.n, Source)
                      /\ t.kind = "literal" /\ said(t) > 0 => CountOf(t, text) <= said(t)
                      /\ t.kind = "literal" /\ said(t) = 0 =>
                           Components[t.n] \subseteq SourceComponents(Source)
<1>1. EngineInv /\ [EngineNext]_vars => [Completes => Holds(last'.text)]_vars
  <2> SUFFICES ASSUME EngineInv, [EngineNext]_vars, Completes PROVE Holds(last'.text)
    OBVIOUS
  <2>1. last'.text = Restored.text /\ Restored.ok /\ Valid(command.context, Source, Restored.text)
    BY CompletedIsValid
  <2> DEFINE text == Restored.text
  <2>2. Having("placeholder", text) = {}
    BY <2>1, RestoredIsClean DEF Restored
  <2>3. ValidNumbers(Source, text) /\ ValidAnchors(Source, text)
    BY <2>1 DEF Valid
  <2> HIDE DEF text
  <2>4. ASSUME NEW t \in ToSet(text), t.kind = "number"
        PROVE  CountOf(t, text) <= SourceNumbers(t.n, Source)
    BY <2>3, <2>4 DEF ValidNumbers, Having
  <2>5. ASSUME NEW t \in ToSet(text), t.kind = "literal"
        PROVE  /\ CountOf(t, Source) > 0 => CountOf(t, text) <= CountOf(t, Source)
               /\ CountOf(t, Source) = 0 => Components[t.n] \subseteq SourceComponents(Source)
    BY <2>3, <2>5 DEF ValidAnchors, Having
  <2>6. Holds(text)
    BY <2>2, <2>4, <2>5
  <2> QED BY <2>1, <2>6 DEF text
<1>2. EngineSpec => [][Completes => Holds(last'.text)]_vars
  BY <1>1, EngineAlways, PTL DEF EngineSpec
<1> QED
  BY <1>2 DEF AnswersHoldWhatWasSaid
=============================================================================

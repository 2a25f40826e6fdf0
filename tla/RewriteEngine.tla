--------------------------- MODULE RewriteEngine ---------------------------
(***************************************************************************)
(* The inside of the cleanup worker after its model is loaded: the command *)
(* loop of workers/rewrite/main.cpp and LlamaRewriter.  RewriteWorker sees *)
(* the same process from outside, with a command as one step.              *)
(*                                                                         *)
(* llama.cpp is external: it may fail wherever its result is tested, and   *)
(* samples any token the grammar allows, so an unfinished answer is the    *)
(* beginning of one JSON string.                                           *)
(***************************************************************************)
EXTENDS RewriteContract

CONSTANTS
  Transcripts,      \* texts of a rewrite command
  Tails,            \* [context, editable, new] of a rewrite_tail command
  Alphabet,         \* tokens the model may sample
  PromptTokens,     \* tokens of the prompt besides the dictated text
  ContextSize,      \* llama_n_ctx()
  BaseTokens,       \* 32, what an answer may have besides twice its input
  MaxOutput,        \* command -> maximum_output_tokens, 1024 and 384
  Faults,           \* of "llama", "deadline", "command"
  MaxCommands       \* bounds the commands

ASSUME EngineAssumption ==
  /\ Transcripts \subseteq Seq(Tokens) \ {<<>>}
  /\ Tails \subseteq [context : Seq(Tokens), editable : Seq(Tokens), new : Seq(Tokens)]
  /\ Alphabet \subseteq Tokens
  /\ ContextSize \in Nat /\ PromptTokens \in Nat /\ BaseTokens \in Nat \ {0}
  /\ MaxOutput \in [{"rewrite", "rewrite_tail"} -> Nat \ {0}]

VARIABLES
  command,     \* the command in progress
  stage,       \* how far it is
  generated,   \* tokens sampled
  answer,      \* output of generate(), decoded
  closed,      \* whether the JSON object is complete
  last,        \* the last event written
  commands     \* commands read, bounded by MaxCommands

vars == <<command, stage, generated, answer, closed, last, commands>>

NoCommand == [context |-> <<>>, editable |-> <<>>, new |-> <<>>, type |-> "none"]

EngineInit ==
  /\ command = NoCommand
  /\ stage = "read"
  /\ generated = 0
  /\ answer = <<>> /\ closed = FALSE
  /\ last = [type |-> "none", code |-> "", text |-> <<>>]
  /\ commands = 0

Source == command.editable \o command.new

Emit(type, code, text) == last' = [type |-> type, code |-> code, text |-> text]

-----------------------------------------------------------------------------
(* Runtime::handle() *)

Reads == stage = "read" /\ commands < MaxCommands

\* A command that is answered at once: a ping, or one the worker refuses.
Answers(type, code) ==
  /\ Reads
  /\ Emit(type, code, <<>>)
  /\ commands' = commands + 1
  /\ UNCHANGED <<command, stage, generated, answer, closed>>

Ping == Answers("pong", "")

\* An unknown type, a missing field, version 1 of rewrite_tail, a field that
\* is too long or two that are empty.
RefuseCommand ==
  /\ "command" \in Faults
  /\ \E code \in {"UNKNOWN_COMMAND", "MALFORMED_COMMAND", "UNSUPPORTED_PROTOCOL",
                  "INVALID_REWRITE_TAIL"} : Answers("error", code)

Shutdown ==
  /\ Reads
  /\ Emit("shutdown_complete", "", <<>>)
  /\ stage' = "exited"
  /\ commands' = commands + 1
  /\ UNCHANGED <<command, generated, answer, closed>>

Starts(type, context, editable, new) ==
  /\ Reads
  /\ command' = [type |-> type, context |-> context, editable |-> editable, new |-> new]
  /\ stage' = "prompt"
  /\ Emit("command_ack", "", <<>>)
  /\ commands' = commands + 1
  /\ UNCHANGED <<generated, answer, closed>>

StartRewrite == \E text \in Transcripts : Starts("rewrite", <<>>, <<>>, text)

StartTail ==
  \E t \in Tails : t.editable \o t.new # <<>> /\ Starts("rewrite_tail", t.context, t.editable, t.new)

\* The command ends with this event and nothing of it is kept.
Ends(type, code, text) ==
  /\ Emit(type, code, text)
  /\ command' = NoCommand /\ stage' = "read"
  /\ generated' = 0 /\ answer' = <<>> /\ closed' = FALSE
  /\ UNCHANGED commands

Fails ==
  Ends("error", IF command.type = "rewrite" THEN "REWRITE_FAILED" ELSE "REWRITE_TAIL_FAILED", <<>>)

-----------------------------------------------------------------------------
(* rewrite(), rewrite_tail(): what the model is given *)

\* Mutant: the literals are listed in another order than the fields.
LiteralsSwapped == OfKind("literal", command.editable \o command.new \o command.context)

Literals == OfKind("literal", command.context \o command.editable \o command.new)

Protected ==
  LET before(text) == Cardinality(Places("literal", text))
  IN  [context |-> ProtectTailField(command.context, 0),
       editable |-> ProtectTailField(command.editable, before(command.context)),
       new |-> ProtectTailField(command.new, before(command.context \o command.editable))]

Given == Protected.context \o Protected.editable \o Protected.new

\* dynamic_output_tokens
OutputLimit ==
  LET dynamic == BaseTokens + 2 * (IF Source = <<>> THEN 1 ELSE Len(Source))
  IN  IF dynamic < MaxOutput[command.type] THEN dynamic ELSE MaxOutput[command.type]

-----------------------------------------------------------------------------
(* generate() *)

\* Mutant: the answer's share of the context is not counted.
PromptFitsAlone == PromptTokens + Len(Given) <= ContextSize

PromptFits == PromptTokens + Len(Given) + OutputLimit <= ContextSize

\* The memory is cleared, the prompt tokenized and decoded, the sampler built.
EvaluatePrompt ==
  /\ stage = "prompt" /\ PromptFits
  /\ stage' = "sample"
  /\ UNCHANGED <<command, generated, answer, closed, last, commands>>

PromptFails ==
  /\ stage = "prompt"
  /\ ~PromptFits \/ "llama" \in Faults
  /\ Fails

\* A token, the end of the object, or an end of generation before it.
Sample ==
  /\ stage = "sample" /\ generated < OutputLimit
  /\ generated' = generated + 1
  /\ \/ \E t \in Alphabet \cup ToSet(Given) : answer' = Append(answer, t)
        /\ stage' = "decode" /\ UNCHANGED closed
     \/ closed' = TRUE /\ stage' = "finish" /\ UNCHANGED answer
     \/ stage' = "finish" /\ UNCHANGED <<answer, closed>>
  /\ UNCHANGED <<command, last, commands>>

DecodeToken ==
  /\ stage = "decode"
  /\ stage' = "sample"
  /\ UNCHANGED <<command, generated, answer, closed, last, commands>>

\* Mutant: sampling goes on until the object is complete.
LimitIgnored ==
  /\ stage = "sample" /\ generated = OutputLimit
  /\ stage' = "decode"
  /\ UNCHANGED <<command, generated, answer, closed, last, commands>>

LimitReached ==
  /\ stage = "sample" /\ generated = OutputLimit
  /\ stage' = "finish"
  /\ UNCHANGED <<command, generated, answer, closed, last, commands>>

DeadlinePasses ==
  /\ "deadline" \in Faults
  /\ stage = "sample" /\ generated < OutputLimit
  /\ Fails

\* A token that cannot be turned into text or be decoded.
GenerationFails ==
  /\ "llama" \in Faults
  /\ stage = "decode"
  /\ Fails

-----------------------------------------------------------------------------
(* parse_replacement_tail_json(), then restoring and validating *)

Restored == RestoreLiterals(answer, Literals)

Good ==
  /\ closed /\ answer # <<>>
  /\ Restored.ok
  /\ Valid(command.context, Source, Restored.text)

Complete ==
  /\ stage = "finish" /\ Good
  /\ Ends(IF command.type = "rewrite" THEN "rewrite_completed" ELSE "rewrite_tail_completed",
          "", Restored.text)

Refuse ==
  /\ stage = "finish" /\ ~Good
  /\ Fails

-----------------------------------------------------------------------------
Exited == stage = "exited" /\ UNCHANGED vars

Working ==
  \/ EvaluatePrompt \/ PromptFails \/ Sample \/ DecodeToken \/ LimitReached
  \/ DeadlinePasses \/ GenerationFails \/ Complete \/ Refuse

EngineNext ==
  \/ Ping \/ RefuseCommand \/ Shutdown \/ StartRewrite \/ StartTail
  \/ Working \/ Exited

EngineSpec == EngineInit /\ [][EngineNext]_vars /\ WF_vars(Working)
=============================================================================

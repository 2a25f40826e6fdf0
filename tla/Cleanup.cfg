CONSTANTS
  RepeatedTokens = 2
  Components <- SmallComponents
  Transcripts <- SmallTranscripts
  Tails <- SmallTails
  Alphabet <- SmallAlphabet
  PromptTokens = 1
  ContextSize = 9
  BaseTokens = 1
  MaxOutput <- SmallMaxOutput
  Faults = {"llama", "deadline", "command"}
  MaxCommands = 2

SPECIFICATION EngineSpec

INVARIANTS
  ContextNeverOverflows

PROPERTIES
  AnswersHoldWhatWasSaid
  EchoIsReturned
  CommandsEnd

CHECK_DEADLOCK FALSE

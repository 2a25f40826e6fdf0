CONSTANTS
  MinimumHypotheses = 2
  ProtectedTokens = 1
  ContextTokens = 2
  EditableTokens = 2
  RequestTokens = 2
  RepeatedRun = 2
  MaxReadOnlyBytes = 3
  MaxEditableBytes = 5
  MaxNewBytes = 5
  BlankReach = 3
  LineReach = 2
  Hypotheses <- SmallHypotheses
  Replacements <- SmallReplacements
  MaxGenerations = 2
  MaxSegments = 2
  MaxUpdates = 3
  MaxHeld = 1

SPECIFICATION TranscriptSpec

INVARIANTS
  RegionsCoverRaw
  UnrewrittenIsRaw
  CharactersWhole
  RequestsBounded

PROPERTY CommitsWhatWasAsked

CHECK_DEADLOCK FALSE

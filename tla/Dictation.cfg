CONSTANTS
  Language = {de}
  DefaultLanguage = de
  Faults = {"spawn", "asr_load", "microphone", "engine", "rewrite_load", "rewrite_answer"}
  InitialCleanup = {"Off", "Ai"}
  MaxPresses = 4
  MaxCancels = 2
  MaxLanguageChanges = 0
  MaxSettings = 0
  MaxCrashes = 1

SPECIFICATION Spec

INVARIANTS
  TypeOK
  MicrophoneMatchesMode
  ReviewedCoversRaw
  NeverStranded

PROPERTIES
  KeepsPromise

CONSTANTS
  Language = {de, en}
  DefaultLanguage = de
  Faults = {"microphone", "engine", "rewrite_load", "rewrite_answer"}
  InitialCleanup = {"Off", "Ai"}
  MaxPresses = 3
  MaxCancels = 0
  MaxLanguageChanges = 2
  MaxSettings = 0
  MaxCrashes = 0

SPECIFICATION Spec

INVARIANTS
  RawRecordsAsShown
  NeverStranded
  OnlyOwnWords

PROPERTIES
  RawKeepsPromise

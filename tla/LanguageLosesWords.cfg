CONSTANTS
  Language = {de, en}
  DefaultLanguage = de
  Faults = {}
  InitialCleanup = {"Ai"}
  MaxPresses = 2
  MaxCancels = 0
  MaxLanguageChanges = 1
  MaxSettings = 0
  MaxCrashes = 0

SPECIFICATION Spec

INVARIANTS
  LanguageChangePreservesWords

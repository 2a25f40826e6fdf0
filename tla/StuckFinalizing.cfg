CONSTANTS
  Language = {de}
  DefaultLanguage = de
  Faults = {"spawn"}
  InitialCleanup = {"Ai"}
  MaxPresses = 2
  MaxCancels = 0
  MaxLanguageChanges = 0
  MaxSettings = 1
  MaxCrashes = 0

SPECIFICATION LiveSpec

PROPERTIES
  FinalTextIsOffered

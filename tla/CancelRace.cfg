CONSTANTS
  Language = {de}
  DefaultLanguage = de
  Faults = {}
  InitialCleanup = {"Off"}
  MaxPresses = 2
  MaxCancels = 1
  MaxLanguageChanges = 0
  MaxSettings = 0
  MaxCrashes = 0

SPECIFICATION Spec

INVARIANTS
  NoErrorWithoutFault

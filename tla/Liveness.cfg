CONSTANTS
  Language = {de}
  DefaultLanguage = de
  Faults = {"microphone"}
  InitialCleanup = {"Ai"}
  MaxPresses = 2
  MaxCancels = 1
  MaxLanguageChanges = 0
  MaxSettings = 1
  MaxCrashes = 1

SPECIFICATION LiveSpec

INVARIANTS
  CleanupOffStopsWorker
  ReadersJoined

PROPERTIES
  KeepsPromise
  StartsAndCancelsSettle
  FinalizingEnds
  CallsReturn

CONSTANTS
  Capacity = 3
  BlockSize = 2
  Frames = {2}
  Failures = {"engine", "microphone"}
  MaxSamples = 6
  MaxSessions = 2

SPECIFICATION RuntimeSpec

INVARIANTS
  SlotsDisjoint
  HeardInOrder
  StopDrains
  SamplesAccountedFor
  ReadyIsQuiet

PROPERTIES
  QueuePromise
  NothingAfterResult
  CommandsAnswered

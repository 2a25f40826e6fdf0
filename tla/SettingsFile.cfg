CONSTANTS
  None = None
  Invalid = Invalid
  Files <- FirstFiles
  Dragged <- OverlaySizes
  Faults = {"directory", "open", "write", "disk_full", "rename", "remove", "worker"}
  MaxChanges = 3

SPECIFICATION SettingsSpec

INVARIANTS
  SettingsTypeOK
  FileHoldsSaved
  UnsavedIsTold

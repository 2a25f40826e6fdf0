CONSTANTS
  Window = {w1, w2}
  Own = Own
  NoWindow = NoWindow
  Faults = {"restore", "type", "open", "clipboard", "modifiers", "paste", "xtest", "keymap"}
  MaxResults = 2
  MaxCopies = 1
  MaxSwitches = 2
  Platforms = {"win", "x11"}

SPECIFICATION Spec

INVARIANTS
  InsertedOnce
  TargetGetsText
  NoStalePaste

PROPERTIES
  TextIsNotLost

CHECK_DEADLOCK FALSE

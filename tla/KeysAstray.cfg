CONSTANTS
  Window = {w1, w2}
  Own = Own
  NoWindow = NoWindow
  Faults = {"restore", "type", "open", "clipboard", "modifiers", "paste", "xtest", "keymap"}
  MaxResults = 1
  MaxCopies = 1
  MaxSwitches = 2
  Platforms = {"x11"}

SPECIFICATION Spec

INVARIANTS
  KeysGoToTarget

CHECK_DEADLOCK FALSE

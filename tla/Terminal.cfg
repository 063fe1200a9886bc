CONSTANTS
  Devices = {"A", "B"}
  MaxHeld = 2
  MaxNet = 3
  Scenes <- MCScenes
  Keep = 2
  Ring = 3
SPECIFICATION Spec
CHECK_DEADLOCK FALSE
INVARIANT TerminalSound

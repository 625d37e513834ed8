CONSTANTS
  MaxPort = 2
  Typed = {"plain"}
  Random = {"random1", "random2"}
  Substituted = {}
  HandWritten <- MCHandWritten
  MacOS = FALSE
  None = None
  MaxEdits = 1
  MaxLaunches = 2
SPECIFICATION Spec
INVARIANT CardIsRight
CHECK_DEADLOCK FALSE

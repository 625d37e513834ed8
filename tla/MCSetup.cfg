CONSTANTS
  MaxPort = 2
  Typed = {"plain"}
  Random = {"random1"}
  Substituted = {}
  HandWritten <- MCHandWritten
  MacOS = TRUE
  None = None
  MaxEdits = 2
  MaxLaunches = 2
SPECIFICATION Spec
INVARIANTS
  TypeOK
  LaterRunsAreAsConfirmed
  FirstStartIsAsConfirmed
  WrittenFilesLoad
  PortsAreValidated
PROPERTY ReviewKeepsSettings
CHECK_DEADLOCK FALSE

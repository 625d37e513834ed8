CONSTANTS
  Modes = {"wizard", "configured", "cli"}
  MaxSessions = 2
  MaxCleanups = 2
SPECIFICATION FairSpec
INVARIANTS
  TypeOK
  NothingLeftUnawares
  TunnelsAreHeld
  RunningIsUp
PROPERTIES
  QuitLeavesTheScreen
  QuitEndsTheProgram
CHECK_DEADLOCK FALSE

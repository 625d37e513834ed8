CONSTANTS
  Paths = {a, b}
  Values = {draft}
  Broken = Broken
  NoFile = NoFile
  NoEntry = NoEntry
  Timers = {t1, t2, t3}
  Main = Main
  SyncModes <- MCBothModes
  MaxChanges = 3
SPECIFICATION FairSpec
INVARIANTS
  TypeOK
  SettledPathAgrees
  NoLostWakeup
PROPERTIES
  IndexCatchesUp
  StopCompletes

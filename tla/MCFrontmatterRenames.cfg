CONSTANTS
  Paths = {a, b}
  Values = {draft}
  Broken = Broken
  NoFile = NoFile
  NoEntry = NoEntry
  Timers = {t1, t2, t3}
  Main = Main
  SyncModes <- MCBothModes
  MaxChanges = 3
SPECIFICATION Spec
INVARIANT RenamesReachTheIndex

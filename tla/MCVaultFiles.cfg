CONSTANTS
  Chars = {"x", "y", "f", "lf", "crlf"}
  Notes <- MCNotes
  Texts <- MCTexts
  Diffs <- MCDiffs
  MaxCalls = 2
  MaxEdits = 1
  MaxTime = 2
SPECIFICATION Spec
INVARIANTS TypeOK PlainDiffIsApplied NothingIsLost NoLitter
CHECK_DEADLOCK FALSE

CONSTANTS
  Chars = {"x", "y", "f", "lf", "crlf"}
  Notes <- MCNotes
  Texts <- MCTexts
  Diffs <- MCNoDiffs
  MaxCalls = 2
  MaxEdits = 0
  MaxTime = 1
SPECIFICATION Spec
INVARIANT NotHardDeleted
CHECK_DEADLOCK FALSE

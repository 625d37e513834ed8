CONSTANTS
  Chars = {"x", "y", "f", "lf", "crlf"}
  Notes <- MCNotes
  Texts <- MCTexts
  Diffs <- MCAppend
  MaxCalls = 1
  MaxEdits = 0
  MaxTime = 1
SPECIFICATION Spec
INVARIANT DiffIsApplied
CHECK_DEADLOCK FALSE

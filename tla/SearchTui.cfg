\* Two commits, lists of up to three rows, duplicates included.
SPECIFICATION Spec
CONSTANTS
  Sha = {1, 2}
  NoSha = 0
  Char = {"q", "?", "/", "u-umlaut"}
  Width <- MCWidth
  HelpKey = "?"
  FocusKey = "/"
  QuitKey = "q"
  PageStep = 2
  Limit = 3
  MaxQuery = 2
INVARIANTS
  TypeOK
  DiffOfSelection
  SelectionInHits
  HitsAnswerQuery
  CursorOnBoundary
CHECK_DEADLOCK FALSE

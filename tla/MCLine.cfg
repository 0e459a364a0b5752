CONSTANTS
  Bytes <- MCBytes
  Names <- MCNames
  Runes = {"x", "/"}
  MaxLine = 2
  MaxHist = 1
SPECIFICATION LSpec
INVARIANTS ReadsDoNotMatter DraftComesBack
CHECK_DEADLOCK FALSE

SPECIFICATION Spec
CONSTANTS
  MAX_COL = 6
  MAX_ROW = 3
  CMD_BUF_SZ = 3
  Files <- SmallFiles
  Keys = {"LF", "DN", "UP", "RT", "x", "NL", "ESC", ":", "w", "q", "BS", "i", "EOF", "G", "h", "bad"}
  MaxKeys = 5
  Output <- Written
INVARIANTS RoundTrip TypedIsSaved
CHECK_DEADLOCK FALSE

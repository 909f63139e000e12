SPECIFICATION FlatSpec
CONSTANTS
  Lengths = {4, 5}
  MaskTop = 5
  Chunk = 1
  MaxChars = 7
CHECK_DEADLOCK FALSE
INVARIANTS
  PrintsRuns
  OneSeam
  SeamsKeepPace

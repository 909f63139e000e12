SPECIFICATION FairSpec
CONSTANTS
  LogBufLens <- MCSmall
  LenMod = 16
  TextLens <- MCTextLens
  Junk = 3
  MaxRecords = 5
  Grain = 4
  Stack = {}
  HeapLens = {}
  HeapTexts = {}
INVARIANTS
  ExactRecords
PROPERTY
  WalkEnds

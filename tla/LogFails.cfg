SPECIFICATION Spec
CONSTANTS
  LogBufLens <- MCBoth
  LenMod = 16
  TextLens <- MCTextLens
  Junk = 3
  MaxRecords = 2
  Grain = 4
  Stack <- MCStack
  HeapLens <- MCHeapLens
  HeapTexts <- MCHeapTexts
INVARIANTS
  TypeOK
  SightedIsExact

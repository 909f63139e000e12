SPECIFICATION Spec
CONSTANTS
  N = 2
  M = 8
  T = 14
  W = 64
  MaxText = 3
  TextLens <- MCTextLens
  MaxRecords = 3
  MaxExtends = 1
  Grain = 7
INVARIANTS
  TypeOK
  InBounds
  StableIsPrinted
  PrintedIsExact
  ExtendedKeepsPrefix
  WalkBounded

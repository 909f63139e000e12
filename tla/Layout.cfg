SPECIFICATION Spec
CONSTANTS
  Notes <- MCNotes
  Layout <- MCLayout
  Mask = 70
CHECK_DEADLOCK FALSE
INVARIANTS
  LayoutOrZero
  EveryValueEnds
  ExactFree

SPECIFICATION Spec
CONSTANTS
  MemSize = 10
  MaxSize = 9
  Starts <- MCStarts
  Backends = {"qmp", "libvirt", "file"}
  Step = 4
  Word = 2
  Line <- MCLine
  Block = 4
  MaxWrites = 2
INVARIANTS
  OwnCellsOnly
  SuccessIsWhole
  OneStaleBlock
PROPERTY
  ImplementsRead

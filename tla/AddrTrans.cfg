SPECIFICATION Spec
CONSTANTS
  P = 4
  B = 2
  Start = 32
  DefaultOffset = 16
  IdtLink = 34
  DivLink = 33
  OffsetLink = 37
  FileRegs <- MCFileRegs
  Guests <- MCGuests
  Junk = 7
INVARIANTS
  SymbolsExact
  DirectMapExact
  TagsAreTrue

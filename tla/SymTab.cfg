SPECIFICATION SymSpec
CONSTANTS
  AsmExc = asm_exc_divide_error
  DivideError = divide_error
  IdtTable = idt_table
  other = other
  Names <- MCNames
  Needed <- MCNeeded
  HashIndex <- MCIndex
  Values <- MCValues
  CntMod = 3
  MaxLines = 5
INVARIANTS
  FirstLineWins
PROPERTY
  ImplementsSymbolMap

------------------------------ MODULE MCSymTab ------------------------------
(***************************************************************************)
(* An instance of SymTab for TLC: the three names symtab_init asks for and *)
(* one the program does not need; two of the names share a chain.          *)
(***************************************************************************)
EXTENDS SymTab

CONSTANT other

MCNames == {AsmExc, DivideError, IdtTable, other}
MCNeeded == {AsmExc, DivideError, IdtTable}
MCIndex == [n \in MCNames |-> IF n \in {AsmExc, IdtTable} THEN 0 ELSE 1]
MCValues == {1, 2}

=============================================================================

------------------------------- MODULE SymTab -------------------------------
(***************************************************************************)
(* The symbol table of kvm-dmesg (symbols.c): the lines of System.map are  *)
(* read one by one, the few symbols the program needs are chained in a     *)
(* hash table, and later looked up by name.                                *)
(***************************************************************************)
EXTENDS Integers, Sequences, FiniteSets

CONSTANTS
    Names,      \* names that occur in the file or are asked for
    Needed,     \* the names symbol_needed knows
    Values,     \* addresses
    HashIndex,  \* SYMNAME_HASH_INDEX, as a function of the name
    CntMod,     \* 256: syment.cnt is an unsigned char
    MaxLines,   \* bound on lines of the file
    AsmExc, DivideError, IdtTable  \* three of the names

ASSUME SymAssumption ==
    /\ Needed \subseteq Names /\ {AsmExc, DivideError, IdtTable} \subseteq Needed
    /\ Values \subseteq Nat
    /\ DOMAIN HashIndex = Names
    /\ CntMod \in Nat \ {0} /\ MaxLines \in Nat

VARIABLES
    stage,    \* "open", "lines", "resolve" or "ready"
    lines,    \* the lines of the file read so far
    hash,     \* st->symname_hash: the chains
    st        \* divide_error_vmlinux and idt_table_vmlinux

symVars == <<stage, lines, hash, st>>

Line == [name : Names, value : Values]
Entry == [name : Needed, value : Values, cnt : 0..(CntMod - 1)]
Slots == {HashIndex[n] : n \in Names}

\* Places of the name in its chain, and the first of a set of places.
Places(n) == {i \in DOMAIN hash[HashIndex[n]] : hash[HashIndex[n]][i].name = n}
First(S) == CHOOSE i \in S : \A j \in S : i <= j

\* Mutant: the last entry of the name is found.
symname_hash_search_Last(n) ==
    IF Places(n) = {} THEN <<>>
    ELSE <<hash[HashIndex[n]][CHOOSE i \in Places(n) : \A j \in Places(n) : j <= i]>>

\* The first entry of the name in its chain; <<>> is NULL.
symname_hash_search(n) ==
    IF Places(n) = {} THEN <<>> ELSE <<hash[HashIndex[n]][First(Places(n))]>>

kernel_symbol_exists(n) == symname_hash_search(n) # <<>>
symbol_value(n) ==
    IF kernel_symbol_exists(n) THEN symname_hash_search(n)[1].value ELSE 0

SymInit ==
    /\ stage = "open" /\ lines = <<>>
    /\ hash = [i \in Slots |-> <<>>]
    /\ st = [divide_error |-> 0, idt_table |-> 0]

\* fopen; without the file the table stays empty and the program goes on.
OpenMap ==
    /\ stage = "open"
    /\ stage' \in {"lines", "resolve"}
    /\ UNCHANGED <<lines, hash, st>>

\* Entries of the chain with the name of the new one are counted.
Counted(chain, n) ==
    [i \in DOMAIN chain |->
        IF chain[i].name = n THEN [chain[i] EXCEPT !.cnt = (@ + 1) % CntMod]
                             ELSE chain[i]]

\* The new entry is linked behind the last one, and counts itself and those.
symname_hash_install(l) ==
    LET i == HashIndex[l.name]
    IN  hash' = [hash EXCEPT ![i] =
            Append(Counted(@, l.name),
                   [name |-> l.name, value |-> l.value,
                    cnt |-> (Cardinality(Places(l.name)) + 1) % CntMod])]

symbol_needed(n) == n \in Needed

\* One turn of the loop of symname_hash_init over a line that scans.
ReadLine ==
    /\ stage = "lines" /\ Len(lines) < MaxLines
    /\ \E l \in Line :
          /\ lines' = Append(lines, l)
          /\ IF symbol_needed(l.name) THEN symname_hash_install(l) ELSE UNCHANGED hash
    /\ UNCHANGED <<stage, st>>

EndOfMap ==
    /\ stage = "lines"
    /\ stage' = "resolve"
    /\ UNCHANGED <<lines, hash, st>>

\* The rest of symtab_init: the name of the handler changed in 5.8.
symtab_init ==
    /\ stage = "resolve"
    /\ st' = [divide_error |-> symbol_value(IF kernel_symbol_exists(AsmExc)
                                           THEN AsmExc ELSE DivideError),
              idt_table |-> symbol_value(IdtTable)]
    /\ stage' = "ready"
    /\ UNCHANGED <<lines, hash>>

\* The table is only looked at from now on.
Lookups == stage = "ready" /\ UNCHANGED symVars

SymNext == OpenMap \/ ReadLine \/ EndOfMap \/ symtab_init \/ Lookups
SymSpec == SymInit /\ [][SymNext]_symVars

-----------------------------------------------------------------------------
(***************************************************************************)
(* Properties.                                                             *)
(***************************************************************************)

\* Every variable has its type.
SymTypeOK ==
    /\ stage \in {"open", "lines", "resolve", "ready"}
    /\ lines \in Seq(Line)
    /\ hash \in [Slots -> Seq(Entry)]
    /\ st \in [divide_error : Nat, idt_table : Nat]

\* Lines of the file with the name n.
Mentions(n) == {i \in DOMAIN lines : lines[i].name = n}

\* A needed name resolves to the address of its first line, whatever the other
\* lines, the duplicates and the collisions in its chain.
FirstLineWins ==
    \A n \in Needed :
        IF Mentions(n) = {} THEN ~ kernel_symbol_exists(n)
        ELSE symbol_value(n) = lines[First(Mentions(n))].value

\* Seen through symbol_search the table is a map of names to addresses that only
\* grows: no line read later changes what a name resolves to.
SymMap == [n \in {x \in Needed : kernel_symbol_exists(x)} |-> symbol_value(n)]
Abstract == INSTANCE SymbolMap WITH map <- SymMap
ImplementsSymbolMap == Abstract!Spec

=============================================================================

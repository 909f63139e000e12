---------------------------- MODULE LookupProofs ----------------------------
(***************************************************************************)
(* Proofs about what kvm-dmesg looks up before it reads a log: the         *)
(* addresses of System.map (SymTab) and where the guest's kernel is        *)
(* (AddrTrans).                                                            *)
(*                                                                         *)
(* SymTab, for every set of names, every hash function and files of any    *)
(* length: the table resolves each needed name to its first line, and it   *)
(* implements SymbolMap.                                                   *)
(*                                                                         *)
(* AddrTrans, for every size of pages and tables, every layout of          *)
(* System.map and every set of guests: the invariant says, for each place  *)
(* of the program, what the walk has found out so far if nothing failed    *)
(* and the guest is Supported.                                             *)
(***************************************************************************)
EXTENDS SymTab, AddrTrans, SequenceTheorems, FiniteSetTheorems, WellFoundedInduction, TLAPS

\* A step that names no prover is tried with these two, in this order.
USE SMTT(30), ZenonT(30)

-----------------------------------------------------------------------------
(***************************************************************************)
(* The symbol table.                                                       *)
(***************************************************************************)

\* First(S) is the least element of a non-empty set of numbers.
LEMMA FirstIsLeast ==
    ASSUME NEW S, S \subseteq Nat, S # {}
    PROVE  First(S) \in S /\ \A j \in S : First(S) <= j
<1>1. PICK x \in S : \A y \in S : ~ (<<y, x>> \in OpToRel(<, Nat))
  BY WFMin, NatLessThanWellFounded, Zenon
<1>2. ASSUME NEW y \in S PROVE x <= y
  <2>1. ~ (y < x)
    BY <1>1, Zenon DEF OpToRel
  <2> QED BY <2>1
<1> QED BY <1>2, Zenon DEF First

\* Elements behind the first one do not change it.
LEMMA FirstStays ==
    ASSUME NEW S, S \subseteq Nat, S # {},
           NEW R, R \subseteq Nat, S \subseteq R,
           \A r \in R \ S : \A s \in S : s < r
    PROVE  First(R) = First(S)
<1>1. PICK a \in S : a = First(S) /\ \A j \in S : a <= j
  BY FirstIsLeast, Zenon
<1>2. PICK b \in R : b = First(R) /\ \A j \in R : b <= j
  <2>1. R # {}
    OBVIOUS
  <2> QED BY <2>1, FirstIsLeast, Zenon
<1>3. b <= a
  BY <1>2
<1>4. b \in S
  BY <1>3
<1>5. a <= b
  BY <1>1, <1>4
<1>6. a = b
  BY <1>3, <1>5
<1> QED BY <1>1, <1>2, <1>6

\* Appending keeps the elements and adds one behind them.
LEMMA Appended ==
    ASSUME NEW T, NEW s \in Seq(T), NEW e \in T
    PROVE  /\ Append(s, e) \in Seq(T)
           /\ DOMAIN Append(s, e) = DOMAIN s \cup {Len(s) + 1}
           /\ \A i \in DOMAIN s : Append(s, e)[i] = s[i] /\ i \in Nat /\ i < Len(s) + 1
           /\ Append(s, e)[Len(s) + 1] = e
           /\ Len(s) + 1 \in Nat /\ Len(s) + 1 \notin DOMAIN s
  OBVIOUS

\* Counting an entry changes neither the names nor the addresses of a chain.
LEMMA CountedKeeps ==
    ASSUME NEW chain \in Seq(Entry), NEW n
    PROVE  /\ Counted(chain, n) \in Seq(Entry)
           /\ DOMAIN Counted(chain, n) = DOMAIN chain
           /\ Len(Counted(chain, n)) = Len(chain)
           /\ \A i \in DOMAIN chain : /\ Counted(chain, n)[i].name = chain[i].name
                                      /\ Counted(chain, n)[i].value = chain[i].value
<1> DEFINE f == Counted(chain, n)
<1>1. \A i \in DOMAIN chain : chain[i] \in Entry
  BY ElementOfSeq
<1>2. ASSUME NEW i \in DOMAIN chain
      PROVE  f[i] \in Entry /\ f[i].name = chain[i].name /\ f[i].value = chain[i].value
  <2>1. (chain[i].cnt + 1) % CntMod \in 0..(CntMod - 1)
    BY <1>1, SymAssumption DEF Entry
  <2> QED BY <1>1, <2>1 DEF Counted, Entry
<1>3. DOMAIN f = 1..Len(chain) /\ Len(chain) \in Nat
  BY DEF Counted
<1>4. f \in [1..Len(chain) -> Entry]
  BY <1>2, <1>3 DEF Counted
<1>5. f \in Seq(Entry) /\ Len(f) = Len(chain)
  BY <1>3, <1>4
<1> QED BY <1>2, <1>3, <1>5

\* What symname_hash_install does to the chain of the new name.
LEMMA InstallChain ==
    ASSUME SymTypeOK, NEW l \in Line, l.name \in Needed, symname_hash_install(l)
    PROVE  /\ hash' \in [Slots -> Seq(Entry)]
           /\ \E e \in Entry :
                /\ e.name = l.name /\ e.value = l.value
                /\ hash' = [hash EXCEPT ![HashIndex[l.name]] =
                               Append(Counted(hash[HashIndex[l.name]], l.name), e)]
<1> DEFINE s == HashIndex[l.name]
           c == (Cardinality(Places(l.name)) + 1) % CntMod
           e == [name |-> l.name, value |-> l.value, cnt |-> c]
<1>1. l.name \in Names /\ l.value \in Values /\ s \in Slots
  BY DEF Line, Slots
<1>2. hash[s] \in Seq(Entry)
  BY <1>1 DEF SymTypeOK
<1>3. Cardinality(Places(l.name)) \in Nat
  <2>1. IsFiniteSet(DOMAIN hash[s])
    <3>1. DOMAIN hash[s] = 1..Len(hash[s]) /\ Len(hash[s]) \in Nat
      BY <1>2
    <3> QED BY <3>1, FS_Interval
  <2>2. Places(l.name) \subseteq DOMAIN hash[s]
    BY DEF Places
  <2> QED BY <2>1, <2>2, FS_Subset, FS_CardinalityType
<1>4. e \in Entry
  <2>1. c \in 0..(CntMod - 1)
    BY <1>3, SymAssumption
  <2> QED BY <1>1, <2>1 DEF Entry
<1>5. Append(Counted(hash[s], l.name), e) \in Seq(Entry)
  BY <1>2, <1>4, CountedKeeps, Appended
<1>6. hash' = [hash EXCEPT ![s] = Append(Counted(hash[s], l.name), e)]
  BY DEF symname_hash_install
<1> QED BY <1>1, <1>4, <1>5, <1>6, Zenon DEF SymTypeOK

\* A name that is found stays where it is, with its address; only the installed
\* name can be found anew.
LEMMA InstallSearch ==
    ASSUME SymTypeOK, NEW l \in Line, l.name \in Needed, symname_hash_install(l),
           NEW n \in Needed
    PROVE  /\ Places(n) # {} =>
                /\ Places(n)' # {}
                /\ hash'[HashIndex[n]][First(Places(n)')].value
                     = hash[HashIndex[n]][First(Places(n))].value
           /\ Places(n) = {} /\ n # l.name => Places(n)' = {}
           /\ Places(n) = {} /\ n = l.name =>
                /\ Places(n)' # {}
                /\ hash'[HashIndex[n]][First(Places(n)')].value = l.value
<1> DEFINE ch == hash[HashIndex[n]]
           cp == hash'[HashIndex[n]]
<1>1. PICK e \in Entry :
        /\ e.name = l.name /\ e.value = l.value
        /\ hash' = [hash EXCEPT ![HashIndex[l.name]] =
                       Append(Counted(hash[HashIndex[l.name]], l.name), e)]
  BY InstallChain
<1>2. HashIndex[n] \in Slots /\ HashIndex[l.name] \in Slots
  BY SymAssumption DEF Slots
<1>3. ch \in Seq(Entry)
  BY <1>2 DEF SymTypeOK
<1>4. Places(n) = {i \in DOMAIN ch : ch[i].name = n}
  BY DEF Places
<1>5. Places(n)' = {i \in DOMAIN cp : cp[i].name = n}
  BY DEF Places
<1>6. CASE HashIndex[n] # HashIndex[l.name]
  <2>1. cp = ch
    BY <1>1, <1>2, <1>6 DEF SymTypeOK
  <2>2. n # l.name
    BY <1>6
  <2> QED BY <2>1, <2>2, <1>4, <1>5
<1>7. CASE HashIndex[n] = HashIndex[l.name]
  <2> DEFINE grown == Counted(ch, l.name)
  <2>1. cp = Append(grown, e)
    BY <1>1, <1>2, <1>7 DEF SymTypeOK
  <2>2. /\ grown \in Seq(Entry) /\ DOMAIN grown = DOMAIN ch /\ Len(grown) = Len(ch)
        /\ \A i \in DOMAIN ch : grown[i].name = ch[i].name /\ grown[i].value = ch[i].value
    BY <1>3, CountedKeeps
  <2> HIDE DEF grown
  <2> DEFINE newest == Len(grown) + 1
  <2>3. /\ DOMAIN cp = DOMAIN ch \cup {newest}
        /\ \A i \in DOMAIN ch : cp[i] = grown[i] /\ i \in Nat /\ i < newest
        /\ cp[newest] = e
        /\ newest \in Nat /\ newest \notin DOMAIN ch
    BY <2>1, <2>2, Appended
  <2>4. \A i \in DOMAIN ch : cp[i].name = ch[i].name /\ cp[i].value = ch[i].value
    BY <2>2, <2>3
  <2>5. Places(n)' = Places(n) \cup (IF n = l.name THEN {newest} ELSE {})
    <3>1. cp[newest].name = l.name
      BY <1>1, <2>3
    <3>2. \A i \in DOMAIN cp :
            cp[i].name = n <=> \/ i \in DOMAIN ch /\ ch[i].name = n
                               \/ i = newest /\ n = l.name
      BY <2>3, <2>4, <3>1
    <3> HIDE DEF ch, cp, newest
    <3> QED BY <1>4, <1>5, <2>3, <3>2
  <2>6. Places(n) \subseteq DOMAIN ch /\ DOMAIN ch \subseteq Nat
    BY <1>4, <2>3
  <2>7. CASE Places(n) # {}
    <3>1. Places(n)' # {} /\ Places(n)' \subseteq Nat /\ Places(n) \subseteq Places(n)'
      BY <2>3, <2>5, <2>6, <2>7
    <3>2. \A r \in Places(n)' \ Places(n) : \A i \in Places(n) : i < r
      BY <2>3, <2>5, <2>6
    <3>3. First(Places(n)') = First(Places(n))
      BY <2>6, <2>7, <3>1, <3>2, FirstStays
    <3>4. First(Places(n)) \in DOMAIN ch
      BY <2>6, <2>7, FirstIsLeast
    <3> QED BY <2>4, <2>7, <3>1, <3>3, <3>4
  <2>8. CASE Places(n) = {} /\ n = l.name
    <3>1. Places(n)' = {newest}
      BY <2>5, <2>8
    <3>2. First(Places(n)') = newest
      BY <3>1, <2>3, FirstIsLeast, Zenon
    <3> QED BY <1>1, <2>3, <2>8, <3>1, <3>2
  <2>9. CASE Places(n) = {} /\ n # l.name
    BY <2>5, <2>9
  <2> QED BY <2>7, <2>8, <2>9
<1> QED BY <1>6, <1>7

\* What the look-ups return, in terms of the chains.
LEMMA Lookup ==
    ASSUME NEW n
    PROVE  /\ kernel_symbol_exists(n) <=> Places(n) # {}
           /\ Places(n) # {} => symbol_value(n) = hash[HashIndex[n]][First(Places(n))].value
           /\ Places(n) = {} => symbol_value(n) = 0
  BY DEF kernel_symbol_exists, symbol_value, symname_hash_search

\* An address in a chain is one of Values.
LEMMA LookupType ==
    ASSUME SymTypeOK, NEW n \in Needed
    PROVE  /\ Places(n) # {} => symbol_value(n) \in Values
           /\ symbol_value(n) \in Nat
<1>1. CASE Places(n) # {}
  <2>1. hash[HashIndex[n]] \in Seq(Entry)
    BY SymAssumption DEF SymTypeOK, Slots
  <2>2. Places(n) \subseteq DOMAIN hash[HashIndex[n]] /\ DOMAIN hash[HashIndex[n]] \subseteq Nat
    BY <2>1 DEF Places
  <2>3. First(Places(n)) \in DOMAIN hash[HashIndex[n]]
    BY <1>1, <2>2, FirstIsLeast
  <2>4. hash[HashIndex[n]][First(Places(n))] \in Entry
    BY <2>1, <2>3, ElementOfSeq
  <2>5. hash[HashIndex[n]][First(Places(n))].value \in Values
    BY <2>4 DEF Entry
  <2> QED BY <1>1, <2>5, Lookup, SymAssumption, Zenon
<1>2. CASE Places(n) = {}
  BY <1>2, Lookup
<1> QED BY <1>1, <1>2

\* The type invariant is inductive.
LEMMA TypeStep ==
    ASSUME SymTypeOK, [SymNext]_symVars
    PROVE  SymTypeOK'
<1>1. CASE OpenMap
  BY <1>1 DEF SymTypeOK, OpenMap
<1>2. CASE ReadLine
  <2>1. PICK l \in Line :
          /\ lines' = Append(lines, l)
          /\ IF symbol_needed(l.name) THEN symname_hash_install(l) ELSE UNCHANGED hash
    BY <1>2 DEF ReadLine
  <2>2. lines' \in Seq(Line)
    BY <2>1 DEF SymTypeOK
  <2>3. hash' \in [Slots -> Seq(Entry)]
    <3>1. CASE symbol_needed(l.name)
      BY <2>1, <3>1, InstallChain DEF symbol_needed
    <3>2. CASE ~ symbol_needed(l.name)
      BY <2>1, <3>2 DEF SymTypeOK
    <3> QED BY <3>1, <3>2
  <2> QED BY <1>2, <2>2, <2>3 DEF SymTypeOK, ReadLine
<1>3. CASE EndOfMap
  BY <1>3 DEF SymTypeOK, EndOfMap
<1>4. CASE symtab_init
  <2>1. /\ symbol_value(AsmExc) \in Nat /\ symbol_value(DivideError) \in Nat
        /\ symbol_value(IdtTable) \in Nat
    BY LookupType, SymAssumption
  <2>2. symbol_value(IF kernel_symbol_exists(AsmExc) THEN AsmExc ELSE DivideError) \in Nat
    BY <2>1
  <2> QED BY <1>4, <2>1, <2>2 DEF SymTypeOK, symtab_init
<1>5. CASE Lookups
  BY <1>5 DEF SymTypeOK, Lookups, symVars
<1>6. CASE UNCHANGED symVars
  BY <1>6 DEF SymTypeOK, symVars
<1> QED BY <1>1, <1>2, <1>3, <1>4, <1>5, <1>6 DEF SymNext

\* Every variable of the symbol table keeps its type.
THEOREM SymTypeCorrect == SymSpec => []SymTypeOK
<1>1. SymInit => SymTypeOK
  <2>1. SUFFICES ASSUME SymInit PROVE SymTypeOK
    OBVIOUS
  <2>2. hash \in [Slots -> Seq(Entry)]
    BY <2>1 DEF SymInit
  <2> QED BY <2>1, <2>2 DEF SymInit, SymTypeOK
<1>2. SymTypeOK /\ [SymNext]_symVars => SymTypeOK'
  BY TypeStep
<1> QED BY <1>1, <1>2, PTL DEF SymSpec

\* Only a line with a needed name changes the chains.
LEMMA HashSteps ==
    ASSUME [SymNext]_symVars
    PROVE  \/ hash' = hash /\ lines' = lines
           \/ \E l \in Line :
                /\ lines' = Append(lines, l)
                /\ IF l.name \in Needed THEN symname_hash_install(l) ELSE hash' = hash
  BY DEF SymNext, symVars, OpenMap, ReadLine, EndOfMap, symtab_init, Lookups, symbol_needed

\* FirstLineWins in terms of the chains.
Faithful ==
    \A n \in Needed :
        /\ Places(n) = {} <=> Mentions(n) = {}
        /\ Places(n) # {} => hash[HashIndex[n]][First(Places(n))].value
                              = lines[First(Mentions(n))].value

\* The first mention of a name is not changed by a further line.
LEMMA MentionsStep ==
    ASSUME SymTypeOK, NEW l \in Line, lines' = Append(lines, l), NEW n \in Needed
    PROVE  /\ Mentions(n) # {} =>
                /\ Mentions(n)' # {}
                /\ lines'[First(Mentions(n)')].value = lines[First(Mentions(n))].value
           /\ Mentions(n) = {} /\ n # l.name => Mentions(n)' = {}
           /\ Mentions(n) = {} /\ n = l.name =>
                /\ Mentions(n)' # {}
                /\ lines'[First(Mentions(n)')].value = l.value
<1> DEFINE newest == Len(lines) + 1
<1>1. /\ DOMAIN lines' = DOMAIN lines \cup {newest}
      /\ \A i \in DOMAIN lines : lines'[i] = lines[i] /\ i \in Nat /\ i < newest
      /\ lines'[newest] = l
      /\ newest \in Nat /\ newest \notin DOMAIN lines
  BY Appended DEF SymTypeOK
<1>2. Mentions(n)' = Mentions(n) \cup (IF n = l.name THEN {newest} ELSE {})
  BY <1>1 DEF Mentions
<1>3. Mentions(n) \subseteq DOMAIN lines /\ DOMAIN lines \subseteq Nat
  BY <1>1 DEF Mentions
<1>4. CASE Mentions(n) # {}
  <2>1. /\ Mentions(n)' # {} /\ Mentions(n)' \subseteq Nat
        /\ Mentions(n) \subseteq Mentions(n)'
    BY <1>1, <1>2, <1>3, <1>4
  <2>2. \A r \in Mentions(n)' \ Mentions(n) : \A i \in Mentions(n) : i < r
    BY <1>1, <1>2, <1>3
  <2>3. First(Mentions(n)') = First(Mentions(n))
    BY <1>3, <1>4, <2>1, <2>2, FirstStays
  <2>4. First(Mentions(n)) \in DOMAIN lines
    BY <1>3, <1>4, FirstIsLeast
  <2> QED BY <1>1, <1>4, <2>1, <2>3, <2>4
<1>5. CASE Mentions(n) = {} /\ n = l.name
  <2>1. Mentions(n)' = {newest}
    BY <1>2, <1>5
  <2>2. First(Mentions(n)') = newest
    BY <2>1, <1>1, FirstIsLeast
  <2> QED BY <1>1, <1>5, <2>1, <2>2
<1>6. CASE Mentions(n) = {} /\ n # l.name
  BY <1>2, <1>6
<1> QED BY <1>4, <1>5, <1>6, Zenon

\* A line keeps the chains faithful to the file.
LEMMA FaithfulStep ==
    ASSUME SymTypeOK, Faithful, [SymNext]_symVars
    PROVE  Faithful'
<1>1. CASE hash' = hash /\ lines' = lines
  <2>1. \A n : Places(n)' = Places(n) /\ Mentions(n)' = Mentions(n)
    BY <1>1 DEF Places, Mentions
  <2>2. \A n : First(Places(n))' = First(Places(n)) /\ First(Mentions(n))' = First(Mentions(n))
    BY <2>1
  <2> QED BY <1>1, <2>1, <2>2 DEF Faithful
<1>2. ASSUME NEW l \in Line,
             lines' = Append(lines, l),
             IF l.name \in Needed THEN symname_hash_install(l) ELSE hash' = hash,
             NEW n \in Needed
      PROVE  /\ Places(n)' = {} <=> Mentions(n)' = {}
             /\ Places(n)' # {} => hash'[HashIndex[n]][First(Places(n)')].value
                                    = lines'[First(Mentions(n)')].value
  <2>1. /\ Places(n) = {} <=> Mentions(n) = {}
        /\ Places(n) # {} => hash[HashIndex[n]][First(Places(n))].value
                              = lines[First(Mentions(n))].value
    BY DEF Faithful
  <2>2. CASE l.name \in Needed
    BY <1>2, <2>1, <2>2, MentionsStep, InstallSearch, ZenonT(30)
  <2>3. CASE l.name \notin Needed
    <3>1. Places(n)' = Places(n) /\ hash' = hash /\ n # l.name
      BY <1>2, <2>3 DEF Places
    <3> QED BY <1>2, <2>1, <3>1, MentionsStep, Zenon
  <2> QED BY <2>2, <2>3
<1> QED BY <1>1, <1>2, HashSteps DEF Faithful

\* Every needed name resolves to the address on its first line of System.map,
\* for every hash function and every file.
THEOREM FirstWins == SymSpec => []FirstLineWins
<1>1. SymInit => Faithful
  <2> SUFFICES ASSUME SymInit, NEW n \in Needed
               PROVE  Places(n) = {} /\ Mentions(n) = {}
    BY DEF Faithful
  <2>1. hash[HashIndex[n]] = <<>>
    BY SymAssumption DEF SymInit, Slots
  <2> QED BY <2>1 DEF SymInit, Places, Mentions
<1>2. SymTypeOK /\ Faithful /\ [SymNext]_symVars => Faithful'
  BY FaithfulStep
<1>3. Faithful => FirstLineWins
  BY Lookup DEF Faithful, FirstLineWins
<1> QED BY <1>1, <1>2, <1>3, SymTypeCorrect, PTL DEF SymSpec

\* The table refines the abstract map: the first line with a needed name is a
\* Resolve step, every other step leaves the map alone.
THEOREM Refinement == SymSpec => ImplementsSymbolMap
<1>1. SymInit => Abstract!Init
  <2> SUFFICES ASSUME SymInit PROVE SymMap = [n \in {} |-> 0]
    BY DEF Abstract!Init
  <2>1. ASSUME NEW n \in Needed PROVE ~ kernel_symbol_exists(n)
    <3>1. hash[HashIndex[n]] = <<>>
      BY SymAssumption DEF SymInit, Slots
    <3>2. Places(n) = {}
      BY <3>1 DEF Places
    <3> QED BY <3>2, Lookup
  <2>2. {x \in Needed : kernel_symbol_exists(x)} = {}
    BY <2>1
  <2> QED BY <2>2 DEF SymMap
<1>2. SymTypeOK /\ [SymNext]_symVars => [Abstract!Next]_SymMap
  <2> SUFFICES ASSUME SymTypeOK, [SymNext]_symVars
               PROVE  Abstract!Next \/ SymMap' = SymMap
    OBVIOUS
  <2> DEFINE D == {x \in Needed : Places(x) # {}}
             val(x) == hash[HashIndex[x]][First(Places(x))].value
  <2>1. SymMap = [x \in D |-> val(x)]
    BY Lookup DEF SymMap
  <2>2. SymMap' = [x \in D' |-> val(x)']
    <3>1. \A x : /\ kernel_symbol_exists(x)' <=> Places(x)' # {}
                 /\ Places(x)' # {} => symbol_value(x)' = val(x)'
      BY DEF kernel_symbol_exists, symbol_value, symname_hash_search
    <3> QED BY <3>1 DEF SymMap
  <2>3. CASE hash' = hash
    <3>1. \A x : Places(x)' = Places(x)
      BY <2>3 DEF Places
    <3> QED BY <2>1, <2>2, <2>3, <3>1
  <2>4. ASSUME NEW l \in Line, l.name \in Needed, symname_hash_install(l)
        PROVE  Abstract!Next \/ SymMap' = SymMap
    <3>1. \A x \in Needed :
            /\ Places(x) # {} => Places(x)' # {} /\ val(x)' = val(x)
            /\ Places(x) = {} /\ x # l.name => Places(x)' = {}
            /\ Places(x) = {} /\ x = l.name => Places(x)' # {} /\ val(x)' = l.value
      BY <2>4, InstallSearch
    <3> HIDE DEF val
    <3>2. CASE Places(l.name) # {}
      <4>1. D' = D /\ \A x \in D : val(x)' = val(x)
        BY <3>1, <3>2
      <4> QED BY <2>1, <2>2, <4>1
    <3>3. CASE Places(l.name) = {}
      <4>1. D' = D \cup {l.name} /\ l.name \notin D
        BY <2>4, <3>1, <3>3
      <4>2. \A x \in D : val(x)' = val(x)
        BY <3>1
      <4>3. val(l.name)' = l.value
        BY <2>4, <3>1, <3>3
      <4>4. l.value \in Values
        BY DEF Line
      <4>5. DOMAIN SymMap = D
        BY <2>1
      <4>6. SymMap' = [x \in D \cup {l.name} |->
                         IF x = l.name THEN l.value ELSE SymMap[x]]
        BY <2>1, <2>2, <4>1, <4>2, <4>3
      <4>7. Abstract!Resolve(l.name, l.value)
        BY <4>1, <4>5, <4>6 DEF Abstract!Resolve
      <4> QED BY <2>4, <4>4, <4>7 DEF Abstract!Next
    <3> QED BY <3>2, <3>3
  <2> QED BY <2>3, <2>4, HashSteps
<1> QED BY <1>1, <1>2, SymTypeCorrect, PTL DEF SymSpec, ImplementsSymbolMap, Abstract!Spec

-----------------------------------------------------------------------------
(***************************************************************************)
(* Where the guest's kernel is: the invariant.                             *)
(***************************************************************************)

\* What is known at each place: CR3 and IDTR, then the table to read, the page of
\* the descriptor table, its address and first gate, and the offsets.
Found ==
    /\ pc # "regs" => regs.idtr = g.idtr /\ PgdPage(regs.cr3) = g.page["pgd"]
    /\ pc \in {"pud", "pmd", "ptbl"} => entry = g.page[pc]
    /\ pc = "gate" => entry = Data
    /\ pc = "calc" => idtr_paddr = Phys(g, IdtLink + g.kaslr) /\ vec0 = DivLink + g.kaslr
    /\ pc \in {"post", "ready"} => kaslr_offset = g.kaslr /\ phys_base = g.base
    /\ pc = "ready" => page_offset = g.offset
    /\ pc # "ready" => page_offset = DefaultOffset

IInv ==
    /\ TypeOK /\ entry \in Pages /\ failed \in BOOLEAN /\ (pc = "regs" => ~ failed)
    /\ TagsAreTrue
    /\ ~ failed /\ Supported => Found

-----------------------------------------------------------------------------
(***************************************************************************)
(* Arithmetic.                                                             *)
(***************************************************************************)

LEMMA Product == \A a, b \in Nat \ {0} : a * b \in Nat \ {0}
  OBVIOUS

LEMMA ModRange == \A x \in Int, n \in Nat \ {0} : x % n \in 0..(n - 1)
  OBVIOUS

LEMMA ModSmall == \A n \in Nat \ {0} : \A x \in 0..(n - 1) : x % n = x
  OBVIOUS

LEMMA DivMod == \A x \in Int, n \in Nat \ {0} : x \div n \in Int /\ x = (x \div n) * n + (x % n)
  OBVIOUS

\* What calc_kaslr_offset gets back from the address of the descriptor table.
LEMMA ModCancel ==
  ASSUME NEW n \in Nat \ {0}, NEW x \in Int, NEW b \in 0..(n - 1)
  PROVE  (((x + b) % n) - x) % n = b
<1>1. PICK y \in Int : y = x + b  OBVIOUS
<1>2. PICK q \in Int : q = y \div n  BY DivMod
<1>3. PICK r \in Int : r = y % n  BY ModRange
<1>4. y = q * n + r  BY <1>2, <1>3, DivMod
<1>5. r - x = b - q * n  BY <1>1, <1>4
<1>6. (b - q * n) % n = b  OBVIOUS
<1> QED  BY <1>1, <1>3, <1>5, <1>6

\* The arithmetic of get_symbol_data's relocation.
LEMMA Relocated ==
  ASSUME NEW n \in Nat \ {0}, NEW k \in 1..(n - 1), NEW x \in 0..(n - 1 - k)
  PROVE  (x - ((0 - k) % n)) % n = x + k
<1>1. (0 - k) % n = n - k  OBVIOUS
<1>2. (x + k - n) % n = x + k  OBVIOUS
<1> QED  BY <1>1, <1>2

LEMMA Width ==
  /\ W \in Nat \ {0} /\ P \in Nat \ {0} /\ B \in Nat \ {0}
  /\ W \div P \in Nat \ {0} /\ W = (W \div P) * P
<1>1. P \in Nat \ {0} /\ B \in Nat \ {0}  BY AddrAssumption
<1>2. PICK q \in Nat \ {0} : q = B * B * B * B  BY <1>1, Product
<1>3. W = P * q  BY <1>1, <1>2 DEF W
<1>4. P * q \in Nat \ {0}  BY <1>1, <1>2, Product
<1>5. (P * q) \div P = q  BY <1>1, <1>2
<1> QED  BY <1>1, <1>2, <1>3, <1>4, <1>5

LEMMA ReachPositive == ASSUME NEW l PROVE Reach(l) \in Nat \ {0}
<1>1. P \in Nat \ {0} /\ B \in Nat \ {0}  BY Width
<1>2. P * B \in Nat \ {0}  BY <1>1, Product
<1>3. P * B * B \in Nat \ {0}  BY <1>1, <1>2, Product
<1>4. P * B * B * B \in Nat \ {0}  BY <1>1, <1>3, Product
<1> QED  BY <1>1, <1>2, <1>3, <1>4 DEF Reach

LEMMA IndexRange == ASSUME NEW l, NEW v \in Int PROVE Index(l, v) \in 0..(B - 1)
<1>1. PICK r \in Nat \ {0} : r = Reach(l)  BY ReachPositive
<1>2. PICK d \in Int : d = v \div r  BY <1>1, DivMod
<1>3. d % B \in 0..(B - 1)  BY <1>2, Width, ModRange
<1> QED  BY <1>1, <1>2, <1>3 DEF Index

\* An address lies in one of the pages; page and offset give it back.
LEMMA PageOf ==
  ASSUME NEW a \in 0..(W - 1) PROVE a \div P \in Pages /\ (a \div P) * P + (a % P) = a
<1>1. PICK w, p, q \in Nat \ {0} : w = W /\ p = P /\ q = W \div P /\ w = q * p  BY Width
<1>2. PICK d \in Int : d = a \div p  BY <1>1, DivMod
<1>3. a = d * p + (a % p) /\ a % p \in 0..(p - 1)  BY <1>1, <1>2, DivMod, ModRange
<1>4. d \in 0..(q - 1)
  <2> a \in 0..(q * p - 1)  BY <1>1
  <2>1. ~ (d >= q)
    <3> SUFFICES ASSUME d >= q PROVE FALSE  OBVIOUS
    <3>1. d * p >= q * p  OBVIOUS
    <3> QED  BY <3>1, <1>3
  <2>2. ~ (d < 0)
    <3> SUFFICES ASSUME d <= -1 PROVE FALSE  OBVIOUS
    <3>1. d * p <= (-1) * p  OBVIOUS
    <3> QED  BY <3>1, <1>3
  <2> QED  BY <2>1, <2>2
<1> QED  BY <1>1, <1>2, <1>3, <1>4 DEF Pages

\* An entry and an offset make an address.
LEMMA InPage ==
  ASSUME NEW e \in Pages, NEW o \in 0..(P - 1) PROVE e * P + o \in 0..(W - 1)
<1>1. PICK w, p, q \in Nat \ {0} : w = W /\ p = P /\ q = W \div P /\ w = q * p  BY Width
<1>2. e \in Nat /\ e <= q - 1  BY <1>1 DEF Pages
<1>3. e * p <= (q - 1) * p  BY <1>2
<1>4. (q - 1) * p = w - p  BY <1>1
<1>5. e * p \in Nat  BY <1>2
<1> QED  BY <1>1, <1>3, <1>4, <1>5

LEMMA PagesAreAddresses == Pages \subseteq 0..(W - 1)
<1>1. PICK w, p, q \in Nat \ {0} : w = W /\ p = P /\ q = W \div P /\ w = q * p  BY Width
<1>2. q <= q * p  BY <1>1
<1> QED  BY <1>1, <1>2 DEF Pages

-----------------------------------------------------------------------------
(***************************************************************************)
(* The guest.                                                              *)
(***************************************************************************)

LEMMA GuestFacts ==
  ASSUME NEW x \in Guests
  PROVE  /\ x.kaslr \in 0..(W - 1) /\ x.base \in 0..(W - 1) /\ x.idtr \in 0..(W - 1)
         /\ x.offset \in 0..(W - 1) /\ x.offset < Start /\ (~ x.hasOffset => x.offset = DefaultOffset)
         /\ x.page \in [Levels -> Pages \ {0}]
         /\ \A l, h \in Levels : x.page[l] = x.page[h] => l = h
         /\ \A s \in {IdtLink, DivLink, OffsetLink} : s + x.kaslr < W
         /\ x.idtr % P = Phys(x, IdtLink + x.kaslr) % P
<1>1. x \in Guest  BY AddrAssumption
<1> QED  BY <1>1, AddrAssumption DEF Guest

LEMMA Links ==
  /\ Start \in 0..(W - 1) /\ DefaultOffset \in 0..(Start - 1) /\ DefaultOffset \in 0..(W - 1)
  /\ IdtLink \in Start..(W - 1) /\ DivLink \in Start..(W - 1) /\ OffsetLink \in Start..(W - 1)
  /\ FileRegs \in [cr3 : Pages, idtr : 0..(W - 1)] /\ Junk \in Pages /\ 0 \in Pages
<1>1. 0 \in Pages  BY Width DEF Pages
<1> QED  BY <1>1, Width, AddrAssumption

LEMMA PhysRange == ASSUME NEW x \in Guests, NEW v \in Int PROVE Phys(x, v) \in 0..(W - 1)
<1>1. PICK w \in Nat \ {0} : w = W  BY Width
<1>2. PICK y \in Int : y = v - Start + x.base  BY <1>1, GuestFacts, Links
<1>3. y % w \in 0..(w - 1)  BY ModRange
<1> QED  BY <1>1, <1>2, <1>3 DEF Phys

\* The descriptor table lies where its page and the low bits of IDTR say.
LEMMA DataPage ==
  ASSUME g \in Guests
  PROVE  Data \in Pages /\ Data * P + (g.idtr % P) = Phys(g, IdtLink + g.kaslr)
<1>1. IdtLink + g.kaslr \in Int  BY GuestFacts, Links, Width
<1>2. PICK a \in 0..(W - 1) : a = Phys(g, IdtLink + g.kaslr)  BY <1>1, PhysRange
<1>3. g.idtr % P = a % P  BY <1>2, GuestFacts
<1> QED  BY <1>2, <1>3, PageOf DEF Data

LEMMA TargetPage == ASSUME g \in Guests, NEW l \in Levels PROVE Target(l) \in Pages
<1>1. CASE l = "ptbl" \/ (l = "pmd" /\ g.huge)  BY <1>1, DataPage DEF Target
<1>2. CASE ~ (l = "ptbl" \/ (l = "pmd" /\ g.huge))
  <2>1. Below(l) \in Levels  BY <1>2 DEF Below, Levels
  <2> QED  BY <1>2, <2>1, GuestFacts DEF Target
<1> QED  BY <1>1, <1>2

LEMMA TableType == ASSUME g \in Guests, NEW p PROVE Table(p) \in [0..(B - 1) -> Pages]
<1>1. CASE \E l \in Levels : p = g.page[l]
  <2>1. PICK l \in Levels : l = CHOOSE h \in Levels : p = g.page[h]  BY <1>1
  <2>2. Table(p) = [i \in 0..(B - 1) |-> IF i = Index(l, g.idtr) THEN Target(l) ELSE 0]
    BY <1>1, <2>1 DEF Table
  <2> QED  BY <2>2, TargetPage, Links
<1>2. CASE ~ \E l \in Levels : p = g.page[l]  BY <1>2, Links DEF Table
<1> QED  BY <1>1, <1>2

\* A walk that looks up IDTR in a table of the guest finds what is below.
LEMMA TableAt ==
  ASSUME g \in Guests, NEW l \in Levels
  PROVE  Table(g.page[l])[Index(l, g.idtr)] = Target(l)
<1>1. PICK m \in Levels : m = CHOOSE h \in Levels : g.page[l] = g.page[h]  OBVIOUS
<1>2. g.page[l] = g.page[m]  BY <1>1
<1>3. m = l  BY <1>2, GuestFacts
<1>4. Table(g.page[l]) = [i \in 0..(B - 1) |-> IF i = Index(l, g.idtr) THEN Target(l) ELSE 0]
  BY <1>1, <1>3, Zenon DEF Table
<1>5. Index(l, g.idtr) \in 0..(B - 1)  BY GuestFacts, Width, IndexRange
<1> QED  BY <1>4, <1>5

\* The guest's tables stay as they are while the program runs.
LEMMA SameGuest ==
  ASSUME g' = g
  PROVE  /\ \A p : Table(p)' = Table(p)
         /\ Supported' = Supported /\ Data' = Data
  BY DEF Table, Target, Data, Phys, Index, Reach, Below, Supported

-----------------------------------------------------------------------------
(***************************************************************************)
(* Translation with the right offsets.                                     *)
(***************************************************************************)

LEMMA SymbolAt ==
  ASSUME g \in Guests, kaslr_offset = g.kaslr, phys_base = g.base,
         NEW link \in Start..(W - 1 - g.kaslr)
  PROVE  get_symbol_data(link) = Phys(g, link + g.kaslr)
<1>1. PICK w \in Nat \ {0} : w = W  BY Width
<1>2. PICK k \in 0..(w - 1) : k = g.kaslr  BY <1>1, GuestFacts
<1>3. Start \in 0..(w - 1) /\ link \in 0..(w - 1 - k) /\ link >= Start  BY <1>1, <1>2, Links
<1>4. get_symbol_data(link) = readmem(link + k)
  <2>1. CASE k = 0
    <3>1. link + k = link  BY <1>3, <2>1
    <3> QED  BY <1>2, <2>1, <3>1 DEF get_symbol_data
  <2>2. CASE k # 0
    <3> k \in 1..(w - 1)  BY <2>2
    <3>1. (link - ((0 - k) % w)) % w = link + k  BY <1>3, Relocated, Zenon
    <3> QED  BY <1>1, <1>2, <2>2, <3>1 DEF get_symbol_data, relocate
  <2> QED  BY <2>1, <2>2
<1>5. link + k >= Start  BY <1>3
<1> QED  BY <1>2, <1>4, <1>5 DEF readmem, Phys

LEMMA PointerAt ==
  ASSUME g \in Guests, page_offset = g.offset, NEW p \in 0..(Start - 1 - g.offset)
  PROVE  readmem(g.offset + p) = p
<1>1. PICK w \in Nat \ {0} : w = W  BY Width
<1>2. PICK o \in 0..(w - 1) : o = g.offset  BY <1>1, GuestFacts
<1>3. Start \in 0..(w - 1) /\ p \in 0..(w - 1) /\ ~ (o + p >= Start)  BY <1>1, <1>2, Links
<1>4. (o + p) - o = p  BY <1>2, <1>3
<1>5. p % w = p  BY <1>3, ModSmall
<1> QED  BY <1>1, <1>2, <1>3, <1>4, <1>5 DEF readmem

-----------------------------------------------------------------------------
(***************************************************************************)
(* One lemma per action.                                                   *)
(***************************************************************************)

LEMMA Initially == Init => IInv
<1> SUFFICES ASSUME Init PROVE IInv  OBVIOUS
<1>1. 0 \in 0..(W - 1)  BY Width
<1>2. tab \in [Levels -> [0..(B - 1) -> Pages]]  BY Links DEF Init, Fresh
<1>3. TypeOK  BY <1>1, <1>2, Links DEF Init, TypeOK
<1>4. TagsAreTrue  BY DEF Init, TagsAreTrue
<1>5. Found  BY DEF Init, Found
<1> QED  BY <1>3, <1>4, <1>5, Links, Zenon DEF IInv, Init

\* CR3, of either mode, leads to the table that maps the kernel.
LEMMA ShownRegisters ==
  ASSUME g \in Guests
  PROVE  /\ Shown \in [cr3 : Nat, idtr : 0..(W - 1)]
         /\ Supported => PgdPage(Shown.cr3) = g.page["pgd"]
<1>1. PICK p \in Nat : p = g.page["pgd"]
  <2>1. PICK q \in Nat \ {0} : q = W \div P  BY Width
  <2> QED  BY <2>1, GuestFacts DEF Levels, Pages
<1>2. Shown \in [cr3 : Nat, idtr : 0..(W - 1)]  BY <1>1, GuestFacts DEF Shown
<1>3. ASSUME p % 2 = 0 PROVE (p + 1) - ((p + 1) % 2) = p /\ p - (p % 2) = p  BY <1>3
<1> QED  BY <1>1, <1>2, <1>3 DEF Shown, PgdPage, Supported

LEMMA RegistersStep == ASSUME IInv, get_cr3_idtr PROVE IInv'
<1> USE DEF IInv
<1>1. PICK shown \in SUBSET {"cr3", "idtr"} :
        regs' = libvirt_get_registers(shown) /\ failed' = (shown # {"cr3", "idtr"})
  BY DEF get_cr3_idtr
<1>2. g \in Guests /\ g' = g /\ tab' = tab /\ last' = last /\ entry' = entry
  BY DEF get_cr3_idtr, TypeOK
<1>3. regs' \in [cr3 : Nat, idtr : 0..(W - 1)]
  <2>1. 0 \in 0..(W - 1)  BY Width
  <2> QED  BY <1>1, <1>2, <2>1, ShownRegisters DEF libvirt_get_registers
<1>4. TypeOK'  BY <1>2, <1>3 DEF TypeOK, get_cr3_idtr
<1>5. TagsAreTrue'
  BY <1>2, SameGuest DEF TagsAreTrue, get_cr3_idtr
<1>6. ASSUME ~ failed', Supported' PROVE Found'
  <2>1. shown = {"cr3", "idtr"} /\ Supported  BY <1>1, <1>2, <1>6, SameGuest, Zenon
  <2>2. regs'.cr3 = Shown.cr3 /\ regs'.idtr = Shown.idtr
    BY <1>1, <2>1 DEF libvirt_get_registers
  <2>3. page_offset = DefaultOffset  BY <2>1 DEF get_cr3_idtr, Found
  <2> QED  BY <1>2, <2>1, <2>2, <2>3, ShownRegisters DEF Found, get_cr3_idtr, Shown, PgdPage
<1> QED  BY <1>1, <1>2, <1>4, <1>5, <1>6 DEF get_cr3_idtr

LEMMA FileRegistersStep == ASSUME IInv, file_get_registers PROVE IInv'
<1>1. FileRegs \in [cr3 : Nat, idtr : 0..(W - 1)]
  <2>1. PICK q \in Nat \ {0} : q = W \div P  BY Width
  <2>2. Pages \subseteq Nat  BY <2>1 DEF Pages
  <2> QED  BY <2>2, Links, Zenon
<1>2. TypeOK'  BY <1>1 DEF IInv, TypeOK, file_get_registers
<1> QED  BY <1>2 DEF IInv, TagsAreTrue, file_get_registers

\* A table that was read, or that its tag vouched for, is the guest's.
LEMMA TableStep ==
  ASSUME IInv, NEW l \in Levels, NEW p \in Nat, Read(l, p) \/ Fill(l, p),
         last' = [last EXCEPT ![l] = p], g' = g
  PROVE  /\ tab' \in [Levels -> [0..(B - 1) -> Pages]] /\ last' \in [Levels -> Nat]
         /\ failed' \in BOOLEAN /\ TagsAreTrue'
         /\ ~ failed' => ~ failed /\ (p # 0 => tab'[l] = Table(p))
<1> USE DEF IInv
<1>1. tab \in [Levels -> [0..(B - 1) -> Pages]] /\ last \in [Levels -> Nat] /\ g \in Guests
  BY DEF TypeOK
<1>2. last' \in [Levels -> Nat] /\ last'[l] = p /\ \A h \in Levels \ {l} : last'[h] = last[h]
  BY <1>1
<1>3. CASE tab' = [tab EXCEPT ![l] = Table(p)] /\ failed' = failed
  <2>1. tab' \in [Levels -> [0..(B - 1) -> Pages]]  BY <1>1, <1>3, TableType
  <2>2. tab'[l] = Table(p) /\ \A h \in Levels \ {l} : tab'[h] = tab[h]  BY <1>1, <1>3
  <2>3. TagsAreTrue'  BY <1>2, <1>3, <2>2, SameGuest DEF TagsAreTrue
  <2> QED  BY <1>2, <1>3, <2>1, <2>2, <2>3
<1>4. CASE tab' = tab /\ failed' = TRUE
  BY <1>1, <1>2, <1>4 DEF TagsAreTrue
<1>5. CASE p = last[l] /\ UNCHANGED <<tab, failed>>
  <2>1. TagsAreTrue'  BY <1>2, <1>5, SameGuest DEF TagsAreTrue
  <2>2. ~ failed' /\ p # 0 => tab'[l] = Table(p)  BY <1>5 DEF TagsAreTrue
  <2> QED  BY <1>1, <1>2, <1>5, <2>1, <2>2
<1> QED  BY <1>3, <1>4, <1>5, Zenon DEF Read, Fill

LEMMA PgdStep == ASSUME IInv, ReadPgd PROVE IInv'
<1> USE DEF IInv
<1>1. PICK p \in Nat : p = PgdPage(regs.cr3)
  <2>1. PICK c \in Nat : c = regs.cr3  BY DEF TypeOK
  <2>2. c - (c % 2) \in Nat  OBVIOUS
  <2> QED  BY <2>1, <2>2 DEF PgdPage
<1>2. /\ Read("pgd", p) /\ last' = [last EXCEPT !["pgd"] = p] /\ g' = g /\ regs' = regs
      /\ entry' = tab'["pgd"][Index("pgd", regs.idtr)]
  BY <1>1 DEF ReadPgd
<1>3. "pgd" \in Levels  BY DEF Levels
<1>4. /\ tab' \in [Levels -> [0..(B - 1) -> Pages]] /\ last' \in [Levels -> Nat]
      /\ failed' \in BOOLEAN /\ TagsAreTrue'
      /\ ~ failed' => ~ failed /\ (p # 0 => tab'["pgd"] = Table(p))
  BY <1>2, <1>3, TableStep, Zenon
<1>5. TypeOK'  BY <1>4 DEF TypeOK, ReadPgd
<1>6. entry' \in Pages
  <2>1. regs.idtr \in Int  BY Width DEF TypeOK
  <2> QED  BY <1>2, <1>3, <1>4, <2>1, IndexRange, Zenon
<1>7. ASSUME ~ failed', Supported' PROVE Found'
  <2>1. Found /\ Supported /\ pc = "pgd"  BY <1>2, <1>4, <1>7, SameGuest, ZenonT(30) DEF ReadPgd
  <2>2. p = g.page["pgd"] /\ regs.idtr = g.idtr  BY <1>1, <2>1 DEF Found
  <2>3. p # 0 /\ g \in Guests  BY <1>3, <2>2, GuestFacts DEF TypeOK
  <2>4. entry' = Target("pgd")  BY <1>2, <1>3, <1>4, <1>7, <2>2, <2>3, TableAt
  <2>5. Target("pgd") = g.page["pud"]  BY DEF Target, Below
  <2> QED  BY <1>2, <2>1, <2>4, <2>5 DEF Found, ReadPgd, PgdPage
<1> QED  BY <1>4, <1>5, <1>6, <1>7 DEF ReadPgd

LEMMA WalkStep == ASSUME IInv, Walk PROVE IInv'
<1> USE DEF IInv
<1>1. pc \in Levels /\ pc \in {"pud", "pmd", "ptbl"} /\ entry \in Nat
  <2>1. PICK q \in Nat \ {0} : q = W \div P  BY Width
  <2> QED  BY <2>1 DEF Walk, Levels, Pages
<1>2. /\ Fill(pc, entry) /\ last' = [last EXCEPT ![pc] = entry] /\ g' = g /\ regs' = regs
      /\ entry' = tab'[pc][Index(pc, regs.idtr)] /\ pc' = Below(pc)
  BY DEF Walk
<1>3. /\ tab' \in [Levels -> [0..(B - 1) -> Pages]] /\ last' \in [Levels -> Nat]
      /\ failed' \in BOOLEAN /\ TagsAreTrue'
      /\ ~ failed' => ~ failed /\ (entry # 0 => tab'[pc] = Table(entry))
  BY <1>1, <1>2, TableStep, Zenon
<1>4. pc' \in {"pmd", "ptbl", "gate"}  BY <1>1, <1>2 DEF Below
<1>5. TypeOK'  BY <1>3, <1>4 DEF TypeOK, Walk
<1>6. entry' \in Pages
  <2>1. regs.idtr \in Int  BY Width DEF TypeOK
  <2> QED  BY <1>1, <1>2, <1>3, <2>1, IndexRange, ZenonT(30)
<1>7. ASSUME ~ failed', Supported' PROVE Found'
  <2>1. Found /\ Supported  BY <1>2, <1>3, <1>7, SameGuest, ZenonT(30)
  <2>2. entry = g.page[pc] /\ regs.idtr = g.idtr  BY <1>1, <2>1 DEF Found
  <2>3. entry # 0 /\ g \in Guests  BY <1>1, <2>2, GuestFacts DEF TypeOK
  <2>4. entry' = Target(pc)  BY <1>1, <1>2, <1>3, <1>7, <2>2, <2>3, TableAt, ZenonT(30)
  <2>5. Target(pc) = IF pc = "ptbl" THEN Data ELSE g.page[pc']
    BY <1>2, <2>1 DEF Target, Supported
  <2>6. pc' = "gate" <=> pc = "ptbl"  BY <1>1, <1>2 DEF Below
  <2> QED  BY <1>1, <1>2, <1>4, <2>1, <2>4, <2>5, <2>6, SameGuest DEF Found, Walk, PgdPage
<1> QED  BY <1>3, <1>4, <1>5, <1>6, <1>7

LEMMA GateStep == ASSUME IInv, get_vec0_addr PROVE IInv'
<1> USE DEF IInv
<1>1. /\ pc = "gate" /\ pc' = "calc" /\ g \in Guests
      /\ UNCHANGED <<g, regs, tab, last, entry, kaslr_offset, phys_base, page_offset>>
  BY DEF get_vec0_addr, TypeOK
<1>2. idtr_paddr' = entry * P + (regs.idtr % P) /\ idtr_paddr' \in 0..(W - 1)
  <2>1. PICK o \in 0..(P - 1) : o = regs.idtr % P
    <3>1. regs.idtr \in Int  BY Width DEF TypeOK
    <3> QED  BY <3>1, Width, ModRange
  <2>2. entry * P + o \in 0..(W - 1)  BY InPage
  <2> QED  BY <2>1, <2>2 DEF get_vec0_addr
<1>3. vec0' \in 0..(W - 1) /\ failed' \in BOOLEAN /\ (~ failed' => ~ failed)
  <2>1. DivLink + g.kaslr \in 0..(W - 1)  BY <1>1, GuestFacts, Links, Width
  <2>2. Junk \in 0..(W - 1)  BY Links, PagesAreAddresses
  <2> QED  BY <2>1, <2>2, Zenon DEF get_vec0_addr, Gate
<1>4. TypeOK'  BY <1>1, <1>2, <1>3 DEF TypeOK
<1>5. TagsAreTrue'  BY <1>1, <1>3, SameGuest DEF TagsAreTrue
<1>6. ASSUME ~ failed', Supported' PROVE Found'
  <2>1. Found /\ Supported  BY <1>1, <1>3, <1>6, SameGuest, Zenon
  <2>2. idtr_paddr' = Phys(g, IdtLink + g.kaslr)  BY <1>1, <1>2, <2>1, DataPage DEF Found
  <2>3. vec0' = DivLink + g.kaslr  BY <1>6, <2>2 DEF get_vec0_addr, Gate
  <2>4. Phys(g, IdtLink + g.kaslr)' = Phys(g, IdtLink + g.kaslr)  BY <1>1 DEF Phys
  <2> QED  BY <1>1, <2>1, <2>2, <2>3, <2>4 DEF Found, PgdPage
<1> QED  BY <1>1, <1>3, <1>4, <1>5, <1>6

LEMMA CalcStep == ASSUME IInv, calc_kaslr_offset PROVE IInv'
<1> USE DEF IInv
<1>1. /\ pc = "calc" /\ pc' = "post" /\ g \in Guests
      /\ UNCHANGED <<g, regs, tab, last, entry, idtr_paddr, vec0, page_offset, failed>>
  BY DEF calc_kaslr_offset, TypeOK
<1>2. PICK w \in Nat \ {0} : w = W  BY Width
<1>3. kaslr_offset' = (vec0 - DivLink) % w /\ kaslr_offset' \in 0..(w - 1)
  <2>1. PICK x \in Int : x = vec0 - DivLink  BY <1>2, Links DEF TypeOK
  <2>2. x % w \in 0..(w - 1)  BY ModRange
  <2> QED  BY <1>2, <2>1, <2>2 DEF calc_kaslr_offset
<1>4. /\ phys_base' = (idtr_paddr - (IdtLink + kaslr_offset' - Start)) % w
      /\ phys_base' \in 0..(w - 1)
  <2>1. PICK x \in Int : x = idtr_paddr - (IdtLink + kaslr_offset' - Start)
    <3>1. idtr_paddr \in Int /\ IdtLink \in Int /\ Start \in Int  BY <1>2, Links DEF TypeOK
    <3> QED  BY <1>3, <3>1
  <2>2. x % w \in 0..(w - 1)  BY ModRange
  <2> QED  BY <1>2, <2>1, <2>2 DEF calc_kaslr_offset
<1>5. TypeOK'  BY <1>1, <1>2, <1>3, <1>4 DEF TypeOK
<1>6. TagsAreTrue'  BY <1>1, SameGuest DEF TagsAreTrue
<1>7. ASSUME ~ failed', Supported' PROVE Found'
  <2>1. Found /\ Supported  BY <1>1, <1>7, SameGuest, Zenon
  <2>2. PICK k, b \in 0..(w - 1) : k = g.kaslr /\ b = g.base  BY <1>1, <1>2, GuestFacts
  <2>3. kaslr_offset' = k
    <3>1. vec0 = DivLink + k /\ DivLink \in Int  BY <1>1, <1>2, <2>1, <2>2, Links DEF Found
    <3>2. vec0 - DivLink = k  BY <3>1
    <3>3. k % w = k  BY ModSmall
    <3> QED  BY <1>3, <3>2, <3>3
  <2>4. phys_base' = b
    <3>1. PICK i \in Int : i = IdtLink + k - Start  BY <1>2, Links
    <3>2. idtr_paddr = (i + b) % w
      <4>1. idtr_paddr = Phys(g, IdtLink + g.kaslr)  BY <1>1, <2>1, Zenon DEF Found
      <4>2. Phys(g, IdtLink + g.kaslr) = (((IdtLink + g.kaslr) - Start) + g.base) % W  BY DEF Phys
      <4>3. ((IdtLink + g.kaslr) - Start) + g.base = i + b  BY <1>2, <2>2, <3>1, Links
      <4> QED  BY <1>2, <4>1, <4>2, <4>3
    <3>3. (((i + b) % w) - i) % w = b  BY ModCancel, Zenon
    <3> QED  BY <1>4, <2>3, <3>1, <3>2, <3>3
  <2> QED  BY <1>1, <2>1, <2>2, <2>3, <2>4, Zenon DEF Found, PgdPage
<1> QED  BY <1>1, <1>5, <1>6, <1>7

LEMMA PostStep == ASSUME IInv, x86_64_post_reloc PROVE IInv'
<1> USE DEF IInv
<1>1. /\ pc = "post" /\ pc' = "ready" /\ g \in Guests
      /\ UNCHANGED <<g, regs, tab, last, entry, idtr_paddr, vec0, kaslr_offset, phys_base>>
      /\ failed' \in BOOLEAN /\ (~ failed' => ~ failed)
  BY Zenon DEF x86_64_post_reloc, TypeOK
<1>2. page_offset' \in 0..(W - 1)
  <2>1. Junk \in 0..(W - 1)  BY Links, PagesAreAddresses
  <2>2. page_offset \in 0..(W - 1)  BY DEF TypeOK
  <2> QED  BY <1>1, <2>1, <2>2, GuestFacts DEF x86_64_post_reloc, PageOffset
<1>3. TypeOK'  BY <1>1, <1>2 DEF TypeOK
<1>4. TagsAreTrue'  BY <1>1, SameGuest DEF TagsAreTrue
<1>5. ASSUME ~ failed', Supported' PROVE Found'
  <2>1. Found /\ Supported  BY <1>1, <1>5, SameGuest, ZenonT(30)
  <2>2. CASE g.hasOffset
    <3>1. OffsetLink \in Start..(W - 1 - g.kaslr)  BY <1>1, GuestFacts, Links, Width
    <3>2. get_symbol_data(OffsetLink) = Phys(g, OffsetLink + g.kaslr)
      BY <1>1, <2>1, <3>1, SymbolAt DEF Found
    <3>3. page_offset' = g.offset  BY <1>5, <2>2, <3>2 DEF x86_64_post_reloc, PageOffset
    <3> QED  BY <1>1, <2>1, <3>3 DEF Found, PgdPage
  <2>3. CASE ~ g.hasOffset
    <3>1. page_offset' = g.offset  BY <1>1, <2>1, <2>3, GuestFacts DEF Found, x86_64_post_reloc
    <3> QED  BY <1>1, <2>1, <3>1 DEF Found, PgdPage
  <2> QED  BY <2>2, <2>3
<1> QED  BY <1>1, <1>3, <1>4, <1>5

LEMMA StutterStep == ASSUME IInv, UNCHANGED vars PROVE IInv'
<1>1. g' = g  BY DEF vars
<1>2. TypeOK' /\ TagsAreTrue'  BY <1>1, SameGuest DEF IInv, vars, TypeOK, TagsAreTrue
<1>3. Found' = Found  BY <1>1, SameGuest DEF vars, Found, PgdPage, Phys
<1> QED  BY <1>1, <1>2, <1>3, SameGuest DEF IInv, vars

LEMMA Inductive == IInv /\ [Next]_vars => IInv'
  BY RegistersStep, FileRegistersStep, PgdStep, WalkStep, GateStep, CalcStep, PostStep,
     StutterStep DEF Next, Translate

LEMMA Invariant == Spec => []IInv
  BY Initially, Inductive, PTL DEF Spec

-----------------------------------------------------------------------------
(***************************************************************************)
(* The theorems.                                                           *)
(***************************************************************************)

\* Whatever is read and whatever fails, addresses and offsets stay in their width,
\* and the entries followed by the walk are pages.
THEOREM TypeCorrect == Spec => []TypeOK
<1>1. IInv => TypeOK  BY DEF IInv
<1> QED  BY Invariant, <1>1, PTL

\* As long as no read failed, a buffer of a page table holds the page its
\* last_*_read tag names.
THEOREM Tags == Spec => []TagsAreTrue
<1>1. IInv => TagsAreTrue  BY DEF IInv
<1> QED  BY Invariant, <1>1, PTL

\* derive_kaslr_offset finds the guest's own offsets: get_symbol_data translates
\* every symbol of System.map as the guest's kernel does.
THEOREM Symbols == Spec => []SymbolsExact
<1>1. IInv => SymbolsExact
  <2> SUFFICES ASSUME IInv, pc = "ready", ~ failed, Supported,
                      NEW link \in Start..(W - 1 - g.kaslr)
               PROVE  get_symbol_data(link) = Phys(g, link + g.kaslr)
    BY DEF SymbolsExact
  <2>1. g \in Guests /\ kaslr_offset = g.kaslr /\ phys_base = g.base
    BY DEF IInv, TypeOK, Found
  <2> QED  BY <2>1, SymbolAt
<1> QED  BY Invariant, <1>1, PTL

\* With page_offset_base, or the default of a kernel without it, readmem
\* translates every pointer into the direct map.
THEOREM DirectMap == Spec => []DirectMapExact
<1>1. IInv => DirectMapExact
  <2> SUFFICES ASSUME IInv, pc = "ready", ~ failed, Supported,
                      NEW p \in 0..(Start - 1 - g.offset)
               PROVE  readmem(g.offset + p) = p
    BY DEF DirectMapExact
  <2>1. g \in Guests /\ page_offset = g.offset  BY DEF IInv, TypeOK, Found
  <2> QED  BY <2>1, PointerAt
<1> QED  BY Invariant, <1>1, PTL

=============================================================================

-------------------------- MODULE PrbLayoutProofs --------------------------
(***************************************************************************)
(* Proofs about PrbLayout, for every set of notes, every layout and every  *)
(* bound of the note's size: the buffers freed at the end are the ones     *)
(* allocated, the end of a value is found wherever the note is cut off,    *)
(* and the table that is parsed is the kernel's own layout or all zeros.   *)
(***************************************************************************)
EXTENDS PrbLayout, SequenceTheorems, WellFoundedInduction, TLAPS

\* A step that names no prover is tried with these two, in this order.
USE SMTT(30), ZenonT(30)

Early == {"size", "addr", "data", "parse", "prb"}
Late == {"descs", "infos", "text", "ids"}

\* The buffers dump_lockless_record_log owns when it comes to step p.
Before(p) == IF p = "descs" THEN {"prb"}
             ELSE IF p = "infos" THEN {"prb", "descs"}
             ELSE IF p = "text" THEN {"prb", "descs", "infos"}
             ELSE IF p = "ids" THEN {"prb", "descs", "infos", "text"} ELSE {}

\* Nothing is allocated or freed before the first copy, and nothing is freed before
\* the end.
Copies ==
    /\ pc \in Early \cup Late \cup {"done"}
    /\ pc \in Early => owned = {} /\ freed = {}
    /\ pc \in Late => owned = Before(pc) /\ freed = {}

\* The note and its size, as vmcoreinfo_init has them.
Sizes == note \in Notes /\ size \in Nat /\ addrOK \in BOOLEAN

IInv == Copies /\ Sizes /\ ExactFree /\ EveryValueEnds

-----------------------------------------------------------------------------

\* The steps one after the other, and what each label frees.
LEMMA StepOrder ==
    /\ After("prb") = "descs" /\ After("descs") = "infos"
    /\ After("infos") = "text" /\ After("text") = "ids"
    /\ Unwind("prb") = {"prb"} /\ Unwind("descs") = {"prb", "descs"}
    /\ Unwind("infos") = {"prb", "descs", "infos"}
    /\ Unwind("text") = {"prb", "descs", "infos", "text"}
    /\ Unwind("ids") = {"prb", "descs", "infos", "text"}
<1>1. /\ Steps[1] = "prb" /\ Steps[2] = "descs" /\ Steps[3] = "infos"
      /\ Steps[4] = "text" /\ Steps[5] = "ids"
  BY DEF Steps
<1>2. \A i \in 1..5 : i = 1 \/ i = 2 \/ i = 3 \/ i = 4 \/ i = 5
  OBVIOUS
<1>3. /\ \A i \in 1..5 : Steps[i] = "prb" <=> i = 1
      /\ \A i \in 1..5 : Steps[i] = "descs" <=> i = 2
      /\ \A i \in 1..5 : Steps[i] = "infos" <=> i = 3
      /\ \A i \in 1..5 : Steps[i] = "text" <=> i = 4
      /\ \A i \in 1..5 : Steps[i] = "ids" <=> i = 5
  BY <1>1, <1>2
<1>4. After("prb") = "descs" /\ After("descs") = "infos"
  BY <1>1, <1>3 DEF After
<1>5. After("infos") = "text" /\ After("text") = "ids"
  BY <1>1, <1>3 DEF After
<1>6. \A p, k : k \in 1..5 /\ (\A i \in 1..5 : Steps[i] = p <=> i = k)
         => Unwind(p) = {Steps[j] : j \in {l \in 1..4 : l <= k}}
  BY DEF Unwind
<1>7. /\ {l \in 1..4 : l <= 1} = {1} /\ {l \in 1..4 : l <= 2} = {1, 2}
      /\ {l \in 1..4 : l <= 3} = {1, 2, 3} /\ {l \in 1..4 : l <= 4} = {1, 2, 3, 4}
      /\ {l \in 1..4 : l <= 5} = {1, 2, 3, 4}
  OBVIOUS
<1>8. Unwind("prb") = {"prb"}
  BY <1>1, <1>3, <1>6, <1>7
<1>9. Unwind("descs") = {"prb", "descs"}
  BY <1>1, <1>3, <1>6, <1>7
<1>10. Unwind("infos") = {"prb", "descs", "infos"}
  BY <1>1, <1>3, <1>6, <1>7
<1>11. /\ Unwind("text") = {"prb", "descs", "infos", "text"}
       /\ Unwind("ids") = {"prb", "descs", "infos", "text"}
  BY <1>1, <1>3, <1>6, <1>7
<1> QED BY <1>4, <1>5, <1>8, <1>9, <1>10, <1>11

\* The chosen element of strstr exists.
LEMMA LeastChosen ==
    ASSUME NEW S, S \subseteq Nat, S # {}
    PROVE  (CHOOSE j \in S : \A l \in S : j <= l) \in S
<1>1. PICK x \in S : \A y \in S : ~ (<<y, x>> \in OpToRel(<, Nat))
  BY WFMin, NatLessThanWellFounded, Zenon
<1>2. ASSUME NEW y \in S PROVE x <= y
  <2>1. ~ (y < x)
    BY <1>1, Zenon DEF OpToRel
  <2> QED BY <2>1
<1> QED BY <1>2, Zenon

\* strstr finds the c behind position i when one is there with no zero before it.
LEMMA Finds ==
    ASSUME NEW i \in Nat \ {0}, NEW c, NEW j \in i..Len(buf), buf[j] = c,
           \A l \in i..j : buf[l] # "zero", Len(buf) \in Nat
    PROVE  strstr(i, c) # 0
<1> DEFINE at == {m \in i..Len(buf) : buf[m] = c /\ \A l \in i..m : buf[l] # "zero"}
<1>1. at # {} /\ at \subseteq Nat \ {0}
  OBVIOUS
<1>2. (CHOOSE m \in at : \A l \in at : m <= l) \in at
  BY <1>1, LeastChosen, Zenon
<1>3. strstr(i, c) = CHOOSE m \in at : \A l \in at : m <= l
  BY <1>1, Zenon DEF strstr
<1> HIDE DEF at
<1> QED BY <1>1, <1>2, <1>3, Zenon

\* What strstr finds is there.
LEMMA Found ==
    ASSUME NEW i \in Nat \ {0}, NEW c, Len(buf) \in Nat, strstr(i, c) # 0
    PROVE  strstr(i, c) \in i..Len(buf) /\ buf[strstr(i, c)] = c
<1> DEFINE at == {m \in i..Len(buf) : buf[m] = c /\ \A l \in i..m : buf[l] # "zero"}
<1>1. at # {} /\ at \subseteq Nat
  BY DEF strstr
<1>2. (CHOOSE m \in at : \A l \in at : m <= l) \in at
  BY <1>1, LeastChosen, Zenon
<1>3. strstr(i, c) = CHOOSE m \in at : \A l \in at : m <= l
  BY <1>1, Zenon DEF strstr
<1>4. strstr(i, c) \in at
  BY <1>2, <1>3
<1> QED BY <1>4

\* Behind every key of the text s a newline comes before any zero.
KeysEnd(s, len) ==
    \A j \in 1..len : s[j] \in Keys =>
        \E m \in j + 1..len : s[m] = "newline" /\ \A l \in j + 1..m : s[l] # "zero"

Closed == Len(buf) \in Nat /\ KeysEnd(buf, Len(buf))

\* Behind every key of a closed buffer strstr finds a newline.
LEMMA ClosedEnds == Closed => EveryValueEnds
<1> SUFFICES ASSUME Closed, NEW key \in Keys, strstr(1, key) # 0
             PROVE  strstr(strstr(1, key) + 1, "newline") # 0
  BY DEF EveryValueEnds
<1>1. PICK j \in 1..Len(buf) : j = strstr(1, key) /\ buf[j] = key
  BY Found DEF Closed
<1>2. PICK m \in j + 1..Len(buf) :
        buf[m] = "newline" /\ \A l \in j + 1..m : buf[l] # "zero"
  BY <1>1 DEF Closed, KeysEnd
<1>3. j + 1 \in Nat \ {0} /\ Len(buf) \in Nat
  BY <1>1 DEF Closed
<1>4. strstr(j + 1, "newline") # 0
  BY <1>2, <1>3, Finds
<1> QED BY <1>1, <1>4

\* A function on 1..m is a sequence of length m.
LEMMA FunctionLength ==
    ASSUME NEW T, NEW m \in Nat, NEW f, f \in [1..m -> T]
    PROVE  Len(f) = m
<1>1. f \in Seq(T)
  BY SeqDef, Zenon
<1>2. Len(f) \in Nat /\ DOMAIN f = 1..Len(f) /\ DOMAIN f = 1..m
  BY <1>1, LenProperties
<1> QED BY <1>2

\* vmcoreinfo_init closes the buffer, wherever it cuts the note off.
LEMMA NoteCloses ==
    ASSUME Sizes,
           buf' = [i \in 1..size + 1 |-> IF i = size + 1 THEN "newline" ELSE Cell(i)]
    PROVE  Closed'
<1>1. PICK z \in Nat : z = size
  BY DEF Sizes
<1>2. Len(buf') = z + 1 /\ z + 1 \in Nat
  <2> DEFINE T == {buf'[i] : i \in 1..z + 1}
  <2>1. buf' \in [1..z + 1 -> T]
    BY <1>1
  <2> HIDE DEF T
  <2>2. z + 1 \in Nat
    OBVIOUS
  <2> QED BY <2>1, <2>2, FunctionLength, Zenon
<1>3. /\ \A i \in 1..z : buf'[i] = Cell(i)
      /\ buf'[z + 1] = "newline"
  BY <1>1
<1>4. PICK n \in Nat : /\ n = Len(note) /\ n > 0 /\ note[n] = "newline"
                       /\ \A i \in 1..n : note[i] # "zero"
  BY NoteAssumption DEF Sizes
<1>goal. KeysEnd(buf', z + 1) => Closed'
  BY <1>2, Zenon DEF Closed
<1>5. SUFFICES ASSUME NEW j \in 1..z + 1, buf'[j] \in Keys
               PROVE  \E m \in j + 1..z + 1 :
                        buf'[m] = "newline" /\ \A l \in j + 1..m : buf'[l] # "zero"
  BY <1>goal, Zenon DEF KeysEnd
<1>6. j \in 1..z
  BY <1>3, <1>5 DEF Keys
<1>7. addrOK /\ j < n
  <2>1. Cell(j) \in Keys
    BY <1>3, <1>5, <1>6
  <2>2. addrOK
    BY <2>1 DEF Cell, Keys
  <2>3. ~ (j > n)
    BY <1>4, <2>1, <2>2 DEF Cell, Keys
  <2>4. j # n
    BY <1>4, <2>1, <2>2, <2>3 DEF Cell, Keys
  <2> QED BY <2>2, <2>3, <2>4
<1>8. \A i \in 1..z : i <= n => buf'[i] = note[i]
  BY <1>3, <1>4, <1>7 DEF Cell
<1>9. CASE n <= z
  <2>1. n \in j + 1..z + 1 /\ n \in 1..z
    BY <1>6, <1>7, <1>9
  <2>2. buf'[n] = "newline"
    BY <1>4, <1>8, <2>1
  <2>3. \A l \in j + 1..n : buf'[l] # "zero"
    BY <1>4, <1>6, <1>8, <1>9
  <2> QED BY <2>1, <2>2, <2>3, Zenon
<1>10. CASE z < n
  <2>1. z + 1 \in j + 1..z + 1
    BY <1>6
  <2>2. ASSUME NEW l \in j + 1..z + 1 PROVE buf'[l] # "zero"
    <3>1. CASE l = z + 1
      BY <1>3, <3>1
    <3>2. CASE l \in 1..z
      BY <1>4, <1>8, <1>10, <3>2
    <3> QED BY <1>6, <3>1, <3>2
  <2> QED BY <1>3, <2>1, <2>2, Zenon
<1>11. n <= z \/ z < n
  OBVIOUS
<1> QED BY <1>9, <1>10, <1>11, Zenon

-----------------------------------------------------------------------------
(***************************************************************************)
(* The invariant.                                                          *)
(***************************************************************************)

\* A dump starts with nothing read, allocated or freed.
LEMMA Initially == Init => IInv
<1> SUFFICES ASSUME Init PROVE IInv
  OBVIOUS
<1>1. Copies /\ Sizes /\ ExactFree
  BY Zenon DEF Init, Copies, Sizes, ExactFree, Early, Late
<1>2. EveryValueEnds
  BY DEF Init, EveryValueEnds
<1> QED BY <1>1, <1>2 DEF IInv

\* Reading the note allocates and frees nothing that the copies use.
LEMMA NoteSteps ==
    ASSUME IInv, ReadSize \/ ReadAddr \/ ReadNote
    PROVE  IInv'
<1> USE DEF IInv
<1>1. /\ pc \in {"size", "addr", "data"} /\ pc' \in Early
      /\ UNCHANGED <<note, table, owned, freed>>
  BY DEF ReadSize, ReadAddr, ReadNote, Early
<1>2. Copies' /\ ExactFree'
  BY <1>1 DEF Copies, ExactFree, Early, Late
<1>3. Sizes'
  <2>1. Len(note) \in Nat
    BY NoteAssumption DEF Sizes
  <2> QED BY <2>1 DEF Sizes, ReadSize, ReadAddr, ReadNote
<1>5. EveryValueEnds'
  <2>1. CASE pc' # "parse"
    BY <2>1 DEF EveryValueEnds
  <2>2. CASE pc' = "parse"
    <3>1. buf' = [i \in 1..size + 1 |-> IF i = size + 1 THEN "newline" ELSE Cell(i)]
      BY <2>2 DEF ReadSize, ReadAddr, ReadNote
    <3>2. Closed'
      BY <3>1, NoteCloses
    <3> QED BY <3>2, ClosedEnds, PTL
  <2> QED BY <2>1, <2>2
<1> QED BY <1>2, <1>3, <1>5

\* Parsing changes the table, and no buffer.
LEMMA ParseStep == ASSUME IInv, Parse PROVE IInv'
<1> USE DEF IInv
<1>1. /\ pc = "parse" /\ pc' = "prb"
      /\ UNCHANGED <<note, size, addrOK, owned, freed>>
  BY DEF Parse
<1>2. Copies' /\ ExactFree' /\ Sizes'
  BY <1>1 DEF Copies, ExactFree, Sizes, Early, Late
<1>3. EveryValueEnds'
  BY <1>1 DEF EveryValueEnds
<1> QED BY <1>2, <1>3

\* A copy adds its buffer to the ones owned, and its label frees exactly these.
LEMMA CopyStep ==
    ASSUME IInv, NEW p \in {"prb", "descs", "infos", "text"}, CopyPart(p)
    PROVE  IInv'
<1> USE DEF IInv
<1>1. /\ pc = p /\ owned' = owned \cup {p}
      /\ (pc' = After(p) /\ freed' = freed) \/ (pc' = "done" /\ freed' = Unwind(p))
      /\ UNCHANGED <<note, size, addrOK, table>>
  BY DEF CopyPart
<1>2. owned = (IF p = "prb" THEN {} ELSE Before(p)) /\ freed = {}
  BY <1>1 DEF Copies, Early, Late
<1>3. owned' = Unwind(p)
  BY <1>1, <1>2, StepOrder DEF Before
<1>4. After(p) \in Late /\ Before(After(p)) = Unwind(p)
  BY StepOrder DEF Before, Late
<1>6. Copies'
  BY <1>1, <1>2, <1>3, <1>4 DEF Copies, Early, Late
<1>7. ExactFree'
  BY <1>1, <1>2, <1>3, <1>4 DEF ExactFree, Late
<1>8. Sizes' /\ EveryValueEnds'
  BY <1>1, <1>4 DEF Sizes, EveryValueEnds, Late
<1> QED BY <1>6, <1>7, <1>8

\* The end of a dump frees the four buffers.
LEMMA WalkStep == ASSUME IInv, WalkRecords PROVE IInv'
<1> USE DEF IInv
<1>1. /\ pc = "ids" /\ pc' = "done" /\ freed' = Unwind("ids")
      /\ UNCHANGED <<note, size, addrOK, table, owned>>
  BY DEF WalkRecords
<1>2. owned = {"prb", "descs", "infos", "text"}
  BY <1>1 DEF Copies, Late, Before
<1>3. Copies' /\ ExactFree'
  BY <1>1, <1>2, StepOrder DEF Copies, ExactFree, Early, Late
<1>4. Sizes' /\ EveryValueEnds'
  BY <1>1 DEF Sizes, EveryValueEnds
<1> QED BY <1>3, <1>4

\* The invariant holds in every state of a dump.
THEOREM Invariance == Spec => []IInv
<1>1. IInv /\ UNCHANGED vars => IInv'
  <2> SUFFICES ASSUME IInv, UNCHANGED vars PROVE IInv'
    OBVIOUS
  <2> USE DEF IInv, vars
  <2>1. Copies' /\ Sizes' /\ ExactFree'
    BY DEF Copies, Sizes, ExactFree
  <2>3. EveryValueEnds'
    <3>1. ASSUME NEW i, NEW c PROVE strstr(i, c)' = strstr(i, c)
      BY DEF strstr
    <3> QED BY <3>1, Zenon DEF EveryValueEnds
  <2> QED BY <2>1, <2>3
<1>2. IInv /\ [Next]_vars => IInv'
  BY <1>1, NoteSteps, ParseStep, CopyStep, WalkStep DEF Next
<1> QED BY <1>2, Initially, PTL DEF Spec

\* dump_lockless_record_log frees exactly what it has allocated, whichever copy
\* fails.
THEOREM FreesWhatItOwns == Spec => []ExactFree
BY Invariance, PTL DEF IInv

\* vmcoreinfo_read_string finds the end of every value, for notes of any contents
\* that end with a newline, cut off anywhere.
THEOREM ValuesEnd == Spec => []EveryValueEnds
BY Invariance, PTL DEF IInv

-----------------------------------------------------------------------------
(***************************************************************************)
(* What the parsed table holds.                                            *)
(***************************************************************************)

\* strstr returns the one place that has the c and none before it.
LEMMA FindsFirst ==
    ASSUME NEW i \in Nat \ {0}, NEW c, NEW j \in i..Len(buf), buf[j] = c,
           \A l \in i..j : buf[l] # "zero", \A l \in i..j - 1 : buf[l] # c,
           Len(buf) \in Nat
    PROVE  strstr(i, c) = j
<1> DEFINE at == {m \in i..Len(buf) : buf[m] = c /\ \A l \in i..m : buf[l] # "zero"}
<1>1. j \in at /\ at \subseteq Nat
  OBVIOUS
<1>2. \A m \in at : j <= m
  OBVIOUS
<1>3. strstr(i, c) = CHOOSE m \in at : \A l \in at : m <= l
  BY <1>1 DEF strstr
<1> HIDE DEF at
<1>4. ASSUME NEW m \in at, \A l \in at : m <= l PROVE m = j
  BY <1>1, <1>2, <1>4
<1> QED BY <1>1, <1>2, <1>3, <1>4, Zenon

\* The whole note, as vmcoreinfo_init has it when size and address are known.
Whole == /\ buf \in Seq(STRING) /\ Len(buf) = Len(note) + 1
         /\ \A i \in 1..Len(note) : buf[i] = note[i]

\* datatype_info of a key that the note has is the kernel's value.
LEMMA ValueOfKey ==
    ASSUME note \in Notes, Whole, NEW key \in Keys, key \in Range(note), NEW heap
    PROVE  datatype_info(key, heap) = Layout[key]
<1>1. PICK n \in Nat : /\ n = Len(note) /\ note \in Seq(STRING)
                       /\ \A i \in 1..n : note[i] # "zero"
  BY NoteAssumption
<1>2. PICK i \in 1..n : \E j \in i + 1..n :
            /\ note[i] = key /\ \A l \in 1..i - 1 : note[l] # key
            /\ note[j] = "newline" /\ \A l \in i + 1..j - 1 : note[l] # "newline"
            /\ strtol(SubSeq(note, i + 1, j - 1)) = Layout[key]
  BY <1>1, ValueAssumption
<1>3. PICK j \in i + 1..n :
            /\ note[i] = key /\ \A l \in 1..i - 1 : note[l] # key
            /\ note[j] = "newline" /\ \A l \in i + 1..j - 1 : note[l] # "newline"
            /\ strtol(SubSeq(note, i + 1, j - 1)) = Layout[key]
  BY <1>2
<1>4. Len(buf) = n + 1 /\ \A l \in 1..n : buf[l] = note[l]
  BY <1>1 DEF Whole
<1>5. strstr(1, key) = i
  <2>1. i \in 1..Len(buf) /\ buf[i] = key /\ Len(buf) \in Nat
    BY <1>3, <1>4
  <2>2. /\ \A l \in 1..i : buf[l] # "zero"
        /\ \A l \in 1..i - 1 : buf[l] # key
    BY <1>1, <1>3, <1>4
  <2> QED BY <2>1, <2>2, FindsFirst
<1>6. strstr(i + 1, "newline") = j
  <2>1. /\ j \in i + 1..Len(buf) /\ buf[j] = "newline" /\ Len(buf) \in Nat
        /\ i + 1 \in Nat \ {0}
    BY <1>3, <1>4
  <2>2. /\ \A l \in i + 1..j : buf[l] # "zero"
        /\ \A l \in i + 1..j - 1 : buf[l] # "newline"
    BY <1>1, <1>3, <1>4
  <2> QED BY <2>1, <2>2, FindsFirst
<1>7. SubSeq(buf, i + 1, j - 1) = SubSeq(note, i + 1, j - 1)
  <2>1. i + 1 \in Int /\ j - 1 \in Int /\ i + 1 <= j /\ j <= n
    OBVIOUS
  <2>2. \A l \in i + 1..j - 1 : l \in 1..n /\ buf[l] = note[l]
    BY <1>4
  <2>3. \A l \in i + 1..j - 1 : buf[l] \in STRING /\ note[l] \in STRING
    BY <1>1, <2>2, ElementOfSeq
  <2> DEFINE s == SubSeq(buf, i + 1, j - 1)
             t == SubSeq(note, i + 1, j - 1)
             m == IF i + 1 <= j - 1 THEN (j - 1) - (i + 1) + 1 ELSE 0
  <2>4. /\ s \in Seq(STRING) /\ Len(s) = m
        /\ \A l \in 1..(j - 1) - (i + 1) + 1 : s[l] = buf[(i + 1) + l - 1]
    BY <2>1, <2>3, SubSeqProperties
  <2>5. /\ t \in Seq(STRING) /\ Len(t) = m
        /\ \A l \in 1..(j - 1) - (i + 1) + 1 : t[l] = note[(i + 1) + l - 1]
    BY <2>1, <2>3, SubSeqProperties
  <2>6. ASSUME NEW l \in 1..m PROVE s[l] = t[l]
    <3>1. /\ l \in 1..(j - 1) - (i + 1) + 1
          /\ (i + 1) + l - 1 \in i + 1..j - 1
      BY <2>1
    <3> HIDE DEF s, t, m
    <3> QED BY <2>2, <2>4, <2>5, <3>1
  <2> HIDE DEF s, t, m
  <2>7. s = t
    BY <2>4, <2>5, <2>6, SeqEqual
  <2> QED BY <2>7 DEF s, t
<1>8. vmcoreinfo_read_string(key) = SubSeq(note, i + 1, j - 1)
  BY <1>5, <1>6, <1>7, Zenon DEF vmcoreinfo_read_string
<1>9. i # 0
  OBVIOUS
<1> QED BY <1>3, <1>5, <1>8, <1>9, Zenon DEF datatype_info

\* Until the note is there the table is zero; with size and address known the
\* buffer then holds the note as a whole, and what is parsed is the layout.
Parsed ==
    /\ note \in Notes
    /\ sizeOK => size = Len(note)
    /\ pc \in {"size", "addr", "data"} => ~ dataOK /\ table = Zero
    /\ pc = "parse" => dataOK /\ (sizeOK /\ addrOK => Whole)
    /\ LayoutOrZero

\* The note and the newline behind it.
LEMMA NoteWhole ==
    ASSUME note \in Notes, size = Len(note), addrOK,
           buf' = [i \in 1..size + 1 |-> IF i = size + 1 THEN "newline" ELSE Cell(i)],
           note' = note
    PROVE  Whole'
<1>1. PICK n \in Nat : n = Len(note) /\ note \in Seq(STRING)
  BY NoteAssumption
<1>2. "newline" \in STRING /\ \A i \in 1..n : note[i] \in STRING
  <2>1. \A i \in 1..n : note[i] \in STRING
    BY <1>1, ElementOfSeq
  <2>2. n \in 1..n /\ note[n] = "newline"
    BY <1>1, NoteAssumption
  <2> QED BY <2>1, <2>2
<1>3. buf' = [i \in 1..n + 1 |-> IF i = n + 1 THEN "newline" ELSE Cell(i)]
  BY <1>1
<1>4. \A i \in 1..n : Cell(i) = note[i]
  BY <1>1 DEF Cell
<1>5. \A i \in 1..n : buf'[i] = note[i]
  BY <1>3, <1>4
<1>6. buf' \in [1..n + 1 -> STRING] /\ n + 1 \in Nat
  <2>1. ASSUME NEW i \in 1..n + 1 PROVE buf'[i] \in STRING
    <3>1. CASE i = n + 1
      <4>1. buf'[i] = "newline"
        BY <1>3, <3>1
      <4> QED BY <1>2, <4>1
    <3>2. CASE i \in 1..n
      BY <1>2, <1>5, <3>2, Zenon
    <3> QED BY <3>1, <3>2
  <2>2. DOMAIN buf' = 1..n + 1 /\ buf' = [i \in 1..n + 1 |-> buf'[i]]
    BY <1>3
  <2> QED BY <2>1, <2>2
<1>7. buf' \in Seq(STRING)
  BY <1>6, SeqDef, ZenonT(30)
<1>8. Len(buf') = n + 1
  BY <1>6, FunctionLength
<1> QED BY <1>1, <1>5, <1>7, <1>8, Zenon DEF Whole

\* Every step keeps Parsed.
LEMMA ParsedStep == ASSUME Parsed, [Next]_vars PROVE Parsed'
<1> USE DEF Parsed
<1>r. Range(Steps) = {"prb", "descs", "infos", "text", "ids"}
  <2>1. /\ Steps[1] = "prb" /\ Steps[2] = "descs" /\ Steps[3] = "infos"
        /\ Steps[4] = "text" /\ Steps[5] = "ids" /\ DOMAIN Steps = 1..5
    BY DEF Steps
  <2>2. \A i \in 1..5 : i = 1 \/ i = 2 \/ i = 3 \/ i = 4 \/ i = 5
    OBVIOUS
  <2> QED BY <2>1, <2>2 DEF Range
<1>1. CASE ReadSize \/ ReadAddr
  BY <1>1, <1>r DEF ReadSize, ReadAddr, LayoutOrZero
<1>2. CASE ReadNote
  <2>1. UNCHANGED <<note, size, sizeOK, addrOK, table>> /\ pc = "data"
    BY <1>2 DEF ReadNote
  <2>2. CASE pc' = "parse"
    <3>1. /\ dataOK'
          /\ buf' = [i \in 1..size + 1 |-> IF i = size + 1 THEN "newline" ELSE Cell(i)]
      BY <1>2, <2>2 DEF ReadNote
    <3>2. sizeOK' /\ addrOK' => Whole'
      BY <2>1, <3>1, NoteWhole
    <3>3. LayoutOrZero'
      BY <1>r, <2>2 DEF LayoutOrZero
    <3> QED BY <2>1, <2>2, <3>1, <3>2, <3>3
  <2>3. CASE pc' = "prb"
    <3>1. ~ dataOK' /\ table' = Zero
      BY <1>2, <2>1, <2>3 DEF ReadNote
    <3>2. LayoutOrZero'
      BY <3>1 DEF LayoutOrZero
    <3> QED BY <2>1, <2>3, <3>2
  <2> QED BY <1>2, <2>2, <2>3 DEF ReadNote
<1>3. CASE Parse
  <2>1. /\ pc = "parse" /\ pc' = "prb" /\ dataOK' /\ dataOK
        /\ UNCHANGED <<note, size, sizeOK, addrOK>>
    BY <1>3 DEF Parse
  <2>2. PICK heap \in {0, Anything} : table' = [key \in Keys |-> datatype_info(key, heap)]
    BY <1>3 DEF Parse
  <2>3. ASSUME sizeOK, addrOK, Complete PROVE table' = Layout
    <3>1. \A key \in Keys : datatype_info(key, heap) = Layout[key]
      BY <2>1, <2>3, ValueOfKey DEF Complete
    <3>2. Layout = [key \in Keys |-> Layout[key]]
      BY LayoutAssumption
    <3> QED BY <2>2, <3>1, <3>2
  <2>4. Complete' = Complete
    BY <2>1 DEF Complete
  <2>5. LayoutOrZero'
    BY <2>1, <2>3, <2>4 DEF LayoutOrZero
  <2> QED BY <2>1, <2>5
<1>4. CASE \/ \E p \in {"prb", "descs", "infos", "text"} : CopyPart(p)
           \/ WalkRecords
  <2>1. /\ pc \in {"prb", "descs", "infos", "text", "ids"}
        /\ pc' \in {"descs", "infos", "text", "ids", "done"}
        /\ UNCHANGED <<note, size, sizeOK, addrOK, dataOK, table>>
    BY <1>4, StepOrder DEF CopyPart, WalkRecords
  <2>2. LayoutOrZero'
    BY <1>r, <2>1 DEF LayoutOrZero, Complete
  <2> QED BY <2>1, <2>2
<1>5. CASE UNCHANGED vars
  BY <1>5 DEF vars, LayoutOrZero, Complete, Whole
<1> QED BY <1>1, <1>2, <1>3, <1>4, <1>5 DEF Next

\* The sizes and offsets that dump_lockless_record_log works with are the guest
\* kernel's, all of them, or all zero: for every note, in any order and with any
\* other lines, that says behind each key what the layout has.
THEOREM KernelLayoutOrZeros == Spec => []LayoutOrZero
<1>1. Init => Parsed
  <2>1. Init => pc \notin Range(Steps)
    <3>1. \A i \in DOMAIN Steps : Steps[i] # "size"
      BY DEF Steps
    <3> QED BY <3>1 DEF Init, Range
  <2> QED BY <2>1 DEF Init, Parsed, LayoutOrZero
<1>2. Parsed /\ [Next]_vars => Parsed'
  BY ParsedStep
<1>3. Parsed => LayoutOrZero
  BY DEF Parsed
<1> QED BY <1>1, <1>2, <1>3, PTL DEF Spec

=============================================================================

----------------------------- MODULE PrbLayout -----------------------------
(***************************************************************************)
(* How the lockless dump learns the layout of the guest's printk           *)
(* structures and what it does with it (printk.c): vmcoreinfo_init reads   *)
(* the guest's vmcoreinfo note and parses the sizes and offsets out of it, *)
(* dump_lockless_record_log copies the ring buffer's parts one after the   *)
(* other and takes their sizes and addresses from the copy.                *)
(*                                                                         *)
(* A cell of the note is a key ("SIZE(prb_desc)=" and so on), a decimal    *)
(* digit, a newline, other text, or the zero behind the note.  PrbSnapshot *)
(* models the copies' contents while the guest runs.                       *)
(***************************************************************************)
EXTENDS Integers, Sequences, SequencesExt, TLC

CONSTANTS
    Notes,  \* the notes of the kernels at hand: sequences of cells
    Layout, \* key -> its value in these kernels
    Mask    \* bound of the masked vmcoreinfo_size, 8191

\* A note is text that ends with a newline, and no longer than the mask allows.
ASSUME NoteAssumption ==
    /\ Mask \in Nat
    /\ \A n \in Notes : /\ n \in Seq(STRING) /\ Len(n) \in 1..Mask
                        /\ n[Len(n)] = "newline" /\ \A i \in DOMAIN n : n[i] # "zero"

Keys == {"SIZE(printk_info)", "SIZE(prb_desc)", "SIZE(printk_ringbuffer)",
         "desc_ring", "text_data_ring", "count_bits", "descs", "infos", "head_id",
         "tail_id", "size_bits", "data"}

VARIABLES
    note,         \* the guest's note
    pc,
    size, buf,    \* vmcoreinfo_size and vmcoreinfo_buf
    sizeOK, addrOK, dataOK, \* get_symbol_data of size and address, readmem worked
    table,        \* size_table and offset_table
    owned,        \* buffers of struct prb_map that were allocated
    freed         \* buffers given to xfree

vars == <<note, pc, size, buf, sizeOK, addrOK, dataOK, table, owned, freed>>

Anything == 99  \* stands for what the heap may hold

Zero == [key \in Keys |-> 0]

-----------------------------------------------------------------------------
(***************************************************************************)
(* Parsing.                                                                *)
(***************************************************************************)

\* strstr from position i: the first c, when no zero comes before it; 0 for NULL.
strstr(i, c) == LET at == {j \in i..Len(buf) : buf[j] = c /\ \A l \in i..j : buf[l] # "zero"}
                IN  IF at = {} THEN 0 ELSE CHOOSE j \in at : \A l \in at : j <= l

IsDigit(c) == \E d \in 0..9 : ToString(d) = c

\* The digits a value begins with, as a number.
strtol(s) ==
    LET n == CHOOSE l \in 0..Len(s) : /\ \A i \in 1..l : IsDigit(s[i])
                                      /\ l < Len(s) => ~ IsDigit(s[l + 1])
    IN  FoldLeft(LAMBDA v, c : 10 * v + (CHOOSE d \in 0..9 : ToString(d) = c), 0, SubSeq(s, 1, n))

ASSUME LayoutAssumption == Layout \in [Keys -> Nat]

\* Layout is what the notes say: behind the first place of a key a note has the
\* decimal digits of its value, and then a newline.
ASSUME ValueAssumption ==
    \A n \in Notes : \A key \in Keys \cap Range(n) :
        \E i \in 1..Len(n) : \E j \in i + 1..Len(n) :
            /\ n[i] = key /\ \A l \in 1..i - 1 : n[l] # key
            /\ n[j] = "newline" /\ \A l \in i + 1..j - 1 : n[l] # "newline"
            /\ strtol(SubSeq(n, i + 1, j - 1)) = Layout[key]

\* vmcoreinfo_read_string: what stands between the first such key and the newline.
vmcoreinfo_read_string(key) ==
    LET p2 == strstr(1, key) + 1 IN SubSeq(buf, p2, strstr(p2, "newline") - 1)

\* datatype_info.  The buffer has no zero behind it: the search for a key it lacks
\* goes on in the heap, where it ends at a zero or finds anything.
datatype_info(key, heap) ==
    IF strstr(1, key) # 0 THEN strtol(vmcoreinfo_read_string(key))
    ELSE IF "zero" \in Range(buf) THEN 0 ELSE heap

-----------------------------------------------------------------------------

Init ==
    /\ note \in Notes /\ pc = "size"
    /\ size = 0 /\ buf = <<>>
    /\ sizeOK = FALSE /\ addrOK = FALSE /\ dataOK = FALSE
    /\ table = Zero /\ owned = {} /\ freed = {}

\* A size that could not be read is what the stack held, masked.
ReadSize ==
    /\ pc = "size" /\ pc' = "addr"
    /\ \/ size' = Len(note) /\ sizeOK' = TRUE
       \/ size' \in 0..Mask /\ sizeOK' = FALSE
    /\ UNCHANGED <<note, buf, addrOK, dataOK, table, owned, freed>>

\* The address of the note, or what the stack held.
ReadAddr ==
    /\ pc = "addr" /\ pc' = "data"
    /\ addrOK' \in BOOLEAN
    /\ UNCHANGED <<note, size, buf, sizeOK, dataOK, table, owned, freed>>

\* What lies in the guest at the i-th byte from the address: the note and then a
\* zero, or something else when the address is wrong.
Cell(i) == IF ~ addrOK THEN "other" ELSE IF i > Len(note) THEN "zero" ELSE note[i]

\* Mutant: the buffer ends where the note ends.
ReadNote_NoNewline ==
    /\ pc = "data"
    /\ pc' = "parse" /\ dataOK' = TRUE
    /\ buf' = [i \in 1..size |-> Cell(i)]
    /\ UNCHANGED <<note, size, sizeOK, addrOK, table, owned, freed>>

\* Mutant: a read that fails half way is parsed as far as it got.
ReadNote_Partial ==
    /\ pc = "data"
    /\ \E n \in 0..size :
          /\ dataOK' = (n = size) /\ pc' = "parse"
          /\ buf' = [i \in 1..size + 1 |-> CASE i = size + 1 -> "newline"
                                             [] i <= n /\ i <= Len(note) /\ addrOK -> note[i]
                                             [] OTHER -> "zero"]
    /\ UNCHANGED <<note, size, sizeOK, addrOK, table, owned, freed>>

\* readmem of the note; when it fails vmcoreinfo_init returns, and nobody is told.
ReadNote ==
    /\ pc = "data"
    /\ \/ /\ pc' = "parse" /\ dataOK' = TRUE
          /\ buf' = [i \in 1..size + 1 |-> IF i = size + 1 THEN "newline" ELSE Cell(i)]
       \/ pc' = "prb" /\ UNCHANGED <<buf, dataOK>>
    /\ UNCHANGED <<note, size, sizeOK, addrOK, table, owned, freed>>

\* The STRUCT_SIZE_INITs and MEMBER_OFFSET_INITs.
Parse ==
    /\ pc = "parse" /\ pc' = "prb"
    /\ \E heap \in {0, Anything} : table' = [key \in Keys |-> datatype_info(key, heap)]
    /\ UNCHANGED <<note, size, buf, sizeOK, addrOK, dataOK, owned, freed>>

-----------------------------------------------------------------------------
(***************************************************************************)
(* The copies.                                                             *)
(***************************************************************************)

Steps == <<"prb", "descs", "infos", "text", "ids">>
After(p) == Steps[(CHOOSE i \in 1..4 : Steps[i] = p) + 1]

\* Mutant: every failure leaves through out_prb.
Unwind_Last(p) == {"prb"}

\* The labels out_text_data to out_prb: what the goto of step p frees.
Unwind(p) == {Steps[j] : j \in {l \in 1..4 : \E i \in 1..5 : Steps[i] = p /\ l <= i}}

\* xmalloc and readmem of one part; SIZE(printk_ringbuffer) may be 0, and a read
\* of nothing succeeds unless the file has no such position.
CopyPart(p) ==
    /\ pc = p
    /\ owned' = owned \cup {p}
    /\ \/ pc' = After(p) /\ freed' = freed
       \/ pc' = "done" /\ freed' = Unwind(p)
    /\ UNCHANGED <<note, size, buf, sizeOK, addrOK, dataOK, table>>

\* The ids, the walk over the descriptors, and the end.
WalkRecords ==
    /\ pc = "ids" /\ pc' = "done"
    /\ freed' = Unwind("ids")
    /\ UNCHANGED <<note, size, buf, sizeOK, addrOK, dataOK, table, owned>>

Next == ReadSize \/ ReadAddr \/ ReadNote \/ Parse
        \/ (\E p \in {"prb", "descs", "infos", "text"} : CopyPart(p)) \/ WalkRecords
Spec == Init /\ [][Next]_vars

-----------------------------------------------------------------------------
(***************************************************************************)
(* Properties.                                                             *)
(***************************************************************************)

Complete == Keys \subseteq Range(note)

\* The dump works with the kernel's own layout or with a table of zeros, never
\* with a mixture: however the note's lines are ordered and whatever stands
\* between them, once its address and size are known the note is parsed as a
\* whole or not at all, and zeros come only from a read that failed.
LayoutOrZero ==
    pc \in Range(Steps) /\ sizeOK /\ addrOK /\ Complete =>
        table = IF dataOK THEN Layout ELSE Zero

\* The end of a value is always found: a note cut off anywhere, in the middle of
\* a number too, is closed by the newline that vmcoreinfo_init puts behind it.
EveryValueEnds ==
    pc = "parse" => \A key \in Keys :
        strstr(1, key) # 0 => strstr(strstr(1, key) + 1, "newline") # 0

\* Whichever copy fails, exactly the buffers allocated so far are freed; a pointer
\* of the uninitialised struct prb_map never is.
ExactFree == IF pc = "done" THEN freed = owned ELSE freed = {}

=============================================================================

------------------------------ MODULE FlatLog ------------------------------
(***************************************************************************)
(* The oldest of the three logs (main.c:421): a kernel whose log_buf is a  *)
(* ring of characters, copied as a whole while the guest may go on logging *)
(* and printed from its first byte to its last.                            *)
(*                                                                         *)
(* A cell holds the number of the character in it, counted from 1 (0: none *)
(* yet, NotRead: memory that was not read into), and its class.  What is   *)
(* printed keeps, besides the number, the position of the copy at which    *)
(* the loop was.                                                           *)
(***************************************************************************)
EXTENDS Integers, Sequences

CONSTANTS
    Lengths,   \* values of log_buf_len
    MaskTop,   \* log_buf_len is taken modulo MaskTop, 2^21
    Chunk,     \* cells the guest cannot write in the middle of
    MaxChars   \* bound on the characters logged

ASSUME FlatAssumption ==
    /\ Lengths \subseteq Nat \ {0} /\ MaskTop \in Nat \ {0}
    /\ Chunk \in Nat \ {0} /\ MaxChars \in Nat

Classes == {"ascii", "high", "nul"}
NotRead == -1
Newline == 0

VARIABLES
    len, log_buf, log_end, \* the guest's ring, and the characters logged so far
    step,
    log_buf_len, arry,     \* the length and the copy
    copied,                \* cells read into the copy
    began,                 \* log_end when the copy began
    quiet,                 \* the guest has not logged since
    pos, next_line,        \* the loop: turns taken, and whether a line is open
    stdout, data           \* what is printed; dmesg.data

flatVars == <<len, log_buf, log_end, step, log_buf_len, arry, copied, began, quiet,
              pos, next_line, stdout, data>>

-----------------------------------------------------------------------------

FlatInit ==
    /\ len \in Lengths
    /\ log_buf = [i \in 1..len |-> [n |-> 0, c |-> "nul"]] /\ log_end = 0
    /\ step = "len" /\ log_buf_len = 0 /\ arry = <<>> /\ copied = 0
    /\ began = 0 /\ quiet = TRUE
    /\ pos = 0 /\ next_line = FALSE /\ stdout = <<>> /\ data = <<>>

\* The guest's emit_log_char.  Once the buffer is copied, it no longer matters.
emit_log_char ==
    /\ step \in {"len", "copy"} /\ log_end < MaxChars
    /\ \E c \in Classes :
          log_buf' = [log_buf EXCEPT ![(log_end % len) + 1] = [n |-> log_end + 1, c |-> c]]
    /\ log_end' = log_end + 1
    /\ quiet' = (quiet /\ step # "copy")
    /\ UNCHANGED <<len, step, log_buf_len, arry, copied, began, pos, next_line, stdout, data>>

\* log_buf and log_buf_len; both are 0 when they could not be read.  What malloc
\* returns is not looked at before it is read into, unless that fails.
GetLen ==
    /\ step = "len" /\ step' = "copy"
    /\ log_buf_len' \in {len % MaskTop, 0}
    /\ arry' = [i \in 1..log_buf_len' |-> [n |-> NotRead, c |-> "nul"]]
    /\ began' = log_end /\ quiet' = TRUE
    /\ UNCHANGED <<len, log_buf, log_end, copied, pos, next_line, stdout, data>>

\* Mutant: the address does not advance with the buffer.
Copy_SameAddress ==
    /\ step = "copy" /\ copied < log_buf_len
    /\ arry' = [i \in 1..log_buf_len |->
                   IF i \in (copied + 1)..(copied + Chunk) THEN log_buf[i - copied] ELSE arry[i]]
    /\ copied' = copied + Chunk
    /\ UNCHANGED <<len, log_buf, log_end, step, log_buf_len, began, quiet, pos, next_line,
                   stdout, data>>

\* Mutant: the last cells are fetched first.
Copy_Backwards ==
    /\ step = "copy" /\ copied < log_buf_len
    /\ arry' = [i \in 1..log_buf_len |->
                   IF log_buf_len + 1 - i \in (copied + 1)..(copied + Chunk) THEN log_buf[i]
                                                                           ELSE arry[i]]
    /\ copied' = copied + Chunk
    /\ UNCHANGED <<len, log_buf, log_end, step, log_buf_len, began, quiet, pos, next_line,
                   stdout, data>>

\* readmem fetches the next cells.
Copy ==
    /\ step = "copy" /\ copied < log_buf_len
    /\ arry' = [i \in 1..log_buf_len |->
                   IF i \in (copied + 1)..(copied + Chunk) THEN log_buf[i] ELSE arry[i]]
    /\ copied' = copied + Chunk
    /\ UNCHANGED <<len, log_buf, log_end, step, log_buf_len, began, quiet, pos, next_line,
                   stdout, data>>

\* It fails: the rest of the array is what malloc returned.
CopyFails ==
    /\ step = "copy" /\ copied < log_buf_len
    /\ \E heap \in [1..log_buf_len -> Classes] :
          arry' = [i \in 1..log_buf_len |->
                      IF i <= copied THEN arry[i] ELSE [n |-> NotRead, c |-> heap[i]]]
    /\ copied' = log_buf_len
    /\ UNCHANGED <<len, log_buf, log_end, step, log_buf_len, began, quiet, pos, next_line,
                   stdout, data>>

StartPrint ==
    /\ step = "copy" /\ copied >= log_buf_len /\ step' = "print"
    /\ pos' = 0 /\ next_line' = FALSE
    /\ UNCHANGED <<len, log_buf, log_end, log_buf_len, arry, copied, began, quiet, stdout, data>>

Char(n) == Append(stdout, [n |-> n, at |-> pos + 1])

\* Mutant: the line is not marked as ended.
PrintChar_NoReset ==
    /\ step = "print" /\ pos < log_buf_len
    /\ stdout' = CASE arry[pos + 1].c = "ascii" -> Char(arry[pos + 1].n)
                   [] arry[pos + 1].c = "nul" /\ next_line -> Char(Newline)
                   [] OTHER -> stdout
    /\ next_line' = (arry[pos + 1].c = "ascii" \/ next_line)
    /\ pos' = pos + 1
    /\ UNCHANGED <<len, log_buf, log_end, step, log_buf_len, arry, copied, began, quiet, data>>

\* One turn of the loop.  A byte that is neither ASCII nor 0 changes nothing.
PrintChar ==
    /\ step = "print" /\ pos < log_buf_len
    /\ stdout' = CASE arry[pos + 1].c = "ascii" -> Char(arry[pos + 1].n)
                   [] arry[pos + 1].c = "nul" /\ next_line -> Char(Newline)
                   [] OTHER -> stdout
    /\ next_line' = (arry[pos + 1].c = "ascii" \/ (arry[pos + 1].c = "high" /\ next_line))
    /\ pos' = pos + 1
    /\ UNCHANGED <<len, log_buf, log_end, step, log_buf_len, arry, copied, began, quiet, data>>

\* The last newline, and write_data_to_file.
EndPrint ==
    /\ step = "print" /\ pos >= log_buf_len /\ step' = "done"
    /\ stdout' = Char(Newline)
    /\ data' \in {arry, <<>>}
    /\ UNCHANGED <<len, log_buf, log_end, log_buf_len, arry, copied, began, quiet, pos, next_line>>

FlatNext == emit_log_char \/ GetLen \/ Copy \/ CopyFails \/ StartPrint \/ PrintChar \/ EndPrint
FlatSpec == FlatInit /\ [][FlatNext]_flatVars

-----------------------------------------------------------------------------
(***************************************************************************)
(* Properties.                                                             *)
(***************************************************************************)

\* There is text before position i, and no zero behind it.
LineOpen(i) == \E j \in 1..(i - 1) : arry[j].c = "ascii" /\ \A m \in j..(i - 1) : arry[m].c # "nul"

\* The positions of the copy for which something is printed: ASCII characters, and the
\* first zero behind text.
Contributes(i) == arry[i].c = "ascii" \/ (arry[i].c = "nul" /\ LineOpen(i))

\* The loop prints the ASCII characters of the copy in its order, with one newline
\* for each run of zeros that follows text, whatever bytes lie between, and a last
\* newline; nothing else is printed.
PrintsRuns ==
    step = "done" =>
        /\ \A x, y \in 1..Len(stdout) : x < y => stdout[x].at < stdout[y].at
        /\ {stdout[x].at : x \in 1..(Len(stdout) - 1)} = {i \in 1..log_buf_len : Contributes(i)}
        /\ \A x \in 1..(Len(stdout) - 1) :
              stdout[x].n = IF arry[stdout[x].at].c = "ascii" THEN arry[stdout[x].at].n ELSE Newline
        /\ stdout[Len(stdout)] = [n |-> Newline, at |-> log_buf_len + 1]

\* The characters of the guest among what is printed.
Letters == {x \in 1..Len(stdout) : stdout[x].n > 0}

\* A log that the guest left alone during the copy comes out in the order it was
\* written as long as the ring has not wrapped; after that it is cut at log_end, and
\* an older character follows a newer one only across that cut.
OneSeam ==
    step = "done" /\ quiet =>
        \A x, y \in Letters : x < y =>
            IF stdout[x].at <= began % len /\ began % len < stdout[y].at
            THEN began > len /\ stdout[y].n < stdout[x].n
            ELSE stdout[x].n < stdout[y].n

\* Where an older character follows a newer one in the copy.
Seams == {i \in 1..(log_buf_len - 1) : arry[i].n > arry[i + 1].n /\ arry[i + 1].n # NotRead}

\* The guest may go on logging during the copy, and cut it at more than one place; but
\* from one seam to the next it must have written at least as many characters as were
\* copied in between.  A guest that logs slower than that leaves one seam, as if it
\* had been quiet.
SeamsKeepPace ==
    step = "done" => \A i, j \in Seams : i < j => arry[j].n >= arry[i].n + (j - i)

=============================================================================

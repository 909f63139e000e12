------------------------------- MODULE LogBuf -------------------------------
(***************************************************************************)
(* dump_variable_length_record_log (main.c) against a running guest.       *)
(*                                                                         *)
(* Kernels between 3.5 and 5.9 keep their log as records of variable       *)
(* length in a ring, from log_first_idx to log_next_idx.  The two indices  *)
(* and the buffer are read one after the other while the guest goes on     *)
(* logging, and the private copy is then walked by following the len       *)
(* fields.                                                                 *)
(*                                                                         *)
(* Positions are in units of 16 bytes, the size of struct log.  Records    *)
(* are numbered 1, 2, ... (the kernel's sequence numbers).                 *)
(***************************************************************************)
EXTENDS Integers, Sequences

CONSTANTS
    LogBufLens, \* sizes the guest's ring may have
    LenMod,     \* 2^21 bytes: the mask of log_buf_len keeps the bits below
    TextLens,   \* lengths of texts
    Junk,       \* what text shows where a header is expected
    MaxRecords, \* bound on records the guest logs
    Grain,      \* units the monitor reads at one moment
    Stack,      \* what an uninitialised local may hold; empty: no read fails
    HeapLens, HeapTexts \* what unknown memory shows where a header is expected

ASSUME LogBufAssumption ==
    /\ LogBufLens \subseteq Nat \ {0} /\ LenMod \in Nat \ {0}
    /\ TextLens \subseteq Nat /\ Junk \in Nat
    /\ MaxRecords \in Nat /\ Grain \in Nat \ {0} /\ Stack \subseteq Nat
    /\ HeapLens \subseteq Nat /\ HeapTexts \subseteq Nat

VARIABLES
    size,      \* log_buf_len of the guest
    buf,       \* log_buf of the guest
    first,     \* log_first_idx
    firstSeq,  \* log_first_seq
    next,      \* log_next_idx
    texts,     \* texts[n]: length of the text of record n; its length is log_next_seq - 1
    w,         \* what the guest's writer is doing, and the length it stores
    pc,        \* where the reader is
    c,         \* log_first_idx, log_next_idx and log_buf_len as read
    logbuf,    \* the reader's copy of the buffer
    k,         \* units copied so far
    idx,       \* where the walk is
    seen,      \* indices the walk has been at
    out,       \* what is printed: the cells of each text
    from,      \* log_first_seq when log_first_idx was read
    upto,      \* log_next_seq when log_next_idx was read
    torn,      \* log_next_idx was read while a record was being wrapped
    failed     \* one of the indices or the length could not be read

guest == <<size, buf, first, firstSeq, next, texts, w>>
reader == <<pc, c, logbuf, k, idx, seen, out>>
history == <<from, upto, torn, failed>>
vars == <<guest, reader, history>>

Zero == [n |-> 0, j |-> 0, len |-> 0, text |-> 0]
TextCell(n, j) == [n |-> n, j |-> j, len |-> Junk, text |-> Junk]
Unknown == [n : {0}, j : {0}, len : HeapLens, text : HeapTexts]

-----------------------------------------------------------------------------
(***************************************************************************)
(* The guest: log_store of the kernel.                                     *)
(***************************************************************************)

nextSeq == Len(texts) + 1
Larger(a, b) == IF a >= b THEN a ELSE b

\* logbuf_has_space: room for the record and one more header.
HasSpace(len, empty) ==
    len + 1 <= IF next > first \/ empty THEN Larger(size - next, first)
                                        ELSE first - next

GuestInit ==
    /\ size \in LogBufLens
    /\ buf = [p \in 0..(size - 1) |-> Zero]
    /\ first = 0 /\ firstSeq = 1 /\ next = 0 /\ texts = <<>>
    /\ w = [ph |-> "idle", text |-> 0]

Log ==
    /\ w.ph = "idle" /\ Len(texts) < MaxRecords
    /\ \E t \in TextLens : w' = [ph |-> "free", text |-> t]
    /\ UNCHANGED <<size, buf, first, firstSeq, next, texts, reader, history>>

\* log_make_free_space drops the oldest record, as often as it takes.
DropOldest ==
    /\ w.ph = "free"
    /\ firstSeq < nextSeq /\ ~ HasSpace(1 + w.text, FALSE)
    /\ first' = IF buf[first].len = 0 THEN buf[0].len ELSE first + buf[first].len
    /\ firstSeq' = firstSeq + 1
    /\ UNCHANGED <<size, buf, next, texts, w, reader, history>>

\* A record that does not fit before the end, with a header behind it, goes to
\* the start; an empty header stands for it.
Place ==
    /\ w.ph = "free"
    /\ HasSpace(1 + w.text, firstSeq = nextSeq)
    /\ IF next + (1 + w.text) + 1 > size
       THEN /\ buf' = [buf EXCEPT ![next] = Zero]
            /\ next' = 0 /\ w' = [w EXCEPT !.ph = "wrapped"]
       ELSE /\ w' = [w EXCEPT !.ph = "fill"]
            /\ UNCHANGED <<buf, next>>
    /\ UNCHANGED <<size, first, firstSeq, texts, reader, history>>

\* Text and text_len are written first, len last.
Fill ==
    /\ w.ph \in {"fill", "wrapped"}
    /\ buf' = [p \in DOMAIN buf |->
                 IF p = next THEN [buf[p] EXCEPT !.n = nextSeq, !.j = 0, !.text = w.text]
                 ELSE IF p \in (next + 1)..(next + w.text) THEN TextCell(nextSeq, p - next)
                 ELSE buf[p]]
    /\ w' = [w EXCEPT !.ph = IF @ = "fill" THEN "len" ELSE "wrappedlen"]
    /\ UNCHANGED <<size, first, firstSeq, next, texts, reader, history>>

SetLen ==
    /\ w.ph \in {"len", "wrappedlen"}
    /\ buf' = [buf EXCEPT ![next].len = 1 + w.text]
    /\ w' = [w EXCEPT !.ph = IF @ = "len" THEN "insert" ELSE "wrappedinsert"]
    /\ UNCHANGED <<size, first, firstSeq, next, texts, reader, history>>

Insert ==
    /\ w.ph \in {"insert", "wrappedinsert"}
    /\ next' = next + buf[next].len
    /\ texts' = Append(texts, w.text)
    /\ w' = [w EXCEPT !.ph = "idle"]
    /\ UNCHANGED <<size, buf, first, firstSeq, reader, history>>

Guest == Log \/ DropOldest \/ Place \/ Fill \/ SetLen \/ Insert

-----------------------------------------------------------------------------
(***************************************************************************)
(* The reader.                                                             *)
(***************************************************************************)

ReaderInit ==
    /\ pc = "first" /\ c = [first |-> 0, next |-> 0, len |-> 0]
    /\ logbuf = <<>> /\ k = 0 /\ idx = 0 /\ seen = {} /\ out = <<>>
    /\ from = 0 /\ upto = 0 /\ torn = FALSE /\ failed = FALSE

\* get_symbol_data fetches log_first_idx ...
ReadFirst ==
    /\ pc = "first"
    /\ c' = [c EXCEPT !.first = first]
    /\ pc' = "next"
    /\ from' = firstSeq
    /\ UNCHANGED <<guest, logbuf, k, idx, seen, out, upto, torn, failed>>

\* ... then log_next_idx ...
ReadNext ==
    /\ pc = "next"
    /\ c' = [c EXCEPT !.next = next]
    /\ pc' = "len"
    /\ upto' = nextSeq
    /\ torn' = (w.ph \in {"wrapped", "wrappedlen", "wrappedinsert"})
    /\ UNCHANGED <<guest, logbuf, k, idx, seen, out, from, failed>>

\* Mutant: the length is masked only after malloc.
Allocate_BeforeMask(len) ==
    /\ c' = [c EXCEPT !.len = len % LenMod]
    /\ logbuf' = [p \in 0..(len - 1) |-> Zero]

\* log_buf_len is masked to 21 bits.  What malloc returned is not looked at before
\* the walk, which chooses it.
Allocate(len) ==
    /\ c' = [c EXCEPT !.len = len % LenMod]
    /\ logbuf' = [p \in 0..((len % LenMod) - 1) |-> Zero]

\* ... then log_buf_len and log_buf.
ReadLen ==
    /\ pc = "len"
    /\ Allocate(size)
    /\ pc' = "buf"
    /\ UNCHANGED <<guest, k, idx, seen, out, history>>

\* A value that could not be read is what the stack holds; get_symbol_data
\* reports nothing to its caller.
ReadSymbolFails ==
    /\ pc \in {"first", "next", "len"}
    /\ \E v \in Stack :
          IF pc = "len" THEN Allocate(v)
          ELSE c' = [c EXCEPT ![pc] = v] /\ UNCHANGED logbuf
    /\ pc' = CASE pc = "first" -> "next" [] pc = "next" -> "len" [] pc = "len" -> "buf"
    /\ failed' = TRUE
    /\ UNCHANGED <<guest, k, idx, seen, out, from, upto, torn>>

\* readmem copies the buffer, a piece at a time, and with a wrong length what lies
\* behind it.
ReadBuf ==
    /\ pc = "buf"
    /\ k < c.len
    /\ \E behind \in [size..(c.len - 1) -> Unknown] :
          logbuf' = [p \in DOMAIN logbuf |->
                        IF p \notin k..(k + Grain - 1) THEN logbuf[p]
                        ELSE IF p < size THEN buf[p] ELSE behind[p]]
    /\ k' = k + Grain
    /\ UNCHANGED <<guest, pc, c, idx, seen, out, history>>

\* A failing readmem stops short, and its result is not looked at: the rest of the
\* copy is what malloc returned.
StartWalk ==
    /\ pc = "buf"
    /\ k >= c.len \/ Stack # {}
    /\ \E heap \in [k..(c.len - 1) -> Unknown] :
          logbuf' = [p \in DOMAIN logbuf |-> IF p < k THEN logbuf[p] ELSE heap[p]]
    /\ idx' = c.first
    /\ pc' = "walk"
    /\ UNCHANGED <<guest, c, k, seen, out, history>>

\* Mutant: an empty header is printed as a record.
log_from_idx_NoWrap(i) == i
log_from_idx(i) == IF logbuf[i].len = 0 THEN 0 ELSE i

\* Mutants: an empty header is not followed to the start of the ring; the text alone
\* is stepped over.
log_next_NoWrap(i) == i + logbuf[i].len
log_next_TextOnly(i) == IF logbuf[i].len = 0 THEN logbuf[0].len ELSE i + logbuf[i].text
log_next(i) == IF logbuf[i].len = 0 THEN logbuf[0].len ELSE i + logbuf[i].len

\* The cells printed for the record at p.
dump_log_entry(p) == [j \in 1..logbuf[p].text |-> logbuf[p + j]]

\* The loop goes on: its two exits are idx = log_next_idx and idx >= log_buf_len,
\* and the second is not tested before the first turn.
InLoop == pc = "walk" /\ idx # c.next /\ (seen = {} \/ idx < c.len)

\* The header and the text of this turn lie in the copy.
Inside == idx < c.len /\ LET p == log_from_idx(idx) IN p + logbuf[p].text < c.len

Turn ==
    /\ InLoop /\ Inside
    /\ idx \notin seen
    /\ out' = Append(out, dump_log_entry(log_from_idx(idx)))
    /\ idx' = log_next(idx)
    /\ seen' = seen \cup {idx}
    /\ UNCHANGED <<guest, pc, c, logbuf, k, history>>

\* The walk is back at an index.  A turn depends on the index and the copy
\* alone, so the loop prints the same records for ever.
Spin ==
    /\ InLoop
    /\ idx \in seen
    /\ UNCHANGED vars

\* The header or the text is looked for outside the copy.
Overread ==
    /\ InLoop /\ ~ Inside
    /\ pc' = "wild"
    /\ UNCHANGED <<guest, c, logbuf, k, idx, seen, out, history>>

EndWalk ==
    /\ pc = "walk" /\ ~ InLoop
    /\ pc' = "done"
    /\ UNCHANGED <<guest, c, logbuf, k, idx, seen, out, history>>

Walk == Turn \/ EndWalk \/ Overread
Reader == ReadFirst \/ ReadNext \/ ReadLen \/ ReadSymbolFails \/ ReadBuf \/ StartWalk
          \/ Walk \/ Spin

\* The walk is over.
Over == pc \in {"done", "wild"} /\ UNCHANGED vars

\* Once the buffer is copied, the guest no longer matters.
Init == GuestInit /\ ReaderInit
Next == (Guest /\ pc \notin {"walk", "done", "wild"}) \/ Reader \/ Over
Spec == Init /\ [][Next]_vars

\* The walk is a loop of a running process: it goes on while it can.
FairSpec == Spec /\ WF_vars(Walk)

-----------------------------------------------------------------------------
(***************************************************************************)
(* Properties.                                                             *)
(***************************************************************************)

Cell == [n : 0..MaxRecords, j : Nat, len : Nat, text : Nat]

\* Every variable has its type; in particular the copy is as long as the masked
\* length, and only indices of the copy are visited.
TypeOK ==
    /\ buf \in [0..(size - 1) -> Cell]
    /\ first \in 0..(size - 1) /\ next \in 0..(size - 1)
    /\ firstSeq \in 1..nextSeq
    /\ pc \in {"first", "next", "len", "buf", "walk", "done", "wild"}
    /\ logbuf \in [0..(c.len - 1) -> Cell]
    /\ seen \subseteq 0..(c.len - 1) /\ idx \in Nat

\* What the walk needs of the indices: they and the length were read, the ring is
\* smaller than 2 MB, the oldest record was still there when the copy ended, and
\* log_next_idx was not read in the middle of a wrap.
Intact == /\ ~ failed /\ size < LenMod
          /\ firstSeq <= from /\ ~ torn

\* The buffer was copied as a whole.
Whole == k >= c.len

\* The text of record n.
Text(n) == [j \in 1..texts[n] |-> TextCell(n, j)]

\* With an intact copy exactly the records from log_first_idx to log_next_idx
\* are printed, each once, in order, with its own text, although the guest may
\* have logged more and recycled memory between the reads.
ExactRecords ==
    pc = "done" /\ Intact /\ Whole => out = [i \in 1..(upto - from) |-> Text(from + i - 1)]

\* Every header and text the walk has looked at lies in the part that was copied.
Sighted ==
    \A i \in seen : i < k /\ LET p == log_from_idx(i) IN p + logbuf[p].text < k

\* When the copy stopped half way the walk goes over it all the same.  As long as it
\* has not met a unit that was not read, what it has printed are the oldest records,
\* each once, in order, with its own text; only what follows is arbitrary.
SightedIsExact ==
    pc \in {"walk", "done", "wild"} /\ Intact /\ Sighted =>
        /\ Len(out) <= upto - from
        /\ out = [i \in 1..Len(out) |-> Text(from + i - 1)]

\* The walk over an intact copy ends, inside the copy: it meets log_next_idx and
\* neither turns for ever nor follows a len field out of the buffer.
WalkEnds == (pc = "walk" /\ Intact /\ Whole) ~> pc = "done"

=============================================================================

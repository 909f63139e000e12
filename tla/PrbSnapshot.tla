---------------------------- MODULE PrbSnapshot ----------------------------
(***************************************************************************)
(* dump_lockless_record_log (printk.c) against a running guest.            *)
(*                                                                         *)
(* The guest goes on logging while its printk ring buffer is copied, word  *)
(* by word, over the monitor: first head_id and tail_id, then the          *)
(* descriptors, the infos and the text.  Nothing stops the guest, so the   *)
(* copies belong to different moments.  dump_record then decides from the  *)
(* copies alone what to print.                                             *)
(*                                                                         *)
(* Records are numbered 1, 2, ...; the id of record n is Id(n), modulo M.  *)
(* Record 0 stands for the descriptor the kernel's initialiser leaves at   *)
(* head and tail.  Positions in the text ring are in units of 4 bytes.     *)
(***************************************************************************)
EXTENDS Integers, Sequences, FiniteSets

CONSTANTS
    N,          \* descriptors in the ring (desc_ring_count)
    M,          \* number of descriptor ids (DESC_ID_MASK + 1)
    T,          \* units in the text ring (text_data_ring_size)
    W,          \* 2^64 in units: unsigned long arithmetic is modulo W
    MaxText,    \* longest text of a record, in units
    TextLens,   \* lengths records may have
    MaxRecords, \* bound on records the guest logs
    MaxExtends, \* bound on continuations of records
    Grain       \* text units the monitor reads at one moment

\* An unsigned long in front of the text of a block; NoLpos marks no block.
Header == 2
NoLpos == 1

ASSUME PrbAssumption ==
    /\ N \in Nat \ {0} /\ M \in Nat \ {0} /\ M % N = 0 /\ M > MaxRecords + N + 1
    /\ T \in Nat /\ T % Header = 0
    /\ TextLens \subseteq 0..MaxText
    /\ MaxText \in Nat /\ 2 * (MaxText + Header + 1) < T
    /\ W \in Nat /\ W > 2 * T
    /\ MaxRecords \in Nat /\ MaxExtends \in Nat /\ Grain \in Nat \ {0}

VARIABLES
    head, tail, \* newest and oldest record of the ring
    desc,       \* desc[s]: the descriptor in slot s
    len,        \* len[s]: text_len of the info in slot s
    text,       \* the text ring
    dhead,      \* head_lpos: where the next block begins
    w,          \* what the guest's writer is doing, and the length it is going for
    extends,    \* continuations so far
    pc,         \* where the reader is
    k,          \* words (units) of the current array copied so far
    m,          \* the reader's copies, struct prb_map
    out,        \* what it printed
    live,       \* records complete when the reader began, with their lengths
    recycled,   \* records that lost slot or block since the reader began
    reopened    \* records reopened since the reader began

guest == <<head, tail, desc, len, text, dhead, w, extends>>
reader == <<pc, k, m, out>>
history == <<live, recycled, reopened>>
vars == <<guest, reader, history>>

-----------------------------------------------------------------------------
(***************************************************************************)
(* The guest's ring buffer.                                                *)
(***************************************************************************)

\* The kernel starts near the wrap: DESC0_ID is -(count + 1).
Id(n) == (M - (N + 1) + n) % M
Slot(n) == Id(n) % N

Complete(st) == st \in {"committed", "finalized"}

\* The records that own their slot.
Owned == {n \in tail..head : desc[Slot(n)].id = Id(n)}

\* Blocks hold a header and the text, rounded up to whole words; one that would
\* not end before the end of the ring is stored at its start.  A record is at
\* most 1024 bytes and the ring at least 4096, so two blocks never fill it.
BlockSize(l) == Header + ((l + 1) \div 2) * 2
BlockEnd(b, l) ==
    LET e == b + BlockSize(l)
    IN  IF b \div T = e \div T THEN e ELSE (e \div T) * T + BlockSize(l)
TextStart(b, e) == (IF b \div T = e \div T THEN b % T ELSE 0) + Header

\* Records whose block the ring must give up before it can grow to e.  There is
\* one writer at a time here, so they are all finalized.
Victims(e) == {n \in Owned \ {head} : /\ desc[Slot(n)].st # "reusable"
                                      /\ desc[Slot(n)].begin # desc[Slot(n)].next
                                      /\ desc[Slot(n)].begin < e - T}

\* Descriptors with the records of V made reusable.
Recycled(V) == [s \in DOMAIN desc |->
                   IF \E n \in V : Slot(n) = s
                   THEN [desc[s] EXCEPT !.st = "reusable"] ELSE desc[s]]

GuestInit ==
    /\ head = 0 /\ tail = 0 /\ dhead = 0 /\ extends = 0
    /\ desc = [s \in 0..(N - 1) |->
                  IF s = Slot(0)
                  THEN [id |-> Id(0), st |-> "reusable", begin |-> NoLpos, next |-> NoLpos]
                  ELSE [id |-> 0, st |-> "reserved", begin |-> 0, next |-> 0]]
    /\ len = [s \in 0..(N - 1) |-> 0]
    /\ text = [p \in 0..(T - 1) |-> <<0, 0>>]
    /\ w = [ph |-> "idle", len |-> 0]

\* desc_push_tail: the oldest record goes, if it and its successor are done.
PushTail ==
    /\ w.ph = "idle" /\ head < MaxRecords
    /\ head - tail + 1 = N
    /\ \A n \in {tail, tail + 1} : desc[Slot(n)].st \in {"finalized", "reusable"}
    /\ desc' = Recycled({tail})
    /\ tail' = tail + 1
    /\ recycled' = recycled \cup {tail}
    /\ UNCHANGED <<head, len, text, dhead, w, extends, reader, live, reopened>>

\* desc_reserve: the new record becomes the head ...
Reserve ==
    /\ w.ph = "idle" /\ head < MaxRecords
    /\ head - tail + 1 < N
    /\ head' = head + 1
    /\ \E l \in TextLens : w' = [ph |-> "reserve", len |-> l]
    /\ UNCHANGED <<tail, desc, len, text, dhead, extends, reader, history>>

\* ... takes its slot, and its predecessor can no longer be reopened.
TakeSlot ==
    /\ w.ph = "reserve"
    /\ desc' = [s \in DOMAIN desc |->
                  IF s = Slot(head)
                  THEN [desc[s] EXCEPT !.id = Id(head), !.st = "reserved"]
                  ELSE IF s = Slot(head - 1) /\ desc[s].st = "committed"
                  THEN [desc[s] EXCEPT !.st = "finalized"] ELSE desc[s]]
    /\ w' = [w EXCEPT !.ph = "begin"]
    /\ UNCHANGED <<head, tail, len, text, dhead, extends, reader, history>>

\* data_alloc: room is made and begin is set, then next.  A record without text
\* has no block.
AllocBegin ==
    /\ w.ph = "begin"
    /\ LET V == IF w.len = 0 THEN {} ELSE Victims(BlockEnd(dhead, w.len))
           b == IF w.len = 0 THEN NoLpos ELSE dhead
       IN  /\ desc' = [Recycled(V) EXCEPT ![Slot(head)].begin = b]
           /\ recycled' = recycled \cup V
    /\ w' = [w EXCEPT !.ph = "next"]
    /\ UNCHANGED <<head, tail, len, text, dhead, extends, reader, live, reopened>>

AllocNext ==
    /\ w.ph = "next"
    /\ LET e == BlockEnd(dhead, w.len)
       IN  IF w.len = 0
           THEN desc' = [desc EXCEPT ![Slot(head)].next = NoLpos] /\ UNCHANGED dhead
           ELSE desc' = [desc EXCEPT ![Slot(head)].next = e] /\ dhead' = e
    /\ w' = [w EXCEPT !.ph = IF w.len = 0 THEN "len" ELSE "text"]
    /\ UNCHANGED <<head, tail, len, text, extends, reader, history>>

\* The writer fills its block; cell j of record n is <<n, j>>.
WriteText ==
    /\ w.ph = "text"
    /\ LET d == desc[Slot(head)]
           a == TextStart(d.begin, d.next)
       IN  text' = [p \in DOMAIN text |->
                      IF p \in (a - Header)..(a - 1) THEN <<head, 0>>
                      ELSE IF p \in a..(a + w.len - 1) THEN <<head, p - a + 1>>
                      ELSE text[p]]
    /\ w' = [w EXCEPT !.ph = "len"]
    /\ UNCHANGED <<head, tail, desc, len, dhead, extends, reader, history>>

WriteLen ==
    /\ w.ph = "len"
    /\ len' = [len EXCEPT ![Slot(head)] = w.len]
    /\ w' = [w EXCEPT !.ph = "commit"]
    /\ UNCHANGED <<head, tail, desc, text, dhead, extends, reader, history>>

\* prb_commit or prb_final_commit.
Commit ==
    /\ w.ph = "commit"
    /\ \E st \in {"committed", "finalized"} :
          desc' = [desc EXCEPT ![Slot(head)].st = st]
    /\ w' = [w EXCEPT !.ph = "idle"]
    /\ UNCHANGED <<head, tail, len, text, dhead, extends, reader, history>>

\* prb_reserve_in_last: the newest record is reopened for a continuation.
Reopen ==
    /\ w.ph = "idle" /\ extends < MaxExtends
    /\ desc[Slot(head)].st = "committed"
    /\ len[Slot(head)] > 0
    /\ \E l \in TextLens : l > len[Slot(head)] /\ w' = [ph |-> "extend", len |-> l]
    /\ desc' = [desc EXCEPT ![Slot(head)].st = "reserved"]
    /\ extends' = extends + 1
    /\ reopened' = reopened \cup {head}
    /\ UNCHANGED <<head, tail, len, text, dhead, reader, live, recycled>>

\* data_realloc: the block grows; if it no longer fits before the end of the ring
\* its text is copied to the start.
Extend ==
    /\ w.ph = "extend"
    /\ LET d == desc[Slot(head)]
           e == BlockEnd(d.begin, w.len)
           from == TextStart(d.begin, d.next)
           to == TextStart(d.begin, e)
       IN  /\ desc' = [Recycled(Victims(e)) EXCEPT ![Slot(head)].next = e]
           /\ recycled' = recycled \cup Victims(e)
           /\ dhead' = e
           /\ text' = [p \in DOMAIN text |->
                         IF p \in (to - Header)..(to + len[Slot(head)] - 1)
                         THEN text[from + (p - to)] ELSE text[p]]
    /\ w' = [w EXCEPT !.ph = "text"]
    /\ UNCHANGED <<head, tail, len, extends, reader, live, reopened>>

Guest == PushTail \/ Reserve \/ TakeSlot \/ AllocBegin \/ AllocNext \/ WriteText
         \/ WriteLen \/ Commit \/ Reopen \/ Extend

-----------------------------------------------------------------------------
(***************************************************************************)
(* The reader.                                                             *)
(***************************************************************************)

\* xmalloc zeroes the arrays of struct prb_map.
ReaderInit ==
    /\ pc = "head" /\ k = 0 /\ out = <<>>
    /\ m = [head |-> 0, tail |-> 0,
            desc |-> [s \in 0..(N - 1) |->
                        [id |-> 0, st |-> "reserved", begin |-> 0, next |-> 0]],
            len |-> [s \in 0..(N - 1) |-> 0],
            text |-> [p \in 0..(T - 1) |-> <<0, 0>>]]
    /\ live = <<>> /\ recycled = {} /\ reopened = {}

\* struct printk_ringbuffer is read: head_id comes before tail_id.
ReadHead ==
    /\ pc = "head"
    /\ m' = [m EXCEPT !.head = head]
    /\ pc' = "tail"
    /\ live' = [n \in {n \in Owned : Complete(desc[Slot(n)].st)} |-> len[Slot(n)]]
    /\ recycled' = {} /\ reopened' = {}
    /\ UNCHANGED <<guest, k, out>>

ReadTail ==
    /\ pc = "tail"
    /\ m' = [m EXCEPT !.tail = tail]
    /\ pc' = "descs" /\ k' = 0
    /\ UNCHANGED <<guest, out, history>>

\* A descriptor is three words: state_var, begin and next.
ReadDescs ==
    /\ pc = "descs"
    /\ LET s == k \div 3
           d == desc[s]
       IN  m' = CASE k % 3 = 0 -> [m EXCEPT !.desc[s].id = d.id, !.desc[s].st = d.st]
                  [] k % 3 = 1 -> [m EXCEPT !.desc[s].begin = d.begin]
                  [] k % 3 = 2 -> [m EXCEPT !.desc[s].next = d.next]
    /\ IF k + 1 = 3 * N THEN pc' = "infos" /\ k' = 0 ELSE pc' = pc /\ k' = k + 1
    /\ UNCHANGED <<guest, out, history>>

ReadInfos ==
    /\ pc = "infos"
    /\ m' = [m EXCEPT !.len[k] = len[k]]
    /\ IF k + 1 = N THEN pc' = "text" /\ k' = 0 ELSE pc' = pc /\ k' = k + 1
    /\ UNCHANGED <<guest, out, history>>

ReadText ==
    /\ pc = "text"
    /\ m' = [m EXCEPT !.text = [p \in 0..(T - 1) |->
                                  IF p \in k..(k + Grain - 1) THEN text[p] ELSE @[p]]]
    /\ IF k + Grain >= T THEN pc' = "dump" /\ k' = 0
                         ELSE pc' = pc /\ k' = k + Grain
    /\ UNCHANGED <<guest, out, history>>

\* A failing readmem: the arrays are freed and nothing is printed.
ReadFails ==
    /\ pc \in {"head", "tail", "descs", "infos", "text"}
    /\ pc' = "failed"
    /\ UNCHANGED <<guest, k, m, out, history>>

\* Mutants: a wrapped block is looked for at its begin; the header is printed.
Span_NoWrap(begin, next, l) ==
    LET a == begin + Header
        room == (next - a) % W
    IN  [start |-> a, len |-> IF room < l THEN room ELSE l]
Span_NoHeader(begin, next, l) ==
    LET a == IF begin > next THEN 0 ELSE begin
        room == (next - a) % W
    IN  [start |-> a, len |-> IF room < l THEN room ELSE l]

\* Where dump_record finds the text of a block, and how much of it it prints.
\* The subtraction is unsigned: it wraps when next lies before the text.
Span(begin, next, l) ==
    LET a == (IF begin > next THEN 0 ELSE begin) + Header
        room == (next - a) % W
    IN  [start |-> a, len |-> IF room < l THEN room ELSE l]

\* Mutants: only finalized records are printed; the id is not compared.
dump_record_OnlyFinalized(id) ==
    LET d == m.desc[id % N]
        begin == d.begin % T
        next == d.next % T
        nothing == [start |-> 0, len |-> 0]
    IN  IF d.id # id \/ d.st # "finalized"
        THEN [id |-> id, kind |-> "none", span |-> nothing]
        ELSE IF begin = next
        THEN [id |-> id, kind |-> "blank", span |-> nothing]
        ELSE [id |-> id, kind |-> "text", span |-> Span(begin, next, m.len[id % N])]
dump_record_AnyId(id) ==
    LET d == m.desc[id % N]
    IN  IF ~ Complete(d.st) \/ d.begin % T = d.next % T
        THEN [id |-> id, kind |-> "none", span |-> [start |-> 0, len |-> 0]]
        ELSE [id |-> id, kind |-> "text",
              span |-> Span(d.begin % T, d.next % T, m.len[id % N])]

dump_record(id) ==
    LET d == m.desc[id % N]
        begin == d.begin % T
        next == d.next % T
        nothing == [start |-> 0, len |-> 0]
    IN  IF d.id # id \/ ~ Complete(d.st)
        THEN [id |-> id, kind |-> "none", span |-> nothing]
        ELSE IF begin = next
        THEN [id |-> id, kind |-> "blank", span |-> nothing]
        ELSE [id |-> id, kind |-> "text", span |-> Span(begin, next, m.len[id % N])]

\* The loop from tail_id to head_id, and dump_record(head_id) after it.
Walk_NoMask == IF Id(m.head) >= Id(m.tail) THEN Id(m.head) - Id(m.tail) + 1 ELSE W
Walk == ((Id(m.head) - Id(m.tail)) % M) + 1

\* Mutant: the ids are not masked.
Dump_NoMask ==
    /\ pc = "dump"
    /\ out' = [i \in 1..Walk |-> dump_record(Id(m.tail) + i - 1)]
    /\ pc' = "done"
    /\ UNCHANGED <<guest, k, m, history>>

Dump ==
    /\ pc = "dump"
    /\ out' = [i \in 1..Walk |-> dump_record((Id(m.tail) + i - 1) % M)]
    /\ pc' = "done"
    /\ UNCHANGED <<guest, k, m, history>>

Reader == ReadHead \/ ReadTail \/ ReadDescs \/ ReadInfos \/ ReadText \/ ReadFails
          \/ Dump

\* The dump is over; the guest no longer matters.
Over == pc \in {"done", "failed"} /\ UNCHANGED vars

Init == GuestInit /\ ReaderInit
Next == (Guest /\ pc \notin {"dump", "done", "failed"}) \/ Reader \/ Over
Spec == Init /\ [][Next]_vars

-----------------------------------------------------------------------------
(***************************************************************************)
(* Properties.                                                             *)
(***************************************************************************)

States == {"reserved", "committed", "finalized", "reusable"}
Descriptor == [id : 0..(M - 1), st : States, begin : Nat, next : Nat]

\* Every variable has its type.
TypeOK ==
    /\ head \in Nat /\ tail \in Nat /\ dhead \in Nat /\ extends \in Nat
    /\ desc \in [0..(N - 1) -> Descriptor]
    /\ len \in [0..(N - 1) -> 0..MaxText]
    /\ w.len \in 0..MaxText
    /\ pc \in {"head", "tail", "descs", "infos", "text", "dump", "done", "failed"}
    /\ m.desc \in [0..(N - 1) -> Descriptor]
    /\ m.len \in [0..(N - 1) -> 0..MaxText]
    /\ \A i \in DOMAIN out : out[i].id \in 0..(M - 1) /\ out[i].span.len \in 0..MaxText

\* The cells printed for entry i of the output.
Cells(i) == [j \in 1..out[i].span.len |-> m.text[out[i].span.start + j - 1]]

\* dump_record never reads outside the copy of the text ring, not even for a
\* descriptor whose words come from different records, when the unsigned
\* subtraction wraps.
InBounds ==
    \A i \in DOMAIN out :
        out[i].kind = "text" => out[i].span.start + out[i].span.len <= T

\* No record that was complete when the dump began, and that the guest left
\* alone, is missing from the output.
StableIsPrinted ==
    pc = "done" =>
        \A n \in DOMAIN live \ (recycled \cup reopened) :
            \E i \in DOMAIN out :
                /\ out[i].id = Id(n)
                /\ IF live[n] = 0 THEN out[i].kind = "blank"
                   ELSE out[i].kind = "text" /\ out[i].span.len = live[n]

\* A printed record that was not recycled or reopened during the dump, old or
\* new, is printed with its own text and nothing else.
PrintedIsExact ==
    \A i \in DOMAIN out :
        \A n \in 0..MaxRecords \ (recycled \cup reopened) :
            out[i].kind = "text" /\ out[i].id = Id(n) =>
                Cells(i) = [j \in 1..len[Slot(n)] |-> <<n, j>>]

\* A record that is reopened during the dump, moved to the start of the ring and
\* extended, may be skipped, but if it is printed then what it held when the
\* dump began is intact.
ExtendedKeepsPrefix ==
    \A i \in DOMAIN out :
        \A n \in DOMAIN live \ recycled :
            out[i].kind = "text" /\ out[i].id = Id(n) =>
                /\ out[i].span.len >= live[n]
                /\ \A j \in 1..live[n] : Cells(i)[j] = <<n, j>>

\* The loop over the ids ends after at most one turn per descriptor, unless the
\* guest laps the ring between the reads of head_id and tail_id.
WalkBounded == pc = "done" => Walk <= N \/ m.tail > m.head

=============================================================================

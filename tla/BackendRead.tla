---------------------------- MODULE BackendRead ----------------------------
(***************************************************************************)
(* How the three back ends carry out a read of guest memory: qmp_readmem   *)
(* and libvirt_readmem in parts of Step cells, each part one monitor       *)
(* command whose answer is a list of lines; file_readmem with one fseek    *)
(* and one fread through the buffer of a stdio stream.  The guest runs on. *)
(*                                                                         *)
(* A cell is a byte.  The monitor's answer here is the answer to its       *)
(* command, as far as the memory goes; what becomes of late or merged      *)
(* answers on a QMP socket is QmpSession's subject.                        *)
(***************************************************************************)
EXTENDS Integers

CONSTANTS
    MemSize,     \* cells of guest memory, and of the memory file
    MaxSize,     \* bound on the size of a read
    Starts,      \* addresses reads begin at
    Backends,    \* subset of {"qmp", "libvirt", "file"}
    Step,        \* 4096
    Word,        \* 4 bytes: libvirt asks for whole words
    Line,        \* back end -> cells per line of an answer: 8 bytes, 4 words
    Block,       \* cells of the stdio buffer
    MaxWrites    \* bound on the guest's writes

\* Kernel objects are word aligned; steps and lines are whole words; memory ends
\* with a page.
ASSUME ReadAssumption ==
    /\ MemSize \in Nat /\ MaxSize \in Nat /\ MaxWrites \in Nat
    /\ Word \in Nat \ {0} /\ Step \in Nat \ {0} /\ Block \in Nat \ {0}
    /\ Starts \subseteq Nat
    /\ Backends \subseteq {"qmp", "libvirt", "file"}
    /\ Line \in [{"qmp", "libvirt"} -> Nat \ {0}]
    /\ MemSize % Word = 0 /\ Step % Word = 0
    /\ \A a \in Starts : a % Word = 0

Junk == -1  \* a cell of the caller's or of malloc's memory that nothing was stored in

VARIABLES
    mem, writes,   \* the guest: versions of the cells, number of writes
    back,          \* the back end of this run
    pc, ret,       \* where the call is; what the last one returned
    addr, size,    \* its arguments
    done, part,    \* cells of finished parts; cells of this part
    k, ans,        \* cells answered (or read from the file) so far; their values
    buf,           \* the caller's buffer, and room behind it
    cache,         \* the stdio buffer: block number (-1: none) and contents
    old, oldblk    \* memory and block in the stdio buffer when the call began

vars == <<mem, writes, back, pc, ret, addr, size, done, part, k, ans, buf, cache, old, oldblk>>

Cells == 0..MemSize - 1
Least(a, b) == IF a < b THEN a ELSE b
roundup(n, m) == ((n + m - 1) \div m) * m

NoBlock == [blk |-> -1, val |-> <<>>]

-----------------------------------------------------------------------------

Init ==
    /\ mem = [a \in Cells |-> 0] /\ writes = 0
    /\ back \in Backends
    /\ pc = "idle" /\ ret = -1
    /\ addr = 0 /\ size = 0 /\ done = 0 /\ part = 0 /\ k = 0 /\ ans = <<>>
    /\ buf = [i \in 0..MaxSize + Word |-> Junk]
    /\ cache = NoBlock /\ old = mem /\ oldblk = -1

GuestWrites ==
    /\ writes < MaxWrites /\ writes' = writes + 1
    /\ \E a \in Cells : mem' = [mem EXCEPT ![a] = @ + 1]
    /\ UNCHANGED <<back, pc, ret, addr, size, done, part, k, ans, buf, cache, old, oldblk>>

\* readmem of a physical address, into a fresh buffer.
readmem ==
    /\ pc = "idle"
    /\ addr' \in Starts /\ size' \in 0..MaxSize
    /\ pc' = (IF back = "file" THEN "fseek" ELSE "part")
    /\ ret' = -1 /\ done' = 0 /\ part' = 0 /\ k' = 0 /\ ans' = <<>>
    /\ buf' = [i \in DOMAIN buf |-> Junk]
    /\ old' = mem /\ oldblk' = cache.blk
    /\ UNCHANGED <<mem, writes, back, cache>>

Return(r) ==
    /\ ret' = r /\ pc' = "idle"
    /\ UNCHANGED <<mem, writes, back, addr, size, done, part, k, ans, buf, old, oldblk>>

-----------------------------------------------------------------------------
(***************************************************************************)
(* The monitor back ends.                                                  *)
(***************************************************************************)

\* The loop over whole steps, then what is left.
NextPart ==
    /\ pc = "part"
    /\ \/ done < (size \div Step) * Step /\ part' = Step
       \/ done = (size \div Step) * Step /\ size % Step > 0 /\ part' = size % Step
    /\ pc' = "ask" /\ k' = 0 /\ ans' = <<>>
    /\ UNCHANGED <<mem, writes, back, ret, addr, size, done, buf, cache, old, oldblk>>

AllParts == pc = "part" /\ done = size /\ Return(0) /\ cache' = cache

\* Cells the command asks for: libvirt_dump_phy_memory rounds up to words.
Asked == IF back = "libvirt" THEN roundup(part, Word) ELSE part

\* The monitor reads and prints a line; a line that leaves the memory ends its
\* answer.
xp ==
    /\ pc = "ask"
    /\ LET n == Least(Line[back], Asked - k)
           at == addr + done + k
       IN  IF at + n <= MemSize
           THEN /\ ans' = [j \in 0..k + n - 1 |-> IF j < k THEN ans[j] ELSE mem[at + (j - k)]]
                /\ k' = k + n
                /\ pc' = (IF k + n = Asked THEN "answered" ELSE "ask")
           ELSE pc' = "answered" /\ UNCHANGED <<k, ans>>
    /\ UNCHANGED <<mem, writes, back, ret, addr, size, done, part, buf, cache, old, oldblk>>

\* Mutant: everything that was parsed is copied.
readmem_part_CopiesAll ==
    /\ pc = "answered"
    /\ buf' = [i \in DOMAIN buf |-> IF i \in done..done + k - 1 THEN ans[i - done] ELSE buf[i]]
    /\ done' = done + part
    /\ pc' = "part" /\ k' = 0 /\ ans' = <<>>
    /\ UNCHANGED <<mem, writes, back, ret, addr, size, part, cache, old, oldblk>>

\* Mutant: the buffer does not advance from part to part.
readmem_part_SamePlace ==
    /\ pc = "answered"
    /\ buf' = [i \in DOMAIN buf |-> IF i \in 0..Least(part, k) - 1 THEN ans[i] ELSE buf[i]]
    /\ done' = done + part
    /\ pc' = "part" /\ k' = 0 /\ ans' = <<>>
    /\ UNCHANGED <<mem, writes, back, ret, addr, size, part, cache, old, oldblk>>

\* qmp_readmem_part and libvirt_readmem_part: the lines are parsed into the part's
\* place of the buffer.  A short answer is not noticed: the rest of the part stays
\* what it was (QMP), or is what malloc returned (libvirt).
readmem_part ==
    /\ pc = "answered"
    /\ buf' = [i \in DOMAIN buf |-> IF i \in done..done + Least(part, k) - 1
                                    THEN ans[i - done] ELSE buf[i]]
    /\ done' = done + part
    /\ pc' = "part" /\ k' = 0 /\ ans' = <<>>
    /\ UNCHANGED <<mem, writes, back, ret, addr, size, part, cache, old, oldblk>>

\* The command fails: the read ends with what earlier parts stored.
PartFails == pc = "ask" /\ Return(-1) /\ cache' = cache

-----------------------------------------------------------------------------
(***************************************************************************)
(* The memory file.                                                        *)
(***************************************************************************)

\* fseek keeps the stdio buffer when the new position lies in it, or drops it.
fseek ==
    /\ pc = "fseek"
    /\ \/ pc' = "fread" /\ cache' \in {cache, NoBlock}
          /\ UNCHANGED <<mem, writes, back, ret, addr, size, done, part, k, ans, buf, old, oldblk>>
       \/ Return(-1) /\ cache' = cache

\* Mutant: the stream is read where it stands.
fread_NoSeek ==
    /\ pc = "fread" /\ k < size /\ addr + k < MemSize
    /\ buf' = [buf EXCEPT ![k] = mem[k]] /\ k' = k + 1
    /\ UNCHANGED <<mem, writes, back, pc, ret, addr, size, done, part, ans, cache, old, oldblk>>

\* fread goes on to the end of a block: from the buffer when it holds the block,
\* from the file otherwise, which leaves the block in the buffer or not.
fread ==
    /\ pc = "fread" /\ k < size /\ addr + k < MemSize
    /\ LET at == addr + k
           b == at \div Block
           n == Least(size - k, Least((b + 1) * Block, MemSize) - at)
           now == [blk |-> b, val |-> [a \in {c \in Cells : c \div Block = b} |-> mem[a]]]
           from == IF cache.blk = b THEN cache ELSE now
       IN  /\ buf' = [i \in DOMAIN buf |-> IF i \in k..k + n - 1 THEN from.val[addr + i] ELSE buf[i]]
           /\ k' = k + n
           /\ cache' \in IF cache.blk = b THEN {cache} ELSE {now, NoBlock}
    /\ UNCHANGED <<mem, writes, back, pc, ret, addr, size, done, part, ans, old, oldblk>>

freadError == pc = "fread" /\ k < size /\ Return(-1) /\ cache' = cache

\* Mutant: the end of the file is not an error.
file_readmem_EofIsFine ==
    /\ pc = "fread" /\ (k = size \/ addr + k >= MemSize)
    /\ Return(0)
    /\ cache' = cache

\* All of it is success; at the end of the file the number of bytes is returned,
\* which is 0, success, when there was none.
file_readmem ==
    /\ pc = "fread" /\ (k = size \/ addr + k >= MemSize)
    /\ Return(IF k = size THEN 0 ELSE k)
    /\ cache' = cache

-----------------------------------------------------------------------------

Reader == NextPart \/ AllParts \/ xp \/ readmem_part \/ PartFails
          \/ fseek \/ fread \/ freadError \/ file_readmem
Next == GuestWrites \/ readmem \/ Reader
Spec == Init /\ [][Next]_vars

-----------------------------------------------------------------------------
(***************************************************************************)
(* Properties.                                                             *)
(***************************************************************************)

Fetched == {i \in 0..size - 1 : buf[i] # Junk}
InMemory == addr + size <= MemSize

\* Every variable has its type.
TypeOK ==
    /\ mem \in [Cells -> Nat] /\ writes \in 0..MaxWrites /\ back \in Backends
    /\ pc \in {"idle", "part", "ask", "answered", "fseek", "fread"}
    /\ ret \in -1..MaxSize /\ addr \in Starts \cup {0} /\ size \in 0..MaxSize
    /\ done \in 0..size /\ part \in 0..Step /\ k \in Nat
    /\ ans \in [DOMAIN ans -> Nat]
    /\ buf \in [0..MaxSize + Word -> Nat \cup {Junk}]

\* Nothing is stored behind the caller's buffer: the words a libvirt command is
\* rounded up to are asked for but not copied.
OwnCellsOnly == \A i \in DOMAIN buf : i >= size => buf[i] = Junk

\* A read that reports success has stored every cell, or lies partly outside the
\* guest's memory; from a file only a read that begins at its end or behind it
\* reports success with nothing stored.
SuccessIsWhole ==
    pc = "idle" /\ ret = 0 =>
        \/ Fetched = 0..size - 1
        \/ IF back = "file" THEN addr >= MemSize ELSE ~ InMemory

\* A read of a memory file gets cells as they were during the call, except those
\* of the one block that was in the stdio buffer when it began: these may be as
\* old as the read that put the block there.
OneStaleBlock ==
    \A i \in Fetched :
        /\ buf[i] <= mem[addr + i]
        /\ buf[i] < old[addr + i] => (addr + i) \div Block = oldblk

\* The cells the monitor has read for this call: those stored, and those of the
\* answer that is still to be parsed.
gotten ==
    LET new == {i \in 0..size - 1 : i - done \in 0..Least(part, k) - 1}
    IN  [i \in Fetched \cup new |-> IF i \in new THEN ans[i - done] ELSE buf[i]]

\* A run with a memory file maps to a guest that is never read.
Monitor == back # "file"
readAddr == IF Monitor THEN addr ELSE 0
readSize == IF Monitor THEN size ELSE 0
readGot == IF Monitor THEN gotten ELSE <<>>

R == INSTANCE MemoryRead WITH busy <- Monitor /\ pc # "idle",
                              ok <- Monitor /\ pc = "idle" /\ ret = 0,
                              addr <- readAddr, size <- readSize, got <- readGot

\* The monitor back ends give their callers what MemoryRead promises: parts,
\* lines, rounding and short answers do not show.
ImplementsRead == R!ReadSpec

=============================================================================

# A TLA+ model of kvm-dmesg

kvm-dmesg prints the kernel log of a running guest from the outside. It asks
QEMU for CR3 and IDTR, finds out where KASLR put the guest's kernel, and copies
the log buffer out of guest memory. Nothing stops the guest meanwhile, the
dialogue with QEMU is framed by a time-out, and most results of reads are not
looked at. These three facts make the program hard to test, and they are what
the modules are about.

## The system and its parts

| part | code | module | state |
|---|---|---|---|
| `main` | `main.c` | `KvmDmesg` | modelled, proved |
| client life cycle | `libvirt_client.c`, `qmp_client.c`, `client.h` | `GuestClient` | modelled, proved |
| reads of the three back ends | `qmp_client.c`, `libvirt_client.c` | `BackendRead`, `MemoryRead` | modelled, proved |
| QMP session | `qmp_client.c` | `QmpSession` | modelled, proved |
| symbol table | `symbols.c`, `defs.h` | `SymTab`, `SymbolMap` | modelled, proved |
| address translation, `libvirt_get_registers` | `main.c`, `libvirt_client.c`, `defs.h` | `AddrTrans` | modelled, proved |
| lockless log (5.10 and later) | `printk.c`, `printk.h` | `PrbSnapshot` | modelled, proved |
| vmcoreinfo and the copies it lays out | `printk.c` | `PrbLayout` | modelled, proved |
| variable-length log (3.5 to 5.9) | `main.c`, `printk.h` | `LogBuf` | modelled, proved |
| flat log (before 3.5) | `main.c` | `FlatLog` | modelled, proved |
| `xutil.c`, `log.c`, `version.c`, `global_data.c` | | | not modelled, see the end |

How they interact: `main` opens a client, loads System.map into the symbol
table, derives the offsets (`derive_kaslr_offset`, `x86_64_post_reloc`) and then
calls one of three dumpers, depending on which symbols exist. The dumpers fetch
words with `get_symbol_data` and arrays with `readmem`. `readmem` translates the
address and calls the back end, for example `qmp_readmem`, which sends one `xp`
command per part.

`KvmDmesg` extends `GuestClient`: the two run as one state machine. The other
modules are the phases seen from close by; in `KvmDmesg` a phase is that it reads
the guest, and that the reads may fail or never return. `BackendRead` is shown to
implement `MemoryRead`, which is what the dumpers' models assume of a read: cells
fetched at different moments of the call, or a failure.

## KvmDmesg

`main` from its arguments to its exit. A path is a regular file, a socket,
something else or nothing; a regular file may open or not and is told apart by the
classes of its first bytes, which `is_text_file` looks at. `FindMap` and
`OpenGuest` are the two `stat` cascades, `ClientStep` the steps of
`guest_client_new`, the three dumps are chosen by the symbols the map turned out to
have. `InitHangs` and `Stuck` are calls that never return.

`main` (the run) enumerates all pairs of paths with up to 3 bytes, of which 2 are
looked at, so that a byte behind the limit exists. It shows that every read has an
open client behind it, that status 0 means that the client came up and has closed
everything it opened, and -1 that nothing was loaded or dumped. The status says
nothing about the reads. One thing is not closed: the stream of System.map, which
`symname_hash_init` leaves open (`symbols.c:93`) and the end of the process takes;
`map` is that stream. If the map cannot be opened a second time the table stays
empty, and `main` goes on to the flat log.

That a run ends is not claimed. With a live guest a read may never return
(`QmpSession`, a monitor command). With a memory file reads do return, but the walks
over the record logs (`main.c:310`, `printk.c:268`) go from one index or id to
another, and are endless when the two do not belong together although every read was
good; only the flat log of a file always ends. `Stuck` is these cases.

The usage text and the manual put the guest first and the map second, but `main`
tries the first argument as the map before the second. If both look like text, the
first is loaded as System.map and the second opened as guest memory. `FindMap` is the
rule of the code; no property repeats it.

## GuestClient

`guest_client_new` and `guest_client_release`. For each handle the model has both
the program's idea of it (`ptr`: the global is not NULL) and the truth (`held`: how
often it is open). The three initialisations are one action per call that may fail
half way: two `dlopen`s, `dlsym`, connection, domain; `fopen`; socket and
connection, greeting and negotiation. Libraries are counted by `dlopen`; qmp_fd has
no NULL and keeps its number when it is closed.

`client` lets a caller make 5 calls of any type, with releases in between; `main`
makes one. Five are enough for two failures of a kind and a success after them. A
client in place can be used, connection, domain and file agree with their pointers,
and what stays open is counted: the libraries after `libvirt_dlsym`
(`libvirt_client.c:101`), the socket after the greeting (`qmp_client.c:104`), `c`.

## BackendRead and MemoryRead

`MemoryRead` is the promise of `readmem`: a read fails, or has fetched every cell
of the range as it was at some moment during the call. A range that leaves the
guest's memory is promised an answer only.

`BackendRead` is how it is done. The monitor back ends cut the read into parts of
4096 bytes, ask for one after the other, and parse an answer line by line; libvirt
asks for whole words, which are parsed but not copied. The monitor ends an answer
where memory ends, which neither back end notices. A file is read by `fseek` and
`fread` through a stdio buffer, which may still hold a block of an earlier read.
The guest writes at any moment, between the lines of an answer too. Cells carry
version numbers, so that old contents can be told from new.

| run | bounds | shows |
|---|---|---|
| `reads` | 10 cells, reads of up to 9 from three start addresses, steps of 4, words of 2, blocks of 4, 2 writes | nothing is stored behind the buffer; success is a whole read or one that meets the end of memory; only the block that was in the stdio buffer may be older than the call; the monitor back ends implement `MemoryRead` |

The promise of `MemoryRead` is one of the monitor back ends. A memory file does not
keep it, because of the stdio buffer: in a run with a file the mapping shows
`MemoryRead` a guest that is never read, and `OneStaleBlock` says how far a file is
from the promise.

Reads of 9 are two steps and a rest that is no whole word; the start addresses put
reads inside the memory, across its end and behind it. The monitor is taken to answer
or to fail. A QMP monitor that answers late is the subject of `QmpSession`: there a
short answer is reported as success, which `MemoryRead` does not allow inside the
memory. So what the models of the dumps show holds for a dialogue in step.

## QmpSession

One client, one QEMU, a stream socket. The bytes QEMU writes are one stream,
cut into cells: what a parser of the client recognises as a whole. The socket is
three cursors over it (`gen`, `dl`, `rd`), and the buffer of the current
`qmp_read` is the window `from .. rd-1`. The parsers are operators over the
window: `FirstMarker` is `strstr`, `qmp_populate_mem` the number of lines stored,
`qmp_populate_reg` the registers found, `IsAckPrefix` the comparison of
`qmp_negotiate` over `nread` bytes.

Every function that talks to QEMU is two actions, one up to `qmp_read` and one
from its return. `qmp_read` is one action per turn of its loop. Poll and write
errors, SIGPIPE, end of file and stores past a buffer are actions of their own.
A store past a buffer is undefined: the process may die or go on. QEMU answers
in order, at any time, in any pieces, and may send events once the capabilities
are negotiated; it is modelled from what the client expects.

| run | bounds | shows |
|---|---|---|
| `qmp_late` | 5 requests, 1 event | a caller gets a wrong or short answer only after a disturbance; a dialogue out of step serves memory reads in the order of the requests, each answer once, and falls back into step; `qmp_read` ends |
| `qmp_faults` | 4 requests, 2 events, 1 fault, hang-up | the process dies of an overrun only after a disturbance or too many events |

A *disturbance* of a request is: its answer was not complete in the socket when
`poll` timed out, `poll` failed, or an event came with the acknowledgement. Three
requests are needed to get to the registers; two more let a late answer be read
by one command and its rest by the next. Two part sizes let a stale answer be
shorter or longer than the wanted one.

`ReadEnds` assumes weak fairness of `qmp_read`'s own steps: `poll` returns within
5 ms, so a reader that can go on does. Nothing is assumed of QEMU. The property
is checked without hang-ups; with them it is false, since `read` returning 0 does
not end the loop (`qmp_client.c:48`).

Left out: partial writes. A command is shorter than what a UNIX stream socket
takes or refuses as a whole. A line of a memory dump is one cell, so the up to 7 bytes
that a longer stale last line stores behind the size asked for
(`qmp_client.c:273`) are not counted.

## PrbSnapshot

`dump_lockless_record_log` against a running guest. The reader copies head_id,
tail_id, then the descriptors word by word, the infos and the text ring in pieces
of `Grain` units. Between any two of these the guest may take a step of its
writer: push the tail, reserve, allocate, write, commit, reopen, extend. The
guest's part is modelled from what the reader relies on. There is one writer at
a time in it. Ids are modulo `M` and start close to the wrap as in the kernel,
and `unsigned long` arithmetic is modulo `W`.

`prb_race` runs 2 descriptors, a ring of 14 units (56 bytes), 3 records of length
0, 1 or 3 and 1 continuation. That laps the descriptors, wraps and recycles the
text ring and moves a reopened record to the start of the ring. Records left
alone are printed, exactly; an extended one keeps the text it had; nothing is
read outside the copy; the walk over the ids is short unless the guest laps the
ring between the reads of head and tail (`printk.c:265`).

`PrbAssumption` asks for blocks of less than half the ring. A block of exactly
half may be printed as an empty line (`printk.c:181`). The kernel's records of at
most 1 kB in rings of at least 4 kB satisfy it.

## PrbLayout

Where the sizes and offsets of the lockless dump come from, and the frame around
`PrbSnapshot`'s copies. The note is a sequence of cells: a key, a digit, a newline,
other text, a zero. `strstr` and `strtol` are operators over it, so parsing a value
is modelled by what it does. The size of the note may be what the stack held, masked
to 13 bits; the address may be wrong; the read may fail, which `vmcoreinfo_init`
tells nobody (`printk.c:99`). The buffer ends with a newline and no zero, so the
search for a missing key runs into the heap: an arbitrary result. Then four copies
follow, each of which may fail and leaves by its own label.

`prb_layout` uses the layout of a 64-bit kernel in three notes: in the kernel's
order, in the opposite order between other lines, and without
`SIZE(printk_ringbuffer)`. Sizes from 0 to 70 cut them anywhere. The table is the
kernel's layout or all zeros, every value has an end, and exactly what was allocated
is freed. With zeros the dump goes on all the same; what it then reads is arbitrary
and not modelled. `ValueAssumption` ties `Layout` to the notes: behind the
first place of a key stand the digits of its value and a newline. TLC evaluates it on
the three notes.

## LogBuf

`dump_variable_length_record_log` against `log_store` of a running guest.
Positions are in units of 16 bytes, and text that is taken for a header shows the
length `Junk`. `Turn` is one turn of the loop. `Spin` is a loop that came back to
an index: a turn depends on the index and the copy alone, so it never ends.
`Overread` is a header or a text outside the copy.

`log_race` logs 5 records into a ring of 8 units, which wraps it twice. With an
intact copy exactly the records between the two indices are printed and the walk
ends inside the copy. Two conditions name what this needs. *Intact*: the symbols were
read, the ring is smaller than 2 MB, the oldest record was not recycled before the copy
was complete, and log_next_idx was not read between the wrap marker and the insertion
of the wrapped record. *Whole*: the copy was read to its end. Without them the loop can
run for ever or leave the copy. `WalkEnds` assumes weak fairness of the walk, which is a
loop of a running process.

`log_fails` adds failing reads, uninitialised locals and rings that the 21-bit mask
turns into empty ones. The result of reading the buffer is ignored (`main.c:307`), so
the walk goes over what `malloc` returned: cells that were not read, and cells behind
the ring, hold any length of `HeapLens` and any text of `HeapTexts`. In the run these
are an empty header, and a record of 3 units with a text of 1. `SightedIsExact` says
how far a dump of a half-read ring can be trusted: until the walk meets a unit that was
not read, it has printed the oldest records exactly. A wrong address in log_buf, whose
read would succeed elsewhere, is not modelled.

## FlatLog

The ring of characters of kernels before 3.5, from `main.c:421`. A cell holds the
number of its character and its class (ASCII, other, zero). The guest logs while the
ring is copied cell by cell; a failing read leaves what `malloc` returned. `PrintChar`
is one turn of the printing loop. What is printed is a sequence of characters, each
with the position at which the loop printed it.

`flat_log` logs up to 7 characters into a ring of 4, which wraps it, and into one of
5, which the mask turns into 0. The loop prints what `PrintsRuns` says position by
position. A quiet ring that has wrapped comes out with one seam: the newest characters
first, since the loop starts at the first byte and not at log_end (`main.c:437`). A
guest that logs during the copy may cut it again, but only if it writes as fast as the
copy proceeds (`SeamsKeepPace`): 7 characters are enough for two seams in a ring of 4.

## SymTab and SymbolMap

`symname_hash_init` line by line: the chains of the hash table, the 8-bit
counters of duplicates, and `symtab_init` with its choice of the divide error
handler. `SymbolMap` is what the rest of the program relies on: a partial map
that only grows. `symtab` checks that the table implements it, with 5 lines, two
names in one chain, and counters modulo 3 so that they wrap; nothing in the program
reads a counter, and none shows in what a name resolves to.

## AddrTrans

From the registers to the offsets: the page walk with its table buffers and
`last_*_read` tags, the first gate of the IDT, the arithmetic of KASLR offset and
phys_base modulo `W`, and page_offset_base. Each read may fail and the program
goes on. `addr_trans` has 64 addresses, pages of 4, tables of 2 entries, and all
placements of the four tables on five pages. It shows that all symbols and all
pointers into the direct map are translated as the guest does, also when
phys_base wraps and with the CR3 of user mode. `Supported` names the two
conditions: the top table is on an even page (the mask at `main.c:150` always
clears that bit) and the IDT is not mapped by a large page.

`addr_trans` includes the registers of `libvirt_get_registers`, which returns 0
also when the answer lacks a line.

## What is proved

Each result holds for all values of the constants that satisfy the named
assumptions of its module (`QmpAssumption`, `SymAssumption`, `PrbAssumption`,
`ReadAssumption`, `ClientAssumption`, `MainAssumption`, `NoteAssumption`,
`ValueAssumption`, `LayoutAssumption`, `LogBufAssumption` and `FlatAssumption`, and
those of `AddrTrans`).

`QmpSessionProofs`. The invariant `IInv` is inductive. On top of the properties
it says: requests come in the order of the session's phases (`Phases`), at most
the current request has no result (`Settled`), answers lie in the stream in the
order of the requests and do not overlap (`Ordered`), the current answer does not
begin before the window (`OwnInWindow`), an answer that was settled in time is
behind the window (`TimelyIsBehind`), and the stream holds nothing but answers and
counted events (`FewEvents`). Without the window conjuncts
`WrongOnlyAfterDisturbance` is not inductive: when `poll` times out, the proof must
know that the first marker in the buffer is the one of the current answer
(`OwnMarkerFirst`). `FewEvents` bounds the window for `NoOverrun`. Theorems:
`TypeCorrect`, `Framing`, `Resync`, `NoOverrun`, `CleanBetweenCommands`,
`PromptServer`, `ServedInOrder`. `ServedInOrder` needs one more conjunct, that an
answer which served a read is behind the window (`ServedIsBehind`). `PromptServer` is about a QEMU that never pauses for
5 ms (`Prompt`); it follows from the others, and no run repeats it.

`LookupProofs`, first part: the symbol table. `FirstStays` says that appending to a
chain keeps the first entry of every name; from it follow `FirstWins` and `Refinement`,
for every hash function, file and set of names. `SymTypeCorrect` is the type invariant.

Second part: the address translation. `IInv` says what the program has found at each
point of the walk when nothing failed (`Found`): the entry in hand is the page of the
next table, the physical address of the IDT, the gate. Its last step is arithmetic modulo `W`: from
phys_base = idtr_paddr - (idt_table + offset - start), the translation of a symbol
is the guest's own. Theorems `TypeCorrect`, `Tags`, `Symbols`, `DirectMap`, for every
width, page and table size, placement of the tables and KASLR offset.

`PrbProofs` and `PrbExactProofs`. `NoOverread` is `InBounds` for all ring sizes. Its
invariant `IInv`: every position in a descriptor, and so in a copy of one, is even or
`NoLpos`. Words of different records may meet in a copied descriptor; the parity is
what keeps `next - begin` from wrapping anywhere but at the start of the ring, where
the longest text fits.

What is printed needs to know how the guest uses its rings, and how far the reader
has come. `XInv` has both halves:

- `GInv`, the guest. The records in the ring are fewer than its slots (`Window`), a
  complete descriptor belongs to one of them (`Owners`), the record being written is
  not complete (`Writing`). A complete record's block holds its text, ends at or before
  `dhead`, and lies less than one turn of the ring behind `Limit`, which is how far
  the ring has been given up, already ahead of `dhead` between the two halves of
  `data_alloc` (`Blocks`). Nothing follows the block of the newest record
  (`HeadAfter`), and the writer has come with it as far as its phase says
  (`HeadBlockOK`, `HeadFields`).
- `RInv`, the reader. A record that was complete at the start and keeps slot and block
  only grows (`LiveOK`) and lies between the two ids (`Ids`). Its descriptor is copied
  as a complete one (`LiveCopied`). If a copied descriptor is complete and its record
  has not been disturbed until now, then the words copied so far are what the record
  holds now (`StableOK`): "until now" moves with every step, which is what makes this
  inductive although the words are copied at different moments. For a record that is
  extended, the copied `next` is the end of some block with the same begin that holds
  at least the old text (`GrownOK`). The output is the walk over the copies (`OutOK`).

The guest's steps come down to three facts. Two blocks less than one turn apart have
no unit of the ring in common (`PlacesApart`, from the uniqueness of remainders). Two
records of the window have different slots and different ids (`SlotApart`, `IdApart`).
A block that grows without moving keeps its cells, and one that moves to the start of
the ring leaves the old ones (`OwnPlace`). The steps that copy
the arrays go through one lemma, `CopyingInv`: a word that is new in the copies is what
the guest holds at that moment.
Theorems `SnapshotExact`, `NothingStableMissing`, `PrefixIntact`, `WalkEnds` and
`SnapshotTypes`, for all ring sizes, lengths and grains that satisfy `PrbAssumption`.

`PrbLayoutProofs`. `Copies` says what is owned at each step; with it `ExactFree` is
inductive. The end of a value is a fact about the buffer alone
(`KeysEnd`): a key is followed by the note's own last newline, or by the one put
behind the buffer if the note is cut off before it. For `LayoutOrZero` the invariant
`Parsed` follows the note into the buffer: with size and address known the buffer is the
whole note (`Whole`), so `strstr` returns the first place of a key and of the newline
behind it (`FindsFirst`), and the value is parsed from the same cells as in the note.
What `strtol` makes of them is not unfolded; `ValueAssumption` says that it is the
layout's value. Assumed besides is that a note ends with a newline and holds no zero.
Theorems `FreesWhatItOwns`, `ValuesEnd`, `KernelLayoutOrZeros`.

`BackendReadProofs`. The invariant relates the position of the call to the contents
of the buffer: the finished parts are whole as long as they lie in the memory
(`Stored`), the answer in hand is a prefix of the part and no younger than the
memory (`Answers`), the part lies between two steps (`Parts`), and a block in the
stdio buffer is no younger than the memory (`Cached`, `Fresh`). `OwnCellsOnly` needs
`Parts`: the last part ends at the size of the read although it is asked for in
whole words. `Refinement` shows that every step of a monitor back end is a step of
`MemoryRead` or changes nothing there. Theorems `TypeCorrect`, `NoSpill`,
`WholeReads`, `Staleness`, `Refinement`.

`LogProofs`. The reader's walk is right because of where the records lie, which no
variable says. `LogInv` is therefore existential: there are positions `E` and wrap
counts `G`, one for each record ever logged, such that

- the guest (`GInv`): the records lie one behind the other, or at the start of the ring
  behind an empty header (`Layout`), take less than one turn of it (`Ring`), and each
  that was not dropped is stored at its place (`Holds`); the writer's new record goes
  to a place that is free and holds what its phase has written (`Writer`);
- the reader (`RInv`): the indices it read are positions of records, the cells copied
  so far hold the records between them, and after some turns of an intact walk the
  output is the texts of the first records and idx the position behind them
  (`ReaderOK`).

Logging a record extends `E` and `G` without changing them anywhere else, so what the
reader knows of a record stays true while the guest goes on (`GuestRests`,
`ReaderRests`). That a new record overwrites none that is left is `Untouched`, from the
order of the pairs (G, E). A turn of an intact walk finds the next record's header, at
idx or at 0 behind an empty one (`TurnIntact`), and reaches log_next_idx only at the
last, because positions of records in the ring differ (`Distinct`). In a copy that
stopped half way a turn whose header and text were read (`Copied`) is the same turn; as
long as all were, the walk is behind the records it has printed (`Tracked`). Theorems `LogTypeCorrect`,
`PrintsExactRecords`, `PrintsSightedRecords`, and `WalkStaysOnTrack`: an intact
walk never leaves the copy and never returns to an index, which is the safety half of
`WalkEnds`. They hold for every ring, text and grain of the copy.

`KvmDmesgProofs`, first part: the client. Where the initialisation is, it owns exactly
the handles it has opened (`Placed`, `Owned`), and per handle no more are open than
failures, the client and the call in hand account for (`Owed`). Theorems
`ClientTypes`, `UsableAlways`, `PointersTrue`, `LeaksCounted`, for any number of calls.

Second part: `main`. On top of the client's invariant, which every step of `main`
keeps, stands what each phase knows of the client and of the reads made before it
(`Phases`, `ReadsBefore`). That everything is closed at the exit follows from `Owed`
with no failures: a handle is open only if the client uses it, and
`guest_client_release` closes all that a client uses. Theorems `MainTypes`,
`ExitIsClean`, `ReadsHaveClient`, for files of any contents and any number of bytes
looked at.

Third part: `FlatLog`, which is code of `main` too. `RingOK` says what the
guest's ring holds: up to log_end modulo the length the characters of the current
turn, behind it those of the turn before, or nothing (`Turned`); a copy of a guest that
kept quiet holds these cells or was not read. `LoopOK` is the loop's invariant: what
has been printed is what the positions passed contribute (`Passed`), and next_line says
whether a line is open there (`LineOpen`), which is defined from the copy alone. Each
turn moves one position from the rest to the passed (`TurnPrints`, `TurnSkips`,
`LineOpenNext`), so what the loop computes needs no induction over the copy. `OneSeam`
is then arithmetic on two cells of the ring (`TwoCells`).

`SeamsKeepPace` has an invariant of its own, `SeamInv`, since the cells of the copy are
of different moments. Every character copied lies where its number puts it, and is not
newer than log_end (`Sits`); cells not yet copied count as not read. When the copy goes
from a newer to an older character, the newer one is the last the guest has written at
that moment (`NewestAtSeam`); the character at an earlier seam is not newer than it, and
lies as many places before it as their positions differ, or a whole turn more
(`FurtherOn`). Theorems `FlatPrintsRuns`, `FlatOneSeam`, `FlatSeamsKeepPace`, for every
length, mask and grain of the copy.

## What is only model-checked

Liveness (`ReadEnds`, `WalkEnds` of `LogBuf`): fairness is out of the prover's reach. Every invariant and every action property that a run checks is
also proved.

The type invariants of all modules but `PrbLayout` and `FlatLog`, which state none, are
among them (`TypeCorrect`, `SymTypeCorrect`, `SnapshotTypes`, `ClientTypes`, `MainTypes`,
`LogTypeCorrect`).

## Not modelled

`xread`, `xwrite` and the allocation wrappers of `xutil.c` are part of the steps that
call them; the rest of `xutil.c` (`xstroul`, `to_bytes`, `file_read`, `daemonize` and
others) is called by nothing. `log.c` prints messages, `version.c` a text, and
`global_data.c` defines globals that start as zeros. Time stamps, the wording of
messages and the characters of a record's text are formatting. `xmalloc` ends the
process when memory runs out, and `malloc` is taken to succeed.

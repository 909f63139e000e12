----------------------------- MODULE KvmDmesg -----------------------------
(***************************************************************************)
(* main (main.c) over the client of GuestClient: which argument is the     *)
(* System.map, which back end the other one asks for, the order of the     *)
(* phases, the choice of the dump and the exit.  SymTab, AddrTrans,        *)
(* PrbSnapshot, LogBuf and FlatLog hold the phases themselves; here a      *)
(* phase is the reads it makes, any of which may fail.                     *)
(***************************************************************************)
EXTENDS GuestClient, Sequences

CONSTANTS
    Peek,    \* the 1024 bytes is_text_file looks at
    MaxHead  \* bound on the bytes a file is told apart by

ASSUME MainAssumption == Peek \in Nat \ {0} /\ MaxHead \in Nat

Running == 1  \* no exit status yet

Symbols == {"prb", "log_first_idx", "log_next_idx"}

Byte == {"text", "nul", "other"}  \* isprint or isspace; 0; any other

\* What a path of the command line names.
Files == [type : {"REG"}, opens : {TRUE}, head : UNION {[1..n -> Byte] : n \in 0..MaxHead}]
         \cup [type : {"REG"}, opens : {FALSE}, head : {<<>>}]
         \cup [type : {"SOCK", "DIR", "ABSENT"}, opens : {FALSE}, head : {<<>>}]

\* Two paths, or any other number of them.
Args == (Files \X Files) \cup {<<>>}

VARIABLES
    argv, symmap, \* the two paths; the one taken for the System.map, 0 before
    phase, exit,  \* where main is; its status
    syms, map,    \* the symbols the map has; whether its stream is open
    reads,        \* phases of reads begun
    out           \* what was dumped

mvars == <<argv, symmap, phase, exit, syms, map, reads, out>>
vars == <<cvars, mvars>>

-----------------------------------------------------------------------------

Init ==
    /\ ClientInit
    /\ argv \in Args
    /\ symmap = 0 /\ phase = "args" /\ exit = Running
    /\ syms = {} /\ map = FALSE /\ reads = 0 /\ out = "nothing"

is_text_file(f) ==
    IF ~ f.opens THEN -1
    ELSE IF \E i \in 1..Len(f.head) : i <= Peek /\ f.head[i] = "other" THEN 0 ELSE 1

IsMap(f) == f.type = "REG" /\ is_text_file(f) = 1

Exit(status) == exit' = status /\ phase' = "exited"

\* Two arguments are needed; the first that is a text file is the System.map.
FindMap ==
    /\ phase = "args"
    /\ \/ argv = <<>> /\ symmap' = 0 /\ Exit(-1)
       \/ /\ argv # <<>>
          /\ \/ IsMap(argv[1]) /\ symmap' = 1 /\ phase' = "guest" /\ exit' = exit
             \/ ~ IsMap(argv[1]) /\ IsMap(argv[2]) /\ symmap' = 2 /\ phase' = "guest" /\ exit' = exit
             \/ ~ IsMap(argv[1]) /\ ~ IsMap(argv[2]) /\ symmap' = 0 /\ Exit(-1)
    /\ UNCHANGED <<cvars, argv, syms, map, reads, out>>

Guest == argv[3 - symmap]

\* stat of the guest's argument, and the call of guest_client_new.
OpenGuest ==
    /\ phase = "guest"
    /\ \/ Guest.type = "REG" /\ guest_client_new("GUEST_MEMORY") /\ phase' = "client" /\ exit' = exit
       \/ Guest.type = "SOCK" /\ guest_client_new("QMP_SOCKET") /\ phase' = "client" /\ exit' = exit
       \/ Guest.type = "ABSENT" /\ guest_client_new("GUEST_NAME") /\ phase' = "client" /\ exit' = exit
       \/ Guest.type = "DIR" /\ Exit(-1) /\ UNCHANGED cvars
    /\ UNCHANGED <<argv, symmap, syms, map, reads, out>>

ClientStep == phase = "client" /\ Initialise /\ UNCHANGED mvars

\* QEMU closes the socket before the greeting or the acknowledgement: qmp_read, and
\* so guest_client_new, does not return (QmpSession).
InitHangs ==
    /\ phase = "client" /\ pc = "greeting"
    /\ phase' = "stuck"
    /\ UNCHANGED <<cvars, argv, symmap, exit, syms, map, reads, out>>

\* Mutant: a failed guest_client_new is not noticed.
ClientReady_Ignored ==
    /\ phase = "client" /\ pc = "idle"
    /\ phase' = "symtab" /\ exit' = exit
    /\ UNCHANGED <<cvars, argv, symmap, syms, map, reads, out>>

\* guest_client_new has returned.
ClientReady ==
    /\ phase = "client" /\ pc = "idle"
    /\ IF fails > 0 THEN Exit(-1) ELSE phase' = "symtab" /\ exit' = exit
    /\ UNCHANGED <<cvars, argv, symmap, syms, map, reads, out>>

\* symtab_init and x86_64_init.  Whatever passes for text is accepted as a map.  A
\* map that cannot be opened again is an empty one; the stream is not closed.
symtab_init ==
    /\ phase = "symtab"
    /\ \/ map' = FALSE /\ syms' = {}
       \/ map' = TRUE /\ syms' \in SUBSET Symbols
    /\ phase' = "derive"
    /\ UNCHANGED <<cvars, argv, symmap, exit, reads, out>>

\* Reads of the guest; a failure is told to nobody above.
Reads == reads' = reads + 1

derive_kaslr_offset ==
    /\ phase = "derive" /\ Reads /\ phase' = "reloc"
    /\ UNCHANGED <<cvars, argv, symmap, exit, syms, map, out>>

x86_64_post_reloc ==
    /\ phase = "reloc" /\ Reads /\ phase' = "dump"
    /\ UNCHANGED <<cvars, argv, symmap, exit, syms, map, out>>

Dump(log) ==
    /\ phase = "dump" /\ Reads /\ out' = log /\ phase' = "release"
    /\ UNCHANGED <<cvars, argv, symmap, exit, syms, map>>

dump_lockless_record_log == "prb" \in syms /\ Dump("lockless")
dump_variable_length_record_log ==
    "prb" \notin syms /\ {"log_first_idx", "log_next_idx"} \subseteq syms /\ Dump("variable")

Flat == "prb" \notin syms /\ ~ ({"log_first_idx", "log_next_idx"} \subseteq syms)
dump_flat_log == Flat /\ Dump("flat")

\* A phase that never ends.  With a live guest that is a read: qmp_read after a
\* hang-up (QmpSession), a monitor command of libvirt.  With any back end, and even
\* when every read went well, it is the walk from one index or id to another that
\* it does not come by (LogBuf, Prb).
Stuck ==
    /\ \/ phase \in {"derive", "reloc", "dump"} /\ guest_client # "GUEST_MEMORY"
       \/ phase = "dump" /\ ~ Flat
    /\ Reads /\ phase' = "stuck"
    /\ UNCHANGED <<cvars, argv, symmap, exit, syms, map, out>>

\* Mutant: the lockless dump returns without going through exit.
Release_Skipped ==
    /\ phase = "release"
    /\ IF out = "lockless" THEN UNCHANGED cvars ELSE guest_client_release
    /\ Exit(0)
    /\ UNCHANGED <<argv, symmap, syms, map, reads, out>>

\* exit: guest_client_release, and always status 0.
Release ==
    /\ phase = "release"
    /\ guest_client_release
    /\ Exit(0)
    /\ UNCHANGED <<argv, symmap, syms, map, reads, out>>

Next == FindMap \/ OpenGuest \/ ClientStep \/ InitHangs \/ ClientReady \/ symtab_init
        \/ derive_kaslr_offset \/ x86_64_post_reloc \/ dump_lockless_record_log
        \/ dump_variable_length_record_log \/ Stuck \/ dump_flat_log \/ Release

Spec == Init /\ [][Next]_vars

-----------------------------------------------------------------------------
(***************************************************************************)
(* Properties.                                                             *)
(***************************************************************************)

\* Every variable has its type.
TypeOK ==
    /\ ClientTypeOK
    /\ argv \in Args /\ symmap \in 0..2
    /\ phase \in {"args", "guest", "client", "symtab", "derive", "reloc", "dump",
                  "release", "stuck", "exited"}
    /\ exit \in {Running, 0, -1} /\ syms \subseteq Symbols
    /\ map \in BOOLEAN /\ reads \in 0..3
    /\ out \in {"nothing", "lockless", "variable", "flat"}

\* Every read of the guest, in any phase, goes through a client that is in place
\* and whose handles are open.
ReadsNeedClient == [][reads' # reads => guest_client # "none" /\ UsableClient]_vars

\* A run ends with status 0 exactly when the client came up, and the client has then
\* closed everything it had opened, whichever dump was taken; one that ends with -1
\* has dumped nothing and never loaded the map.  Only the stream of the map is left
\* to the end of the process.  The status says no more: a run whose every read failed
\* ends with 0.
CleanExit ==
    /\ exit = 0 => calls = 1 /\ fails = 0 /\ \A h \in Handles : held[h] = 0
    /\ exit = -1 => out = "nothing" /\ ~ map /\ ~ (calls = 1 /\ fails = 0)

=============================================================================

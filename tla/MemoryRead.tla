---------------------------- MODULE MemoryRead ----------------------------
(***************************************************************************)
(* What the callers of readmem rely on (libvirt_client.c:321): a read of   *)
(* [addr, addr + size) of a running guest's memory either fails or returns *)
(* every cell as it was at some moment during the call.  Cells are fetched *)
(* at different moments; a range that leaves the memory promises nothing   *)
(* but an answer.                                                          *)
(***************************************************************************)
EXTENDS Integers

CONSTANTS
    MemSize,  \* cells of guest memory
    MaxSize,  \* bound on the size of a read
    Starts    \* addresses reads begin at

VARIABLES
    mem,         \* the version of each cell, growing as the guest writes
    busy, ok,    \* a read is under way; the last one reported success
    addr, size,  \* the read
    got          \* the cells fetched so far

rvars == <<mem, busy, ok, addr, size, got>>

Cells == 0..MemSize - 1
InMemory == addr + size <= MemSize

ReadInit ==
    /\ mem = [a \in Cells |-> 0]
    /\ busy = FALSE /\ ok = FALSE
    /\ addr = 0 /\ size = 0 /\ got = <<>>

GuestWrites ==
    /\ \E a \in Cells : mem' = [mem EXCEPT ![a] = @ + 1]
    /\ UNCHANGED <<busy, ok, addr, size, got>>

Begin ==
    /\ ~ busy
    /\ busy' = TRUE /\ ok' = FALSE
    /\ addr' \in Starts /\ size' \in 0..MaxSize /\ got' = <<>>
    /\ mem' = mem

\* Some cells are fetched, as they are now.
Fetch ==
    /\ busy
    /\ \E S \in SUBSET {i \in 0..size - 1 : addr + i \in Cells} :
          got' = [i \in DOMAIN got \cup S |-> IF i \in S THEN mem[addr + i] ELSE got[i]]
    /\ UNCHANGED <<mem, busy, ok, addr, size>>

Success ==
    /\ busy /\ (InMemory => DOMAIN got = 0..size - 1)
    /\ busy' = FALSE /\ ok' = TRUE
    /\ UNCHANGED <<mem, addr, size, got>>

Failure ==
    /\ busy /\ busy' = FALSE /\ ok' = FALSE
    /\ UNCHANGED <<mem, addr, size, got>>

ReadNext == GuestWrites \/ Begin \/ Fetch \/ Success \/ Failure
ReadSpec == ReadInit /\ [][ReadNext]_rvars

=============================================================================

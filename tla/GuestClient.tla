---------------------------- MODULE GuestClient ----------------------------
(***************************************************************************)
(* The life cycle of the connection to a guest (client.h,                  *)
(* libvirt_client.c): guest_client_new and guest_client_release over the   *)
(* three back ends, with every step of an initialisation that may fail.    *)
(*                                                                         *)
(* ptr[h] is the program's own idea of handle h (the global is not NULL),  *)
(* held[h] is the truth: how often h is open.  The libraries are counted   *)
(* by dlopen; "c" is the guest_client_t; "sock" is qmp_fd, which has no    *)
(* NULL and keeps the number of a closed socket.                           *)
(***************************************************************************)
EXTENDS Integers

CONSTANT MaxCalls  \* bound on calls of guest_client_new

ASSUME ClientAssumption == MaxCalls \in Nat

Types == {"GUEST_NAME", "GUEST_MEMORY", "QMP_SOCKET"}
Handles == {"libvirt", "qemu", "conn", "domain", "file", "sock", "c"}

VARIABLES
    guest_client, \* its ty, or "none"
    ptr, held,    \* the handles
    pc,           \* where guest_client_new is
    ty,           \* what it was asked for
    calls, fails  \* calls of guest_client_new, and those that returned -1

cvars == <<guest_client, ptr, held, pc, ty, calls, fails>>

\* What the functions of a client of type t work with.
Uses(t) == {h \in Handles : \/ h = "c" /\ t # "none"
                            \/ h \in {"libvirt", "qemu", "conn", "domain"} /\ t = "GUEST_NAME"
                            \/ h = "file" /\ t = "GUEST_MEMORY"
                            \/ h = "sock" /\ t = "QMP_SOCKET"}

-----------------------------------------------------------------------------

ClientInit ==
    /\ guest_client = "none"
    /\ ptr = [h \in Handles |-> FALSE]
    /\ held = [h \in Handles |-> 0]
    /\ pc = "idle" /\ ty = "GUEST_NAME"
    /\ calls = 0 /\ fails = 0

Open(h) == ptr' = [ptr EXCEPT ![h] = TRUE] /\ held' = [held EXCEPT ![h] = @ + 1]
Close(h) == ptr' = [ptr EXCEPT ![h] = FALSE] /\ held' = [held EXCEPT ![h] = @ - 1]

\* if (!domain_conn), if (!domain), if (mem_file): what is open is used again.
Ensure(h) == IF ptr[h] THEN UNCHANGED <<ptr, held>> ELSE Open(h)

Goto(p) == pc' = p /\ UNCHANGED <<guest_client, ty, calls, fails>>

\* guest_client_new returns 0: the client is in place ...
Succeed == guest_client' = ty /\ pc' = "idle" /\ UNCHANGED <<ty, calls, fails>>

\* ... or -1: what was opened so far, and c, stay as they are.
Fail == fails' = fails + 1 /\ pc' = "idle" /\ UNCHANGED <<guest_client, ty, calls>>

\* A client that is in place is kept, whatever is asked for.
guest_client_new(t) ==
    /\ pc = "idle" /\ calls < MaxCalls
    /\ calls' = calls + 1
    /\ IF guest_client # "none" THEN UNCHANGED <<ptr, held, pc, ty>>
       ELSE /\ held' = [held EXCEPT !["c"] = @ + 1]
            /\ ty' = t
            /\ \/ t = "GUEST_NAME" /\ pc' = "dlopen"
               \/ t = "GUEST_MEMORY" /\ pc' = "fopen"
               \/ t = "QMP_SOCKET" /\ pc' = "socket"
            /\ ptr' = ptr
    /\ UNCHANGED <<guest_client, fails>>

\* libvirt_dlopen, first half.  A library that is loaded is found again.
libvirt_dlopen ==
    /\ pc = "dlopen"
    /\ \/ Open("libvirt") /\ Goto("dlopen_qemu")
       \/ held["libvirt"] = 0 /\ UNCHANGED <<ptr, held>> /\ Fail

\* Second half: without libvirt-qemu the first library is closed again.
libvirt_dlopen_qemu ==
    /\ pc = "dlopen_qemu"
    /\ \/ Open("qemu") /\ Goto("dlsym")
       \/ held["qemu"] = 0 /\ Close("libvirt") /\ Fail

\* A missing function leaves both libraries open.
libvirt_dlsym ==
    /\ pc = "dlsym"
    /\ UNCHANGED <<ptr, held>>
    /\ Goto("connect") \/ Fail

\* The rest of libvirt_client_init.
virConnectOpen ==
    /\ pc = "connect"
    /\ \/ Ensure("conn") /\ Goto("lookup")
       \/ ~ ptr["conn"] /\ UNCHANGED <<ptr, held>> /\ Fail

\* Mutant: the closed connection is not forgotten.
virDomainLookupByName_KeepsPointer ==
    /\ pc = "lookup"
    /\ \/ Ensure("domain") /\ Succeed
       \/ ~ ptr["domain"] /\ held' = [held EXCEPT !["conn"] = @ - 1] /\ ptr' = ptr /\ Fail

virDomainLookupByName ==
    /\ pc = "lookup"
    /\ \/ Ensure("domain") /\ Succeed
       \/ ~ ptr["domain"] /\ Close("conn") /\ Fail

file_client_init ==
    /\ pc = "fopen"
    /\ \/ Ensure("file") /\ Succeed
       \/ ~ ptr["file"] /\ UNCHANGED <<ptr, held>> /\ Fail

\* qmp_establish_conn: no socket; a socket that does not connect and is closed; or
\* a connection, over which the greeting and the negotiation follow.
qmp_establish_conn ==
    /\ pc = "socket"
    /\ \/ UNCHANGED <<ptr, held>> /\ Fail
       \/ ptr' = [ptr EXCEPT !["sock"] = TRUE] /\ UNCHANGED held /\ Fail
       \/ Open("sock") /\ Goto("greeting")

\* A missing greeting or a failed negotiation leaves the socket open.
qmp_client_init ==
    /\ pc = "greeting"
    /\ UNCHANGED <<ptr, held>>
    /\ Succeed \/ Fail

\* What the uninit function of the client's type closes, and c.
Closed(t) == {h \in Uses(t) : h \in {"sock", "c"} \/ ptr[h]}

\* Mutant: the back end is left as it is.
guest_client_release_OnlyFrees ==
    /\ pc = "idle" /\ guest_client # "none"
    /\ held' = [held EXCEPT !["c"] = @ - 1]
    /\ guest_client' = "none"
    /\ UNCHANGED <<ptr, pc, ty, calls, fails>>

\* libvirt_client_uninit, file_client_uninit or qmp_client_uninit, and xfree(c).
\* qmp_fd is not reset.  Without a client nothing is done.
guest_client_release ==
    /\ pc = "idle"
    /\ LET D == Closed(guest_client)
       IN  /\ held' = [h \in Handles |-> IF h \in D THEN held[h] - 1 ELSE held[h]]
           /\ ptr' = [h \in Handles |-> ptr[h] /\ (h \notin D \/ h = "sock")]
    /\ guest_client' = "none"
    /\ UNCHANGED <<pc, ty, calls, fails>>

Initialise == libvirt_dlopen \/ libvirt_dlopen_qemu \/ libvirt_dlsym \/ virConnectOpen
              \/ virDomainLookupByName \/ file_client_init \/ qmp_establish_conn
              \/ qmp_client_init

\* A caller of client.h.
ClientNext == (\E t \in Types : guest_client_new(t)) \/ Initialise \/ guest_client_release
ClientSpec == ClientInit /\ [][ClientNext]_cvars

-----------------------------------------------------------------------------
(***************************************************************************)
(* Properties.                                                             *)
(***************************************************************************)

Points == {"idle", "dlopen", "dlopen_qemu", "dlsym", "connect", "lookup", "fopen",
           "socket", "greeting"}

\* Every variable has its type; in particular nothing is closed more often than
\* it was opened.
ClientTypeOK ==
    /\ guest_client \in Types \cup {"none"}
    /\ ptr \in [Handles -> BOOLEAN] /\ held \in [Handles -> Nat]
    /\ pc \in Points /\ ty \in Types
    /\ calls \in 0..MaxCalls /\ fails \in Nat

\* A client in place can be used: whatever failed or was released before, every
\* handle its get_registers and readmem work with is open.
UsableClient == \A h \in Uses(guest_client) : held[h] > 0

\* The connection, the domain and the file are open exactly when the program
\* thinks so, through any number of failures and retries: a retry neither opens
\* a second one nor uses one that was closed.
PointersAreTrue ==
    \A h \in {"conn", "domain", "file"} : held[h] = IF ptr[h] THEN 1 ELSE 0

\* What stays open behind the client's back comes from initialisations that
\* failed half way (the libraries after libvirt_dlsym, the socket after the
\* greeting, c): at most one of each per failure, and nothing without one.
LeaksAreFailures ==
    pc = "idle" =>
        \A h \in Handles :
            held[h] <= fails + IF h \in Uses(guest_client) THEN 1 ELSE 0

=============================================================================

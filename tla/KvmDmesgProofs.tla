-------------------------- MODULE KvmDmesgProofs --------------------------
(***************************************************************************)
(* Proofs about what main.c does itself: GuestClient, for any number of    *)
(* calls, KvmDmesg, for files of any kind and any number of bytes looked   *)
(* at, and FlatLog, the log that main prints without a function of its     *)
(* own.                                                                    *)
(*                                                                         *)
(* The invariant of the client keeps the books: Holding is what the call   *)
(* under way, or the client in place, has acquired; everything else that   *)
(* is open is owed to a failure.  main keeps that invariant; on top of it  *)
(* stands what each phase knows about the client.                          *)
(***************************************************************************)
EXTENDS KvmDmesg, FlatLog, TLAPS

\* A step that names no prover is tried with these two, in this order.
USE SMTT(30), ZenonT(30)

\* The handles the present call has acquired so far, or the client in place has.
Holding ==
    {h \in Handles : \/ pc = "idle" /\ h \in Uses(guest_client)
                     \/ pc # "idle" /\ h = "c"
                     \/ pc \in {"dlopen_qemu", "dlsym", "connect", "lookup"} /\ h = "libvirt"
                     \/ pc \in {"dlsym", "connect", "lookup"} /\ h = "qemu"
                     \/ pc = "lookup" /\ h = "conn"
                     \/ pc = "greeting" /\ h = "sock"}

\* The type asked for goes with the place, and only a call that is over has a client.
Placed ==
    /\ guest_client # "none" => pc = "idle"
    /\ pc \in {"dlopen", "dlopen_qemu", "dlsym", "connect", "lookup"} => ty = "GUEST_NAME"
    /\ pc = "fopen" => ty = "GUEST_MEMORY"
    /\ pc \in {"socket", "greeting"} => ty = "QMP_SOCKET"

\* What is held is open and known to the program.
Owned == \A h \in Holding : held[h] >= 1 /\ (h \notin {"c", "sock"} => ptr[h])

\* What is open beyond it is owed to a failure.
Owed == \A h \in Handles : held[h] <= fails + IF h \in Holding THEN 1 ELSE 0

\* The connection, the domain and the file are never open unless held.
Known == \A h \in {"conn", "domain", "file"} : ptr[h] => h \in Holding

IInv == ClientTypeOK /\ Placed /\ Owned /\ Owed /\ Known /\ PointersAreTrue

-----------------------------------------------------------------------------

USE DEF IInv, ClientTypeOK, Placed, Owned, Owed, Known, PointersAreTrue, Holding, Uses,
        Types, Handles, Points

\* A client starts with nothing open.
LEMMA Initially == ClientInit => IInv
  BY ClientAssumption DEF ClientInit

-----------------------------------------------------------------------------
(***************************************************************************)
(* One lemma per action.                                                   *)
(***************************************************************************)

\* guest_client_new allocates the client and begins its initialisation.
LEMMA NewStep ==
  ASSUME IInv, NEW t \in Types, guest_client_new(t) PROVE IInv'
  BY ClientAssumption DEF guest_client_new

\* dlopen of libvirt.
LEMMA libvirt_dlopen_Step ==
  ASSUME IInv, libvirt_dlopen PROVE IInv'
<1>1. CASE Open("libvirt") /\ Goto("dlopen_qemu")
  <2>1. ClientTypeOK' /\ Placed'  BY <1>1 DEF libvirt_dlopen, Open, Goto
  <2>2. Owned'  BY <1>1 DEF libvirt_dlopen, Open, Goto
  <2>3. Owed'  BY <1>1 DEF libvirt_dlopen, Open, Goto
  <2>4. Known'  BY <1>1 DEF libvirt_dlopen, Open, Goto
  <2>5. PointersAreTrue'  BY <1>1 DEF libvirt_dlopen, Open, Goto
  <2> QED  BY <2>1, <2>2, <2>3, <2>4, <2>5
<1>2. CASE UNCHANGED <<ptr, held>> /\ Fail
  <2>1. ClientTypeOK' /\ Placed'  BY <1>2 DEF libvirt_dlopen, Fail
  <2>2. Owned'  BY <1>2 DEF libvirt_dlopen, Fail
  <2>3. Owed'  BY <1>2 DEF libvirt_dlopen, Fail
  <2>4. Known'  BY <1>2 DEF libvirt_dlopen, Fail
  <2>5. PointersAreTrue'  BY <1>2 DEF libvirt_dlopen, Fail
  <2> QED  BY <2>1, <2>2, <2>3, <2>4, <2>5
<1> QED  BY <1>1, <1>2 DEF libvirt_dlopen

\* dlopen of libvirt-qemu; its failure closes libvirt.
LEMMA libvirt_dlopen_qemu_Step ==
  ASSUME IInv, libvirt_dlopen_qemu PROVE IInv'
<1>1. CASE Open("qemu") /\ Goto("dlsym")
  <2>1. ClientTypeOK' /\ Placed'  BY <1>1 DEF libvirt_dlopen_qemu, Open, Goto
  <2>2. Owned'  BY <1>1 DEF libvirt_dlopen_qemu, Open, Goto
  <2>3. Owed'  BY <1>1 DEF libvirt_dlopen_qemu, Open, Goto
  <2>4. Known'  BY <1>1 DEF libvirt_dlopen_qemu, Open, Goto
  <2>5. PointersAreTrue'  BY <1>1 DEF libvirt_dlopen_qemu, Open, Goto
  <2> QED  BY <2>1, <2>2, <2>3, <2>4, <2>5
<1>2. CASE Close("libvirt") /\ Fail
  <2>1. ClientTypeOK' /\ Placed'  BY <1>2 DEF libvirt_dlopen_qemu, Close, Fail
  <2>2. Owned'  BY <1>2 DEF libvirt_dlopen_qemu, Close, Fail
  <2>3. Owed'  BY <1>2 DEF libvirt_dlopen_qemu, Close, Fail
  <2>4. Known'  BY <1>2 DEF libvirt_dlopen_qemu, Close, Fail
  <2>5. PointersAreTrue'  BY <1>2 DEF libvirt_dlopen_qemu, Close, Fail
  <2> QED  BY <2>1, <2>2, <2>3, <2>4, <2>5
<1> QED  BY <1>1, <1>2 DEF libvirt_dlopen_qemu

\* The symbols of both libraries.
LEMMA libvirt_dlsym_Step ==
  ASSUME IInv, libvirt_dlsym PROVE IInv'
  BY DEF libvirt_dlsym, Goto, Fail

\* The connection, which is not open here.
LEMMA virConnectOpen_Step ==
  ASSUME IInv, virConnectOpen PROVE IInv'
<1>1. CASE Ensure("conn") /\ Goto("lookup")
  <2>0. Open("conn")
    <3>1. ~ ptr["conn"]  BY DEF virConnectOpen
    <3> QED  BY <1>1, <3>1 DEF Ensure
  <2>1. ClientTypeOK' /\ Placed'  BY <1>1, <2>0 DEF virConnectOpen, Open, Goto
  <2>2. Owned'  BY <1>1, <2>0 DEF virConnectOpen, Open, Goto
  <2>3. Owed'  BY <1>1, <2>0 DEF virConnectOpen, Open, Goto
  <2>4. Known'  BY <1>1, <2>0 DEF virConnectOpen, Open, Goto
  <2>5. PointersAreTrue'  BY <1>1, <2>0 DEF virConnectOpen, Open, Goto
  <2> QED  BY <2>1, <2>2, <2>3, <2>4, <2>5
<1>2. CASE ~ ptr["conn"] /\ UNCHANGED <<ptr, held>> /\ Fail
  <2>1. ClientTypeOK' /\ Placed'  BY <1>2 DEF virConnectOpen, Fail
  <2>2. Owned'  BY <1>2 DEF virConnectOpen, Fail
  <2>3. Owed'  BY <1>2 DEF virConnectOpen, Fail
  <2>4. Known'  BY <1>2 DEF virConnectOpen, Fail
  <2>5. PointersAreTrue'  BY <1>2 DEF virConnectOpen, Fail
  <2> QED  BY <2>1, <2>2, <2>3, <2>4, <2>5
<1> QED  BY <1>1, <1>2 DEF virConnectOpen

\* The domain; its failure closes the connection.
LEMMA virDomainLookupByName_Step ==
  ASSUME IInv, virDomainLookupByName PROVE IInv'
<1>1. CASE Ensure("domain") /\ Succeed
  <2>0. Open("domain")
    <3>1. ~ ptr["domain"]  BY DEF virDomainLookupByName
    <3> QED  BY <1>1, <3>1 DEF Ensure
  <2>1. ClientTypeOK' /\ Placed'  BY <1>1, <2>0 DEF virDomainLookupByName, Open, Succeed
  <2>2. Owned'  BY <1>1, <2>0 DEF virDomainLookupByName, Open, Succeed
  <2>3. Owed'  BY <1>1, <2>0 DEF virDomainLookupByName, Open, Succeed
  <2>4. Known'  BY <1>1, <2>0 DEF virDomainLookupByName, Open, Succeed
  <2>5. PointersAreTrue'  BY <1>1, <2>0 DEF virDomainLookupByName, Open, Succeed
  <2> QED  BY <2>1, <2>2, <2>3, <2>4, <2>5
<1>2. CASE ~ ptr["domain"] /\ Close("conn") /\ Fail
  <2>1. ClientTypeOK' /\ Placed'  BY <1>2 DEF virDomainLookupByName, Close, Fail
  <2>2. Owned'  BY <1>2 DEF virDomainLookupByName, Close, Fail
  <2>3. Owed'  BY <1>2 DEF virDomainLookupByName, Close, Fail
  <2>4. Known'  BY <1>2 DEF virDomainLookupByName, Close, Fail
  <2>5. PointersAreTrue'  BY <1>2 DEF virDomainLookupByName, Close, Fail
  <2> QED  BY <2>1, <2>2, <2>3, <2>4, <2>5
<1> QED  BY <1>1, <1>2 DEF virDomainLookupByName

\* fopen of the memory file.
LEMMA file_client_init_Step ==
  ASSUME IInv, file_client_init PROVE IInv'
<1>1. CASE Ensure("file") /\ Succeed
  <2>0. Open("file")
    <3>1. ~ ptr["file"]  BY DEF file_client_init
    <3> QED  BY <1>1, <3>1 DEF Ensure
  <2>1. ClientTypeOK' /\ Placed'  BY <1>1, <2>0 DEF file_client_init, Open, Succeed
  <2>2. Owned'  BY <1>1, <2>0 DEF file_client_init, Open, Succeed
  <2>3. Owed'  BY <1>1, <2>0 DEF file_client_init, Open, Succeed
  <2>4. Known'  BY <1>1, <2>0 DEF file_client_init, Open, Succeed
  <2>5. PointersAreTrue'  BY <1>1, <2>0 DEF file_client_init, Open, Succeed
  <2> QED  BY <2>1, <2>2, <2>3, <2>4, <2>5
<1>2. CASE ~ ptr["file"] /\ UNCHANGED <<ptr, held>> /\ Fail
  <2>1. ClientTypeOK' /\ Placed'  BY <1>2 DEF file_client_init, Fail
  <2>2. Owned'  BY <1>2 DEF file_client_init, Fail
  <2>3. Owed'  BY <1>2 DEF file_client_init, Fail
  <2>4. Known'  BY <1>2 DEF file_client_init, Fail
  <2>5. PointersAreTrue'  BY <1>2 DEF file_client_init, Fail
  <2> QED  BY <2>1, <2>2, <2>3, <2>4, <2>5
<1> QED  BY <1>1, <1>2 DEF file_client_init

\* The socket; the number of one that failed to connect stays in qmp_fd.
LEMMA qmp_establish_conn_Step ==
  ASSUME IInv, qmp_establish_conn PROVE IInv'
<1>1. CASE UNCHANGED <<ptr, held>> /\ Fail
  <2>1. ClientTypeOK' /\ Placed'  BY <1>1 DEF qmp_establish_conn, Fail
  <2>2. Owned'  BY <1>1 DEF qmp_establish_conn, Fail
  <2>3. Owed'  BY <1>1 DEF qmp_establish_conn, Fail
  <2>4. Known'  BY <1>1 DEF qmp_establish_conn, Fail
  <2>5. PointersAreTrue'  BY <1>1 DEF qmp_establish_conn, Fail
  <2> QED  BY <2>1, <2>2, <2>3, <2>4, <2>5
<1>2. CASE ptr' = [ptr EXCEPT !["sock"] = TRUE] /\ UNCHANGED held /\ Fail
  <2>1. ClientTypeOK' /\ Placed'  BY <1>2 DEF qmp_establish_conn, Fail
  <2>2. Owned'  BY <1>2 DEF qmp_establish_conn, Fail
  <2>3. Owed'  BY <1>2 DEF qmp_establish_conn, Fail
  <2>4. Known'  BY <1>2 DEF qmp_establish_conn, Fail
  <2>5. PointersAreTrue'  BY <1>2 DEF qmp_establish_conn, Fail
  <2> QED  BY <2>1, <2>2, <2>3, <2>4, <2>5
<1>3. CASE Open("sock") /\ Goto("greeting")
  <2>1. ClientTypeOK' /\ Placed'  BY <1>3 DEF qmp_establish_conn, Open, Goto
  <2>2. Owned'  BY <1>3 DEF qmp_establish_conn, Open, Goto
  <2>3. Owed'  BY <1>3 DEF qmp_establish_conn, Open, Goto
  <2>4. Known'  BY <1>3 DEF qmp_establish_conn, Open, Goto
  <2>5. PointersAreTrue'  BY <1>3 DEF qmp_establish_conn, Open, Goto
  <2> QED  BY <2>1, <2>2, <2>3, <2>4, <2>5
<1> QED  BY <1>1, <1>2, <1>3 DEF qmp_establish_conn

\* The greeting and the capabilities.
LEMMA qmp_client_init_Step ==
  ASSUME IInv, qmp_client_init PROVE IInv'
  BY DEF qmp_client_init, Succeed, Fail

\* A release closes what its client holds.
LEMMA guest_client_release_Step ==
  ASSUME IInv, guest_client_release PROVE IInv'
  BY DEF guest_client_release, Closed

\* A step of main that leaves the client alone.
LEMMA StutterStep ==
  ASSUME IInv, UNCHANGED cvars PROVE IInv'
  BY DEF cvars

HIDE DEF IInv, ClientTypeOK, Placed, Owned, Owed, Known, PointersAreTrue, Holding, Uses,
         Types, Handles, Points

\* Every step of the client keeps the books.
LEMMA Inductive == IInv /\ [ClientNext]_cvars => IInv'
<1> SUFFICES ASSUME IInv, [ClientNext]_cvars PROVE IInv'
  OBVIOUS
<1>1. ASSUME NEW t \in Types, guest_client_new(t) PROVE IInv'  BY <1>1, NewStep
<1>2. CASE Initialise
  BY <1>2, libvirt_dlopen_Step, libvirt_dlopen_qemu_Step, libvirt_dlsym_Step,
     virConnectOpen_Step, virDomainLookupByName_Step, file_client_init_Step,
     qmp_establish_conn_Step, qmp_client_init_Step DEF Initialise
<1>3. CASE guest_client_release  BY <1>3, guest_client_release_Step
<1>4. CASE UNCHANGED cvars  BY <1>4, StutterStep
<1> QED  BY <1>1, <1>2, <1>3, <1>4 DEF ClientNext

-----------------------------------------------------------------------------
(***************************************************************************)
(* The theorems about the client.                                          *)
(***************************************************************************)

\* The books are kept in every state.
LEMMA Books == ClientSpec => []IInv
  BY Initially, Inductive, PTL DEF ClientSpec

\* However many times a client is made, fails to be made and is released, nothing
\* is closed more often than it was opened.
THEOREM ClientTypes == ClientSpec => []ClientTypeOK
<1>1. IInv => ClientTypeOK  BY DEF IInv
<1> QED  BY Books, <1>1, PTL

\* Whatever guest_client_new and guest_client_release did before, the handles that
\* get_registers and readmem of the client in place work with are open.
THEOREM UsableAlways == ClientSpec => []UsableClient
<1>1. IInv => UsableClient
  BY DEF IInv, Owned, Placed, Holding, UsableClient, ClientTypeOK, Uses, Handles
<1> QED  BY Books, <1>1, PTL

\* domain_conn, domain and mem_file are open exactly when they are not NULL.
THEOREM PointersTrue == ClientSpec => []PointersAreTrue
<1>1. IInv => PointersAreTrue  BY DEF IInv
<1> QED  BY Books, <1>1, PTL

\* Between two calls, a handle that no client accounts for was left by a call of
\* guest_client_new that returned -1, at most one by each.
THEOREM LeaksCounted == ClientSpec => []LeaksAreFailures
<1>1. IInv => LeaksAreFailures
  BY DEF IInv, Owed, Holding, LeaksAreFailures, ClientTypeOK, Uses, Handles
<1> QED  BY Books, <1>1, PTL

-----------------------------------------------------------------------------
(***************************************************************************)
(* main.                                                                   *)
(***************************************************************************)

Working == {"symtab", "derive", "reloc", "dump", "release"}

\* Reads of the guest made before each phase.
ReadsBefore ==
    /\ phase \in {"args", "guest", "client", "symtab", "derive"} => reads = 0
    /\ phase = "reloc" => reads = 1
    /\ phase = "dump" => reads = 2

\* The client in each phase, and what an exit has left.
Phases ==
    /\ phase \in {"args", "guest"} => calls = 0 /\ fails = 0 /\ guest_client = "none" /\ pc = "idle"
    /\ phase = "client" =>
          /\ calls = 1 /\ fails <= 1
          /\ IF pc # "idle" THEN fails = 0 ELSE (fails = 0 <=> guest_client # "none")
    /\ phase \in Working => calls = 1 /\ fails = 0 /\ guest_client # "none" /\ pc = "idle"
    /\ phase \notin {"release", "exited"} => out = "nothing"
    /\ phase # "exited" => exit = Running
    /\ phase = "exited" => exit \in {0, -1}
    /\ exit = 0 => calls = 1 /\ fails = 0 /\ \A h \in Handles : held[h] = 0
    /\ phase \in {"args", "guest", "client", "symtab"} => ~ map
    /\ exit = -1 => out = "nothing" /\ ~ map /\ ~ (calls = 1 /\ fails = 0)

MInv == TypeOK /\ IInv /\ ReadsBefore /\ Phases

-----------------------------------------------------------------------------

\* main starts before its arguments are read.
LEMMA MainInit == Init => MInv
<1> SUFFICES ASSUME Init PROVE MInv  OBVIOUS
<1>1. IInv  BY Initially DEF Init
<1>2. ClientTypeOK  BY <1>1 DEF IInv
<1>3. TypeOK
  <2>0. symmap = 0 /\ reads = 0 /\ map = FALSE  BY DEF Init
  <2>1. symmap \in 0..2 /\ reads \in 0..3  BY <2>0
  <2>2. map \in BOOLEAN  BY <2>0, Zenon
  <2>3. /\ phase \in {"args", "guest", "client", "symtab", "derive", "reloc", "dump",
                      "release", "stuck", "exited"}
        /\ out \in {"nothing", "lockless", "variable", "flat"}
        /\ exit \in {Running, 0, -1} /\ syms \subseteq Symbols /\ argv \in Args
    BY DEF Init
  <2> QED  BY <1>2, <2>1, <2>2, <2>3 DEF TypeOK
<1> QED  BY <1>1, <1>3 DEF MInv, ReadsBefore, Phases, Init, ClientInit, Running, Working

\* Which argument is the map.
LEMMA FindMapStep == ASSUME MInv, FindMap PROVE MInv'
<1> USE DEF MInv
<1>1. /\ phase = "args" /\ UNCHANGED cvars /\ UNCHANGED <<argv, syms, map, reads, out>>
      /\ \/ symmap' = 0 /\ Exit(-1)
         \/ IsMap(argv[1]) /\ symmap' = 1 /\ phase' = "guest" /\ exit' = exit
         \/ ~ IsMap(argv[1]) /\ IsMap(argv[2]) /\ symmap' = 2 /\ phase' = "guest" /\ exit' = exit
  BY DEF FindMap
<1>2. IInv' /\ ClientTypeOK'  BY <1>1, StutterStep DEF IInv
<1>3. TypeOK'  BY <1>1, <1>2 DEF TypeOK, Exit
<1>5. ReadsBefore' /\ Phases'  BY <1>1 DEF ReadsBefore, Phases, Exit, Running, Working, cvars
<1> QED  BY <1>2, <1>3, <1>5

\* Which back end the other argument asks for.
LEMMA OpenGuestStep == ASSUME MInv, OpenGuest PROVE MInv'
<1> USE DEF MInv
<1>1. phase = "guest" /\ UNCHANGED <<argv, symmap, syms, map, reads, out>>  BY DEF OpenGuest
<1>2. calls = 0 /\ fails = 0 /\ guest_client = "none" /\ pc = "idle"  BY <1>1 DEF Phases
<1>3. CASE Exit(-1) /\ UNCHANGED cvars
  <2>1. IInv' /\ ClientTypeOK'  BY <1>3, StutterStep DEF IInv
  <2>2. TypeOK'  BY <1>1, <1>3, <2>1 DEF TypeOK, Exit
  <2>4. ReadsBefore' /\ Phases'
    BY <1>1, <1>2, <1>3 DEF ReadsBefore, Phases, Exit, Running, Working, cvars
  <2> QED  BY <2>1, <2>2, <2>4
<1>4. ASSUME NEW t \in Types, guest_client_new(t), phase' = "client", exit' = exit PROVE MInv'
  <2>1. IInv' /\ ClientTypeOK'  BY <1>4, NewStep DEF IInv
  <2>2. TypeOK'  BY <1>1, <1>4, <2>1 DEF TypeOK
  <2>4. calls' = 1 /\ fails' = 0 /\ pc' # "idle" /\ guest_client' = "none"
    BY <1>2, <1>4 DEF guest_client_new
  <2>5. ReadsBefore' /\ Phases'
    BY <1>1, <1>4, <2>4 DEF ReadsBefore, Phases, Running, Working
  <2> QED  BY <2>1, <2>2, <2>5
<1> QED  BY <1>3, <1>4 DEF OpenGuest, Types

\* main while guest_client_new is under way.
LEMMA ClientSteps == ASSUME MInv, ClientStep PROVE MInv'
<1> USE DEF MInv
<1>1. phase = "client" /\ Initialise /\ UNCHANGED mvars  BY DEF ClientStep
<1>2. IInv' /\ ClientTypeOK'
  BY <1>1, libvirt_dlopen_Step, libvirt_dlopen_qemu_Step, libvirt_dlsym_Step,
     virConnectOpen_Step, virDomainLookupByName_Step, file_client_init_Step,
     qmp_establish_conn_Step, qmp_client_init_Step DEF Initialise, IInv
<1>3. TypeOK'  BY <1>1, <1>2 DEF TypeOK, mvars
<1>4. ReadsBefore'  BY <1>1 DEF ReadsBefore, mvars
<1>5. /\ calls' = calls /\ pc # "idle"
      /\ \/ pc' # "idle" /\ fails' = fails /\ guest_client' = guest_client
         \/ pc' = "idle" /\ fails' = fails /\ guest_client' = ty
         \/ pc' = "idle" /\ fails' = fails + 1 /\ guest_client' = guest_client
  BY <1>1 DEF Initialise, libvirt_dlopen, libvirt_dlopen_qemu, libvirt_dlsym, virConnectOpen,
     virDomainLookupByName, file_client_init, qmp_establish_conn, qmp_client_init, Goto,
     Succeed, Fail
<1>6. calls = 1 /\ fails = 0 /\ guest_client = "none" /\ ty # "none"
  BY <1>1, <1>5 DEF Phases, IInv, Placed, ClientTypeOK, Types
<1>7. Phases'  BY <1>1, <1>5, <1>6 DEF Phases, Running, Working, mvars
<1> QED  BY <1>2, <1>3, <1>4, <1>7

\* An initialisation that never comes back.
LEMMA InitHangsStep == ASSUME MInv, InitHangs PROVE MInv'
<1> USE DEF MInv, InitHangs
<1>1. IInv' /\ ClientTypeOK'  BY StutterStep DEF IInv
<1>2. map' \in BOOLEAN  BY Zenon DEF TypeOK
<1>3. TypeOK'  BY <1>1, <1>2 DEF TypeOK
<1>4. ReadsBefore'  BY Zenon DEF ReadsBefore
<1>5. Phases'  BY DEF Phases, Running, Working, cvars
<1> QED  BY <1>1, <1>3, <1>4, <1>5

\* guest_client_new has returned.
LEMMA ClientReadyStep == ASSUME MInv, ClientReady PROVE MInv'
<1> USE DEF MInv
<1>1. /\ phase = "client" /\ pc = "idle"
      /\ IF fails > 0 THEN Exit(-1) ELSE phase' = "symtab" /\ exit' = exit
      /\ UNCHANGED cvars /\ UNCHANGED <<argv, symmap, syms, map, reads, out>>
  BY DEF ClientReady
<1>2. IInv' /\ ClientTypeOK'  BY <1>1, StutterStep DEF IInv
<1>3. TypeOK'  BY <1>1, <1>2 DEF TypeOK, Exit
<1>4. ReadsBefore'  BY <1>1 DEF ReadsBefore, Exit
<1>5. fails \in Nat  BY DEF IInv, ClientTypeOK
<1>6. Phases'  BY <1>1, <1>5 DEF Phases, Exit, Running, Working, cvars
<1> QED  BY <1>2, <1>3, <1>4, <1>6

\* The symbols are loaded, without the guest.
LEMMA SymtabStep == ASSUME MInv, symtab_init PROVE MInv'
<1> USE DEF MInv, symtab_init
<1>1. IInv' /\ ClientTypeOK'  BY StutterStep DEF IInv
<1>2. TypeOK'  BY <1>1 DEF TypeOK
<1>3. ReadsBefore'  BY DEF ReadsBefore
<1>4. Phases'  BY DEF Phases, Running, Working, cvars
<1> QED  BY <1>1, <1>2, <1>3, <1>4

\* A phase that reads the guest.
LEMMA ReadStep ==
  ASSUME MInv, phase \in {"derive", "reloc", "dump"}, Reads,
         UNCHANGED cvars, UNCHANGED <<argv, symmap, exit, syms, map>>,
         \/ phase = "derive" /\ phase' = "reloc" /\ out' = out
         \/ phase = "reloc" /\ phase' = "dump" /\ out' = out
         \/ phase = "dump" /\ phase' = "release" /\ out' \in {"lockless", "variable", "flat"}
         \/ phase' = "stuck" /\ out' = out
  PROVE  MInv'
<1> USE DEF MInv
<1>1. IInv' /\ ClientTypeOK'  BY StutterStep DEF IInv
<1>2. reads' \in 0..3 /\ reads' = reads + 1
  <2>1. reads \in 0..2  BY DEF ReadsBefore
  <2>2. reads' = reads + 1  BY Zenon DEF Reads
  <2> QED  BY <2>1, <2>2
<1>3. map' \in BOOLEAN  BY Zenon DEF TypeOK
<1>4. TypeOK'  BY <1>1, <1>2, <1>3 DEF TypeOK
<1>6. ReadsBefore'  BY <1>2 DEF ReadsBefore
<1>7. Phases'  BY DEF Phases, Running, Working, cvars
<1> QED  BY <1>1, <1>4, <1>6, <1>7

\* The phases that read the guest.
LEMMA ReadSteps ==
  ASSUME MInv, derive_kaslr_offset \/ x86_64_post_reloc \/ dump_lockless_record_log
               \/ dump_variable_length_record_log \/ Stuck \/ dump_flat_log
  PROVE  MInv'
<1>1. CASE derive_kaslr_offset  BY <1>1, ReadStep DEF derive_kaslr_offset
<1>2. CASE x86_64_post_reloc  BY <1>2, ReadStep DEF x86_64_post_reloc
<1>3. CASE dump_lockless_record_log \/ dump_variable_length_record_log \/ dump_flat_log
  BY <1>3, ReadStep, Zenon
     DEF dump_lockless_record_log, dump_variable_length_record_log, dump_flat_log, Dump
<1>4. CASE Stuck  BY <1>4, ReadStep DEF Stuck
<1> QED  BY <1>1, <1>2, <1>3, <1>4

\* With no failure behind it, the client releases everything there is.
LEMMA ReleaseStep == ASSUME MInv, Release PROVE MInv'
<1> USE DEF MInv
<1>1. /\ phase = "release" /\ guest_client_release /\ exit' = 0 /\ phase' = "exited"
      /\ UNCHANGED <<argv, symmap, syms, map, reads, out>>
  BY DEF Release, Exit
<1>2. IInv' /\ ClientTypeOK'  BY <1>1, guest_client_release_Step DEF IInv
<1>3. TypeOK'  BY <1>1, <1>2 DEF TypeOK
<1>4. ReadsBefore'  BY <1>1 DEF ReadsBefore
<1>5. pc = "idle" /\ fails = 0 /\ calls = 1 /\ UNCHANGED <<calls, fails>>
  BY <1>1 DEF Phases, Working, guest_client_release
<1>6. ASSUME NEW h \in Handles PROVE held'[h] = 0
  <2>1. held[h] \in Nat /\ held'[h] \in Nat  BY <1>2 DEF IInv, ClientTypeOK
  <2>2. h \in Holding <=> h \in Uses(guest_client)  BY <1>5 DEF Holding, Uses
  <2>3. held[h] <= IF h \in Uses(guest_client) THEN 1 ELSE 0
    BY <1>5, <2>1, <2>2 DEF IInv, Owed
  <2>4. h \in Uses(guest_client) => h \in Closed(guest_client)  BY <2>2 DEF Closed, IInv, Owned
  <2>5. held'[h] = IF h \in Closed(guest_client) THEN held[h] - 1 ELSE held[h]
    BY <1>1 DEF guest_client_release
  <2> QED  BY <2>1, <2>3, <2>4, <2>5
<1>7. Phases'  BY <1>1, <1>5, <1>6 DEF Phases, Running, Working
<1> QED  BY <1>2, <1>3, <1>4, <1>7

\* Nothing happens.
LEMMA MainStutter == ASSUME MInv, UNCHANGED vars PROVE MInv'
<1> USE DEF MInv
<1>1. IInv' /\ ClientTypeOK'  BY StutterStep DEF IInv, vars
<1> QED  BY <1>1 DEF vars, cvars, mvars, TypeOK, ReadsBefore, Phases

\* Every step of main keeps its invariant.
LEMMA MainInductive == MInv /\ [Next]_vars => MInv'
  BY FindMapStep, OpenGuestStep, ClientSteps, InitHangsStep, ClientReadyStep, SymtabStep, ReadSteps,
     ReleaseStep, MainStutter DEF Next

\* The invariant holds in every state of main.
LEMMA MainInvariant == Spec => []MInv
  BY MainInit, MainInductive, PTL DEF Spec

-----------------------------------------------------------------------------
(***************************************************************************)
(* The theorems about main.                                                *)
(***************************************************************************)

\* The variables of main keep their types; a run makes at most three phases of
\* reads, each once.
THEOREM MainTypes == Spec => []TypeOK
<1>1. MInv => TypeOK  BY DEF MInv
<1> QED  BY MainInvariant, <1>1, PTL

\* Status 0 means that guest_client_new succeeded and, whichever way main went to
\* its exit label, that nothing the client opened stays open; -1 that nothing was
\* loaded or dumped.
THEOREM ExitIsClean == Spec => []CleanExit
<1>1. MInv => CleanExit  BY DEF MInv, Phases, CleanExit
<1> QED  BY MainInvariant, <1>1, PTL

\* No phase of main reads the guest without a client whose handles are all open.
THEOREM ReadsHaveClient == Spec => ReadsNeedClient
<1>1. MInv /\ [Next]_vars => [reads' # reads => guest_client # "none" /\ UsableClient]_vars
  <2> SUFFICES ASSUME MInv, Next, reads' # reads PROVE guest_client # "none" /\ UsableClient
    OBVIOUS
  <2>1. phase \in {"derive", "reloc", "dump"}
    BY DEF Next, FindMap, OpenGuest, ClientStep, InitHangs, mvars, ClientReady, symtab_init, Release,
       derive_kaslr_offset, x86_64_post_reloc, dump_lockless_record_log,
       dump_variable_length_record_log, dump_flat_log, Dump, Stuck
  <2>2. guest_client # "none" /\ pc = "idle"  BY <2>1 DEF MInv, Phases, Working
  <2>3. UsableClient
    BY <2>2 DEF MInv, IInv, Owned, Holding, UsableClient, ClientTypeOK, Uses, Handles
  <2> QED  BY <2>2, <2>3
<1> QED  BY MainInvariant, <1>1, PTL DEF Spec, ReadsNeedClient

-----------------------------------------------------------------------------
(***************************************************************************)
(* FlatLog, for every length of the ring, every mask and every grain of    *)
(* the copy.  The invariant has two halves.  RingOK is about the guest:    *)
(* the numbers in the ring are those of its current turn up to             *)
(* log_end % len and those of the turn before behind it, and a copy made   *)
(* of a quiet guest holds these cells.  LoopOK is about the loop: after p  *)
(* turns what was printed is what the first p positions contribute, and    *)
(* next_line says whether a line is open there.                            *)
(***************************************************************************)

\* The ring after e characters: the current turn of it up to e % len, and behind that
\* the turn before, or nothing.
Turned(e) ==
    LET r == e % len
        B == e - r
    IN  /\ B = 0 \/ B >= len
        /\ \A i \in 1..len :
              log_buf[i].n = IF i <= r THEN B + i ELSE IF B = 0 THEN 0 ELSE (B - len) + i

Mark == [n : Int, at : Nat]

FlatTypes ==
    /\ len \in Nat \ {0} /\ log_end \in Nat
    /\ log_buf \in [1..len -> [n : Nat, c : Classes]]
    /\ log_buf_len \in Nat /\ log_buf_len <= len
    /\ arry \in [1..log_buf_len -> [n : Int, c : Classes]]
    /\ copied \in Nat /\ began \in Nat /\ pos \in Nat
    /\ quiet \in BOOLEAN /\ next_line \in BOOLEAN
    /\ stdout \in Seq(Mark)
    /\ step \in {"len", "copy", "print", "done"}
    /\ step \in {"len", "copy"} => stdout = <<>>
    /\ step = "len" => log_buf_len = 0
    /\ step \in {"print", "done"} => pos <= log_buf_len
    /\ step = "done" => pos = log_buf_len

\* What the guest's ring holds, and what a copy that it was left alone for does.
RingOK ==
    /\ Turned(log_end)
    /\ quiet /\ step # "len" =>
          /\ began = log_end
          /\ \A i \in 1..log_buf_len : arry[i].n = NotRead \/ arry[i] = log_buf[i]

\* What the first l marks of s are when the loop has passed the first p positions.
Passed(s, p, l) ==
    /\ \A x, y \in 1..l : x < y => s[x].at < s[y].at
    /\ {s[x].at : x \in 1..l} = {i \in 1..p : Contributes(i)}
    /\ \A x \in 1..l : s[x].n = IF arry[s[x].at].c = "ascii" THEN arry[s[x].at].n ELSE Newline

LoopOK ==
    /\ step = "print" => Passed(stdout, pos, Len(stdout)) /\ (next_line <=> LineOpen(pos + 1))
    /\ step = "done" => /\ Len(stdout) > 0
                        /\ Passed(stdout, log_buf_len, Len(stdout) - 1)
                        /\ stdout[Len(stdout)] = [n |-> Newline, at |-> log_buf_len + 1]

FInv == FlatTypes /\ RingOK /\ LoopOK

\* Turns of the ring do not overlap.
LEMMA TurnsApart ==
    ASSUME NEW s \in Nat \ {0}, NEW u \in Nat, NEW v \in Nat, u < v
    PROVE  s * u + s <= s * v
<1>1. PICK d \in Nat : v = u + 1 + d
  <2>1. v - u - 1 \in Nat /\ v = u + 1 + (v - u - 1)
    OBVIOUS
  <2> QED
    BY <2>1
<1>2. s * v = s * u + s + s * d
  BY <1>1
<1>3. s * d \in Nat /\ s * u \in Nat /\ s * v \in Nat
  OBVIOUS
<1> QED
  BY <1>2, <1>3

\* A remainder is determined by the range it lies in.
LEMMA SameRest ==
    ASSUME NEW s \in Nat \ {0}, NEW p \in Nat, NEW q \in Nat,
           NEW a \in 0..(s - 1), NEW b \in 0..(s - 1), s * p + a = s * q + b
    PROVE  a = b
<1>2. s * p \in Nat /\ s * q \in Nat
  OBVIOUS
<1>3. ~ (p < q)
  <2>1. p < q => s * p + s <= s * q
    BY TurnsApart
  <2> QED
    BY <1>2, <2>1
<1>4. ~ (q < p)
  <2>1. q < p => s * q + s <= s * p
    BY TurnsApart
  <2> QED
    BY <1>2, <2>1
<1>5. p = q
  BY <1>3, <1>4
<1> QED
  BY <1>2, <1>5

\* Counting on by one.
LEMMA RestOfNext ==
    ASSUME NEW m \in Nat, NEW s \in Nat \ {0}
    PROVE  /\ m % s \in 0..(s - 1) /\ m % s <= m
           /\ (m + 1) % s = IF m % s = s - 1 THEN 0 ELSE (m % s) + 1
<1>1. PICK q \in Nat, r \in 0..(s - 1) : r = m % s /\ m = s * q + r
  <2>1. m % s \in 0..(s - 1) /\ m \div s \in Nat /\ m = s * (m \div s) + (m % s)
    OBVIOUS
  <2> QED
    BY <2>1, Zenon
<1>2. PICK p \in Nat, a \in 0..(s - 1) : a = (m + 1) % s /\ m + 1 = s * p + a
  <2>1. m + 1 \in Nat
    OBVIOUS
  <2>2. /\ (m + 1) % s \in 0..(s - 1) /\ (m + 1) \div s \in Nat
        /\ m + 1 = s * ((m + 1) \div s) + ((m + 1) % s)
    BY <2>1
  <2> QED
    BY <2>2, Zenon
<1>3. m % s <= m
  OBVIOUS
<1>4. ASSUME r # s - 1 PROVE a = r + 1
  <2>1. r + 1 \in 0..(s - 1)
    BY <1>4
  <2>2. s * p + a = s * q + (r + 1)
    <3>1. s * q \in Nat /\ m = s * q + r
      BY <1>1
    <3>2. m + 1 = s * q + (r + 1)
      BY <3>1
    <3> QED
      BY <1>2, <3>2
  <2> QED
    BY <2>1, <2>2, SameRest
<1>5. ASSUME r = s - 1 PROVE a = 0
  <2>1. q + 1 \in Nat /\ 0 \in 0..(s - 1)
    OBVIOUS
  <2>2. s * p + a = s * (q + 1) + 0
    <3>1. s * (q + 1) = s * q + s /\ s * q \in Nat /\ m = s * q + r
      BY <1>1
    <3>2. m + 1 = s * (q + 1) + 0
      BY <1>5, <3>1
    <3> QED
      BY <1>2, <3>2
  <2> QED
    BY <2>1, <2>2, SameRest
<1> QED
  BY <1>1, <1>2, <1>3, <1>4, <1>5

\* Before anything is logged or read.
LEMMA FlatStart ==
    ASSUME FlatInit
    PROVE  FInv
<1>1. /\ len \in Nat \ {0} /\ log_buf = [i \in 1..len |-> [n |-> 0, c |-> "nul"]] /\ log_end = 0
      /\ step = "len" /\ log_buf_len = 0 /\ arry = <<>> /\ copied = 0 /\ began = 0 /\ pos = 0
      /\ stdout = <<>>
  BY FlatAssumption DEF FlatInit
<1>2. quiet \in BOOLEAN /\ next_line \in BOOLEAN
  BY Zenon DEF FlatInit
<1>3. FlatTypes
  <2>1. log_buf \in [1..len -> [n : Nat, c : Classes]]
    BY <1>1 DEF Classes
  <2>2. arry \in [1..log_buf_len -> [n : Int, c : Classes]]
    BY <1>1
  <2>3. stdout \in Seq(Mark)
    BY <1>1
  <2>4. log_buf_len \in Nat /\ log_buf_len <= len /\ len \in Nat \ {0} /\ log_end \in Nat
    BY <1>1
  <2>5. copied \in Nat /\ began \in Nat /\ pos \in Nat /\ step \in {"len", "copy", "print", "done"}
    BY <1>1
  <2> QED
    BY <1>1, <1>2, <2>1, <2>2, <2>3, <2>4, <2>5 DEF FlatTypes
<1>4. RingOK
  <2>1. 0 % len = 0
    BY <1>1
  <2>2. Turned(0)
    BY <1>1, <2>1 DEF Turned
  <2> QED
    BY <1>1, <2>2 DEF RingOK
<1>5. LoopOK
  BY <1>1 DEF LoopOK
<1> QED
  BY <1>3, <1>4, <1>5 DEF FInv

\* The next character goes where the oldest one is.
LEMMA EmitStep ==
    ASSUME FInv, emit_log_char
    PROVE  FInv'
<1>1. PICK cl \in Classes :
          log_buf' = [log_buf EXCEPT ![(log_end % len) + 1] = [n |-> log_end + 1, c |-> cl]]
  BY Zenon DEF emit_log_char
<1>2. /\ step \in {"len", "copy"} /\ log_end' = log_end + 1
      /\ UNCHANGED <<len, step, log_buf_len, arry, copied, began, pos, next_line, stdout, data>>
  BY DEF emit_log_char
<1>3. quiet' = (quiet /\ step # "copy")
  BY DEF emit_log_char
<1>4. FlatTypes /\ RingOK
  BY DEF FInv
<1>5. /\ len \in Nat \ {0} /\ log_end \in Nat /\ log_buf \in [1..len -> [n : Nat, c : Classes]]
  BY <1>4 DEF FlatTypes
<1>6. PICK r \in Nat : r = log_end % len /\ r < len /\ r <= log_end
  <2>1. log_end % len \in 0..(len - 1) /\ log_end % len <= log_end
    BY <1>5, RestOfNext, Zenon
  <2>2. \A x \in 0..(len - 1) : x \in Nat /\ x < len
    BY <1>5
  <2> QED
    BY <2>1, <2>2, Zenon
<1>7. (log_end + 1) % len = IF r = len - 1 THEN 0 ELSE r + 1
  BY <1>5, <1>6, RestOfNext, Zenon
<1>8. /\ log_buf' \in [1..len -> [n : Nat, c : Classes]]
      /\ log_buf'[r + 1].n = log_end + 1
      /\ \A i \in 1..len : i # r + 1 => log_buf'[i] = log_buf[i]
  <2>1. r + 1 \in 1..len /\ [n |-> log_end + 1, c |-> cl] \in [n : Nat, c : Classes]
    BY <1>5, <1>6
  <2>2. log_buf' = [log_buf EXCEPT ![r + 1] = [n |-> log_end + 1, c |-> cl]]
    BY <1>1, <1>6, Zenon
  <2> QED
    BY <1>5, <2>1, <2>2
<1>9. quiet' \in BOOLEAN
  <2>1. (quiet /\ step # "copy") \in BOOLEAN
    OBVIOUS
  <2> QED
    BY <1>3, <2>1, SMT
<1>10. FlatTypes'
  <2>1. log_end' \in Nat
    BY <1>2, <1>5
  <2> QED
    BY <1>2, <1>4, <1>8, <1>9, <2>1, Zenon DEF FlatTypes, Classes, Mark
<1>11. Turned(log_end)'
  <2>1. PICK B \in Nat : B = log_end - r /\ (B = 0 \/ B >= len)
    <3>1. log_end - r \in Nat
      BY <1>5, <1>6
    <3>2. log_end - r = 0 \/ log_end - r >= len
      BY <1>4, <1>6 DEF RingOK, Turned
    <3> QED
      BY <3>1, <3>2, Zenon
  <2>2. \A i \in 1..len :
            log_buf[i].n = IF i <= r THEN B + i ELSE IF B = 0 THEN 0 ELSE (B - len) + i
    BY <1>4, <1>6, <2>1, Zenon DEF RingOK, Turned
  <2>3. log_end + 1 = B + (r + 1)
    BY <1>5, <1>6, <2>1
  <2>4. CASE r = len - 1
    <3>1. (log_end + 1) % len = 0 /\ (log_end + 1) - 0 = B + len
      BY <1>5, <1>6, <1>7, <2>1, <2>3, <2>4
    <3>2. ASSUME NEW i \in 1..len PROVE log_buf'[i].n = ((B + len) - len) + i
      <4>1. CASE i = r + 1
        <5>1. ((B + len) - len) + i = B + (r + 1)
          BY <1>5, <4>1
        <5> QED
          BY <1>8, <2>3, <4>1, <5>1, Zenon
      <4>2. CASE i # r + 1
        <5>1. i <= r /\ log_buf'[i] = log_buf[i]
          BY <1>5, <1>6, <1>8, <2>4, <4>2
        <5>2. log_buf[i].n = B + i
          BY <2>2, <5>1
        <5> QED
          BY <1>5, <5>1, <5>2
      <4> QED
        BY <4>1, <4>2
    <3>3. B + len # 0 /\ B + len >= len /\ \A i \in 1..len : ~ (i <= 0)
      BY <1>5
    <3> QED
      BY <1>2, <3>1, <3>2, <3>3, Zenon DEF Turned
  <2>5. CASE r # len - 1
    <3>1. (log_end + 1) % len = r + 1 /\ (log_end + 1) - (r + 1) = B
      <4>1. (B + (r + 1)) - (r + 1) = B
        OBVIOUS
      <4> QED
        BY <1>7, <2>3, <2>5, <4>1, Zenon
    <3>2. ASSUME NEW i \in 1..len
          PROVE  log_buf'[i].n = IF i <= r + 1 THEN B + i ELSE IF B = 0 THEN 0 ELSE (B - len) + i
      <4>1. CASE i = r + 1
        <5>1. i <= r + 1 /\ log_buf'[i].n = B + i
          BY <1>6, <1>8, <2>3, <4>1
        <5> QED
          BY <5>1
      <4>2. CASE i # r + 1
        <5>1. (i <= r + 1 <=> i <= r) /\ log_buf'[i] = log_buf[i]
          BY <1>6, <1>8, <4>2
        <5> QED
          BY <2>2, <5>1, Zenon
      <4> QED
        BY <4>1, <4>2
    <3> QED
      BY <1>2, <2>1, <3>1, <3>2, Zenon DEF Turned
  <2> QED
    BY <2>4, <2>5
<1>12. RingOK'
  <2>2. ~ (quiet' /\ step' # "len")
    BY <1>2, <1>3, Zenon
  <2> QED
    BY <1>2, <1>11, <2>2, Zenon DEF RingOK
<1>13. LoopOK'
  BY <1>2 DEF LoopOK
<1> QED
  BY <1>10, <1>12, <1>13 DEF FInv

\* A copy is allocated; nothing is read into it yet.
LEMMA GetLenStep ==
    ASSUME FInv, GetLen
    PROVE  FInv'
<1>1. /\ step = "len" /\ step' = "copy" /\ log_buf_len' \in {len % MaskTop, 0}
      /\ arry' = [i \in 1..log_buf_len' |-> [n |-> NotRead, c |-> "nul"]]
      /\ began' = log_end
      /\ UNCHANGED <<len, log_buf, log_end, copied, pos, next_line, stdout, data>>
  BY DEF GetLen
<1>2. quiet' \in BOOLEAN
  BY DEF GetLen
<1>3. FlatTypes /\ RingOK
  BY DEF FInv
<1>4. len \in Nat \ {0} /\ log_end \in Nat
  BY <1>3 DEF FlatTypes
<1>5. log_buf_len' \in Nat /\ log_buf_len' <= len
  <2>1. len % MaskTop \in Nat /\ len % MaskTop <= len
    BY <1>4, FlatAssumption, RestOfNext
  <2> QED
    BY <1>1, <1>4, <2>1
<1>6. arry' \in [1..log_buf_len' -> [n : Int, c : Classes]]
  BY <1>1 DEF NotRead, Classes
<1>7. FlatTypes'
  <2>1. step' \notin {"len", "print", "done"}
    BY <1>1
  <2>2. stdout' = <<>>
    BY <1>1, <1>3 DEF FlatTypes
  <2> QED
    BY <1>1, <1>2, <1>3, <1>4, <1>5, <1>6, <2>1, <2>2, Zenon DEF FlatTypes, Classes, Mark
<1>8. RingOK'
  <2>1. \A i \in 1..log_buf_len' : arry'[i].n = NotRead
    BY <1>1
  <2> QED
    BY <1>1, <1>3, <2>1, Zenon DEF RingOK, Turned, NotRead
<1>9. LoopOK'
  BY <1>1 DEF LoopOK
<1> QED
  BY <1>7, <1>8, <1>9 DEF FInv

\* A step that only changes the copy, before the loop: every cell stays, is read from the
\* ring, or counts as not read.
LEMMA CopyKeeps ==
    ASSUME FInv, step = "copy", copied' \in Nat,
           UNCHANGED <<len, log_buf, log_end, step, log_buf_len, began, quiet, pos, next_line,
                       stdout, data>>,
           arry' \in [1..log_buf_len -> [n : Int, c : Classes]],
           \A i \in 1..log_buf_len :
              arry'[i].n = NotRead \/ arry'[i] = log_buf[i] \/ arry'[i] = arry[i]
    PROVE  FInv'
<1>1. FlatTypes /\ RingOK
  BY DEF FInv
<1>2. FlatTypes'
  BY <1>1, Zenon DEF FlatTypes, Classes, Mark
<1>3. RingOK'
  <2>1. quiet => /\ began = log_end
                 /\ \A i \in 1..log_buf_len : arry[i].n = NotRead \/ arry[i] = log_buf[i]
    BY <1>1 DEF RingOK
  <2>2. quiet => \A i \in 1..log_buf_len : arry'[i].n = NotRead \/ arry'[i] = log_buf[i]
    BY <2>1, ZenonT(30)
  <2> QED
    BY <1>1, <2>1, <2>2, Zenon DEF RingOK, Turned, NotRead
<1>4. LoopOK'
  BY DEF LoopOK
<1> QED
  BY <1>2, <1>3, <1>4 DEF FInv

\* readmem, whether it goes on or fails.
LEMMA CopySteps ==
    ASSUME FInv, Copy \/ CopyFails
    PROVE  FInv'
<1>1. /\ step = "copy"
      /\ UNCHANGED <<len, log_buf, log_end, step, log_buf_len, began, quiet, pos, next_line,
                     stdout, data>>
  BY DEF Copy, CopyFails
<1>2. FlatTypes
  BY DEF FInv
<1>3. /\ log_buf_len \in Nat /\ len \in Nat /\ log_buf_len <= len /\ copied \in Nat
      /\ Chunk \in Nat
  BY <1>2, FlatAssumption DEF FlatTypes
<1>4. /\ arry \in [1..log_buf_len -> [n : Int, c : Classes]]
      /\ \A i \in 1..log_buf_len : log_buf[i] \in [n : Int, c : Classes]
  <2>1. \A i \in 1..log_buf_len : i \in 1..len
    BY <1>3
  <2>2. \A i \in 1..len : log_buf[i] \in [n : Nat, c : Classes]
    BY <1>2 DEF FlatTypes
  <2>3. \A i \in 1..len : log_buf[i] \in [n : Int, c : Classes]
    BY <2>2
  <2> QED
    BY <1>2, <2>1, <2>3, Zenon DEF FlatTypes
<1>5. CASE Copy
  <2>1. /\ copied' = copied + Chunk
        /\ arry' = [i \in 1..log_buf_len |->
                      IF i \in (copied + 1)..(copied + Chunk) THEN log_buf[i] ELSE arry[i]]
    BY <1>5 DEF Copy
  <2>2. copied' \in Nat
    BY <1>3, <2>1
  <2>3. arry' \in [1..log_buf_len -> [n : Int, c : Classes]]
    BY <1>4, <2>1, Zenon
  <2>4. \A i \in 1..log_buf_len : arry'[i] = log_buf[i] \/ arry'[i] = arry[i]
    BY <2>1, Zenon
  <2> QED
    BY <1>1, <2>2, <2>3, <2>4, CopyKeeps, Zenon
<1>6. CASE CopyFails
  <2>1. PICK heap \in [1..log_buf_len -> Classes] :
          arry' = [i \in 1..log_buf_len |->
                      IF i <= copied THEN arry[i] ELSE [n |-> NotRead, c |-> heap[i]]]
    BY <1>6, Zenon DEF CopyFails
  <2>2. copied' \in Nat
    BY <1>3, <1>6 DEF CopyFails
  <2>3. \A i \in 1..log_buf_len : [n |-> NotRead, c |-> heap[i]] \in [n : Int, c : Classes]
    BY DEF NotRead
  <2>4. arry' \in [1..log_buf_len -> [n : Int, c : Classes]]
    BY <1>4, <2>1, <2>3, Zenon
  <2>5. \A i \in 1..log_buf_len : arry'[i].n = NotRead \/ arry'[i] = arry[i]
    BY <2>1
  <2> QED
    BY <1>1, <2>2, <2>4, <2>5, CopyKeeps, ZenonT(30)
<1> QED
  BY <1>5, <1>6

\* Steps of the loop leave ring and copy as they are.
LEMMA RingRests ==
    ASSUME RingOK, UNCHANGED <<len, log_buf, log_end, log_buf_len, arry, began, quiet>>,
           step # "len", step' # "len"
    PROVE  RingOK'
  BY Zenon DEF RingOK, Turned, NotRead

\* Before the first turn nothing has been printed.
LEMMA StartPrintStep ==
    ASSUME FInv, StartPrint
    PROVE  FInv'
<1>1. /\ step = "copy" /\ step' = "print" /\ pos' = 0
      /\ UNCHANGED <<len, log_buf, log_end, log_buf_len, arry, copied, began, quiet, stdout, data>>
  BY DEF StartPrint
<1>2. next_line' = FALSE
  BY DEF StartPrint
<1>3. FlatTypes /\ RingOK
  BY DEF FInv
<1>4. log_buf_len \in Nat /\ stdout = <<>>
  BY <1>1, <1>3 DEF FlatTypes
<1>5. FlatTypes'
  <2>1. pos' \in Nat /\ pos' <= log_buf_len /\ step' \notin {"len", "copy", "done"}
    BY <1>1, <1>4
  <2>2. next_line' \in BOOLEAN
    BY <1>2, Zenon
  <2> QED
    BY <1>1, <1>3, <2>1, <2>2, Zenon DEF FlatTypes, Classes, Mark
<1>6. RingOK'
  BY <1>1, <1>3, RingRests
<1>7. LoopOK'
  <2>1. Len(stdout') = 0 /\ 1..0 = {} /\ 1..((0 + 1) - 1) = {}
    BY <1>1, <1>4
  <2>2. Passed(stdout, 0, 0)'
    <3>1. {stdout'[x].at : x \in 1..0} = {} /\ {i \in 1..0 : Contributes(i)'} = {}
      BY <2>1
    <3> QED
      BY <2>1, <3>1 DEF Passed
  <2>3. ~ LineOpen(0 + 1)'
    BY <2>1 DEF LineOpen
  <2>4. ~ next_line' /\ step' # "done" /\ pos' = 0
    BY <1>1, <1>2
  <2>5. Passed(stdout, pos, Len(stdout))'
    BY <2>1, <2>2, <2>4
  <2>6. ~ LineOpen(pos + 1)'
    BY <2>3, <2>4
  <2> QED
    BY <2>4, <2>5, <2>6 DEF LoopOK
<1> QED
  BY <1>5, <1>6, <1>7 DEF FInv

\* Appending a mark keeps the others.
LEMMA Marked ==
    ASSUME NEW m \in Mark, NEW s \in Seq(Mark)
    PROVE  /\ Append(s, m) \in Seq(Mark) /\ Len(s) \in Nat /\ Len(Append(s, m)) = Len(s) + 1
           /\ \A x \in 1..Len(s) : Append(s, m)[x] = s[x]
           /\ Append(s, m)[Len(s) + 1] = m
  OBVIOUS

\* A turn at a position that contributes.
LEMMA TurnPrints ==
    ASSUME NEW s, NEW r, NEW p \in Nat, NEW l \in Nat, Passed(s, p, l), Contributes(p + 1),
           \A x \in 1..l : r[x] = s[x], NEW v, r[l + 1] = [n |-> v, at |-> p + 1],
           v = IF arry[p + 1].c = "ascii" THEN arry[p + 1].n ELSE Newline
    PROVE  Passed(r, p + 1, l + 1)
<1>1. \A x \in 1..(l + 1) : x \in 1..l \/ x = l + 1
  OBVIOUS
<1>2. \A x \in 1..l : s[x].at \in 1..p
  <2>1. {s[x].at : x \in 1..l} = {i \in 1..p : Contributes(i)}
    BY DEF Passed
  <2> QED
    BY <2>1, ZenonT(30)
<1>3. r[l + 1].at = p + 1 /\ r[l + 1].n = v
  OBVIOUS
<1>4. ASSUME NEW x \in 1..(l + 1), NEW y \in 1..(l + 1), x < y PROVE r[x].at < r[y].at
  <2>1. x \in 1..l
    BY <1>4
  <2>2. CASE y \in 1..l
    BY <1>4, <2>1, <2>2, Zenon DEF Passed
  <2>3. CASE y = l + 1
    <3>1. r[x].at = s[x].at /\ s[x].at \in 1..p
      BY <1>2, <2>1, ZenonT(30)
    <3>2. s[x].at < p + 1
      BY <3>1
    <3> QED
      BY <1>3, <2>3, <3>1, <3>2, Zenon
  <2> QED
    BY <1>1, <2>2, <2>3
<1>5. {r[x].at : x \in 1..(l + 1)} = {i \in 1..(p + 1) : Contributes(i)}
  <2>1. {s[x].at : x \in 1..l} = {i \in 1..p : Contributes(i)}
    BY DEF Passed
  <2>2. 1..(p + 1) = 1..p \cup {p + 1} /\ 1..(l + 1) = 1..l \cup {l + 1}
    OBVIOUS
  <2>3. {r[x].at : x \in 1..(l + 1)} = {s[x].at : x \in 1..l} \cup {p + 1}
    BY <1>3, <2>2, ZenonT(30)
  <2>4. {i \in 1..(p + 1) : Contributes(i)} = {i \in 1..p : Contributes(i)} \cup {p + 1}
    BY <2>2, Zenon
  <2> QED
    BY <2>1, <2>3, <2>4, ZenonT(30)
<1>6. ASSUME NEW x \in 1..(l + 1)
      PROVE  r[x].n = IF arry[r[x].at].c = "ascii" THEN arry[r[x].at].n ELSE Newline
  <2>1. CASE x \in 1..l
    BY <2>1, Zenon DEF Passed
  <2>2. CASE x = l + 1
    BY <1>3, <2>2, Zenon
  <2> QED
    BY <1>1, <2>1, <2>2, Zenon
<1> QED
  BY <1>4, <1>5, <1>6, ZenonT(30) DEF Passed

\* A turn at a position that contributes nothing.
LEMMA TurnSkips ==
    ASSUME NEW s, NEW p \in Nat, NEW l \in Nat, Passed(s, p, l), ~ Contributes(p + 1)
    PROVE  Passed(s, p + 1, l)
<1>1. 1..(p + 1) = 1..p \cup {p + 1}
  OBVIOUS
<1>2. {i \in 1..(p + 1) : Contributes(i)} = {i \in 1..p : Contributes(i)}
  BY <1>1, Zenon
<1> QED
  BY <1>2, Zenon DEF Passed

\* Whether a line is open behind the next position.
LEMMA LineOpenNext ==
    ASSUME NEW p \in Nat
    PROVE  LineOpen(p + 1 + 1) <=>
              arry[p + 1].c = "ascii" \/ (arry[p + 1].c # "nul" /\ LineOpen(p + 1))
<1>1. (p + 1 + 1) - 1 = p + 1 /\ (p + 1) - 1 = p /\ 1..(p + 1) = 1..p \cup {p + 1}
  OBVIOUS
<1>2. LineOpen(p + 1 + 1) <=>
         \E j \in 1..(p + 1) : arry[j].c = "ascii" /\ \A m \in j..(p + 1) : arry[m].c # "nul"
  BY <1>1, Zenon DEF LineOpen
<1>3. LineOpen(p + 1) <=> \E j \in 1..p : arry[j].c = "ascii" /\ \A m \in j..p : arry[m].c # "nul"
  BY <1>1, Zenon DEF LineOpen
<1>4. (p + 1)..(p + 1) = {p + 1}
  OBVIOUS
<1>5. \A j \in 1..p : j..(p + 1) = j..p \cup {p + 1}
  OBVIOUS
<1>6. "ascii" # "nul"
  OBVIOUS
<1>7. ASSUME LineOpen(p + 1 + 1)
      PROVE  arry[p + 1].c = "ascii" \/ (arry[p + 1].c # "nul" /\ LineOpen(p + 1))
  <2>1. PICK j \in 1..(p + 1) : arry[j].c = "ascii" /\ \A m \in j..(p + 1) : arry[m].c # "nul"
    BY <1>2, <1>7, Zenon
  <2>2. CASE j \in 1..p
    BY <1>3, <1>5, <2>1, <2>2, Zenon
  <2>3. CASE j = p + 1
    BY <2>1, <2>3, Zenon
  <2> QED
    BY <1>1, <2>2, <2>3, Zenon
<1>8. ASSUME arry[p + 1].c = "ascii" PROVE LineOpen(p + 1 + 1)
  BY <1>1, <1>2, <1>4, <1>6, <1>8, Zenon
<1>9. ASSUME arry[p + 1].c # "nul", LineOpen(p + 1) PROVE LineOpen(p + 1 + 1)
  <2>1. PICK j \in 1..p : arry[j].c = "ascii" /\ \A m \in j..p : arry[m].c # "nul"
    BY <1>3, <1>9, Zenon
  <2>2. \A m \in j..(p + 1) : arry[m].c # "nul"
    BY <1>5, <1>9, <2>1, Zenon
  <2> QED
    BY <1>1, <1>2, <2>1, <2>2, Zenon
<1> QED
  BY <1>7, <1>8, <1>9

\* One turn of the printing loop.
LEMMA PrintCharStep ==
    ASSUME FInv, PrintChar
    PROVE  FInv'
<1>1. /\ step = "print" /\ step' = "print" /\ pos < log_buf_len /\ pos' = pos + 1
      /\ UNCHANGED <<len, log_buf, log_end, log_buf_len, arry, copied, began, quiet, data>>
  BY DEF PrintChar
<1>2. next_line' = (arry[pos + 1].c = "ascii" \/ (arry[pos + 1].c = "high" /\ next_line))
  BY DEF PrintChar
<1>3. FlatTypes /\ RingOK
  BY DEF FInv
<1>4. Passed(stdout, pos, Len(stdout)) /\ (next_line <=> LineOpen(pos + 1))
  BY <1>1 DEF FInv, LoopOK
<1>5. pos \in Nat /\ log_buf_len \in Nat /\ stdout \in Seq(Mark)
  BY <1>3 DEF FlatTypes
<1>6. arry[pos + 1].n \in Int /\ arry[pos + 1].c \in Classes
  <2>1. pos + 1 \in 1..log_buf_len
    BY <1>1, <1>5
  <2>2. arry[pos + 1] \in [n : Int, c : Classes]
    BY <1>3, <2>1, Zenon DEF FlatTypes
  <2> QED
    BY <2>2
<1>7. PICK l \in Nat : l = Len(stdout)
  BY <1>5
<1>8. /\ stdout' \in Seq(Mark)
      /\ Passed(stdout', pos + 1, Len(stdout'))
  <2>1. CASE Contributes(pos + 1)
    <3>1. PICK v \in Int : /\ v = IF arry[pos + 1].c = "ascii" THEN arry[pos + 1].n ELSE Newline
                           /\ stdout' = Append(stdout, [n |-> v, at |-> pos + 1])
      <4>1. CASE arry[pos + 1].c = "ascii"
        <5>1. stdout' = Append(stdout, [n |-> arry[pos + 1].n, at |-> pos + 1])
          BY <4>1 DEF PrintChar, Char
        <5> QED
          BY <1>6, <4>1, <5>1, Zenon
      <4>2. CASE arry[pos + 1].c # "ascii"
        <5>1. arry[pos + 1].c = "nul" /\ next_line
          BY <1>4, <2>1, <4>2, Zenon DEF Contributes
        <5>2. stdout' = Append(stdout, [n |-> Newline, at |-> pos + 1])
          BY <4>2, <5>1 DEF PrintChar, Char
        <5>3. Newline \in Int
          BY DEF Newline
        <5> QED
          BY <4>2, <5>2, <5>3, Zenon
      <4> QED
        BY <4>1, <4>2
    <3>2. [n |-> v, at |-> pos + 1] \in Mark
      BY <1>5 DEF Mark
    <3>3. PICK m \in Mark : m = [n |-> v, at |-> pos + 1]
      BY <3>2, Zenon
    <3>4. /\ Append(stdout, m) \in Seq(Mark) /\ Len(Append(stdout, m)) = Len(stdout) + 1
          /\ \A x \in 1..Len(stdout) : Append(stdout, m)[x] = stdout[x]
          /\ Append(stdout, m)[Len(stdout) + 1] = m
      BY <1>5, Marked, Zenon
    <3>5. /\ stdout' \in Seq(Mark) /\ Len(stdout') = l + 1
          /\ \A x \in 1..l : stdout'[x] = stdout[x]
          /\ stdout'[l + 1] = [n |-> v, at |-> pos + 1]
      BY <1>7, <3>1, <3>3, <3>4, Zenon
    <3>6. Passed(stdout, pos, l)
      BY <1>4, <1>7, Zenon
    <3>7. Passed(stdout', pos + 1, l + 1)
      BY <1>5, <2>1, <3>1, <3>5, <3>6, TurnPrints, Zenon
    <3> QED
      BY <3>5, <3>7, Zenon
  <2>2. CASE ~ Contributes(pos + 1)
    <3>1. arry[pos + 1].c # "ascii" /\ ~ (arry[pos + 1].c = "nul" /\ next_line)
      BY <1>4, <2>2, Zenon DEF Contributes
    <3>2. stdout' = stdout
      BY <3>1 DEF PrintChar
    <3>3. Passed(stdout, pos, l)
      BY <1>4, <1>7, Zenon
    <3>4. Passed(stdout, pos + 1, l)
      BY <1>5, <2>2, <3>3, TurnSkips, Zenon
    <3> QED
      BY <1>5, <1>7, <3>2, <3>4, Zenon
  <2> QED
    BY <2>1, <2>2
<1>9. next_line' \in BOOLEAN
  <2>1. (arry[pos + 1].c = "ascii" \/ (arry[pos + 1].c = "high" /\ next_line)) \in BOOLEAN
    OBVIOUS
  <2> QED
    BY <1>2, <2>1, SMT
<1>10. FlatTypes'
  <2>1. pos' \in Nat /\ pos' <= log_buf_len /\ step' \notin {"len", "copy", "done"}
    BY <1>1, <1>5
  <2> QED
    BY <1>1, <1>3, <1>8, <1>9, <2>1, Zenon DEF FlatTypes, Classes, Mark
<1>11. RingOK'
  BY <1>1, <1>3, RingRests
<1>12. LoopOK'
  <2>1. \A i : (Contributes(i)' <=> Contributes(i)) /\ (LineOpen(i)' <=> LineOpen(i))
    BY <1>1 DEF Contributes, LineOpen
  <2>2. Passed(stdout, pos, Len(stdout))'
    BY <1>1, <1>8, <2>1, ZenonT(30) DEF Passed, Newline
  <2>3. next_line' <=> LineOpen(pos + 1 + 1)
    <3>1. LineOpen(pos + 1 + 1) <=>
             arry[pos + 1].c = "ascii" \/ (arry[pos + 1].c # "nul" /\ LineOpen(pos + 1))
      BY <1>5, LineOpenNext, Zenon
    <3>2. arry[pos + 1].c = "ascii" \/ (arry[pos + 1].c # "nul" <=> arry[pos + 1].c = "high")
      BY <1>6 DEF Classes
    <3> QED
      BY <1>2, <1>4, <3>1, <3>2, Zenon
  <2>4. next_line' <=> LineOpen(pos + 1)'
    BY <1>1, <2>1, <2>3, Zenon
  <2>5. step' # "done"
    BY <1>1
  <2> QED
    BY <2>2, <2>4, <2>5 DEF LoopOK
<1> QED
  BY <1>10, <1>11, <1>12 DEF FInv

\* The last newline.
LEMMA EndPrintStep ==
    ASSUME FInv, EndPrint
    PROVE  FInv'
<1>1. /\ step = "print" /\ step' = "done" /\ pos >= log_buf_len
      /\ stdout' = Append(stdout, [n |-> Newline, at |-> pos + 1])
      /\ UNCHANGED <<len, log_buf, log_end, log_buf_len, arry, copied, began, quiet, pos,
                     next_line>>
  BY DEF EndPrint, Char
<1>2. FlatTypes /\ RingOK
  BY DEF FInv
<1>3. Passed(stdout, pos, Len(stdout))
  BY <1>1 DEF FInv, LoopOK
<1>4. pos \in Nat /\ log_buf_len \in Nat /\ stdout \in Seq(Mark) /\ pos <= log_buf_len
  BY <1>1, <1>2 DEF FlatTypes
<1>5. pos = log_buf_len
  BY <1>1, <1>4
<1>6. PICK m \in Mark : m = [n |-> Newline, at |-> log_buf_len + 1]
  <2>1. [n |-> Newline, at |-> log_buf_len + 1] \in Mark
    BY <1>4 DEF Mark, Newline
  <2> QED
    BY <2>1, Zenon
<1>7. /\ Append(stdout, m) \in Seq(Mark) /\ Len(stdout) \in Nat
      /\ Len(Append(stdout, m)) = Len(stdout) + 1
      /\ \A x \in 1..Len(stdout) : Append(stdout, m)[x] = stdout[x]
      /\ Append(stdout, m)[Len(stdout) + 1] = m
  BY <1>4, Marked, Zenon
<1>8. PICK l \in Nat : l = Len(stdout)
  BY <1>7
<1>9. /\ stdout' \in Seq(Mark) /\ Len(stdout') = l + 1
      /\ \A x \in 1..l : stdout'[x] = stdout[x]
      /\ stdout'[l + 1] = [n |-> Newline, at |-> log_buf_len + 1]
  BY <1>1, <1>5, <1>6, <1>7, <1>8, Zenon
<1>10. FlatTypes'
  <2>1. step' \notin {"len", "copy"} /\ pos <= log_buf_len
    BY <1>1, <1>4
  <2> QED
    BY <1>1, <1>2, <1>5, <1>9, <2>1, Zenon DEF FlatTypes, Classes, Mark
<1>11. RingOK'
  BY <1>1, <1>2, RingRests
<1>12. LoopOK'
  <2>1. \A i : (Contributes(i)' <=> Contributes(i))
    BY <1>1 DEF Contributes, LineOpen
  <2>2. Passed(stdout, log_buf_len, l)
    BY <1>3, <1>5, <1>8, Zenon
  <2>3. /\ \A x, y \in 1..l : x < y => stdout'[x].at < stdout'[y].at
        /\ {stdout'[x].at : x \in 1..l} = {stdout[x].at : x \in 1..l}
        /\ \A x \in 1..l : stdout'[x].n =
              IF arry[stdout'[x].at].c = "ascii" THEN arry[stdout'[x].at].n ELSE Newline
    BY <1>9, <2>2, ZenonT(30) DEF Passed
  <2>4. l + 1 > 0 /\ (l + 1) - 1 = l
    OBVIOUS
  <2>5. Passed(stdout, log_buf_len, Len(stdout) - 1)'
    <3>1. {stdout'[x].at : x \in 1..l} = {i \in 1..log_buf_len : Contributes(i)'}
      BY <2>1, <2>2, <2>3, Zenon DEF Passed
    <3> QED
      BY <1>1, <1>9, <2>3, <2>4, <3>1, Zenon DEF Passed, Newline
  <2>6. stdout'[Len(stdout')] = [n |-> Newline, at |-> log_buf_len' + 1] /\ Len(stdout') > 0
    BY <1>1, <1>9, <2>4, Zenon
  <2>7. step' # "print"
    BY <1>1
  <2> QED
    BY <2>5, <2>6, <2>7, ZenonT(30) DEF LoopOK, Newline
<1> QED
  BY <1>10, <1>11, <1>12 DEF FInv

\* A step of the guest or of the dump, or none.
LEMMA FlatStep ==
    ASSUME FInv, [FlatNext]_flatVars
    PROVE  FInv'
<1>1. CASE emit_log_char
  BY <1>1, EmitStep
<1>2. CASE GetLen
  BY <1>2, GetLenStep
<1>3. CASE Copy \/ CopyFails
  BY <1>3, CopySteps
<1>4. CASE StartPrint
  BY <1>4, StartPrintStep
<1>5. CASE PrintChar
  BY <1>5, PrintCharStep
<1>6. CASE EndPrint
  BY <1>6, EndPrintStep
<1>7. CASE UNCHANGED flatVars
  <2>1. UNCHANGED <<len, log_buf, log_end, step, log_buf_len, arry, copied, began, quiet, pos,
                    next_line, stdout, data>>
    BY <1>7 DEF flatVars
  <2>2. FlatTypes'
    BY <2>1, ZenonT(30) DEF FInv, FlatTypes, Mark, Classes
  <2>3. RingOK'
    BY <2>1, Zenon DEF FInv, RingOK, Turned, NotRead
  <2>4. \A i : (Contributes(i)' <=> Contributes(i)) /\ (LineOpen(i)' <=> LineOpen(i))
    BY <2>1 DEF Contributes, LineOpen
  <2>5. \A p, l : Passed(stdout, p, l)' <=> Passed(stdout, p, l)
    BY <2>1, <2>4, ZenonT(30) DEF Passed, Newline
  <2>6. LoopOK'
    BY <2>1, <2>4, <2>5, Zenon DEF FInv, LoopOK, Newline
  <2> QED
    BY <2>2, <2>3, <2>6 DEF FInv
<1> QED
  BY <1>1, <1>2, <1>3, <1>4, <1>5, <1>6, <1>7 DEF FlatNext

\* The invariant of the flat log holds in every state.
THEOREM FlatInvariant == FlatSpec => []FInv
  BY FlatStart, FlatStep, PTL DEF FlatSpec

\* When the loop has ended: the marks before the last one, and the last one.
LEMMA AtEnd ==
    ASSUME FInv, step = "done"
    PROVE  \E l \in Nat : /\ Len(stdout) = l + 1 /\ Len(stdout) - 1 = l
                          /\ Passed(stdout, log_buf_len, l)
                          /\ stdout[l + 1] = [n |-> Newline, at |-> log_buf_len + 1]
                          /\ \A x \in 1..l : stdout[x].at \in 1..log_buf_len
                          /\ \A x \in 1..(l + 1) : x \in 1..l \/ x = l + 1
<1>1. /\ Len(stdout) > 0
      /\ Passed(stdout, log_buf_len, Len(stdout) - 1)
      /\ stdout[Len(stdout)] = [n |-> Newline, at |-> log_buf_len + 1]
  BY DEF FInv, LoopOK
<1>2. Len(stdout) \in Nat
  <2>1. stdout \in Seq(Mark)
    BY DEF FInv, FlatTypes
  <2> QED
    BY <2>1
<1>3. PICK l \in Nat : Len(stdout) = l + 1 /\ Len(stdout) - 1 = l
  <2>1. ASSUME NEW a \in Nat, a > 0 PROVE \E l \in Nat : a = l + 1 /\ a - 1 = l
    <3>1. a - 1 \in Nat /\ a = (a - 1) + 1
      BY <2>1
    <3> QED
      BY <3>1, Zenon
  <2> QED
    BY <1>1, <1>2, <2>1, Zenon
<1>4. Passed(stdout, log_buf_len, l) /\ stdout[l + 1] = [n |-> Newline, at |-> log_buf_len + 1]
  BY <1>1, <1>3, Zenon
<1>5. \A x \in 1..l : stdout[x].at \in 1..log_buf_len
  <2>1. {stdout[x].at : x \in 1..l} = {i \in 1..log_buf_len : Contributes(i)}
    BY <1>4 DEF Passed
  <2> QED
    BY <2>1, ZenonT(30)
<1>6. \A x \in 1..(l + 1) : x \in 1..l \/ x = l + 1
  OBVIOUS
<1> QED
  BY <1>3, <1>4, <1>5, <1>6, Zenon

\* The loop at main.c:437 prints the ASCII characters of the copy in its order, one
\* newline for each run of zeros behind text, a last newline and nothing else.
THEOREM FlatPrintsRuns == FlatSpec => []PrintsRuns
<1>1. ASSUME FInv, step = "done" PROVE PrintsRuns
  <2>1. PICK l \in Nat : /\ Len(stdout) = l + 1 /\ Len(stdout) - 1 = l
                         /\ Passed(stdout, log_buf_len, l)
                         /\ stdout[l + 1] = [n |-> Newline, at |-> log_buf_len + 1]
                         /\ \A x \in 1..l : stdout[x].at \in 1..log_buf_len
                         /\ \A x \in 1..(l + 1) : x \in 1..l \/ x = l + 1
    BY <1>1, AtEnd
  <2>2. ASSUME NEW x \in 1..(l + 1), NEW y \in 1..(l + 1), x < y
        PROVE  stdout[x].at < stdout[y].at
    <3>1. x \in 1..l
      BY <2>2
    <3>2. CASE y \in 1..l
      BY <2>1, <2>2, <3>1, <3>2, Zenon DEF Passed
    <3>3. CASE y = l + 1
      <4>1. stdout[y].at = log_buf_len + 1
        BY <2>1, <3>3
      <4>2. stdout[x].at \in 1..log_buf_len
        BY <2>1, <3>1, Zenon
      <4>3. log_buf_len \in Nat
        BY <1>1 DEF FInv, FlatTypes
      <4>4. stdout[x].at < log_buf_len + 1
        BY <4>2, <4>3
      <4> QED
        BY <4>1, <4>4, ZenonT(30)
    <3> QED
      BY <2>1, <3>2, <3>3, Zenon
  <2> QED
    BY <2>1, <2>2, ZenonT(30) DEF PrintsRuns, Passed
<1>2. FInv => PrintsRuns
  BY <1>1 DEF PrintsRuns
<1> QED
  BY <1>2, FlatInvariant, PTL

\* A character of the guest among what is printed is the one of its position.
LEMMA LetterIs ==
    ASSUME FInv, step = "done", NEW x \in Letters
    PROVE  /\ stdout[x].at \in 1..log_buf_len /\ stdout[x].n = arry[stdout[x].at].n
           /\ arry[stdout[x].at].c = "ascii" /\ arry[stdout[x].at].n > 0
           /\ x \in 1..(Len(stdout) - 1)
<1>1. PICK l \in Nat : /\ Len(stdout) = l + 1 /\ Len(stdout) - 1 = l
                       /\ Passed(stdout, log_buf_len, l)
                       /\ stdout[l + 1] = [n |-> Newline, at |-> log_buf_len + 1]
                       /\ \A y \in 1..l : stdout[y].at \in 1..log_buf_len
                       /\ \A y \in 1..(l + 1) : y \in 1..l \/ y = l + 1
  BY AtEnd, Zenon
<1>2. x \in 1..(l + 1) /\ stdout[x].n > 0
  BY <1>1, Zenon DEF Letters
<1>3. ~ (Newline > 0)
  BY DEF Newline
<1>4. stdout[l + 1].n = Newline
  BY <1>1
<1>5. x \in 1..l
  BY <1>1, <1>2, <1>3, <1>4, Zenon
<1>6. stdout[x].n = IF arry[stdout[x].at].c = "ascii" THEN arry[stdout[x].at].n ELSE Newline
  BY <1>1, <1>5, Zenon DEF Passed
<1>7. arry[stdout[x].at].c = "ascii"
  BY <1>2, <1>3, <1>6, Zenon
<1> QED
  BY <1>1, <1>2, <1>5, <1>6, <1>7, Zenon

\* Of a quiet guest, it is the one in the ring.
LEMMA LetterOfRing ==
    ASSUME FInv, step = "done", quiet, NEW x \in Letters
    PROVE  /\ stdout[x].at \in 1..len /\ stdout[x].n = log_buf[stdout[x].at].n
           /\ log_buf[stdout[x].at].c = "ascii" /\ stdout[x].n > 0
<1>1. /\ stdout[x].at \in 1..log_buf_len /\ stdout[x].n = arry[stdout[x].at].n
      /\ arry[stdout[x].at].c = "ascii" /\ arry[stdout[x].at].n > 0
  BY LetterIs, Zenon
<1>2. \A i \in 1..log_buf_len : arry[i].n = NotRead \/ arry[i] = log_buf[i]
  BY DEF FInv, RingOK
<1>3. ~ (NotRead > 0)
  BY DEF NotRead
<1>4. arry[stdout[x].at] = log_buf[stdout[x].at]
  BY <1>1, <1>2, <1>3, Zenon
<1>5. log_buf_len \in Nat /\ len \in Nat /\ log_buf_len <= len
  BY DEF FInv, FlatTypes
<1>6. \A i \in 1..log_buf_len : i \in 1..len
  BY <1>5
<1> QED
  BY <1>1, <1>4, <1>6, Zenon

\* The numbers of two cells of the ring.
LEMMA TwoCells ==
    ASSUME NEW e \in Nat, NEW s \in Nat \ {0}, NEW r \in 0..(s - 1), NEW B \in Nat, e = B + r,
           B = 0 \/ B >= s, NEW i \in 1..s, NEW j \in 1..s, i < j,
           NEW u \in Nat, NEW v \in Nat, u > 0, v > 0,
           u = (IF i <= r THEN B + i ELSE IF B = 0 THEN 0 ELSE (B - s) + i),
           v = (IF j <= r THEN B + j ELSE IF B = 0 THEN 0 ELSE (B - s) + j)
    PROVE  IF i <= r /\ r < j THEN e > s /\ v < u ELSE u < v
  OBVIOUS

\* A log left alone during the copy comes out in the order it was written, but for
\* one cut at log_end when the ring has wrapped.
THEOREM FlatOneSeam == FlatSpec => []OneSeam
<1>1. ASSUME FInv, step = "done", quiet, NEW x \in Letters, NEW y \in Letters, x < y
      PROVE  IF stdout[x].at <= began % len /\ began % len < stdout[y].at
             THEN began > len /\ stdout[y].n < stdout[x].n
             ELSE stdout[x].n < stdout[y].n
  <2>1. len \in Nat \ {0} /\ began \in Nat /\ log_buf \in [1..len -> [n : Nat, c : Classes]]
    BY <1>1 DEF FInv, FlatTypes
  <2>2. Turned(began)
    BY <1>1 DEF FInv, RingOK
  <2>3. began % len \in 0..(len - 1) /\ began % len <= began
    BY <2>1, RestOfNext, Zenon
  <2>4. PICK r \in 0..(len - 1) : r = began % len
    BY <2>3, Zenon
  <2>5. PICK B \in Nat : B = began - r /\ began = B + r
    <3>1. began - r \in Nat /\ began = (began - r) + r
      BY <2>1, <2>3, <2>4
    <3> QED
      BY <3>1, Zenon
  <2>6. /\ B = 0 \/ B >= len
        /\ \A i \in 1..len :
              log_buf[i].n = IF i <= r THEN B + i ELSE IF B = 0 THEN 0 ELSE (B - len) + i
    BY <2>2, <2>4, <2>5, Zenon DEF Turned
  <2>7. /\ stdout[x].at \in 1..len /\ stdout[x].n = log_buf[stdout[x].at].n /\ stdout[x].n > 0
        /\ stdout[y].at \in 1..len /\ stdout[y].n = log_buf[stdout[y].at].n /\ stdout[y].n > 0
    BY <1>1, LetterOfRing, Zenon
  <2>8. PICK i \in 1..len, j \in 1..len : i = stdout[x].at /\ j = stdout[y].at
    BY <2>7, Zenon
  <2>9. i < j
    <3>1. x \in 1..(Len(stdout) - 1) /\ y \in 1..(Len(stdout) - 1)
      BY <1>1, LetterIs, ZenonT(30)
    <3>2. Passed(stdout, log_buf_len, Len(stdout) - 1)
      BY <1>1 DEF FInv, LoopOK
    <3> QED
      BY <1>1, <2>8, <3>1, <3>2, Zenon DEF Passed
  <2>10. \A a \in 1..len : log_buf[a].n \in Nat
    BY <2>1
  <2>11. PICK u \in Nat, v \in Nat : u = stdout[x].n /\ v = stdout[y].n
    BY <2>7, <2>10, Zenon
  <2>12. /\ u > 0 /\ v > 0
         /\ u = (IF i <= r THEN B + i ELSE IF B = 0 THEN 0 ELSE (B - len) + i)
         /\ v = (IF j <= r THEN B + j ELSE IF B = 0 THEN 0 ELSE (B - len) + j)
    BY <2>6, <2>7, <2>8, <2>11, Zenon
  <2>13. IF i <= r /\ r < j THEN began > len /\ v < u ELSE u < v
    BY <2>1, <2>5, <2>6, <2>9, <2>12
  <2> QED
    BY <2>4, <2>8, <2>11, <2>13, Zenon
<1>2. FInv => OneSeam
  BY <1>1, Zenon DEF OneSeam
<1> QED
  BY <1>2, FlatInvariant, PTL

-----------------------------------------------------------------------------
(***************************************************************************)
(* A copy of a guest that goes on logging.  A character that was copied    *)
(* lies where its number puts it, and is not newer than log_end; so where  *)
(* the copy goes from a newer to an older character, the newer one was the *)
(* last that the guest had written.                                        *)
(***************************************************************************)

\* The number n is one that position i holds in some turn of the ring.
Sits(n, i) == n = NotRead \/ (n \in Nat /\ n <= log_end /\ (n > 0 => \E q \in Nat : n = len * q + i))

SeamInv ==
    /\ \A i \in 1..log_buf_len : Sits(arry[i].n, i)
    /\ step = "copy" => \A i \in 1..log_buf_len : i > copied => arry[i].n = NotRead
    /\ \A i, j \in Seams : i < j => arry[j].n >= arry[i].n + (j - i)

\* Of two characters the one further on in the ring, if it is not older, is newer by
\* the distance at least.
LEMMA FurtherOn ==
    ASSUME NEW s \in Nat \ {0}, NEW p \in Nat, NEW q \in Nat, NEW i \in 1..s, NEW j \in 1..s,
           s * q + i <= s * p + j, i < j
    PROVE  s * p + j >= (s * q + i) + (j - i)
<1>1. s * p \in Nat /\ s * q \in Nat
  OBVIOUS
<1>2. ~ (p < q)
  <2>1. p < q => s * p + s <= s * q
    BY TurnsApart
  <2> QED
    BY <1>1, <2>1
<1>3. s * q <= s * p
  <2>1. q < p => s * q + s <= s * p
    BY TurnsApart
  <2>2. q = p \/ q < p
    BY <1>2
  <2> QED
    BY <1>1, <2>1, <2>2
<1> QED
  BY <1>1, <1>3

\* A character at position i that is newer than what the ring now has behind it is the
\* last one written.
LEMMA NewestAtSeam ==
    ASSUME NEW s \in Nat \ {0}, NEW e \in Nat, NEW b \in Nat, NEW r \in 0..(s - 1), e = s * b + r,
           NEW i \in 1..(s - 1), NEW q \in Nat, s * q + i <= e,
           s * q + i > (IF i + 1 <= r THEN s * b + (i + 1)
                        ELSE IF s * b = 0 THEN 0 ELSE (s * b - s) + (i + 1))
    PROVE  s * q + i = e
<1>1. s * b \in Nat /\ s * q \in Nat
  OBVIOUS
<1>2. /\ b < q => s * b + s <= s * q
      /\ q < b => s * q + s <= s * b
  BY TurnsApart
<1>3. CASE q = b
  BY <1>1, <1>3
<1>4. CASE b < q
  BY <1>1, <1>2, <1>4
<1>5. CASE q < b
  BY <1>1, <1>2, <1>5
<1> QED
  BY <1>3, <1>4, <1>5

\* The ring in turns: every cell of it sits where it should.
LEMMA RingTurns ==
    ASSUME FInv
    PROVE  \E b \in Nat, r \in 0..(len - 1) :
              /\ log_end = len * b + r
              /\ \A i \in 1..len :
                    /\ log_buf[i].n = IF i <= r THEN len * b + i
                                      ELSE IF len * b = 0 THEN 0 ELSE (len * b - len) + i
                    /\ Sits(log_buf[i].n, i)
<1>1. len \in Nat \ {0} /\ log_end \in Nat
  BY DEF FInv, FlatTypes
<1>2. PICK b \in Nat, r \in 0..(len - 1) : r = log_end % len /\ log_end = len * b + r
  <2>1. /\ log_end % len \in 0..(len - 1) /\ log_end \div len \in Nat
        /\ log_end = len * (log_end \div len) + (log_end % len)
    BY <1>1
  <2> QED
    BY <2>1, Zenon
<1>3. len * b \in Nat /\ log_end - r = len * b
  BY <1>1, <1>2
<1>4. \A i \in 1..len :
          log_buf[i].n = IF i <= r THEN len * b + i
                         ELSE IF len * b = 0 THEN 0 ELSE (len * b - len) + i
  BY <1>2, <1>3, Zenon DEF FInv, RingOK, Turned
<1>5. ASSUME NEW i \in 1..len PROVE Sits(log_buf[i].n, i)
  <2>1. CASE i <= r
    <3>1. log_buf[i].n = len * b + i
      BY <1>4, <2>1
    <3>2. len * b + i \in Nat /\ len * b + i <= log_end
      BY <1>1, <1>2, <1>3, <2>1
    <3> QED
      BY <3>1, <3>2, Zenon DEF Sits
  <2>2. CASE ~ (i <= r) /\ len * b = 0
    BY <1>1, <1>4, <2>2 DEF Sits
  <2>3. CASE ~ (i <= r) /\ len * b # 0
    <3>1. log_buf[i].n = (len * b - len) + i
      BY <1>4, <2>3
    <3>2. b # 0
      BY <1>1, <2>3
    <3>3. PICK q \in Nat : b = q + 1
      <4>1. b - 1 \in Nat /\ b = (b - 1) + 1
        BY <3>2
      <4> QED
        BY <4>1
    <3>4. len * q \in Nat /\ len * b = len * q + len
      BY <1>1, <3>3
    <3>5. log_buf[i].n = len * q + i /\ len * q + i <= log_end
      BY <1>1, <1>2, <3>1, <3>4
    <3> QED
      BY <1>1, <3>4, <3>5 DEF Sits
  <2> QED
    BY <2>1, <2>2, <2>3
<1> QED
  BY <1>2, <1>4, <1>5, Zenon

\* Reading on keeps the invariant: a new seam is at the character just written.
LEMMA SeamCopy ==
    ASSUME FInv, SeamInv, Copy
    PROVE  SeamInv'
<1>1. /\ step = "copy" /\ copied' = copied + Chunk
      /\ arry' = [i \in 1..log_buf_len |->
                    IF i \in (copied + 1)..(copied + Chunk) THEN log_buf[i] ELSE arry[i]]
      /\ UNCHANGED <<len, log_end, log_buf_len>>
  BY DEF Copy
<1>2. /\ len \in Nat \ {0} /\ log_end \in Nat /\ log_buf_len \in Nat /\ log_buf_len <= len
      /\ copied \in Nat /\ Chunk \in Nat \ {0}
  BY FlatAssumption DEF FInv, FlatTypes
<1>3. PICK b \in Nat, r \in 0..(len - 1) :
          /\ log_end = len * b + r
          /\ \A i \in 1..len :
                /\ log_buf[i].n = IF i <= r THEN len * b + i
                                  ELSE IF len * b = 0 THEN 0 ELSE (len * b - len) + i
                /\ Sits(log_buf[i].n, i)
  BY RingTurns, Zenon
<1>4. \A i \in 1..log_buf_len : i \in 1..len
  BY <1>2
<1>5. \A i \in 1..log_buf_len :
          arry'[i] = IF i \in (copied + 1)..(copied + Chunk) THEN log_buf[i] ELSE arry[i]
  BY <1>1
<1>6. \A i \in 1..log_buf_len : Sits(arry'[i].n, i)
  BY <1>3, <1>4, <1>5, Zenon DEF SeamInv
<1>7. ASSUME NEW i \in 1..log_buf_len, i > copied + Chunk PROVE arry'[i].n = NotRead
  <2>1. i \notin (copied + 1)..(copied + Chunk) /\ i > copied
    BY <1>2, <1>7
  <2> QED
    BY <1>1, <1>5, <2>1 DEF SeamInv
<1>8. ASSUME NEW i \in Seams', NEW j \in Seams', i < j
      PROVE  arry'[j].n >= arry'[i].n + (j - i)
  <2>1. /\ i \in 1..log_buf_len /\ i + 1 \in 1..log_buf_len
        /\ j \in 1..log_buf_len /\ j + 1 \in 1..log_buf_len
    BY <1>1, <1>2 DEF Seams
  <2>2. /\ arry'[i].n > arry'[i + 1].n /\ arry'[i + 1].n # NotRead
        /\ arry'[j].n > arry'[j + 1].n /\ arry'[j + 1].n # NotRead
    BY DEF Seams
  <2>3. CASE j + 1 <= copied
    <3>1. \A k \in {i, i + 1, j, j + 1} : k \in 1..log_buf_len /\ k \notin (copied + 1)..(copied + Chunk)
      BY <1>2, <1>8, <2>1, <2>3
    <3>2. arry'[i] = arry[i] /\ arry'[i + 1] = arry[i + 1] /\ arry'[j] = arry[j] /\ arry'[j + 1] = arry[j + 1]
      BY <1>5, <3>1, Zenon
    <3>3. i \in 1..(log_buf_len - 1) /\ j \in 1..(log_buf_len - 1)
      BY <1>2, <2>1
    <3>4. i \in Seams /\ j \in Seams
      BY <2>2, <3>2, <3>3, Zenon DEF Seams
    <3>5. arry[j].n >= arry[i].n + (j - i)
      BY <1>8, <3>4, Zenon DEF SeamInv
    <3> QED
      BY <3>2, <3>5, Zenon
  <2>4. CASE ~ (j + 1 <= copied)
    <3>1. arry'[j + 1] = log_buf[j + 1]
      <4>1. j + 1 > copied
        BY <1>2, <2>1, <2>4
      <4>2. arry[j + 1].n = NotRead
        BY <1>1, <2>1, <4>1, Zenon DEF SeamInv
      <4> QED
        BY <1>5, <2>1, <2>2, <4>2, Zenon
    <3>2. Sits(arry'[i].n, i) /\ Sits(arry'[i + 1].n, i + 1) /\ Sits(arry'[j].n, j)
          /\ Sits(arry'[j + 1].n, j + 1)
      BY <1>6, <2>1, Zenon
    <3>3. PICK q \in Nat : arry'[i].n = len * q + i /\ arry'[i].n <= log_end
      BY <2>2, <3>2 DEF Sits, NotRead
    <3>4. PICK p \in Nat : arry'[j].n = len * p + j /\ arry'[j].n <= log_end
      BY <2>2, <3>2 DEF Sits, NotRead
    <3>5. j \in 1..(len - 1) /\ i \in 1..len /\ j \in 1..len /\ j + 1 \in 1..len
      BY <1>2, <2>1
    <3>6. len * p + j > (IF j + 1 <= r THEN len * b + (j + 1)
                         ELSE IF len * b = 0 THEN 0 ELSE (len * b - len) + (j + 1))
      BY <1>3, <2>2, <3>1, <3>4, <3>5, Zenon
    <3>7. len * p + j = log_end
      BY <1>2, <1>3, <3>4, <3>5, <3>6, NewestAtSeam
    <3>8. len * p + j >= (len * q + i) + (j - i)
      BY <1>2, <1>8, <3>3, <3>5, <3>7, FurtherOn
    <3> QED
      BY <3>3, <3>4, <3>8, Zenon
  <2> QED
    BY <2>3, <2>4
<1>9. (\A i \in 1..log_buf_len : Sits(arry[i].n, i))'
  BY <1>1, <1>6 DEF Sits
<1> QED
  BY <1>1, <1>7, <1>8, <1>9, Zenon DEF SeamInv, NotRead

\* A read that fails leaves the cells read before it.
LEMMA SeamFails ==
    ASSUME FInv, SeamInv, CopyFails
    PROVE  SeamInv'
<1>1. /\ step = "copy" /\ copied' = log_buf_len
      /\ UNCHANGED <<len, log_end, log_buf_len>>
  BY DEF CopyFails
<1>2. \A i \in 1..log_buf_len :
          IF i <= copied THEN arry'[i] = arry[i] ELSE arry'[i].n = NotRead
  BY DEF CopyFails
<1>3. log_buf_len \in Nat /\ copied \in Nat
  BY DEF FInv, FlatTypes
<1>4. (\A i \in 1..log_buf_len : Sits(arry[i].n, i))'
  BY <1>1, <1>2 DEF SeamInv, Sits
<1>5. \A i \in 1..log_buf_len : ~ (i > log_buf_len)
  BY <1>3
<1>6. ASSUME NEW i \in Seams' PROVE i \in Seams /\ arry'[i] = arry[i]
  <2>1. i \in 1..log_buf_len /\ i + 1 \in 1..log_buf_len /\ i \in 1..(log_buf_len - 1)
    BY <1>1, <1>3 DEF Seams
  <2>2. arry'[i].n > arry'[i + 1].n /\ arry'[i + 1].n # NotRead
    BY DEF Seams
  <2>3. i + 1 <= copied
    BY <1>2, <2>1, <2>2, Zenon
  <2>4. i <= copied
    BY <1>3, <2>1, <2>3
  <2>5. arry'[i] = arry[i] /\ arry'[i + 1] = arry[i + 1]
    BY <1>2, <2>1, <2>3, <2>4, Zenon
  <2> QED
    BY <2>1, <2>2, <2>5, Zenon DEF Seams
<1>7. ASSUME NEW i \in Seams', NEW j \in Seams', i < j
      PROVE  arry'[j].n >= arry'[i].n + (j - i)
  BY <1>6, <1>7, Zenon DEF SeamInv
<1> QED
  BY <1>1, <1>4, <1>5, <1>7, Zenon DEF SeamInv, NotRead

\* The other steps leave the copy alone.
LEMMA SeamStep ==
    ASSUME FInv, SeamInv, [FlatNext]_flatVars
    PROVE  SeamInv'
<1>1. CASE emit_log_char
  <2>1. /\ log_end' = log_end + 1 /\ log_end \in Nat
        /\ UNCHANGED <<len, step, log_buf_len, arry, copied>>
    BY <1>1 DEF emit_log_char, FInv, FlatTypes
  <2>2. ASSUME NEW i \in 1..log_buf_len PROVE Sits(arry[i].n, i)'
    <3>1. Sits(arry[i].n, i)
      BY DEF SeamInv
    <3> QED
      BY <2>1, <3>1 DEF Sits
  <2>3. Seams' = Seams
    BY <2>1, Zenon DEF Seams, NotRead
  <2> QED
    BY <2>1, <2>2, <2>3, Zenon DEF SeamInv, NotRead
<1>2. CASE GetLen
  <2>1. /\ step' = "copy" /\ arry' = [i \in 1..log_buf_len' |-> [n |-> NotRead, c |-> "nul"]]
    BY <1>2 DEF GetLen
  <2>2. \A i \in 1..log_buf_len' : arry'[i].n = NotRead
    BY <2>1
  <2>3. log_buf_len' \in Nat
    BY <1>2, GetLenStep DEF FInv, FlatTypes
  <2>4. ASSUME NEW i \in Seams' PROVE FALSE
    <3>1. i \in 1..(log_buf_len' - 1) /\ arry'[i + 1].n # NotRead
      BY Zenon DEF Seams, NotRead
    <3>2. i + 1 \in 1..log_buf_len'
      <4>1. \A l \in Nat : \A k \in 1..(l - 1) : k + 1 \in 1..l
        OBVIOUS
      <4> QED
        BY <2>3, <3>1, <4>1, Zenon
    <3> QED
      BY <2>2, <3>1, <3>2, Zenon
  <2> QED
    BY <2>2, <2>4, Zenon DEF SeamInv, Sits, NotRead
<1>3. CASE Copy
  BY <1>3, SeamCopy
<1>4. CASE CopyFails
  BY <1>4, SeamFails
<1>5. CASE StartPrint \/ PrintChar \/ EndPrint \/ UNCHANGED flatVars
  <2>1. UNCHANGED <<len, log_end, log_buf_len, arry, copied>> /\ (step' = "copy" => step = "copy")
    BY <1>5 DEF StartPrint, PrintChar, EndPrint, flatVars
  <2>2. Seams' = Seams
    BY <2>1, Zenon DEF Seams, NotRead
  <2>3. ASSUME NEW i \in 1..log_buf_len PROVE Sits(arry[i].n, i)'
    <3>1. Sits(arry[i].n, i)
      BY DEF SeamInv
    <3> QED
      BY <2>1, <3>1 DEF Sits
  <2> QED
    BY <2>1, <2>2, <2>3, Zenon DEF SeamInv, NotRead
<1> QED
  BY <1>1, <1>2, <1>3, <1>4, <1>5 DEF FlatNext

\* Two seams of the copy are no further apart than the guest has written characters
\* from the one to the other, for every ring and every pace of the guest.
THEOREM FlatSeamsKeepPace == FlatSpec => []SeamsKeepPace
<1>1. FlatInit => SeamInv
  <2> SUFFICES ASSUME FlatInit PROVE SeamInv
    OBVIOUS
  <2>1. log_buf_len = 0 /\ 1..0 = {} /\ 1..(0 - 1) = {}
    BY DEF FlatInit
  <2>2. Seams = {}
    BY <2>1 DEF Seams
  <2> QED
    BY <2>1, <2>2 DEF SeamInv
<1>2. SeamInv => SeamsKeepPace
  BY Zenon DEF SeamInv, SeamsKeepPace
<1> QED
  BY <1>1, <1>2, SeamStep, FlatInvariant, PTL DEF FlatSpec

=============================================================================

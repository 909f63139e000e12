----------------------------- MODULE QmpSession -----------------------------
(***************************************************************************)
(* The QMP back end of kvm-dmesg (qmp_client.c): one client, one QEMU      *)
(* monitor, a stream socket between them and a reader, qmp_read, that      *)
(* takes "nothing to read for 5 ms" as the end of an answer.               *)
(*                                                                         *)
(* The bytes QEMU writes form one stream.  It is cut into cells: a cell is *)
(* the piece of text a parser of the client recognises as a whole (one     *)
(* dump line of up to 8 bytes, one register, half of the greeting).  A     *)
(* position in the stream is a natural number, and the socket is three     *)
(* cursors over it: gen (written by QEMU), dl (in the client's socket      *)
(* buffer) and rd (read by the client).  The buffer of the current         *)
(* qmp_read is the window of positions from .. rd-1.                       *)
(*                                                                         *)
(* Requests are numbered in the order they are sent: request 1 is the      *)
(* connection itself, answered by the greeting, request 2 is               *)
(* qmp_capabilities, request 3 "info registers", later ones "xp".          *)
(***************************************************************************)
EXTENDS Integers, Sequences

CONSTANTS
    PartSizes,    \* sizes of memory reads, in dump lines
    MaxRequests,  \* bound on requests in a session
    MaxEvents,    \* bound on asynchronous QMP events
    MaxFaults,    \* bound on failing poll() and write() calls
    ReadMax,      \* what one xread of qmp_read takes at most (1024 bytes)
    Slack,        \* cells a client buffer holds beyond the answer it is for
    Prompt,       \* TRUE: QEMU never leaves a gap of 5 ms inside an answer
    MayHangUp     \* TRUE: QEMU may close the socket

ASSUME QmpAssumption ==
    /\ PartSizes \subseteq Nat \ {0}
    /\ MaxRequests \in Nat
    /\ MaxEvents \in Nat
    /\ MaxFaults \in Nat
    /\ ReadMax \in Nat \ {0}
    /\ Slack \in Nat
    /\ Prompt \in BOOLEAN
    /\ MayHangUp \in BOOLEAN

VARIABLES
    pc,      \* where the client is
    reqs,    \* the requests sent so far
    rep,     \* rep[c]: the positions [start, end) of the answer to request c
    gen,     \* stream cells written by QEMU
    dl,      \* stream cells that reached the client's socket
    rd,      \* stream cells read by the client
    from,    \* rd when the current qmp_read began
    hup,     \* QEMU has closed the socket
    events,  \* asynchronous events written so far
    faults,  \* system calls failed so far
    res      \* res[c]: how the client settled request c

client == <<pc, reqs, rd, from, faults, res>>
server == <<rep, gen, dl, hup, events>>
vars == <<client, server>>

Kinds == {"greet", "ack", "regs", "mem"}
Request == [kind : Kinds, size : Nat]
Reply == [start : Nat, end : Nat]
Result == [st : {"ok", "err", "poll"}, src : Nat, got : Nat,
           late : BOOLEAN, clean : BOOLEAN, extra : BOOLEAN]
Points == {"connect", "negotiate", "ready", "reading", "failed", "killed",
           "released"}

-----------------------------------------------------------------------------
(***************************************************************************)
(* Helpers.                                                                *)
(***************************************************************************)

\* The request the client is waiting for (the last one it sent).
Cur == Len(reqs)

\* Cells of an answer.  A dump answer is the '"return": "' marker and one cell
\* per line; a register answer shows IDT, CR3 and CR4 in this order.
ReplyLen(r) == CASE r.kind = "greet" -> 2
                 [] r.kind = "ack"   -> 2
                 [] r.kind = "regs"  -> 3
                 [] r.kind = "mem"   -> 1 + r.size

\* Mutant: the 1024 bytes for the frame around the lines are forgotten.
BufLen_LinesOnly(r) == ReplyLen(r) - 1

\* What the buffer of the request holds: 512 bytes for the greeting and the
\* acknowledgement, 8192 for the registers, 1024 + 8 * size for a dump.
BufLen(r) == ReplyLen(r) + Slack

\* *len of qmp_read.
nread == rd - from

InWindow(p) == from <= p /\ p < rd

\* The answer to request c is in the client's socket in full.
Arrived(c) == c \in DOMAIN rep /\ rep[c].end <= dl

\* No answer to an earlier request can still show its marker to request c.
CleanStart(c) ==
    \A b \in 1..(c - 1) : b \in DOMAIN rep /\ rep[b].start < from

Smaller(a, b) == IF a <= b THEN a ELSE b

-----------------------------------------------------------------------------
(***************************************************************************)
(* Parsers of the client.                                                  *)
(***************************************************************************)

\* Answers whose '"return": "' marker lies in the window.
Markers == {i \in DOMAIN rep : /\ reqs[i].kind \in {"regs", "mem"}
                               /\ InWindow(rep[i].start)}

\* strstr(input, "\"return\": \"") finds the first marker in the buffer.
FirstMarker == IF Markers = {} THEN 0
               ELSE CHOOSE i \in Markers : \A j \in Markers : i <= j

\* Mutant: the loop condition is pos < size - 1.
qmp_populate_mem_ShortByOne(size) ==
    IF FirstMarker = 0 \/ reqs[FirstMarker].kind = "regs" THEN 0
    ELSE Smaller(size - 1, Smaller(rd, rep[FirstMarker].end) - rep[FirstMarker].start - 1)

\* Lines stored by qmp_populate_mem: those of the marked answer that are in the
\* window, up to the requested size.  A register dump has no 0x.. line.
qmp_populate_mem(size) ==
    IF FirstMarker = 0 \/ reqs[FirstMarker].kind = "regs" THEN 0
    ELSE Smaller(size, Smaller(rd, rep[FirstMarker].end) - rep[FirstMarker].start - 1)

\* Registers assigned by qmp_get_registers, which looks for CR3, CR4 and IDT
\* in this order and stops at the first one that is not in the buffer.
qmp_populate_reg(c) ==
    IF c \notin DOMAIN rep \/ ~ InWindow(rep[c].start + 1) THEN 0
    ELSE IF ~ InWindow(rep[c].start + 2) THEN 1
    ELSE IF ~ InWindow(rep[c].start) THEN 2
    ELSE 3

\* strncasecmp(buf, QMP_COMMAND_MODE_OK, nread) = 0: the buffer is a prefix of
\* the acknowledgement, the empty prefix included.
IsAckPrefix(c) ==
    \/ nread = 0
    \/ c \in DOMAIN rep /\ from = rep[c].start /\ rd <= rep[c].end

\* The closing quote of the marked answer is not in the buffer and lines are
\* missing: qmp_populate_mem goes on over the zeroed rest of the buffer and
\* writes it to line[128], past its end.
RunsPastAnswer(size) ==
    /\ FirstMarker # 0
    /\ rep[FirstMarker].end > rd
    /\ qmp_populate_mem(size) < size

-----------------------------------------------------------------------------
(***************************************************************************)
(* Steps of the client.                                                    *)
(***************************************************************************)

Init ==
    /\ pc = "connect"
    /\ reqs = <<>> /\ rep = <<>> /\ res = <<>>
    /\ gen = 0 /\ dl = 0 /\ rd = 0 /\ from = 0
    /\ hup = FALSE
    /\ events = 0 /\ faults = 0

\* Mutant: the buffer of a memory read is allocated once for all its parts.
Send_KeepsBuffer(r) ==
    /\ reqs' = Append(reqs, r)
    /\ from' = IF r.kind = "mem" /\ reqs[Len(reqs)].kind = "mem" THEN from ELSE rd
    /\ pc' = "reading"
    /\ UNCHANGED <<rd, faults, res, server>>

\* The request is on its way and qmp_read begins.
Send(r) ==
    /\ reqs' = Append(reqs, r)
    /\ from' = rd
    /\ pc' = "reading"
    /\ UNCHANGED <<rd, faults, res, server>>

\* The request is settled and the caller goes on at point p.
Settle(st, src, got, p) ==
    /\ res' = Append(res, [st |-> st, src |-> src, got |-> got,
                           late |-> ~ Arrived(Cur),
                           clean |-> CleanStart(Cur),
                           extra |-> nread > ReplyLen(reqs[Cur])])
    /\ pc' = p
    /\ UNCHANGED <<reqs, rd, from, server>>

\* qmp_establish_conn up to qmp_read: the socket connects, or the path is empty
\* or socket() or connect() fails.
qmp_establish_conn ==
    /\ pc = "connect"
    /\ \/ Send([kind |-> "greet", size |-> 0])
       \/ pc' = "failed" /\ UNCHANGED <<reqs, rd, from, faults, res, server>>

\* One turn of the loop of qmp_read: POLLIN, and xread takes what is there up to
\* its limit.
qmp_read ==
    /\ pc = "reading"
    /\ rd < dl
    /\ rd' = Smaller(dl, rd + ReadMax)
    /\ UNCHANGED <<pc, reqs, from, faults, res, server>>

\* The peer is gone: poll() reports POLLHUP and POLLIN at once, read() returns 0,
\* and the loop turns without end.
qmp_read_eof ==
    /\ pc = "reading" /\ hup /\ rd = dl
    /\ UNCHANGED vars

\* Mutant: qmp_read returns after the first xread.
PollTimeout_FirstChunk ==
    /\ pc = "reading"
    /\ rd > from
    /\ ~ hup
    /\ Prompt => Len(rep) = Len(reqs) /\ dl = gen

\* Mutant: qmp_read waits for the end of the answer, however long it takes.
PollTimeout_WaitsForAnswer ==
    /\ pc = "reading"
    /\ rd = dl
    /\ ~ hup
    /\ Arrived(Cur)

\* poll() returns 0 after 5 ms without input.
PollTimeout ==
    /\ pc = "reading"
    /\ rd = dl
    /\ ~ hup
    /\ Prompt => Len(rep) = Len(reqs) /\ dl = gen

\* poll() returns -1 and so does qmp_read; every caller gives up its request.
PollError ==
    /\ pc = "reading"
    /\ faults < MaxFaults
    /\ faults' = faults + 1
    /\ Settle("poll", 0, 0, IF Cur <= 2 THEN "failed" ELSE "ready")

\* qmp_read writes at buf + tread without a limit: what the buffer does not hold
\* lands behind it, which may end the process.
BufferOverrun ==
    /\ pc = "reading"
    /\ nread > BufLen(reqs[Cur])
    /\ pc' = "killed"
    /\ UNCHANGED <<reqs, rd, from, faults, res, server>>

\* The end of qmp_establish_conn: only an empty greeting is an error.
GreetingRead ==
    /\ PollTimeout
    /\ reqs[Cur].kind = "greet"
    /\ IF nread = 0 THEN Settle("err", Cur, 0, "failed")
                    ELSE Settle("ok", Cur, 0, "negotiate")
    /\ UNCHANGED faults

\* qmp_negotiate up to qmp_read.
qmp_negotiate ==
    /\ pc = "negotiate"
    /\ ~ hup
    /\ Send([kind |-> "ack", size |-> 0])

\* The end of qmp_negotiate.
AckRead ==
    /\ PollTimeout
    /\ reqs[Cur].kind = "ack"
    /\ IF IsAckPrefix(Cur) THEN Settle("ok", Cur, 0, "ready")
                           ELSE Settle("err", Cur, 0, "failed")
    /\ UNCHANGED faults

\* qmp_get_registers up to qmp_read.  calc_kaslr_offset calls it once, first.
qmp_get_registers ==
    /\ pc = "ready"
    /\ Cur = 2 /\ Cur < MaxRequests
    /\ ~ hup
    /\ Send([kind |-> "regs", size |-> 0])

\* The end of qmp_get_registers.
RegsRead ==
    /\ PollTimeout
    /\ reqs[Cur].kind = "regs"
    /\ LET got == qmp_populate_reg(Cur)
       IN  Settle(IF got = 3 THEN "ok" ELSE "err", Cur, got, "ready")
    /\ UNCHANGED faults

\* qmp_readmem_part up to qmp_read.
qmp_readmem_part ==
    /\ pc = "ready"
    /\ Cur < MaxRequests
    /\ ~ hup
    /\ \E n \in PartSizes : Send([kind |-> "mem", size |-> n])

\* The end of qmp_readmem_part.  The result of qmp_populate_mem is not looked
\* at: an answer without a marker is a success that stores nothing.
MemRead ==
    /\ PollTimeout
    /\ reqs[Cur].kind = "mem"
    /\ LET n == reqs[Cur].size
       IN  \/ /\ nread = 0
              /\ Settle("err", 0, 0, "ready")
           \/ /\ nread > 0
              /\ Settle("ok", FirstMarker, qmp_populate_mem(n), "ready")
           \/ /\ nread > 0 /\ RunsPastAnswer(n)
              /\ Settle("ok", FirstMarker, qmp_populate_mem(n), "killed")
    /\ UNCHANGED faults

\* write() takes nothing: qmp_negotiate fails, the two commands return -1 and
\* leave no request behind.  The commands are shorter than what a UNIX stream
\* socket takes or refuses as a whole.
WriteError ==
    /\ pc \in {"negotiate", "ready"}
    /\ ~ hup
    /\ faults < MaxFaults
    /\ faults' = faults + 1
    /\ pc' = IF pc = "negotiate" THEN "failed" ELSE "ready"
    /\ UNCHANGED <<reqs, rd, from, res, server>>

\* write() to a closed peer raises SIGPIPE, which the program does not handle.
WriteSigpipe ==
    /\ pc \in {"negotiate", "ready"}
    /\ hup
    /\ pc' = "killed"
    /\ UNCHANGED <<reqs, rd, from, faults, res, server>>

qmp_client_uninit ==
    /\ pc = "ready"
    /\ pc' = "released"
    /\ UNCHANGED <<reqs, rd, from, faults, res, server>>

-----------------------------------------------------------------------------
(***************************************************************************)
(* QEMU and the socket, as the client's parsers expect them.               *)
(***************************************************************************)

\* QEMU answers requests one at a time, in order.
ServerReply ==
    /\ ~ hup
    /\ Len(rep) < Len(reqs)
    /\ LET e == gen + ReplyLen(reqs[Len(rep) + 1])
       IN  /\ rep' = Append(rep, [start |-> gen, end |-> e])
           /\ gen' = e
    /\ UNCHANGED <<dl, hup, events, client>>

\* An asynchronous event, possible once the capabilities are negotiated.
ServerEvent ==
    /\ ~ hup
    /\ Len(rep) >= 2
    /\ events < MaxEvents
    /\ events' = events + 1
    /\ gen' = gen + 1
    /\ UNCHANGED <<rep, dl, hup, client>>

\* QEMU writes an answer in as many pieces as its output buffer makes of it.
Deliver ==
    /\ ~ hup
    /\ dl < gen
    /\ dl' \in (dl + 1)..gen
    /\ UNCHANGED <<rep, gen, hup, events, client>>

Hangup ==
    /\ MayHangUp
    /\ ~ hup
    /\ pc # "connect"
    /\ hup' = TRUE
    /\ UNCHANGED <<rep, gen, dl, events, client>>

Server == ServerReply \/ ServerEvent \/ Deliver \/ Hangup

\* What qmp_read does once it is called.
ReadReturns == GreetingRead \/ AckRead \/ RegsRead \/ MemRead
Reader == qmp_read \/ qmp_read_eof \/ PollError \/ BufferOverrun \/ ReadReturns

Caller == qmp_establish_conn \/ qmp_negotiate \/ qmp_get_registers
          \/ qmp_readmem_part \/ qmp_client_uninit

\* The process has ended.
Ended == pc \in {"failed", "killed", "released"} /\ UNCHANGED vars

Next == Server \/ Reader \/ Caller \/ WriteError \/ WriteSigpipe \/ Ended

Spec == Init /\ [][Next]_vars

\* poll() returns within 5 ms, so a reader that can go on does.  Nothing is
\* assumed of QEMU.
FairSpec == Spec /\ WF_vars(qmp_read) /\ WF_vars(ReadReturns)

-----------------------------------------------------------------------------
(***************************************************************************)
(* Properties.                                                             *)
(***************************************************************************)

\* Every variable has its type, and the cursors are in stream order.
TypeOK ==
    /\ pc \in Points
    /\ reqs \in Seq(Request)
    /\ rep \in Seq(Reply)
    /\ res \in Seq(Result)
    /\ gen \in Nat /\ dl \in Nat /\ rd \in Nat /\ from \in Nat
    /\ from <= rd /\ rd <= dl /\ dl <= gen
    /\ hup \in BOOLEAN
    /\ events \in Nat /\ faults \in Nat

\* Cells (or registers) the caller of request c asked for.
Wanted(c) == CASE reqs[c].kind = "regs" -> 3
               [] reqs[c].kind = "mem"  -> reqs[c].size
               [] OTHER                 -> 0

\* The caller of request c is told of success and has its own answer, whole.
Exact(c) == res[c].st = "ok" /\ res[c].src = c /\ res[c].got = Wanted(c)

\* What can throw the dialogue out of step at request c: its answer was not
\* there in full when poll() timed out, poll() failed, or an event came with
\* the acknowledgement.
Disturbed(c) ==
    \/ res[c].late
    \/ res[c].st = "poll"
    \/ reqs[c].kind = "ack" /\ res[c].extra

Undisturbed == \A c \in DOMAIN res : ~ Disturbed(c)

\* The only way to a wrong, short or failed answer is a disturbance of this
\* request or of an earlier one: in its absence qmp_read's time-out framing
\* gives every caller exactly its own answer, whatever the chunks, the events
\* and the interleaving.
WrongOnlyAfterDisturbance ==
    \A c \in DOMAIN res :
        (\A b \in 1..c : ~ Disturbed(b)) => Exact(c)

\* The stream falls back into step: once the markers of all earlier answers are
\* behind the client, a command whose answer is there in time gets exactly that
\* answer, even when remains of late answers precede it in the buffer
\* (strstr skips them).
Resynchronises ==
    \A c \in DOMAIN res :
        /\ c > 2
        /\ res[c].clean
        /\ ~ res[c].late
        /\ res[c].st # "poll"
        => Exact(c)

\* Memory read c stored something.
Stored(c) == reqs[c].kind = "mem" /\ res[c].got > 0

\* Once the dialogue is out of step memory reads are served with answers to earlier
\* ones, but each answer serves one read at most and they are taken in the order of
\* the requests, never one from the future; and only the answer to a disturbed
\* request goes to another one.
AnswersInOrder ==
    \A c \in DOMAIN res : Stored(c) =>
        /\ res[c].src <= c
        /\ res[c].src < c => Disturbed(res[c].src)
        /\ \A b \in 1..(c - 1) : Stored(b) => res[b].src < res[c].src

\* Between undisturbed commands nothing of an answer is left in the socket for
\* the next qmp_read to take as its own.
NothingLeftBehind ==
    pc = "ready" /\ Undisturbed =>
        /\ Len(rep) = Len(reqs)
        /\ \A c \in DOMAIN rep : rep[c].end <= rd

\* qmp_read has no limit for what it stores, yet while nothing was late and
\* QEMU sent no more events than a buffer has room for, neither the buffer
\* (512, 8192, 1024 + 8 * size bytes) nor line[128] is overrun.
CrashOnlyAfterDisturbance ==
    pc = "killed" /\ ~ hup => events > Slack \/ ~ Undisturbed

\* With a QEMU that never pauses for 5 ms inside an answer, every request is
\* answered exactly, unless poll() fails or an event comes with the
\* acknowledgement.
PromptIsExact ==
    Prompt => \A c \in DOMAIN res :
                (\A b \in 1..c : /\ res[b].st # "poll"
                                 /\ reqs[b].kind = "ack" => ~ res[b].extra)
                => Exact(c)

\* A read of the monitor ends: a silent or slow QEMU cannot hold the client.
ReadEnds == pc = "reading" ~> pc # "reading"

=============================================================================

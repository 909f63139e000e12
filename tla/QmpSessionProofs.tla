-------------------------- MODULE QmpSessionProofs --------------------------
(***************************************************************************)
(* Proofs about QmpSession, for every value of its constants: any number   *)
(* and size of requests, events and faults, any xread limit.               *)
(*                                                                         *)
(* The inductive invariant IInv says where the answers lie in the stream   *)
(* relative to the client's cursors.  Answers are disjoint and in request  *)
(* order, the current answer cannot begin before the current window, and   *)
(* an answer that was settled in time lies behind the window.              *)
(***************************************************************************)
EXTENDS QmpSession, SequenceTheorems, WellFoundedInduction, TLAPS

\* A step that names no prover is tried with these two, in this order.
USE SMTT(30), ZenonT(30)

\* Requests come in the order of the session's phases.
Phases ==
    /\ \A c \in DOMAIN reqs :
         /\ c = 1 => reqs[c].kind = "greet"
         /\ c = 2 => reqs[c].kind = "ack"
         /\ c > 2 => reqs[c].kind \in {"regs", "mem"}
    /\ pc = "connect" => Len(reqs) = 0
    /\ pc = "negotiate" => Len(reqs) = 1
    /\ pc = "ready" => Len(reqs) >= 2
    /\ pc = "reading" => Len(reqs) >= 1

\* At most the current request is unsettled.
Settled ==
    /\ Len(res) <= Len(reqs)
    /\ pc \in {"connect", "negotiate", "ready"} => Len(res) = Len(reqs)
    /\ pc = "reading" => Len(res) = Len(reqs) - 1

\* Answers are disjoint, in order, and written before gen.
Ordered ==
    /\ Len(rep) <= Len(reqs)
    /\ \A c \in DOMAIN rep : /\ rep[c].end = rep[c].start + ReplyLen(reqs[c])
                             /\ rep[c].end <= gen
    /\ \A b, c \in DOMAIN rep : b < c => rep[b].end <= rep[c].start

\* The current answer cannot begin before the window.
OwnInWindow ==
    pc = "reading" /\ Cur \in DOMAIN rep => from <= rep[Cur].start

\* Where the window of the current request begins, or where the next one will.
Behind == IF pc = "reading" THEN from ELSE rd

\* An answer that was settled in time has been read.
TimelyIsBehind ==
    \A c \in DOMAIN res :
        ~ res[c].late /\ res[c].st # "poll"
        => c \in DOMAIN rep /\ rep[c].end <= Behind

\* The stream holds nothing but answers and events: what follows the last but
\* one answer is the last one and at most "events" cells.
Base(c) == IF c = 1 THEN 0 ELSE rep[c - 1].end
FewEvents ==
    /\ Len(rep) = 0 => gen = 0
    /\ Len(rep) > 0 =>
         LET c == Len(rep)
         IN  /\ gen <= rep[c].end + events
             /\ gen <= Base(c) + ReplyLen(reqs[c]) + events

\* A prompt QEMU is late for nobody but a failing poll().
PromptInTime ==
    Prompt => \A c \in DOMAIN res : res[c].late => res[c].st = "poll"

IInv ==
    /\ TypeOK /\ Phases /\ Settled /\ Ordered /\ OwnInWindow
    /\ TimelyIsBehind /\ FewEvents /\ PromptInTime
    /\ WrongOnlyAfterDisturbance /\ Resynchronises
    /\ CrashOnlyAfterDisturbance

-----------------------------------------------------------------------------
(***************************************************************************)
(* Lemmas about the operators.                                             *)
(***************************************************************************)

\* An answer has at least one cell, and a natural number of them.
LEMMA ReplyLenType ==
    ASSUME NEW r \in Request
    PROVE  ReplyLen(r) \in Nat \ {0}
BY DEF ReplyLen, Request, Kinds

\* Smaller is the minimum of two numbers.
LEMMA SmallerType ==
    ASSUME NEW a \in Nat, NEW b \in Nat
    PROVE  /\ Smaller(a, b) \in Nat
           /\ Smaller(a, b) <= a /\ Smaller(a, b) <= b
           /\ Smaller(a, b) = a \/ Smaller(a, b) = b
BY DEF Smaller

\* What Append does to the length, the domain and the elements.
LEMMA AppendFacts ==
    ASSUME NEW S, NEW s \in Seq(S), NEW e \in S
    PROVE  /\ Append(s, e) \in Seq(S)
           /\ Len(s) \in Nat
           /\ Len(Append(s, e)) = Len(s) + 1
           /\ DOMAIN s = 1..Len(s)
           /\ DOMAIN Append(s, e) = 1..(Len(s) + 1)
           /\ \A i \in 1..Len(s) : Append(s, e)[i] = s[i] /\ s[i] \in S
           /\ Append(s, e)[Len(s) + 1] = e
BY AppendProperties

\* The types of the elements of the three sequences.
LEMMA ElementTypes ==
    ASSUME TypeOK
    PROVE  /\ Len(reqs) \in Nat /\ DOMAIN reqs = 1..Len(reqs)
           /\ Len(rep) \in Nat /\ DOMAIN rep = 1..Len(rep)
           /\ Len(res) \in Nat /\ DOMAIN res = 1..Len(res)
           /\ \A i \in 1..Len(reqs) : /\ reqs[i] \in Request
                                      /\ ReplyLen(reqs[i]) \in Nat \ {0}
           /\ \A i \in 1..Len(rep) : rep[i].start \in Nat /\ rep[i].end \in Nat
           /\ \A i \in 1..Len(res) : res[i] \in Result
<1>1. reqs \in Seq(Request) /\ rep \in Seq(Reply) /\ res \in Seq(Result)
  BY DEF TypeOK
<1>2. /\ Len(reqs) \in Nat /\ DOMAIN reqs = 1..Len(reqs)
      /\ Len(rep) \in Nat /\ DOMAIN rep = 1..Len(rep)
      /\ Len(res) \in Nat /\ DOMAIN res = 1..Len(res)
  BY <1>1
<1>3. \A i \in 1..Len(reqs) : /\ reqs[i] \in Request
                              /\ ReplyLen(reqs[i]) \in Nat \ {0}
  BY <1>1, ElementOfSeq, ReplyLenType
<1>4. \A i \in 1..Len(rep) : rep[i] \in Reply
  BY <1>1, ElementOfSeq
<1>5. \A i \in 1..Len(rep) : rep[i].start \in Nat /\ rep[i].end \in Nat
  BY <1>4 DEF Reply
<1>6. \A i \in 1..Len(res) : res[i] \in Result
  BY <1>1, ElementOfSeq
<1> QED BY <1>2, <1>3, <1>5, <1>6

\* strstr finds the marker of the current answer when that answer is in the
\* window and no earlier marker is.
LEMMA OwnMarkerFirst ==
    ASSUME IInv, pc = "reading", Cur > 2, CleanStart(Cur),
           Arrived(Cur), rd = dl
    PROVE  FirstMarker = Cur
<1> USE DEF Cur
<1>0. TypeOK
  BY DEF IInv
<1>1. /\ Cur \in 1..Len(rep) /\ Cur \in 1..Len(reqs)
      /\ from <= rep[Cur].start
      /\ rep[Cur].end = rep[Cur].start + ReplyLen(reqs[Cur])
      /\ rep[Cur].end <= rd
      /\ Len(rep) <= Cur
      /\ reqs[Cur].kind \in {"regs", "mem"}
  BY <1>0, ElementTypes DEF IInv, Phases, OwnInWindow, Ordered, Arrived
<1>2. InWindow(rep[Cur].start)
  BY <1>0, <1>1, ElementTypes DEF InWindow, TypeOK
<1>3. Cur \in Markers
  BY <1>0, <1>1, <1>2, ElementTypes DEF Markers
<1>4. ASSUME NEW i \in Markers PROVE i = Cur
  <2>1. i \in 1..Len(rep) /\ from <= rep[i].start
    BY <1>0, ElementTypes DEF Markers, InWindow
  <2>2. i \notin 1..(Cur - 1)
    BY <1>0, <2>1, ElementTypes DEF CleanStart, TypeOK
  <2>3. Len(rep) \in Nat /\ Cur \in Nat
    BY <1>0, ElementTypes
  <2> QED BY <1>1, <2>1, <2>2, <2>3
<1>5. Markers = {Cur}
  BY <1>3, <1>4
<1> QED BY <1>0, <1>1, <1>5, ElementTypes DEF FirstMarker

-----------------------------------------------------------------------------
(***************************************************************************)
(* Every kind of step preserves IInv.                                      *)
(***************************************************************************)

\* Sending a request of the right phase.
LEMMA SendStep ==
    ASSUME IInv, NEW r \in Request, Send(r),
           \/ pc = "connect" /\ r.kind = "greet"
           \/ pc = "negotiate" /\ r.kind = "ack"
           \/ pc = "ready" /\ r.kind \in {"regs", "mem"}
    PROVE  IInv'
<1>0. TypeOK /\ Len(res) = Len(reqs)
  BY DEF IInv, Settled
<1>1. /\ reqs' = Append(reqs, r) /\ from' = rd /\ pc' = "reading"
      /\ rd' = rd /\ faults' = faults /\ res' = res /\ rep' = rep
      /\ gen' = gen /\ dl' = dl /\ hup' = hup /\ events' = events
  BY DEF Send, server
<1>2. /\ reqs' \in Seq(Request) /\ Len(reqs') = Len(reqs) + 1
      /\ DOMAIN reqs' = 1..(Len(reqs) + 1)
      /\ \A i \in 1..Len(reqs) : reqs'[i] = reqs[i]
      /\ reqs'[Len(reqs) + 1] = r
  BY <1>0, <1>1, AppendFacts DEF TypeOK
<1>3. TypeOK'
  BY <1>0, <1>1, <1>2 DEF TypeOK, Points
<1>4. Phases'
  BY <1>0, <1>1, <1>2, ElementTypes DEF IInv, Phases
<1>5. Settled'
  BY <1>0, <1>1, <1>2, ElementTypes DEF Settled
<1>6. Ordered'
  BY <1>0, <1>1, <1>2, ElementTypes DEF IInv, Ordered
<1>7. OwnInWindow'
  BY <1>0, <1>1, <1>2, ElementTypes DEF IInv, Ordered, OwnInWindow, Cur
<1>8. TimelyIsBehind'
  BY <1>0, <1>1, <1>2, ElementTypes DEF IInv, TimelyIsBehind, Behind
<1>9. FewEvents'
  <2>1. Len(rep) > 0 => Len(rep) \in 1..Len(reqs)
    BY <1>0, ElementTypes DEF IInv, Ordered
  <2>2. Len(rep) > 0 => reqs'[Len(rep)] = reqs[Len(rep)]
    BY <1>2, <2>1
  <2> QED BY <1>1, <2>2, Zenon DEF IInv, FewEvents, Base
<1>10. PromptInTime'
  BY <1>1 DEF IInv, PromptInTime
<1>11. \A c \in 1..Len(res) : (Disturbed(c)' <=> Disturbed(c)) /\ (Exact(c)' <=> Exact(c))
  BY <1>0, <1>1, <1>2, ElementTypes DEF Disturbed, Exact, Wanted
<1>12. WrongOnlyAfterDisturbance'
  BY <1>0, <1>1, <1>11, ElementTypes DEF IInv, WrongOnlyAfterDisturbance
<1>13. Resynchronises'
  BY <1>0, <1>1, <1>11, ElementTypes DEF IInv, Resynchronises
<1>14. CrashOnlyAfterDisturbance'
  BY <1>1 DEF CrashOnlyAfterDisturbance
<1> QED BY <1>3, <1>4, <1>5, <1>6, <1>7, <1>8, <1>9, <1>10, <1>12, <1>13, <1>14
        DEF IInv

\* While no earlier request was disturbed, no earlier answer can show its marker.
LEMMA UndisturbedIsClean ==
    ASSUME IInv, pc = "reading",
           \A b \in 1..(Cur - 1) : ~ Disturbed(b)
    PROVE  CleanStart(Cur)
<1>0. TypeOK /\ Len(res) = Cur - 1
  BY DEF IInv, Settled, Cur
<1>1. SUFFICES ASSUME NEW b \in 1..(Cur - 1)
               PROVE  b \in DOMAIN rep /\ rep[b].start < from
  BY DEF CleanStart
<1>2. b \in 1..Len(res) /\ b \in 1..Len(reqs)
  BY <1>0, ElementTypes DEF Cur
<1>3. b \in DOMAIN rep /\ rep[b].end <= from
  BY <1>0, <1>2, ElementTypes DEF IInv, TimelyIsBehind, Behind, Disturbed
<1>4. rep[b].end = rep[b].start + ReplyLen(reqs[b])
  BY <1>3 DEF IInv, Ordered
<1> QED BY <1>0, <1>2, <1>3, <1>4, ElementTypes DEF TypeOK

\* Settling the current request, provided that an answer that is there in time
\* and not preceded by other markers is taken exactly.
LEMMA SettleStep ==
    ASSUME IInv, pc = "reading",
           NEW st \in {"ok", "err", "poll"}, NEW src \in Nat, NEW got \in Nat,
           NEW p, Settle(st, src, got, p), faults' \in Nat,
           st # "poll" => rd = dl,
           Prompt /\ st # "poll" => Arrived(Cur),
           \/ p = "failed"
           \/ p = "negotiate" /\ Cur = 1
           \/ p = "ready" /\ Cur >= 2
           \/ /\ p = "killed"
              /\ ~ Arrived(Cur) \/ \E b \in 1..(Cur - 1) : Disturbed(b),
           /\ Arrived(Cur) /\ st # "poll"
           /\ Cur = 2 => ~ (nread > ReplyLen(reqs[Cur]))
           /\ Cur > 2 => CleanStart(Cur)
           => st = "ok" /\ src = Cur /\ got = Wanted(Cur)
    PROVE  IInv'
<1> DEFINE new == [st |-> st, src |-> src, got |-> got,
                   late |-> ~ Arrived(Cur), clean |-> CleanStart(Cur),
                   extra |-> nread > ReplyLen(reqs[Cur])]
<1>00. PICK k \in Nat : k = Cur
  BY ElementTypes, Zenon DEF IInv, Cur
<1> USE <1>00
<1>0. TypeOK /\ Len(res) = k - 1 /\ k \in 1..Len(reqs) /\ k = Len(reqs)
  <2>1. TypeOK /\ Len(res) = Cur - 1 /\ Len(reqs) >= 1
    BY DEF IInv, Settled, Phases, Cur
  <2> QED BY <2>1, ElementTypes DEF Cur
<1>1. /\ res' = Append(res, new) /\ pc' = p
      /\ reqs' = reqs /\ rd' = rd /\ from' = from /\ rep' = rep
      /\ gen' = gen /\ dl' = dl /\ hup' = hup /\ events' = events
  BY DEF Settle, server
<1>2. new \in Result
  BY <1>0 DEF Result, Arrived, CleanStart
<1>2a. /\ new.st = st /\ new.src = src /\ new.got = got
       /\ new.late <=> ~ Arrived(Cur)
       /\ new.clean <=> CleanStart(Cur)
       /\ new.extra <=> nread > ReplyLen(reqs[Cur])
  BY Zenon
<1> HIDE DEF new
<1>3. /\ res' \in Seq(Result) /\ Len(res') = k
      /\ DOMAIN res' = 1..k
      /\ \A i \in 1..(k - 1) : res'[i] = res[i]
      /\ res'[k] = new
  <2>1. /\ res' \in Seq(Result) /\ Len(res') = Len(res) + 1
        /\ DOMAIN res' = 1..(Len(res) + 1)
        /\ \A i \in 1..Len(res) : res'[i] = res[i]
        /\ res'[Len(res) + 1] = new
    BY <1>0, <1>1, <1>2, AppendFacts DEF TypeOK
  <2>2. Len(res) + 1 = k
    BY <1>0, ElementTypes
  <2> QED BY <1>0, <2>1, <2>2, Zenon
<1>4. TypeOK'
  BY <1>0, <1>1, <1>3 DEF TypeOK, Points
<1>5. Phases'
  BY <1>0, <1>1 DEF IInv, Phases
<1>6. Settled'
  BY <1>0, <1>1, <1>3, ElementTypes DEF Settled
<1>7. Ordered' /\ OwnInWindow' /\ FewEvents'
  BY <1>1 DEF IInv, Ordered, OwnInWindow, FewEvents, Base
<1>8. TimelyIsBehind'
  <2>1. ASSUME NEW c \in 1..k, ~ res'[c].late, res'[c].st # "poll"
        PROVE  c \in DOMAIN rep /\ rep[c].end <= rd
    <3>1. CASE c = k
      BY <1>2a, <1>3, <2>1, <3>1 DEF Arrived
    <3>2. CASE c # k
      <4>1. c \in 1..Len(res) /\ res'[c] = res[c]
        BY <1>0, <1>3, <3>2, ElementTypes
      <4>2. c \in DOMAIN rep /\ rep[c].end <= from
        BY <1>0, <2>1, <4>1, ElementTypes DEF IInv, TimelyIsBehind, Behind
      <4> QED BY <1>0, <4>2, ElementTypes DEF TypeOK
    <3> QED BY <3>1, <3>2
  <2> QED BY <1>1, <1>3, <2>1 DEF TimelyIsBehind, Behind
<1>9. PromptInTime'
  <2>1. Prompt /\ new.late => new.st = "poll"
    BY <1>2a
  <2>2. DOMAIN res = 1..(k - 1)
    BY <1>0, ElementTypes
  <2> QED BY <1>0, <1>3, <2>1, <2>2 DEF IInv, PromptInTime
<1>10. \A c \in 1..(k - 1) : /\ (Disturbed(c)' <=> Disturbed(c))
                               /\ (Exact(c)' <=> Exact(c))
  BY <1>1, <1>3 DEF Disturbed, Exact, Wanted
<1>11. (k = 2 => reqs[k].kind = "ack") /\ DOMAIN res = 1..(k - 1)
  BY <1>0, ElementTypes DEF IInv, Phases
<1>12. /\ ~ new.late /\ new.st # "poll"
       /\ reqs[k].kind = "ack" => ~ new.extra
       /\ k > 2 => new.clean
       => Exact(k)'
  BY <1>0, <1>1, <1>2a, <1>3, <1>11 DEF Exact, Wanted
<1>13. WrongOnlyAfterDisturbance'
  <2>1. ASSUME NEW c \in 1..k, \A b \in 1..c : ~ Disturbed(b)'
        PROVE  Exact(c)'
    <3>1. CASE c = k
      <4>1. \A b \in 1..(k - 1) : ~ Disturbed(b)
        BY <1>0, <1>10, <2>1, <3>1, ElementTypes
      <4>2. new.clean
        BY <1>2a, <4>1, UndisturbedIsClean
      <4>3. ~ Disturbed(k)'
        BY <1>0, <2>1, <3>1
      <4>4. /\ ~ new.late /\ new.st # "poll"
            /\ reqs[k].kind = "ack" => ~ new.extra
        BY <1>1, <1>3, <4>3 DEF Disturbed
      <4> QED BY <1>12, <3>1, <4>2, <4>4
    <3>2. CASE c # k
      <4>1. c \in 1..(k - 1) /\ \A b \in 1..c : b \in 1..(k - 1)
        BY <3>2
      <4>2. \A b \in 1..c : ~ Disturbed(b)
        BY <1>10, <2>1, <4>1
      <4>3. Exact(c)
        BY <1>11, <4>1, <4>2 DEF IInv, WrongOnlyAfterDisturbance
      <4> QED BY <1>10, <4>1, <4>3
    <3> QED BY <3>1, <3>2
  <2> QED BY <1>3, <2>1 DEF WrongOnlyAfterDisturbance
<1>14. Resynchronises'
  <2>1. ASSUME NEW c \in 1..k, c > 2, res'[c].clean, ~ res'[c].late,
               res'[c].st # "poll"
        PROVE  Exact(c)'
    <3>1. CASE c = k
      <4>1. reqs[k].kind # "ack"
        BY <1>0, <2>1, <3>1, ElementTypes DEF IInv, Phases
      <4> QED BY <1>3, <1>12, <2>1, <3>1, <4>1
    <3>2. CASE c # k
      <4>1. c \in 1..(k - 1)
        BY <3>2
      <4>2. res[c] = res'[c]
        BY <1>3, <4>1
      <4>3. Exact(c)
        BY <1>11, <2>1, <4>1, <4>2 DEF IInv, Resynchronises
      <4> QED BY <1>10, <4>1, <4>3
    <3> QED BY <3>1, <3>2
  <2> QED BY <1>3, <2>1 DEF Resynchronises
<1>15. CrashOnlyAfterDisturbance'
  <2>1. SUFFICES ASSUME p = "killed" PROVE ~ Undisturbed'
    BY <1>1 DEF CrashOnlyAfterDisturbance
  <2>2. CASE ~ Arrived(Cur)
    <3>1. new.late
      BY <1>2a, <2>2
    <3>2. Disturbed(k)'
      BY <1>1, <1>3, <3>1 DEF Disturbed
    <3> QED BY <1>0, <1>3, <3>2, ElementTypes DEF Undisturbed
  <2>3. CASE \E b \in 1..(k - 1) : Disturbed(b)
    <3>1. PICK b \in 1..(k - 1) : Disturbed(b)
      BY <2>3
    <3>2. Disturbed(b)'
      BY <1>10, <3>1
    <3>3. b \in 1..k
      OBVIOUS
    <3> QED BY <1>3, <3>2, <3>3 DEF Undisturbed
  <2> QED BY <2>1, <2>2, <2>3
<1> QED BY <1>4, <1>5, <1>6, <1>7, <1>8, <1>9, <1>13, <1>14, <1>15 DEF IInv

\* Going on at another point without touching the dialogue.
LEMMA PointStep ==
    ASSUME IInv, faults' \in Nat,
           UNCHANGED <<reqs, rd, from, res, server>>,
           \/ pc' \in {"failed", "released"}
           \/ pc' = pc
           \/ pc' = "killed" /\ (hup \/ events > Slack \/ ~ Undisturbed)
    PROVE  IInv'
<1>0. TypeOK
  BY DEF IInv
<1>1. /\ reqs' = reqs /\ rd' = rd /\ from' = from /\ res' = res /\ rep' = rep
      /\ gen' = gen /\ dl' = dl /\ hup' = hup /\ events' = events
  BY DEF server
<1>2. TypeOK' /\ Phases' /\ Settled' /\ Ordered' /\ OwnInWindow'
  BY <1>1 DEF IInv, TypeOK, Phases, Settled, Ordered, OwnInWindow, Points, Cur
<1>3. TimelyIsBehind'
  BY <1>0, <1>1, ElementTypes DEF IInv, TimelyIsBehind, Behind, TypeOK
<1>4. FewEvents' /\ PromptInTime'
  BY <1>1 DEF IInv, FewEvents, Base, PromptInTime
<1>5. WrongOnlyAfterDisturbance' /\ Resynchronises'
  BY <1>1 DEF IInv, WrongOnlyAfterDisturbance, Resynchronises, Disturbed,
              Exact, Wanted
<1>6. CrashOnlyAfterDisturbance'
  BY <1>1 DEF IInv, CrashOnlyAfterDisturbance, Undisturbed, Disturbed
<1> QED BY <1>2, <1>3, <1>4, <1>5, <1>6 DEF IInv

\* Moving the cursors of reader and socket forward, or hanging up.
LEMMA CursorStep ==
    ASSUME IInv,
           UNCHANGED <<pc, reqs, from, faults, res, rep, gen, events>>,
           rd' \in Nat, dl' \in Nat, rd <= rd', rd' <= dl', dl' <= gen,
           hup' \in BOOLEAN, hup => hup'
    PROVE  IInv'
<1>0. TypeOK
  BY DEF IInv
<1>1. TypeOK' /\ Phases' /\ Settled' /\ Ordered' /\ OwnInWindow'
  BY DEF IInv, TypeOK, Phases, Settled, Ordered, OwnInWindow, Cur
<1>2. TimelyIsBehind'
  BY <1>0, ElementTypes DEF IInv, TimelyIsBehind, Behind, TypeOK
<1>3. FewEvents' /\ PromptInTime'
  BY DEF IInv, FewEvents, Base, PromptInTime
<1>4. WrongOnlyAfterDisturbance' /\ Resynchronises'
  BY DEF IInv, WrongOnlyAfterDisturbance, Resynchronises, Disturbed,
         Exact, Wanted
<1>5. CrashOnlyAfterDisturbance'
  BY DEF IInv, CrashOnlyAfterDisturbance, Undisturbed, Disturbed
<1> QED BY <1>1, <1>2, <1>3, <1>4, <1>5 DEF IInv

\* QEMU writes an answer at the end of the stream.
LEMMA ReplyStep ==
    ASSUME IInv, ServerReply
    PROVE  IInv'
<1>00. PICK n \in Nat : n = Len(rep)
  BY ElementTypes, Zenon DEF IInv
<1> DEFINE e == gen + ReplyLen(reqs[n + 1])
<1>0. TypeOK /\ n < Len(reqs) /\ n + 1 \in 1..Len(reqs)
  BY <1>00, ElementTypes DEF IInv, ServerReply
<1>1. /\ rep' = Append(rep, [start |-> gen, end |-> e]) /\ gen' = e
      /\ pc' = pc /\ reqs' = reqs /\ rd' = rd /\ from' = from
      /\ faults' = faults /\ res' = res /\ dl' = dl /\ hup' = hup
      /\ events' = events
  BY <1>00 DEF ServerReply, client
<1>2. e \in Nat /\ e > gen /\ e = gen + ReplyLen(reqs[n + 1])
  <2>1. ReplyLen(reqs[n + 1]) \in Nat \ {0}
    BY <1>0, ElementTypes
  <2>2. gen \in Nat
    BY <1>0 DEF TypeOK
  <2> QED BY <2>1, <2>2
<1> HIDE DEF e
<1>3. /\ rep' \in Seq(Reply) /\ Len(rep') = n + 1
      /\ DOMAIN rep' = 1..(n + 1) /\ DOMAIN rep = 1..n
      /\ \A i \in 1..n : rep'[i] = rep[i]
      /\ rep'[n + 1].start = gen /\ rep'[n + 1].end = e
  <2>1. [start |-> gen, end |-> e] \in Reply
    BY <1>0, <1>2 DEF TypeOK, Reply
  <2> QED BY <1>0, <1>00, <1>1, <2>1, AppendFacts DEF TypeOK
<1>4. TypeOK'
  BY <1>0, <1>1, <1>2, <1>3 DEF TypeOK
<1>5. Phases' /\ Settled'
  BY <1>1 DEF IInv, Phases, Settled
<1>6. Ordered'
  <2>1. Len(rep') <= Len(reqs')
    BY <1>0, <1>1, <1>3, ElementTypes
  <2>2. ASSUME NEW c \in 1..(n + 1)
        PROVE  /\ rep'[c].end = rep'[c].start + ReplyLen(reqs[c])
               /\ rep'[c].end <= e
    <3>1. CASE c = n + 1
      BY <1>2, <1>3, <3>1
    <3>2. CASE c \in 1..n
      <4>1. /\ rep[c].end = rep[c].start + ReplyLen(reqs[c])
            /\ rep[c].end <= gen /\ rep'[c] = rep[c]
        BY <1>3, <3>2 DEF IInv, Ordered
      <4>2. rep[c].end \in Nat /\ gen \in Nat
        BY <1>0, <1>00, <3>2, ElementTypes DEF TypeOK
      <4> QED BY <1>2, <4>1, <4>2
    <3> QED BY <3>1, <3>2
  <2>3. ASSUME NEW b \in 1..(n + 1), NEW c \in 1..(n + 1), b < c
        PROVE  rep'[b].end <= rep'[c].start
    <3>1. b \in 1..n
      BY <2>3
    <3>2. CASE c = n + 1
      BY <1>3, <3>1, <3>2 DEF IInv, Ordered
    <3>3. CASE c \in 1..n
      BY <1>3, <2>3, <3>1, <3>3, Zenon DEF IInv, Ordered
    <3> QED BY <3>2, <3>3
  <2> QED BY <1>1, <1>3, <2>1, <2>2, <2>3 DEF Ordered
<1>7. OwnInWindow'
  <2>1. SUFFICES ASSUME Len(reqs) \in 1..(n + 1)
                 PROVE  from <= rep'[Len(reqs)].start
    BY <1>1, <1>3 DEF OwnInWindow, Cur
  <2>2. Len(reqs) = n + 1
    BY <1>0, <2>1
  <2> QED BY <1>0, <1>3, <2>2 DEF TypeOK
<1>8. TimelyIsBehind'
  BY <1>1, <1>3 DEF IInv, TimelyIsBehind, Behind
<1>9. FewEvents'
  <2>1. gen <= (IF n = 0 THEN 0 ELSE rep[n].end) + events
    BY <1>0, <1>00 DEF IInv, FewEvents, TypeOK
  <2>2. PICK w \in Nat : w = (IF n = 0 THEN 0 ELSE rep[n].end)
    BY <1>0, <1>00, ElementTypes
  <2>3. PICK l \in Nat : l = ReplyLen(reqs[n + 1])
    BY <1>0, ElementTypes
  <2>4. gen \in Nat /\ events \in Nat
    BY <1>0 DEF TypeOK
  <2>5. e <= e + events /\ e <= w + l + events
    BY <1>2, <2>1, <2>2, <2>3, <2>4
  <2>6. Base(n + 1)' = w
    <3>1. CASE n = 0
      BY <2>2, <3>1 DEF Base
    <3>2. CASE n # 0
      BY <1>3, <2>2, <3>2 DEF Base
    <3> QED BY <3>1, <3>2
  <2>7. Len(rep') = n + 1 /\ n + 1 > 0 /\ n + 1 # 0
    BY <1>3
  <2>8. gen' <= rep'[n + 1].end + events'
    BY <1>1, <1>3, <2>5
  <2>9. gen' <= Base(n + 1)' + ReplyLen(reqs[n + 1])' + events'
    BY <1>1, <2>3, <2>5, <2>6
  <2> QED BY <2>7, <2>8, <2>9 DEF FewEvents
<1>10. PromptInTime' /\ WrongOnlyAfterDisturbance' /\ Resynchronises'
  BY <1>1 DEF IInv, PromptInTime, WrongOnlyAfterDisturbance, Resynchronises,
              Disturbed, Exact, Wanted
<1>11. CrashOnlyAfterDisturbance'
  BY <1>1 DEF IInv, CrashOnlyAfterDisturbance, Undisturbed, Disturbed
<1> QED BY <1>4, <1>5, <1>6, <1>7, <1>8, <1>9, <1>10, <1>11 DEF IInv

\* QEMU writes an event at the end of the stream.
LEMMA EventStep ==
    ASSUME IInv, ServerEvent
    PROVE  IInv'
<1>0. TypeOK
  BY DEF IInv
<1>1. /\ gen' = gen + 1 /\ events' = events + 1 /\ rep' = rep
      /\ pc' = pc /\ reqs' = reqs /\ rd' = rd /\ from' = from
      /\ faults' = faults /\ res' = res /\ dl' = dl /\ hup' = hup
      /\ Len(rep) >= 2
  BY DEF ServerEvent, client
<1>2. TypeOK' /\ Phases' /\ Settled'
  BY <1>0, <1>1 DEF IInv, TypeOK, Phases, Settled
<1>3. Ordered'
  BY <1>0, <1>1, ElementTypes DEF IInv, Ordered, TypeOK
<1>4. OwnInWindow' /\ TimelyIsBehind'
  BY <1>1 DEF IInv, OwnInWindow, Cur, TimelyIsBehind, Behind
<1>5. FewEvents'
  <2>1. /\ Len(rep) \in 1..Len(reqs) /\ Len(rep) \in 1..Len(rep)
        /\ Len(rep) - 1 \in 1..Len(rep)
    BY <1>0, <1>1, ElementTypes DEF IInv, Ordered
  <2>2. /\ rep[Len(rep)].end \in Nat /\ Base(Len(rep)) \in Nat
        /\ ReplyLen(reqs[Len(rep)]) \in Nat
    BY <1>0, <2>1, ElementTypes DEF Base
  <2>3. /\ gen <= rep[Len(rep)].end + events
        /\ gen <= Base(Len(rep)) + ReplyLen(reqs[Len(rep)]) + events
    BY <1>0, <1>1, ElementTypes DEF IInv, FewEvents
  <2>4. gen \in Nat /\ events \in Nat
    BY <1>0 DEF TypeOK
  <2>5. /\ gen + 1 <= rep[Len(rep)].end + (events + 1)
        /\ gen + 1 <= Base(Len(rep)) + ReplyLen(reqs[Len(rep)]) + (events + 1)
    BY <2>2, <2>3, <2>4
  <2>6. Base(Len(rep))' = Base(Len(rep))
    BY <1>1 DEF Base
  <2> QED BY <1>1, <2>5, <2>6 DEF FewEvents
<1>6. PromptInTime' /\ WrongOnlyAfterDisturbance' /\ Resynchronises'
  BY <1>1 DEF IInv, PromptInTime, WrongOnlyAfterDisturbance, Resynchronises,
              Disturbed, Exact, Wanted
<1>7. CrashOnlyAfterDisturbance'
  BY <1>0, <1>1, QmpAssumption
     DEF IInv, CrashOnlyAfterDisturbance, Undisturbed, Disturbed, TypeOK
<1> QED BY <1>2, <1>3, <1>4, <1>5, <1>6, <1>7 DEF IInv

\* What holds when poll() times out.
LEMMA TimeoutFacts ==
    ASSUME IInv, PollTimeout
    PROVE  /\ TypeOK /\ pc = "reading" /\ rd = dl /\ ~ hup
           /\ Cur \in 1..Len(reqs) /\ Cur = Len(reqs)
           /\ Prompt => Arrived(Cur)
           /\ Arrived(Cur) => /\ Cur \in 1..Len(rep)
                              /\ from <= rep[Cur].start /\ rep[Cur].end <= rd
                              /\ rep[Cur].end = rep[Cur].start + ReplyLen(reqs[Cur])
<1>1. TypeOK /\ pc = "reading" /\ rd = dl /\ ~ hup /\ Cur = Len(reqs)
  BY DEF IInv, PollTimeout, Cur
<1>2. Cur \in 1..Len(reqs)
  BY <1>1, ElementTypes DEF IInv, Phases
<1>3. Prompt => Arrived(Cur)
  BY <1>1, <1>2, ElementTypes DEF IInv, PollTimeout, Arrived, Ordered
<1>4. Arrived(Cur) => /\ Cur \in 1..Len(rep)
                      /\ from <= rep[Cur].start /\ rep[Cur].end <= rd
                      /\ rep[Cur].end = rep[Cur].start + ReplyLen(reqs[Cur])
  BY <1>1, ElementTypes DEF IInv, Ordered, OwnInWindow, Arrived
<1> QED BY <1>1, <1>2, <1>3, <1>4

\* The greeting.
LEMMA GreetingStep ==
    ASSUME IInv, GreetingRead
    PROVE  IInv'
<1>0. PollTimeout /\ reqs[Cur].kind = "greet"
  BY DEF GreetingRead
<1>1. Cur = 1 /\ Cur \in Nat
  BY <1>0, TimeoutFacts DEF IInv, Phases
<1>2. Wanted(Cur) = 0 /\ ReplyLen(reqs[Cur]) = 2
  BY <1>0 DEF Wanted, ReplyLen
<1>3. Arrived(Cur) => nread # 0
  BY <1>0, <1>1, <1>2, TimeoutFacts, ElementTypes DEF nread, TypeOK
<1>4. CASE nread = 0
  <2>1. Settle("err", Cur, 0, "failed") /\ faults' = faults
    BY <1>4 DEF GreetingRead
  <2> QED BY <1>0, <1>1, <1>3, <1>4, <2>1, TimeoutFacts, SettleStep DEF TypeOK
<1>5. CASE nread # 0
  <2>1. Settle("ok", Cur, 0, "negotiate") /\ faults' = faults
    BY <1>5 DEF GreetingRead
  <2> QED BY <1>0, <1>1, <1>2, <2>1, TimeoutFacts, SettleStep DEF TypeOK
<1> QED BY <1>4, <1>5

\* The acknowledgement.
LEMMA AckStep ==
    ASSUME IInv, AckRead
    PROVE  IInv'
<1>0. PollTimeout /\ reqs[Cur].kind = "ack"
  BY DEF AckRead
<1>1. Cur = 2 /\ Cur \in Nat
  <2>1. Cur \in 1..Len(reqs) /\ TypeOK
    BY <1>0, TimeoutFacts
  <2>2. Cur \in DOMAIN reqs /\ Cur \in Nat /\ Cur >= 1
    BY <2>1, ElementTypes
  <2>3. ~ (Cur = 1) /\ ~ (Cur > 2)
    BY <1>0, <2>2 DEF IInv, Phases
  <2> QED BY <2>2, <2>3
<1>2. Wanted(Cur) = 0 /\ ReplyLen(reqs[Cur]) = 2
  BY <1>0 DEF Wanted, ReplyLen
<1>3. Arrived(Cur) /\ ~ (nread > ReplyLen(reqs[Cur])) => IsAckPrefix(Cur)
  <2>1. SUFFICES ASSUME Arrived(Cur), ~ (nread > 2) PROVE IsAckPrefix(Cur)
    BY <1>2
  <2>2. /\ Cur \in DOMAIN rep /\ from <= rep[Cur].start
        /\ rep[Cur].start + 2 = rep[Cur].end /\ rep[Cur].end <= rd
        /\ rep[Cur].start \in Nat /\ from \in Nat /\ rd \in Nat
    BY <1>0, <1>2, <2>1, TimeoutFacts, ElementTypes DEF TypeOK
  <2> QED BY <2>1, <2>2 DEF nread, IsAckPrefix
<1>4. CASE ~ IsAckPrefix(Cur)
  <2>1. Settle("err", Cur, 0, "failed") /\ faults' = faults
    BY <1>4 DEF AckRead
  <2> QED BY <1>0, <1>1, <1>3, <1>4, <2>1, TimeoutFacts, SettleStep, Zenon DEF TypeOK
<1>5. CASE IsAckPrefix(Cur)
  <2>1. Settle("ok", Cur, 0, "ready") /\ faults' = faults
    BY <1>5 DEF AckRead
  <2>2. Cur >= 2 /\ Wanted(Cur) = 0 /\ Cur \in Nat
    BY <1>1, <1>2
  <2>3. /\ rd = dl /\ pc = "reading" /\ faults' \in Nat
        /\ Prompt => Arrived(Cur)
    BY <1>0, <2>1, TimeoutFacts DEF TypeOK
  <2>4. 0 \in Nat
    OBVIOUS
  <2> QED BY <2>1, <2>2, <2>3, <2>4, SettleStep, Zenon
<1> QED BY <1>4, <1>5

\* The registers.
LEMMA RegsStep ==
    ASSUME IInv, RegsRead
    PROVE  IInv'
<1> DEFINE got == qmp_populate_reg(Cur)
           st == IF got = 3 THEN "ok" ELSE "err"
<1>0. PollTimeout /\ reqs[Cur].kind = "regs"
  BY DEF RegsRead
<1>1. Cur > 2 /\ Cur \in Nat
  BY <1>0, TimeoutFacts, ElementTypes DEF IInv, Phases
<1>2. Wanted(Cur) = 3 /\ ReplyLen(reqs[Cur]) = 3
  BY <1>0 DEF Wanted, ReplyLen
<1>3. Arrived(Cur) => got = 3
  <2>1. SUFFICES ASSUME Arrived(Cur) PROVE got = 3
    OBVIOUS
  <2>2. /\ Cur \in DOMAIN rep /\ from <= rep[Cur].start
        /\ rep[Cur].start + 3 <= rd /\ rep[Cur].start \in Nat
        /\ from \in Nat /\ rd \in Nat
    BY <1>0, <1>2, <2>1, TimeoutFacts, ElementTypes DEF TypeOK
  <2> QED BY <2>2 DEF qmp_populate_reg, InWindow
<1>4. got \in Nat /\ st \in {"ok", "err", "poll"} /\ st # "poll"
  BY DEF qmp_populate_reg
<1>5. Settle(st, Cur, got, "ready") /\ faults' = faults
  BY DEF RegsRead
<1> HIDE DEF got
<1> QED BY <1>0, <1>1, <1>2, <1>3, <1>4, <1>5, TimeoutFacts, SettleStep
        DEF TypeOK

\* A nonempty set of natural numbers has a least element.
LEMMA LeastElement ==
    ASSUME NEW T, T \subseteq Nat, T # {}
    PROVE  \E x \in T : \A y \in T : x <= y
<1>1. PICK x \in T : \A y \in T : ~ (<<y, x>> \in OpToRel(<, Nat))
  BY WFMin, NatLessThanWellFounded, Zenon
<1>2. ASSUME NEW y \in T PROVE x <= y
  <2>1. ~ (y < x)
    BY <1>1, Zenon DEF OpToRel
  <2> QED BY <2>1
<1> QED BY <1>2

\* FirstMarker is 0 or the answer of a marker in the window.
LEMMA FirstMarkerType ==
    ASSUME TypeOK
    PROVE  FirstMarker = 0 \/ FirstMarker \in Markers
<1>1. Markers \subseteq Nat
  BY ElementTypes DEF Markers
<1>2. CASE Markers # {}
  BY <1>1, <1>2, LeastElement DEF FirstMarker
<1> QED BY <1>2 DEF FirstMarker

\* A dump answer stores a number of lines.
LEMMA PopulateMemType ==
    ASSUME IInv, NEW n \in Nat
    PROVE  FirstMarker \in Nat /\ qmp_populate_mem(n) \in Nat
<1>0. TypeOK
  BY DEF IInv
<1>1. CASE FirstMarker = 0
  BY <1>1 DEF qmp_populate_mem
<1>2. CASE FirstMarker \in Markers
  <2>1. PICK m : m = FirstMarker
    OBVIOUS
  <2>2. m \in 1..Len(rep) /\ m \in 1..Len(reqs) /\ rep[m].start < rd
    BY <1>0, <1>2, <2>1, ElementTypes DEF Markers, InWindow, IInv, Ordered
  <2>3. /\ rep[m].end = rep[m].start + ReplyLen(reqs[m])
        /\ ReplyLen(reqs[m]) \in Nat \ {0}
        /\ rep[m].start \in Nat /\ rep[m].end \in Nat /\ rd \in Nat
    BY <1>0, <2>2, ElementTypes DEF IInv, Ordered, TypeOK
  <2>4. Smaller(rd, rep[m].end) - rep[m].start - 1 \in Nat
    BY <2>2, <2>3 DEF Smaller
  <2>5. Smaller(n, Smaller(rd, rep[m].end) - rep[m].start - 1) \in Nat
    BY <2>4, SmallerType
  <2> QED BY <1>0, <2>1, <2>2, <2>5, ElementTypes DEF qmp_populate_mem
<1> QED BY <1>0, <1>1, <1>2, FirstMarkerType

\* A dump.
LEMMA MemStep ==
    ASSUME IInv, MemRead
    PROVE  IInv'
<1>0. PollTimeout /\ reqs[Cur].kind = "mem" /\ faults' = faults
  BY DEF MemRead
<1>00. PICK n : n = reqs[Cur].size
  OBVIOUS
<1>1. Cur > 2 /\ Cur \in Nat /\ n \in Nat
  BY <1>0, <1>00, TimeoutFacts, ElementTypes DEF IInv, Phases, Request
<1>2. Wanted(Cur) = n /\ ReplyLen(reqs[Cur]) = 1 + n
  BY <1>0, <1>00 DEF Wanted, ReplyLen
<1>3. Arrived(Cur) => nread # 0
  <2>1. SUFFICES ASSUME Arrived(Cur) PROVE nread # 0
    OBVIOUS
  <2>2. /\ from <= rep[Cur].start /\ rep[Cur].start + 1 + n <= rd
        /\ rep[Cur].start \in Nat /\ from \in Nat /\ rd \in Nat
    BY <1>0, <1>1, <1>2, <2>1, TimeoutFacts, ElementTypes DEF TypeOK
  <2> QED BY <1>1, <2>2 DEF nread
<1>4. ASSUME Arrived(Cur), CleanStart(Cur)
      PROVE  FirstMarker = Cur /\ qmp_populate_mem(n) = n
  <2>1. FirstMarker = Cur
    BY <1>0, <1>1, <1>4, TimeoutFacts, OwnMarkerFirst
  <2>2. /\ rep[Cur].end <= rd /\ rep[Cur].end = rep[Cur].start + (1 + n)
        /\ rep[Cur].start \in Nat /\ rd \in Nat
    BY <1>0, <1>2, <1>4, TimeoutFacts, ElementTypes DEF TypeOK
  <2>3. Smaller(n, Smaller(rd, rep[Cur].end) - rep[Cur].start - 1) = n
    BY <1>1, <2>2 DEF Smaller
  <2> QED BY <1>0, <1>1, <2>1, <2>3 DEF qmp_populate_mem
<1>5. FirstMarker \in Nat /\ qmp_populate_mem(n) \in Nat
  BY <1>1, PopulateMemType
<1>6. CASE nread = 0 /\ Settle("err", 0, 0, "ready")
  BY <1>0, <1>1, <1>3, <1>6, TimeoutFacts, SettleStep DEF TypeOK
<1>7. CASE Settle("ok", FirstMarker, qmp_populate_mem(n), "ready")
  BY <1>0, <1>1, <1>2, <1>4, <1>5, <1>7, TimeoutFacts, SettleStep DEF TypeOK
<1>8. CASE /\ RunsPastAnswer(n)
           /\ Settle("ok", FirstMarker, qmp_populate_mem(n), "killed")
  <2>1. ~ Arrived(Cur) \/ \E b \in 1..(Cur - 1) : Disturbed(b)
    <3>1. SUFFICES ASSUME Arrived(Cur), \A b \in 1..(Cur - 1) : ~ Disturbed(b)
                   PROVE  FALSE
      OBVIOUS
    <3>2. FirstMarker = Cur
      BY <1>0, <1>4, <3>1, TimeoutFacts, UndisturbedIsClean
    <3>3. rep[Cur].end <= rd /\ rep[Cur].end \in Nat /\ rd \in Nat
      BY <1>0, <3>1, TimeoutFacts, ElementTypes DEF TypeOK
    <3> QED BY <1>8, <3>2, <3>3 DEF RunsPastAnswer
  <2> QED BY <1>0, <1>1, <1>2, <1>4, <1>5, <1>8, <2>1, TimeoutFacts, SettleStep
          DEF TypeOK
<1> QED BY <1>00, <1>6, <1>7, <1>8 DEF MemRead

-----------------------------------------------------------------------------
(***************************************************************************)
(* Theorems.                                                               *)
(***************************************************************************)

\* The initial state satisfies the inductive invariant.
LEMMA InitInv == Init => IInv
<1> SUFFICES ASSUME Init PROVE IInv
  OBVIOUS
<1>1. /\ reqs = <<>> /\ rep = <<>> /\ res = <<>> /\ pc = "connect"
      /\ gen = 0 /\ dl = 0 /\ rd = 0 /\ from = 0 /\ hup = FALSE
      /\ events = 0 /\ faults = 0
  BY DEF Init
<1>2. TypeOK
  <2>1. reqs \in Seq(Request) /\ rep \in Seq(Reply) /\ res \in Seq(Result)
    BY <1>1, EmptySeq
  <2>2. /\ gen \in Nat /\ dl \in Nat /\ rd \in Nat /\ from \in Nat
        /\ from <= rd /\ rd <= dl /\ dl <= gen
        /\ events \in Nat /\ faults \in Nat
    BY <1>1
  <2>3. pc \in Points /\ hup \in BOOLEAN
    BY <1>1, Zenon DEF Points
  <2> QED BY <2>1, <2>2, <2>3 DEF TypeOK
<1>3. Len(reqs) = 0 /\ Len(rep) = 0 /\ Len(res) = 0
  BY <1>1
<1>4. DOMAIN reqs = {} /\ DOMAIN rep = {} /\ DOMAIN res = {}
  BY <1>2, <1>3, ElementTypes
<1> QED BY <1>1, <1>2, <1>3, <1>4
    DEF IInv, Phases, Settled, Ordered, OwnInWindow, TimelyIsBehind, FewEvents,
        PromptInTime, WrongOnlyAfterDisturbance, Resynchronises,
        CrashOnlyAfterDisturbance

\* While nothing is disturbed the window holds at most the own answer and the
\* events sent so far, so only more than Slack of them fill the buffer.
LEMMA WindowBound ==
    ASSUME IInv, pc = "reading", Undisturbed
    PROVE  nread <= ReplyLen(reqs[Cur]) + events
<1>00. PICK k \in Nat : k = Cur /\ k = Len(reqs)
  BY ElementTypes, Zenon DEF IInv, Cur
<1>0. TypeOK /\ Len(res) = k - 1 /\ k >= 1
  BY <1>00 DEF IInv, Settled, Phases
<1>1. /\ from \in Nat /\ rd \in Nat /\ gen \in Nat /\ events \in Nat
      /\ rd <= gen /\ ReplyLen(reqs[k]) \in Nat
  BY <1>0, <1>00, ElementTypes DEF TypeOK
<1>2. k > 1 => k - 1 \in DOMAIN rep /\ rep[k - 1].end <= from
  BY <1>0, ElementTypes DEF IInv, TimelyIsBehind, Behind, Undisturbed, Disturbed
<1>3. Len(rep) = k \/ Len(rep) = k - 1
  <2>1. Len(rep) \in Nat /\ Len(rep) <= k
    BY <1>0, <1>00, ElementTypes DEF IInv, Ordered
  <2>2. k > 1 => k - 1 \in 1..Len(rep)
    BY <1>0, <1>2, ElementTypes
  <2> QED BY <1>0, <2>1, <2>2
<1>4. k > 1 => rep[k - 1].end \in Nat
  BY <1>0, <1>2, ElementTypes
<1>5. CASE Len(rep) = k
  <2>1. gen <= Base(k) + ReplyLen(reqs[k]) + events
    BY <1>0, <1>5 DEF IInv, FewEvents
  <2>2. Base(k) \in Nat /\ Base(k) <= from
    BY <1>0, <1>1, <1>2, <1>4 DEF Base
  <2> QED BY <1>00, <1>1, <2>1, <2>2 DEF nread
<1>6. CASE Len(rep) = k - 1 /\ k > 1
  <2>1. gen <= rep[k - 1].end + events
    BY <1>6 DEF IInv, FewEvents
  <2> QED BY <1>00, <1>1, <1>2, <1>4, <1>6, <2>1 DEF nread
<1>7. CASE Len(rep) = k - 1 /\ k = 1
  <2>1. gen = 0
    BY <1>7 DEF IInv, FewEvents
  <2> QED BY <1>00, <1>1, <2>1 DEF nread
<1> QED BY <1>0, <1>3, <1>5, <1>6, <1>7

\* Every step preserves the inductive invariant.
LEMMA NextInv == IInv /\ [Next]_vars => IInv'
<1> SUFFICES ASSUME IInv, [Next]_vars PROVE IInv'
  OBVIOUS
<1>0. TypeOK
  BY DEF IInv
<1>1. CASE qmp_establish_conn
  <2>1. [kind |-> "greet", size |-> 0] \in Request
    BY DEF Request, Kinds
  <2>2. CASE Send([kind |-> "greet", size |-> 0])
    BY <1>1, <2>1, <2>2, SendStep DEF qmp_establish_conn
  <2>3. CASE pc' = "failed" /\ UNCHANGED <<reqs, rd, from, faults, res, server>>
    BY <1>0, <2>3, PointStep DEF TypeOK
  <2> QED BY <1>1, <2>2, <2>3 DEF qmp_establish_conn
<1>2. CASE qmp_negotiate
  <2>1. [kind |-> "ack", size |-> 0] \in Request
    BY DEF Request, Kinds
  <2> QED BY <1>2, <2>1, SendStep DEF qmp_negotiate
<1>3. CASE qmp_get_registers
  <2>1. [kind |-> "regs", size |-> 0] \in Request
    BY DEF Request, Kinds
  <2> QED BY <1>3, <2>1, SendStep DEF qmp_get_registers
<1>4. CASE qmp_readmem_part
  <2>1. PICK n \in PartSizes : Send([kind |-> "mem", size |-> n])
    BY <1>4 DEF qmp_readmem_part
  <2>2. [kind |-> "mem", size |-> n] \in Request
    BY QmpAssumption DEF Request, Kinds
  <2> QED BY <1>4, <2>1, <2>2, SendStep DEF qmp_readmem_part
<1>5. CASE qmp_read
  <2>1. /\ rd' \in Nat /\ rd <= rd' /\ rd' <= dl /\ dl <= gen
    BY <1>0, <1>5, QmpAssumption DEF qmp_read, Smaller, TypeOK
  <2> QED BY <1>0, <1>5, <2>1, CursorStep DEF qmp_read, server, TypeOK
<1>6. CASE PollError
  <2>1. /\ pc = "reading" /\ faults' \in Nat
        /\ Settle("poll", 0, 0, IF Cur <= 2 THEN "failed" ELSE "ready")
    BY <1>0, <1>6 DEF PollError, TypeOK
  <2>2. Cur \in Nat
    BY <1>0, ElementTypes DEF Cur
  <2>3. CASE Cur <= 2
    BY <2>1, <2>3, SettleStep
  <2>4. CASE ~ (Cur <= 2)
    BY <2>1, <2>2, <2>4, SettleStep
  <2> QED BY <2>3, <2>4
<1>7. CASE BufferOverrun
  <2>1. /\ pc = "reading" /\ pc' = "killed" /\ faults' = faults
        /\ nread > ReplyLen(reqs[Cur]) + Slack
        /\ UNCHANGED <<reqs, rd, from, res, server>>
    BY <1>7 DEF BufferOverrun, BufLen
  <2>2. events > Slack \/ ~ Undisturbed
    <3>1. /\ ReplyLen(reqs[Cur]) \in Nat /\ nread \in Int
          /\ events \in Nat /\ Slack \in Nat
      BY <1>0, <2>1, ElementTypes, QmpAssumption
         DEF IInv, Phases, Cur, nread, TypeOK
    <3> QED BY <2>1, <3>1, WindowBound
  <2> QED BY <1>0, <2>1, <2>2, PointStep DEF TypeOK
<1>8. CASE WriteError
  <2>1. faults' \in Nat
    BY <1>0, <1>8 DEF WriteError, TypeOK
  <2> QED BY <1>8, <2>1, PointStep DEF WriteError
<1>9. CASE WriteSigpipe \/ qmp_client_uninit
  BY <1>0, <1>9, PointStep DEF WriteSigpipe, qmp_client_uninit, TypeOK
<1>10. CASE Deliver
  <2>1. dl' \in Nat /\ rd <= dl' /\ dl' <= gen
    BY <1>0, <1>10 DEF Deliver, TypeOK
  <2> QED BY <1>0, <1>10, <2>1, CursorStep DEF Deliver, client, TypeOK
<1>11. CASE Hangup
  BY <1>0, <1>11, CursorStep DEF Hangup, client, TypeOK
<1>12. CASE UNCHANGED vars
  BY <1>0, <1>12, PointStep DEF vars, client, TypeOK
<1> QED
  BY <1>1, <1>2, <1>3, <1>4, <1>5, <1>6, <1>7, <1>8, <1>9, <1>10, <1>11, <1>12,
     GreetingStep, AckStep, RegsStep, MemStep, ReplyStep, EventStep
  DEF Next, Server, Reader, Caller, ReadReturns, Ended, qmp_read_eof

\* IInv holds in every reachable state.
THEOREM Invariance == Spec => []IInv
BY InitInv, NextInv, PTL DEF Spec

\* Every variable keeps its type and the cursors their order, for every value
\* of the constants.
THEOREM TypeCorrect == Spec => []TypeOK
<1>1. IInv => TypeOK
  BY DEF IInv
<1> QED BY <1>1, Invariance, PTL

\* The time-out framing of qmp_read: without a late answer, a failing poll() or
\* an event glued to the acknowledgement, every caller gets exactly its answer.
THEOREM Framing == Spec => []WrongOnlyAfterDisturbance
<1>1. IInv => WrongOnlyAfterDisturbance
  BY DEF IInv
<1> QED BY <1>1, Invariance, PTL

\* The marker search of qmp_populate_mem brings the dialogue back into step.
THEOREM Resync == Spec => []Resynchronises
<1>1. IInv => Resynchronises
  BY DEF IInv
<1> QED BY <1>1, Invariance, PTL

\* No buffer is overrun before a disturbance.
THEOREM NoOverrun == Spec => []CrashOnlyAfterDisturbance
<1>1. IInv => CrashOnlyAfterDisturbance
  BY DEF IInv
<1> QED BY <1>1, Invariance, PTL

\* Undisturbed commands leave nothing of an answer in the socket.
THEOREM CleanBetweenCommands == Spec => []NothingLeftBehind
<1>1. IInv => NothingLeftBehind
  <2>1. SUFFICES ASSUME IInv, pc = "ready", Undisturbed
                 PROVE  /\ Len(rep) = Len(reqs)
                        /\ \A c \in DOMAIN rep : rep[c].end <= rd
    BY DEF NothingLeftBehind
  <2>2. TypeOK /\ Len(res) = Len(reqs) /\ Len(rep) <= Len(reqs) /\ Len(reqs) >= 2
    BY <2>1 DEF IInv, Settled, Ordered, Phases
  <2>3. \A c \in 1..Len(reqs) : c \in DOMAIN rep /\ rep[c].end <= rd
    BY <2>1, <2>2, ElementTypes
       DEF IInv, TimelyIsBehind, Behind, Undisturbed, Disturbed
  <2>4. /\ Len(reqs) \in Nat /\ Len(rep) \in Nat /\ DOMAIN rep = 1..Len(rep)
    BY <2>2, ElementTypes
  <2>5. Len(reqs) \in 1..Len(rep)
    BY <2>2, <2>3, <2>4
  <2>6. Len(rep) = Len(reqs)
    BY <2>2, <2>4, <2>5
  <2> QED BY <2>3, <2>4, <2>6
<1> QED BY <1>1, Invariance, PTL

\* A QEMU without 5 ms pauses gets every answer through.
THEOREM PromptServer == Spec => []PromptIsExact
<1>1. IInv => PromptIsExact
  <2>1. SUFFICES ASSUME IInv, Prompt, NEW c \in DOMAIN res,
                        \A b \in 1..c : /\ res[b].st # "poll"
                                        /\ reqs[b].kind = "ack" => ~ res[b].extra
                 PROVE  Exact(c)
    BY DEF PromptIsExact
  <2>2. TypeOK
    BY <2>1 DEF IInv
  <2>3. \A b \in 1..c : b \in DOMAIN res
    BY <2>2, ElementTypes
  <2>4. \A b \in 1..c : ~ Disturbed(b)
    BY <2>1, <2>3 DEF IInv, PromptInTime, Disturbed
  <2> QED BY <2>1, <2>4 DEF IInv, WrongOnlyAfterDisturbance
<1> QED BY <1>1, Invariance, PTL

\* The answer a memory read was served with lies behind the window.
ServedIsBehind ==
    \A c \in DOMAIN res :
        Stored(c) => res[c].src \in DOMAIN rep /\ rep[res[c].src].start < Behind

\* A step that settles nothing and does not move the window back.
LEMMA OrderKept ==
    ASSUME IInv, IInv', ServedIsBehind, AnswersInOrder, res' = res,
           \A i \in DOMAIN reqs : i \in DOMAIN reqs' /\ reqs'[i] = reqs[i],
           \A i \in DOMAIN rep : i \in DOMAIN rep' /\ rep'[i] = rep[i],
           Behind <= Behind'
    PROVE  ServedIsBehind' /\ AnswersInOrder'
<1>1. TypeOK /\ TypeOK' /\ Len(res) <= Len(reqs)
  BY DEF IInv, Settled
<1>2. \A c \in DOMAIN res : c \in DOMAIN reqs /\ reqs'[c] = reqs[c]
  BY <1>1, ElementTypes
<1>3. \A c \in DOMAIN res : (Stored(c)' <=> Stored(c)) /\ (Disturbed(c)' <=> Disturbed(c))
  BY <1>2 DEF Stored, Disturbed
<1>4. Behind \in Nat /\ Behind' \in Nat
  BY <1>1 DEF Behind, TypeOK
<1>5. \A i \in DOMAIN rep : rep[i].start \in Nat
  BY <1>1, ElementTypes
<1>6. ServedIsBehind'
  <2>1. SUFFICES ASSUME NEW c \in DOMAIN res, Stored(c)
                 PROVE  res[c].src \in DOMAIN rep' /\ rep'[res[c].src].start < Behind'
    BY <1>3 DEF ServedIsBehind
  <2>2. res[c].src \in DOMAIN rep /\ rep[res[c].src].start < Behind
    BY <2>1 DEF ServedIsBehind
  <2> QED BY <1>4, <1>5, <2>2
<1>7. AnswersInOrder'
  <2>1. SUFFICES ASSUME NEW c \in DOMAIN res, Stored(c)
                 PROVE  /\ res[c].src <= c
                        /\ res[c].src < c => Disturbed(res[c].src)'
                        /\ \A b \in 1..(c - 1) : Stored(b)' => res[b].src < res[c].src
    BY <1>3 DEF AnswersInOrder
  <2>2. /\ res[c].src <= c
        /\ res[c].src < c => Disturbed(res[c].src)
        /\ \A b \in 1..(c - 1) : Stored(b) => res[b].src < res[c].src
    BY <2>1 DEF AnswersInOrder
  <2>3. \A b \in 1..(c - 1) : b \in DOMAIN res
    BY <1>1, ElementTypes
  <2>4. res[c].src \in DOMAIN rep
    BY <2>1 DEF ServedIsBehind
  <2>5. res[c].src < c => res[c].src \in DOMAIN res
    BY <1>1, <2>4, ElementTypes
  <2> QED BY <1>3, <2>2, <2>3, <2>5
<1> QED BY <1>6, <1>7

\* A request is settled: a memory read that stores something takes the first marker of
\* the window, and the answers served before lie behind the window.
LEMMA OrderSettled ==
    ASSUME IInv, IInv', ServedIsBehind, AnswersInOrder, pc = "reading",
           NEW st, NEW src \in Nat, NEW got \in Nat, NEW p, p # "reading",
           Settle(st, src, got, p),
           reqs[Cur].kind = "mem" /\ got > 0 => src \in Markers
    PROVE  ServedIsBehind' /\ AnswersInOrder'
<1>1. TypeOK /\ TypeOK' /\ Len(res) = Len(reqs) - 1 /\ Len(rep) <= Len(reqs)
  BY DEF IInv, Settled, Ordered
<1>2. PICK k \in Nat : k = Cur /\ k = Len(reqs) /\ k = Len(res) + 1
  BY <1>1, ElementTypes DEF Cur
<1>3. /\ reqs' = reqs /\ rd' = rd /\ rep' = rep /\ pc' = p /\ Behind' = rd
  BY DEF Settle, server, Behind
<1>4. /\ Len(res') = k /\ DOMAIN res = 1..(k - 1) /\ DOMAIN res' = 1..k
      /\ \A i \in 1..(k - 1) : res'[i] = res[i]
      /\ res'[k].src = src /\ res'[k].got = got
  <2>1. PICK new : /\ res' = Append(res, new) /\ new.src = src /\ new.got = got
    BY DEF Settle
  <2>2. res \in Seq(Result) /\ res' \in Seq(Result)
    BY <1>1 DEF TypeOK
  <2>3. Len(res') = Len(res) + 1 /\ res'[Len(res) + 1] = new
    BY <2>1, <2>2
  <2>4. \A i \in 1..Len(res) : res'[i] = res[i]
    BY <2>1, <2>2
  <2> QED BY <1>1, <1>2, <2>1, <2>3, <2>4, ElementTypes
<1>5. \A c \in 1..(k - 1) : (Stored(c)' <=> Stored(c)) /\ (Disturbed(c)' <=> Disturbed(c))
  BY <1>3, <1>4 DEF Stored, Disturbed
<1>6. \A c \in 1..(k - 1) :
          Stored(c) => res[c].src \in DOMAIN rep /\ rep[res[c].src].start < from
  BY <1>4 DEF ServedIsBehind, Behind
<1>7. from \in Nat /\ rd \in Nat /\ from <= rd /\ \A i \in DOMAIN rep : rep[i].start \in Nat
  <2>1. from \in Nat /\ rd \in Nat /\ from <= rd
    BY <1>1 DEF TypeOK
  <2>2. \A i \in DOMAIN rep : rep[i].start \in Nat
    BY <1>1, ElementTypes
  <2> QED BY <2>1, <2>2
<1>8. Stored(k)' => src \in DOMAIN rep /\ from <= rep[src].start /\ rep[src].start < rd
  BY <1>2, <1>3, <1>4 DEF Stored, Markers, InWindow
<1>9. ServedIsBehind'
  <2>1. SUFFICES ASSUME NEW c \in 1..k, Stored(c)'
                 PROVE  res'[c].src \in DOMAIN rep /\ rep[res'[c].src].start < rd
    BY <1>3, <1>4 DEF ServedIsBehind
  <2>2. CASE c = k
    BY <1>4, <1>8, <2>1, <2>2
  <2>3. CASE c \in 1..(k - 1)
    <3>1. res'[c].src \in DOMAIN rep /\ rep[res'[c].src].start < from
      BY <1>4, <1>5, <1>6, <2>1, <2>3
    <3> QED BY <1>7, <3>1
  <2> QED BY <2>2, <2>3
<1>10. ASSUME Stored(k)'
       PROVE  /\ src <= k
              /\ src < k => Disturbed(src)
              /\ \A b \in 1..(k - 1) : Stored(b) => res[b].src < src
  <2>1. src \in 1..k
    <3>1. src \in 1..Len(rep)
      BY <1>1, <1>8, <1>10, ElementTypes
    <3>2. Len(rep) \in Nat /\ Len(rep) <= k
      BY <1>1, <1>2, ElementTypes
    <3> QED BY <3>1, <3>2
  <2>2. \A i \in DOMAIN rep : rep[i].start < rep[i].end /\ rep[i].end \in Nat
    <3>1. SUFFICES ASSUME NEW i \in DOMAIN rep PROVE rep[i].start < rep[i].end /\ rep[i].end \in Nat
      OBVIOUS
    <3>2. rep[i].end = rep[i].start + ReplyLen(reqs[i]) /\ i \in 1..Len(reqs)
      BY <1>1, ElementTypes DEF IInv, Ordered
    <3>3. ReplyLen(reqs[i]) \in Nat \ {0} /\ rep[i].start \in Nat /\ rep[i].end \in Nat
      BY <1>1, <3>2, ElementTypes
    <3> QED BY <3>2, <3>3
  <2>3. ASSUME src < k, ~ Disturbed(src) PROVE FALSE
    <3>1. src \in DOMAIN res
      BY <1>4, <2>1, <2>3
    <3>2. rep[src].end <= from
      BY <2>3, <3>1 DEF IInv, TimelyIsBehind, Behind, Disturbed
    <3> QED BY <1>7, <1>8, <1>10, <2>2, <3>2
  <2>4. ASSUME NEW b \in 1..(k - 1), Stored(b) PROVE res[b].src < src
    <3>1. PICK a \in DOMAIN rep : a = res[b].src /\ rep[a].start < from
      BY <1>6, <2>4
    <3>2. src \in DOMAIN rep /\ from <= rep[src].start
      BY <1>8, <1>10
    <3>3. a # src
      BY <1>7, <3>1, <3>2
    <3>4. ~ (src < a)
      <4>1. SUFFICES ASSUME src < a PROVE FALSE
        OBVIOUS
      <4>2. rep[src].end <= rep[a].start
        BY <3>2, <4>1 DEF IInv, Ordered
      <4> QED BY <1>7, <2>2, <3>1, <3>2, <4>2
    <3>5. a \in Nat
      BY <1>1, ElementTypes
    <3> QED BY <3>1, <3>3, <3>4, <3>5
  <2> QED BY <2>1, <2>3, <2>4
<1>11. AnswersInOrder'
  <2>1. SUFFICES ASSUME NEW c \in 1..k, Stored(c)'
                 PROVE  /\ res'[c].src <= c
                        /\ res'[c].src < c => Disturbed(res[c].src)'
                        /\ \A b \in 1..(c - 1) : Stored(b)' => res'[b].src < res'[c].src
    BY <1>4 DEF AnswersInOrder
  <2>2. /\ res'[c].src \in DOMAIN rep /\ DOMAIN rep \subseteq Nat \ {0}
    BY <1>1, <1>3, <1>4, <1>9, <2>1, ElementTypes DEF ServedIsBehind
  <2>3. res'[c].src < c => res'[c].src \in 1..(k - 1)
    BY <2>2
  <2>4. CASE c = k
    <3>1. /\ src <= k
          /\ src < k => Disturbed(src) /\ src \in 1..(k - 1)
          /\ \A b \in 1..(k - 1) : Stored(b) => res[b].src < src
      BY <1>4, <1>10, <2>1, <2>3, <2>4
    <3>2. src < k => Disturbed(res[k].src)'
      <4>1. src < k => Disturbed(src)'
        BY <1>5, <3>1
      <4> QED BY <1>4, <4>1 DEF Disturbed
    <3> QED BY <1>4, <1>5, <2>4, <3>1, <3>2
  <2>5. CASE c \in 1..(k - 1)
    <3>1. Stored(c) /\ res'[c] = res[c] /\ \A b \in 1..(c - 1) : b \in 1..(k - 1)
      BY <1>4, <1>5, <2>1, <2>5
    <3>2. /\ res[c].src <= c
          /\ res[c].src < c => Disturbed(res[c].src)
          /\ \A b \in 1..(c - 1) : Stored(b) => res[b].src < res[c].src
      BY <1>4, <2>5, <3>1 DEF AnswersInOrder
    <3>3. res[c].src < c => Disturbed(res[c].src)'
      <4>1. ASSUME NEW a \in 1..(k - 1), a = res[c].src, a < c PROVE Disturbed(res[c].src)'
        <5>1. Disturbed(a)'
          BY <1>5, <3>2, <4>1
        <5> QED BY <3>1, <4>1, <5>1 DEF Disturbed
      <4> QED BY <2>3, <3>1, <4>1
    <3> QED BY <1>4, <1>5, <3>1, <3>2, <3>3
  <2> QED BY <2>4, <2>5
<1> QED BY <1>9, <1>11

\* Every step keeps the answers in order.
LEMMA OrderStep ==
    ASSUME IInv, IInv', ServedIsBehind, AnswersInOrder, [Next]_vars
    PROVE  ServedIsBehind' /\ AnswersInOrder'
<1>1. TypeOK
  BY DEF IInv
<1>2. from \in Nat /\ rd \in Nat /\ from <= rd
  BY <1>1 DEF TypeOK
<1>3. CASE PollError
  BY <1>3, OrderSettled DEF PollError
<1>4. CASE GreetingRead
  <2>1. Cur \in Nat
    BY <1>1, ElementTypes DEF Cur
  <2> QED BY <1>4, <2>1, OrderSettled DEF GreetingRead, PollTimeout
<1>5. CASE AckRead
  <2>1. Cur \in Nat
    BY <1>1, ElementTypes DEF Cur
  <2> QED BY <1>5, <2>1, OrderSettled DEF AckRead, PollTimeout
<1>6. CASE RegsRead
  <2>1. Cur \in Nat /\ qmp_populate_reg(Cur) \in Nat
    BY <1>1, ElementTypes DEF Cur, qmp_populate_reg
  <2> QED BY <1>6, <2>1, OrderSettled DEF RegsRead, PollTimeout
<1>7. CASE MemRead
  <2>1. pc = "reading" /\ Cur \in 1..Len(reqs) /\ reqs[Cur].size \in Nat
    BY <1>1, <1>7, TimeoutFacts, ElementTypes DEF MemRead, Request
  <2>2. FirstMarker \in Nat /\ qmp_populate_mem(reqs[Cur].size) \in Nat
    BY <2>1, PopulateMemType, Zenon
  <2>3. qmp_populate_mem(reqs[Cur].size) > 0 => FirstMarker \in Markers
    BY <1>1, FirstMarkerType DEF qmp_populate_mem
  <2>4. CASE Settle("err", 0, 0, "ready")
    BY <2>1, <2>4, OrderSettled
  <2>5. CASE \/ Settle("ok", FirstMarker, qmp_populate_mem(reqs[Cur].size), "ready")
             \/ Settle("ok", FirstMarker, qmp_populate_mem(reqs[Cur].size), "killed")
    BY <2>1, <2>2, <2>3, <2>5, OrderSettled
  <2> QED BY <1>7, <2>4, <2>5 DEF MemRead
<1>8. CASE qmp_establish_conn \/ qmp_negotiate \/ qmp_get_registers \/ qmp_readmem_part
  <2>1. CASE \E r \in Request : Send(r) /\ pc # "reading"
    <3>1. PICK r \in Request : Send(r) /\ pc # "reading"
      BY <2>1
    <3>2. \A i \in DOMAIN reqs : i \in DOMAIN reqs' /\ reqs'[i] = reqs[i]
      BY <1>1, <3>1, AppendFacts DEF Send, TypeOK
    <3>3. res' = res /\ rep' = rep /\ Behind <= Behind'
      BY <1>2, <3>1 DEF Send, server, Behind
    <3> QED BY <3>2, <3>3, OrderKept
  <2>2. CASE pc = "connect" /\ pc' = "failed" /\ UNCHANGED <<reqs, rd, from, faults, res, server>>
    <3>1. res' = res /\ rep' = rep /\ reqs' = reqs /\ Behind <= Behind'
      BY <1>2, <2>2 DEF server, Behind
    <3> QED BY <3>1, OrderKept
  <2>3. \A n \in PartSizes : n \in Nat
    BY QmpAssumption
  <2>4. /\ [kind |-> "greet", size |-> 0] \in Request /\ [kind |-> "ack", size |-> 0] \in Request
        /\ [kind |-> "regs", size |-> 0] \in Request
        /\ \A n \in PartSizes : [kind |-> "mem", size |-> n] \in Request
    BY <2>3 DEF Request, Kinds
  <2>5. \/ \E r \in Request : Send(r) /\ pc # "reading"
        \/ pc = "connect" /\ pc' = "failed" /\ UNCHANGED <<reqs, rd, from, faults, res, server>>
    BY <1>8, <2>4 DEF qmp_establish_conn, qmp_negotiate, qmp_get_registers, qmp_readmem_part
  <2> QED BY <2>1, <2>2, <2>5
<1>9. CASE ServerReply
  <2>1. \A i \in DOMAIN rep : i \in DOMAIN rep' /\ rep'[i] = rep[i]
    <3>1. PICK e : rep' = Append(rep, e)
      BY <1>9 DEF ServerReply
    <3>2. rep \in Seq(Reply) /\ rep' \in Seq(Reply)
      BY <1>1 DEF TypeOK, IInv
    <3> QED BY <3>1, <3>2
  <2>2. res' = res /\ reqs' = reqs /\ Behind <= Behind'
    BY <1>2, <1>9 DEF ServerReply, client, Behind
  <2> QED BY <2>1, <2>2, OrderKept
<1>10. CASE \/ ServerEvent \/ Deliver \/ Hangup \/ qmp_read \/ BufferOverrun \/ WriteError
            \/ WriteSigpipe \/ qmp_client_uninit \/ UNCHANGED vars
  <2>1. res' = res /\ reqs' = reqs /\ rep' = rep /\ from' = from
    BY <1>10, Zenon DEF ServerEvent, Deliver, Hangup, qmp_read, BufferOverrun, WriteError,
       WriteSigpipe, qmp_client_uninit, vars, client, server
  <2>2. Behind <= Behind'
    <3>1. rd' = rd \/ (pc = "reading" /\ pc' = "reading")
      BY <1>10, Zenon DEF ServerEvent, Deliver, Hangup, qmp_read, BufferOverrun, WriteError,
         WriteSigpipe, qmp_client_uninit, vars, client, server
    <3>2. pc' = "reading" => pc = "reading"
      BY <1>10, Zenon DEF ServerEvent, Deliver, Hangup, qmp_read, BufferOverrun, WriteError,
         WriteSigpipe, qmp_client_uninit, vars, client, server
    <3>3. CASE pc' = "reading"
      BY <1>2, <2>1, <3>2, <3>3 DEF Behind
    <3>4. CASE pc' # "reading"
      <4>1. rd' = rd
        BY <3>1, <3>4
      <4>2. Behind' = rd
        BY <3>4, <4>1 DEF Behind
      <4>3. Behind \in Nat /\ Behind <= rd
        BY <1>2 DEF Behind
      <4> QED BY <4>2, <4>3
    <3> QED BY <3>3, <3>4
  <2> QED BY <2>1, <2>2, OrderKept
<1> QED
  BY <1>3, <1>4, <1>5, <1>6, <1>7, <1>8, <1>9, <1>10, Zenon
  DEF Next, Server, Reader, Caller, ReadReturns, Ended, qmp_read_eof

\* Memory reads of a dialogue out of step are served with answers in the order of the
\* requests, each at most once, and only those to disturbed requests go astray, for every
\* number of requests, of faults and of events and however QEMU's answers are cut.
THEOREM ServedInOrder == Spec => []AnswersInOrder
<1>1. Init => ServedIsBehind /\ AnswersInOrder
  BY DEF Init, ServedIsBehind, AnswersInOrder
<1>2. IInv /\ IInv' /\ ServedIsBehind /\ AnswersInOrder /\ [Next]_vars
      => ServedIsBehind' /\ AnswersInOrder'
  BY OrderStep
<1> QED BY <1>1, <1>2, Invariance, PTL DEF Spec

=============================================================================

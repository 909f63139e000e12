----------------------------- MODULE PrbProofs -----------------------------
(***************************************************************************)
(* Proofs about PrbSnapshot, for every size of the rings, every length of  *)
(* text and every interleaving with the guest.                             *)
(*                                                                         *)
(* First, dump_record stays inside its copy of the text ring.  A copied    *)
(* descriptor may combine a begin and a next of different records, so      *)
(* nothing is known of their order or distance.  What is known is that     *)
(* each is a multiple of the word size or NoLpos, and this is enough.      *)
(*                                                                         *)
(* What the dump prints depends on how the guest uses its rings.  XInv     *)
(* says it: which records own their slots, where blocks lie and what they  *)
(* hold (GInv), and how the words copied so far compare with them (RInv).  *)
(* Here are the arithmetic of ids and blocks and the steps by which the    *)
(* guest takes a slot; PrbExactProofs has the other steps and the          *)
(* theorems.                                                               *)
(***************************************************************************)
EXTENDS PrbSnapshot, TLAPS

\* A step that names no prover is tried with these two, in this order.
USE SMTT(30), ZenonT(30)

\* Positions a block may begin or end at, and what begin and next may hold.
Even == {x \in Nat : \E i \in Nat : x = 2 * i}
Lpos == Even \cup {NoLpos}

\* What a descriptor holds.
Desc == [id : 0..(M - 1), st : States, begin : Lpos, next : Lpos]

\* The phases of the writer.
Phases == {"idle", "reserve", "begin", "next", "text", "len", "commit", "extend"}

\* Types of the guest's variables, with the parity of positions.
GuestOK ==
    /\ head \in Nat /\ tail \in Nat /\ dhead \in Even
    /\ desc \in [0..(N - 1) -> Desc]
    /\ len \in [0..(N - 1) -> 0..MaxText]
    /\ w \in [ph : Phases, len : 0..MaxText]

\* A newest record with text has a block, from the moment its begin is set: this
\* is what Reopen relies on.
HeadBlock ==
    /\ w.ph \in {"next", "text", "len", "commit"} /\ w.len > 0
       => desc[Slot(head)].begin \in Even
    /\ w.ph = "commit" => len[Slot(head)] = w.len
    /\ w.ph = "extend" => desc[Slot(head)].begin \in Even
    /\ w.ph = "idle" /\ desc[Slot(head)].st = "committed" /\ len[Slot(head)] > 0
       => desc[Slot(head)].begin \in Even

\* The same of the reader's copies, torn or not.
CopyOK ==
    /\ m = [head |-> m.head, tail |-> m.tail, desc |-> m.desc, len |-> m.len,
            text |-> m.text]
    /\ k \in Nat /\ m.head \in Nat /\ m.tail \in Nat
    /\ m.desc \in [0..(N - 1) -> Desc]
    /\ m.len \in [0..(N - 1) -> 0..MaxText]

\* The invariant behind InBounds.
IInv == GuestOK /\ HeadBlock /\ CopyOK /\ InBounds

-----------------------------------------------------------------------------
(***************************************************************************)
(* Arithmetic.                                                             *)
(***************************************************************************)

\* Ids are below M.
LEMMA IdType == ASSUME NEW n \in Nat PROVE Id(n) \in 0..(M - 1)
BY PrbAssumption DEF Id

\* Slots are below N.
LEMMA SlotType == ASSUME NEW n \in Nat PROVE Slot(n) \in 0..(N - 1)
<1>1. Id(n) \in Nat
  BY IdType, PrbAssumption
<1> QED
  BY <1>1, PrbAssumption DEF Slot

\* The ring has an even number of units.
LEMMA RingEven == \E t \in Nat : t > 0 /\ T = 2 * t
<1>1. T = 2 * (T \div 2) /\ T \div 2 \in Nat /\ T > 0
  BY PrbAssumption DEF Header
<1> QED
  BY <1>1

\* The position in the ring of an even position is even.
LEMMA ModEven == ASSUME NEW x \in Even PROVE x % T \in Even
<1>1. PICK i \in Nat : x = 2 * i
  BY DEF Even
<1>2. PICK t \in Nat : t > 0 /\ T = 2 * t
  BY RingEven
<1>3. PICK q \in Nat : q = x \div T
  BY <1>1, <1>2
<1>4. x % T \in Nat /\ x = T * q + (x % T)
  <2>1. x \in Nat /\ T \in Nat /\ T > 0
    BY <1>1, <1>2
  <2> QED
    BY <2>1, <1>3
<1>5. PICK p \in Nat : p = t * q
  BY <1>2
<1>6. T * q = 2 * p
  BY <1>2, <1>5
<1>7. x % T = 2 * (i - p) /\ i - p \in Nat
  BY <1>1, <1>4, <1>5, <1>6
<1> QED
  BY <1>4, <1>7, Zenon DEF Even

\* Blocks that begin at an even position end at one.
LEMMA BlockEndEven ==
    ASSUME NEW b \in Even, NEW l \in Nat PROVE BlockEnd(b, l) \in Even
<1> DEFINE h == 1 + ((l + 1) \div 2)
<1>1. h \in Nat /\ BlockSize(l) = 2 * h
  BY DEF BlockSize, Header
<1>2. PICK i \in Nat : b = 2 * i
  BY DEF Even
<1>3. PICK t \in Nat : t > 0 /\ T = 2 * t
  BY RingEven
<1> HIDE DEF h
<1> DEFINE e == b + BlockSize(l)
<1>4. e = 2 * (i + h) /\ e \in Nat /\ i + h \in Nat
  BY <1>1, <1>2
<1>5. e \div T \in Nat
  BY <1>3, <1>4
<1>6. PICK q \in Nat : q = e \div T
  BY <1>5
<1>7. q * T = 2 * (q * t) /\ q * t \in Nat
  BY <1>3
<1>8. q * T + BlockSize(l) = 2 * (q * t + h) /\ q * t + h \in Nat
  BY <1>1, <1>7
<1>9. BlockEnd(b, l) \in {e, q * T + BlockSize(l)}
  BY <1>6 DEF BlockEnd
<1> QED
  BY <1>4, <1>8, <1>9 DEF Even

\* The arithmetic of dump_record: the unsigned subtraction wraps only for a text
\* that starts in the first units of the ring, where the longest text fits.
LEMMA SpanInBounds ==
    ASSUME NEW b \in 0..(T - 1), NEW e \in 0..(T - 1), NEW l \in 0..MaxText,
           b \in Even \/ b = 1, e \in Even \/ e = 1, b # e
    PROVE  Span(b, e, l).start + Span(b, e, l).len <= T
<1> DEFINE a == (IF b > e THEN 0 ELSE b) + Header
           room == (e - a) % W
<1>1. a \in Nat /\ T \in Nat /\ MaxText \in Nat /\ MaxText + 3 < T
  BY PrbAssumption DEF Header
<1>2. room \in Nat /\ (e >= a => room = e - a)
  BY <1>1, PrbAssumption
<1>3. e < a => a <= 3
  <2>1. CASE b > e
    BY <2>1 DEF Header
  <2>2. CASE b < e /\ b = 1
    BY <2>2 DEF Header
  <2>3. CASE b < e /\ b \in Even
    <3>1. PICK i \in Nat : b = 2 * i
      BY <2>3 DEF Even
    <3>2. CASE e = 1
      BY <2>3, <3>1, <3>2 DEF Header
    <3>3. CASE e \in Even
      <4>1. PICK j \in Nat : e = 2 * j
        BY <3>3 DEF Even
      <4> QED
        BY <2>3, <3>1, <4>1 DEF Header
    <3> QED
      BY <3>2, <3>3
  <2> QED
    BY <2>1, <2>2, <2>3
<1> HIDE DEF a, room
<1>4. Span(b, e, l) = [start |-> a, len |-> IF room < l THEN room ELSE l]
  BY DEF Span, a, room
<1> QED
  BY <1>1, <1>2, <1>3, <1>4

\* What dump_record prints lies in the copy.
LEMMA RecordInBounds ==
    ASSUME CopyOK, NEW id \in Nat
    PROVE  dump_record(id).kind = "text" =>
               dump_record(id).span.start + dump_record(id).span.len <= T
<1> DEFINE s == id % N
           b == m.desc[s].begin % T
           e == m.desc[s].next % T
<1>1. s \in 0..(N - 1)
  BY PrbAssumption
<1>2. m.desc[s].begin \in Lpos /\ m.desc[s].next \in Lpos /\ m.len[s] \in 0..MaxText
  BY <1>1, Zenon DEF CopyOK, Desc
<1>3. ASSUME NEW x \in Lpos
      PROVE  x % T \in 0..(T - 1) /\ (x % T \in Even \/ x % T = 1)
  <2>1. T \in Nat /\ T > 1 /\ x \in Nat
    BY PrbAssumption DEF Lpos, Even, NoLpos, Header
  <2>2. x % T \in 0..(T - 1)
    BY <2>1
  <2>3. CASE x \in Even
    BY <2>2, <2>3, ModEven
  <2>4. CASE x = NoLpos
    BY <2>1, <2>2, <2>4 DEF NoLpos
  <2> QED
    BY <2>3, <2>4 DEF Lpos
<1>4. /\ b \in 0..(T - 1) /\ (b \in Even \/ b = 1)
      /\ e \in 0..(T - 1) /\ (e \in Even \/ e = 1)
  BY <1>2, <1>3
<1>5. dump_record(id).kind = "text" =>
          b # e /\ dump_record(id).span = Span(b, e, m.len[s])
  BY DEF dump_record
<1> HIDE DEF s, b, e
<1> QED
  BY <1>2, <1>4, <1>5, SpanInBounds

-----------------------------------------------------------------------------
(***************************************************************************)
(* Bounds.                                                                 *)
(***************************************************************************)

\* The invariant holds at the start.
LEMMA InitInv == Init => IInv
<1> SUFFICES ASSUME Init PROVE IInv
  OBVIOUS
<1> USE DEF Init, GuestInit, ReaderInit
<1>1. 0 \in Even /\ 0 \in 0..(M - 1) /\ 0 \in 0..MaxText
  BY PrbAssumption DEF Even
<1>2. Id(0) \in 0..(M - 1) /\ Slot(0) \in 0..(N - 1)
  BY IdType, SlotType
<1>3. GuestOK
  BY <1>1, <1>2 DEF GuestOK, Phases, Desc, Lpos, States
<1>4. HeadBlock
  BY <1>2 DEF HeadBlock
<1>5. CopyOK
  BY <1>1 DEF CopyOK, Desc, Lpos, States
<1>6. InBounds
  BY DEF InBounds
<1> QED
  BY <1>3, <1>4, <1>5, <1>6 DEF IInv

\* Giving up blocks changes states only, and to reusable.
LEMMA RecycledKeeps ==
    ASSUME GuestOK, NEW V
    PROVE  /\ Recycled(V) \in [0..(N - 1) -> Desc]
           /\ \A s \in 0..(N - 1) : /\ Recycled(V)[s].begin = desc[s].begin
                                    /\ Recycled(V)[s].st \in {"reusable", desc[s].st}
<1>1. DOMAIN desc = 0..(N - 1)
  BY DEF GuestOK
<1>2. ASSUME NEW s \in 0..(N - 1)
      PROVE  /\ Recycled(V)[s] \in Desc
             /\ Recycled(V)[s].begin = desc[s].begin
             /\ Recycled(V)[s].st \in {"reusable", desc[s].st}
  <2>1. desc[s] \in Desc
    BY DEF GuestOK
  <2>2. [desc[s] EXCEPT !.st = "reusable"] \in Desc
    BY <2>1 DEF Desc, States
  <2>3. [desc[s] EXCEPT !.st = "reusable"].begin = desc[s].begin
    BY <2>1 DEF Desc
  <2>4. [desc[s] EXCEPT !.st = "reusable"].st = "reusable"
    BY <2>1 DEF Desc
  <2>5. Recycled(V)[s] \in {desc[s], [desc[s] EXCEPT !.st = "reusable"]}
    BY <1>1 DEF Recycled
  <2> QED
    BY <2>1, <2>2, <2>3, <2>4, <2>5, Zenon
<1>3. Recycled(V) = [s \in 0..(N - 1) |-> Recycled(V)[s]]
  BY <1>1 DEF Recycled
<1> QED
  BY <1>2, <1>3

\* Steps of the guest do not touch the copies and the output.
LEMMA GuestStep ==
    ASSUME IInv, GuestOK', HeadBlock', UNCHANGED <<k, m, out>>
    PROVE  IInv'
BY DEF IInv, CopyOK, InBounds

\* Steps of the reader before the dump do not touch the guest and the output.
LEMMA ReaderStep ==
    ASSUME IInv, CopyOK', UNCHANGED <<guest, out>>
    PROVE  IInv'
BY DEF IInv, GuestOK, HeadBlock, InBounds, guest, Slot, Id

\* Every step of the guest's writer keeps the invariant.
LEMMA GuestInv == ASSUME IInv, Guest PROVE IInv'
<1> USE DEF reader, history
<1>0. /\ GuestOK /\ HeadBlock
      /\ Slot(head) \in 0..(N - 1) /\ Id(head) \in 0..(M - 1)
      /\ desc[Slot(head)] \in Desc
      /\ DOMAIN desc = 0..(N - 1)
      /\ w.len \in 0..MaxText /\ MaxText \in Nat
  BY SlotType, IdType, PrbAssumption, Zenon DEF IInv, GuestOK
<1>1. CASE PushTail
  <2>1. GuestOK'
    BY <1>0, <1>1, RecycledKeeps DEF PushTail, GuestOK
  <2>2. HeadBlock'
    <3>1. Slot(head)' = Slot(head)
      BY <1>1 DEF PushTail, Slot, Id
    <3> QED
      BY <1>0, <1>1, <3>1, RecycledKeeps DEF PushTail, HeadBlock
  <2> QED
    BY <1>1, <2>1, <2>2, GuestStep DEF PushTail
<1>2. CASE Reserve
  <2>1. PICK l \in TextLens : w' = [ph |-> "reserve", len |-> l]
    BY <1>2 DEF Reserve
  <2>2. l \in 0..MaxText
    BY PrbAssumption
  <2>3. GuestOK'
    BY <1>0, <1>2, <2>1, <2>2 DEF Reserve, GuestOK, Phases
  <2>4. HeadBlock'
    BY <2>1 DEF HeadBlock
  <2> QED
    BY <1>2, <2>3, <2>4, GuestStep DEF Reserve
<1>3. CASE TakeSlot
  <2>1. ASSUME NEW s \in 0..(N - 1) PROVE desc'[s] \in Desc
    <3>1. desc[s] \in Desc
      BY <1>0 DEF GuestOK
    <3>2. [desc[s] EXCEPT !.id = Id(head), !.st = "reserved"] \in Desc
      BY <1>0, <3>1, Zenon DEF Desc, States
    <3>3. [desc[s] EXCEPT !.st = "finalized"] \in Desc
      BY <3>1 DEF Desc, States
    <3> QED
      BY <1>0, <1>3, <3>1, <3>2, <3>3, Zenon DEF TakeSlot
  <2>2. desc' = [s \in 0..(N - 1) |-> desc'[s]]
    BY <1>0, <1>3, Zenon DEF TakeSlot
  <2>3. w' = [ph |-> "begin", len |-> w.len]
    BY <1>0, <1>3, Zenon DEF TakeSlot, GuestOK
  <2>4. GuestOK'
    <3>1. desc' \in [0..(N - 1) -> Desc]
      BY <2>1, <2>2
    <3> QED
      BY <1>0, <1>3, <2>3, <3>1, Zenon DEF TakeSlot, GuestOK, Phases
  <2>5. HeadBlock'
    BY <2>3 DEF HeadBlock
  <2> QED
    BY <1>3, <2>4, <2>5, GuestStep, Zenon DEF TakeSlot
<1>4. CASE AllocBegin
  <2> DEFINE V == IF w.len = 0 THEN {} ELSE Victims(BlockEnd(dhead, w.len))
             b == IF w.len = 0 THEN NoLpos ELSE dhead
             R == Recycled(V)
  <2>1. desc' = [R EXCEPT ![Slot(head)].begin = b]
    BY <1>4 DEF AllocBegin
  <2>2. R \in [0..(N - 1) -> Desc]
    BY <1>0, RecycledKeeps
  <2>3. b \in Lpos /\ (w.len > 0 => b \in Even)
    BY <1>0 DEF GuestOK, Lpos
  <2>4. w' = [ph |-> "next", len |-> w.len]
    BY <1>0, <1>4 DEF AllocBegin, GuestOK
  <2> HIDE DEF V, b, R
  <2>5. [R[Slot(head)] EXCEPT !.begin = b] \in Desc
    BY <1>0, <2>2, <2>3 DEF Desc
  <2>6. desc' = [R EXCEPT ![Slot(head)] = [R[Slot(head)] EXCEPT !.begin = b]]
    BY <2>1
  <2>7. desc' \in [0..(N - 1) -> Desc] /\ desc'[Slot(head)].begin = b
    BY <1>0, <2>2, <2>5, <2>6 DEF Desc
  <2>8. GuestOK'
    BY <1>0, <1>4, <2>4, <2>7 DEF AllocBegin, GuestOK, Phases
  <2>9. HeadBlock'
    <3>1. Slot(head)' = Slot(head)
      BY <1>4 DEF AllocBegin, Slot, Id
    <3> QED
      BY <2>3, <2>4, <2>7, <3>1 DEF HeadBlock
  <2> QED
    BY <1>4, <2>8, <2>9, GuestStep DEF AllocBegin
<1>5. CASE AllocNext
  <2>1. PICK e \in Lpos : /\ desc' = [desc EXCEPT ![Slot(head)].next = e]
                          /\ dhead' \in Even
    <3>1. CASE w.len = 0
      BY <1>0, <1>5, <3>1 DEF AllocNext, GuestOK, Lpos
    <3>2. CASE w.len # 0
      <4>1. BlockEnd(dhead, w.len) \in Even
        BY <1>0, BlockEndEven DEF GuestOK
      <4> QED
        BY <1>5, <3>2, <4>1 DEF AllocNext, Lpos
    <3> QED
      BY <3>1, <3>2
  <2>2. w' = [ph |-> IF w.len = 0 THEN "len" ELSE "text", len |-> w.len] /\ w.ph = "next"
    BY <1>0, <1>5 DEF AllocNext, GuestOK
  <2>3. [desc[Slot(head)] EXCEPT !.next = e] \in Desc
    BY <1>0, <2>1 DEF Desc
  <2>4. desc' = [desc EXCEPT ![Slot(head)] = [desc[Slot(head)] EXCEPT !.next = e]]
    BY <2>1
  <2>5. /\ desc' \in [0..(N - 1) -> Desc]
        /\ desc'[Slot(head)].begin = desc[Slot(head)].begin
    BY <1>0, <2>3, <2>4 DEF Desc, GuestOK
  <2>6. GuestOK'
    BY <1>0, <1>5, <2>1, <2>2, <2>5 DEF AllocNext, GuestOK, Phases
  <2>7. HeadBlock'
    <3>1. Slot(head)' = Slot(head)
      BY <1>5 DEF AllocNext, Slot, Id
    <3> QED
      BY <1>0, <2>2, <2>5, <3>1 DEF HeadBlock
  <2> QED
    BY <1>5, <2>6, <2>7, GuestStep DEF AllocNext
<1>6. CASE WriteText
  <2>1. w' = [ph |-> "len", len |-> w.len] /\ w.ph = "text"
    BY <1>0, <1>6 DEF WriteText, GuestOK
  <2>2. GuestOK'
    BY <1>0, <1>6, <2>1 DEF WriteText, GuestOK, Phases
  <2>3. HeadBlock'
    <3>1. Slot(head)' = Slot(head)
      BY <1>6 DEF WriteText, Slot, Id
    <3> QED
      BY <1>0, <1>6, <2>1, <3>1 DEF WriteText, HeadBlock
  <2> QED
    BY <1>6, <2>2, <2>3, GuestStep DEF WriteText
<1>7. CASE WriteLen
  <2>1. w' = [ph |-> "commit", len |-> w.len] /\ w.ph = "len"
    BY <1>0, <1>7 DEF WriteLen, GuestOK
  <2>2. GuestOK' /\ len'[Slot(head)] = w.len
    BY <1>0, <1>7, <2>1 DEF WriteLen, GuestOK, Phases
  <2>3. HeadBlock'
    <3>1. Slot(head)' = Slot(head)
      BY <1>7 DEF WriteLen, Slot, Id
    <3> QED
      BY <1>0, <1>7, <2>1, <2>2, <3>1 DEF WriteLen, HeadBlock
  <2> QED
    BY <1>7, <2>2, <2>3, GuestStep DEF WriteLen
<1>8. CASE Commit
  <2>1. PICK st \in {"committed", "finalized"} :
            desc' = [desc EXCEPT ![Slot(head)].st = st]
    BY <1>8, Zenon DEF Commit
  <2>2. w' = [ph |-> "idle", len |-> w.len] /\ w.ph = "commit"
    BY <1>0, <1>8 DEF Commit, GuestOK
  <2>3. [desc[Slot(head)] EXCEPT !.st = st] \in Desc
    BY <1>0 DEF Desc, States
  <2>4. desc' = [desc EXCEPT ![Slot(head)] = [desc[Slot(head)] EXCEPT !.st = st]]
    BY <2>1
  <2>5. /\ desc' \in [0..(N - 1) -> Desc]
        /\ desc'[Slot(head)].begin = desc[Slot(head)].begin
    BY <1>0, <2>3, <2>4 DEF Desc, GuestOK
  <2>6. GuestOK'
    BY <1>0, <1>8, <2>2, <2>5 DEF Commit, GuestOK, Phases
  <2>7. HeadBlock'
    <3>1. Slot(head)' = Slot(head)
      BY <1>8 DEF Commit, Slot, Id
    <3> QED
      BY <1>0, <1>8, <2>2, <2>5, <3>1 DEF Commit, HeadBlock
  <2> QED
    BY <1>8, <2>6, <2>7, GuestStep DEF Commit
<1>9. CASE Reopen
  <2>1. PICK l \in TextLens : w' = [ph |-> "extend", len |-> l]
    BY <1>9 DEF Reopen
  <2>2. l \in 0..MaxText
    BY PrbAssumption
  <2>3. [desc[Slot(head)] EXCEPT !.st = "reserved"] \in Desc
    BY <1>0 DEF Desc, States
  <2>4. desc' = [desc EXCEPT ![Slot(head)] =
                                [desc[Slot(head)] EXCEPT !.st = "reserved"]]
    BY <1>9 DEF Reopen
  <2>5. /\ desc' \in [0..(N - 1) -> Desc]
        /\ desc'[Slot(head)].begin = desc[Slot(head)].begin
    BY <1>0, <2>3, <2>4 DEF Desc, GuestOK
  <2>6. GuestOK'
    BY <1>0, <1>9, <2>1, <2>2, <2>5 DEF Reopen, GuestOK, Phases
  <2>7. HeadBlock'
    <3>1. Slot(head)' = Slot(head)
      BY <1>9 DEF Reopen, Slot, Id
    <3>2. desc[Slot(head)].begin \in Even
      BY <1>0, <1>9 DEF Reopen, HeadBlock
    <3> QED
      BY <2>1, <2>5, <3>1, <3>2 DEF HeadBlock
  <2> QED
    BY <1>9, <2>6, <2>7, GuestStep DEF Reopen
<1>10. CASE Extend
  <2> DEFINE e == BlockEnd(desc[Slot(head)].begin, w.len)
             R == Recycled(Victims(e))
  <2>1. desc' = [R EXCEPT ![Slot(head)].next = e] /\ dhead' = e
    BY <1>10 DEF Extend
  <2>2. w.ph = "extend" /\ w' = [ph |-> "text", len |-> w.len]
    BY <1>0, <1>10 DEF Extend, GuestOK
  <2>3. desc[Slot(head)].begin \in Even
    BY <1>0, <2>2 DEF HeadBlock
  <2>4. e \in Even
    BY <1>0, <2>3, BlockEndEven
  <2>5. /\ R \in [0..(N - 1) -> Desc]
        /\ R[Slot(head)].begin = desc[Slot(head)].begin
    BY <1>0, RecycledKeeps
  <2> HIDE DEF e, R
  <2>6. [R[Slot(head)] EXCEPT !.next = e] \in Desc
    BY <1>0, <2>4, <2>5 DEF Desc, Lpos
  <2>7. desc' = [R EXCEPT ![Slot(head)] = [R[Slot(head)] EXCEPT !.next = e]]
    BY <2>1
  <2>8. /\ desc' \in [0..(N - 1) -> Desc]
        /\ desc'[Slot(head)].begin \in Even
    BY <1>0, <2>3, <2>5, <2>6, <2>7 DEF Desc
  <2>9. GuestOK'
    BY <1>0, <1>10, <2>1, <2>2, <2>4, <2>8, SMTT(30) DEF Extend, GuestOK, Phases
  <2>10. HeadBlock'
    <3>1. Slot(head)' = Slot(head)
      BY <1>10, Zenon DEF Extend, Slot, Id
    <3> QED
      BY <2>2, <2>8, <3>1 DEF HeadBlock
  <2> QED
    BY <1>10, <2>9, <2>10, GuestStep DEF Extend
<1> QED
  BY <1>1, <1>2, <1>3, <1>4, <1>5, <1>6, <1>7, <1>8, <1>9, <1>10 DEF Guest

\* Every step of dump_lockless_record_log keeps the invariant.
LEMMA ReaderInv == ASSUME IInv, Reader PROVE IInv'
<1>0. GuestOK /\ CopyOK
  BY DEF IInv
<1>1. CASE ReadHead
  BY <1>0, <1>1, ReaderStep DEF ReadHead, CopyOK, GuestOK
<1>2. CASE ReadTail
  BY <1>0, <1>2, ReaderStep DEF ReadTail, CopyOK, GuestOK
<1>3. CASE ReadDescs
  <2> DEFINE s == k \div 3
             d == desc[s]
  <2>1. \/ m' = [m EXCEPT !.desc[s].id = d.id, !.desc[s].st = d.st]
        \/ m' = [m EXCEPT !.desc[s].begin = d.begin]
        \/ m' = [m EXCEPT !.desc[s].next = d.next]
    <3>1. k % 3 \in {0, 1, 2}
      BY <1>0 DEF CopyOK
    <3>2. CASE k % 3 = 0
      BY <1>3, <3>2 DEF ReadDescs
    <3>3. CASE k % 3 = 1
      BY <1>3, <3>3 DEF ReadDescs
    <3>4. CASE k % 3 = 2
      BY <1>3, <3>4 DEF ReadDescs
    <3> QED
      BY <3>1, <3>2, <3>3, <3>4
  <2>2. PICK r : /\ m' = [m EXCEPT !.desc = [m.desc EXCEPT ![s] = r]]
                 /\ s \in 0..(N - 1) => r \in Desc
    <3>1. s \in 0..(N - 1) => d \in Desc /\ m.desc[s] \in Desc
      BY <1>0, Zenon DEF GuestOK, CopyOK
    <3> HIDE DEF s, d
    <3>2. CASE m' = [m EXCEPT !.desc[s].id = d.id, !.desc[s].st = d.st]
      <4>1. m' = [m EXCEPT !.desc = [m.desc EXCEPT ![s] =
                     [m.desc[s] EXCEPT !.id = d.id, !.st = d.st]]]
        BY <1>0, <3>2, Zenon DEF CopyOK
      <4>2. s \in 0..(N - 1) => [m.desc[s] EXCEPT !.id = d.id, !.st = d.st] \in Desc
        BY <3>1, Zenon DEF Desc
      <4> QED
        BY <4>1, <4>2, Zenon
    <3>3. CASE m' = [m EXCEPT !.desc[s].begin = d.begin]
      <4>1. m' = [m EXCEPT !.desc = [m.desc EXCEPT ![s] =
                     [m.desc[s] EXCEPT !.begin = d.begin]]]
        BY <3>3
      <4>2. s \in 0..(N - 1) => [m.desc[s] EXCEPT !.begin = d.begin] \in Desc
        BY <3>1 DEF Desc
      <4> QED
        BY <4>1, <4>2
    <3>4. CASE m' = [m EXCEPT !.desc[s].next = d.next]
      <4>1. m' = [m EXCEPT !.desc = [m.desc EXCEPT ![s] =
                     [m.desc[s] EXCEPT !.next = d.next]]]
        BY <3>4
      <4>2. s \in 0..(N - 1) => [m.desc[s] EXCEPT !.next = d.next] \in Desc
        BY <3>1 DEF Desc
      <4> QED
        BY <4>1, <4>2
    <3> QED
      BY <2>1, <3>2, <3>3, <3>4
  <2>3. [m.desc EXCEPT ![s] = r] \in [0..(N - 1) -> Desc]
    BY <1>0, <2>2, Zenon DEF CopyOK
  <2>4. k' \in Nat
    BY <1>0, <1>3 DEF ReadDescs, CopyOK
  <2>5. CopyOK'
    BY <1>0, <2>2, <2>3, <2>4 DEF CopyOK
  <2> QED
    BY <1>3, <2>5, ReaderStep DEF ReadDescs
<1>4. CASE ReadInfos
  <2>1. m' = [m EXCEPT !.len = [m.len EXCEPT ![k] = len[k]]]
    BY <1>4 DEF ReadInfos
  <2>2. [m.len EXCEPT ![k] = len[k]] \in [0..(N - 1) -> 0..MaxText]
    BY <1>0, Zenon DEF CopyOK, GuestOK
  <2>3. k' \in Nat
    BY <1>0, <1>4 DEF ReadInfos, CopyOK
  <2>4. CopyOK'
    BY <1>0, <2>1, <2>2, <2>3 DEF CopyOK
  <2> QED
    BY <1>4, <2>4, ReaderStep DEF ReadInfos
<1>5. CASE ReadText
  <2> DEFINE x == [p \in 0..(T - 1) |->
                     IF p \in k..(k + Grain - 1) THEN text[p] ELSE m.text[p]]
  <2>1. m' = [m EXCEPT !.text = x]
    BY <1>5 DEF ReadText
  <2> HIDE DEF x
  <2>2. k' \in Nat
    <3>1. k' \in {0, k + Grain}
      BY <1>5 DEF ReadText
    <3>2. k \in Nat /\ Grain \in Nat
      BY <1>0, PrbAssumption DEF CopyOK
    <3> QED
      BY <3>1, <3>2
  <2>3. CopyOK'
    BY <1>0, <2>1, <2>2 DEF CopyOK
  <2> QED
    BY <1>5, <2>3, ReaderStep DEF ReadText
<1>6. CASE ReadFails
  BY <1>0, <1>6, ReaderStep DEF ReadFails, CopyOK
<1>7. CASE Dump
  <2>1. GuestOK' /\ HeadBlock' /\ CopyOK'
    BY <1>7 DEF Dump, guest, IInv, GuestOK, HeadBlock, CopyOK, Slot, Id
  <2>2. ASSUME NEW i \in DOMAIN out', out'[i].kind = "text"
        PROVE  out'[i].span.start + out'[i].span.len <= T
    <3>1. Walk \in Nat /\ DOMAIN out' = 1..Walk
      <4>1. Id(m.head) \in 0..(M - 1) /\ Id(m.tail) \in 0..(M - 1)
        BY <1>0, IdType DEF CopyOK
      <4> QED
        BY <1>7, <4>1, PrbAssumption DEF Dump, Walk
    <3>2. (Id(m.tail) + i - 1) % M \in Nat
      <4>1. Id(m.tail) \in 0..(M - 1) /\ i \in 1..Walk
        BY <1>0, <3>1, IdType DEF CopyOK
      <4>2. PICK z \in Int : z = Id(m.tail) + i - 1
        BY <3>1, <4>1, PrbAssumption
      <4> QED
        BY <4>2, PrbAssumption
    <3>3. out'[i] = dump_record((Id(m.tail) + i - 1) % M)
      BY <1>7, <3>1 DEF Dump
    <3> QED
      BY <1>0, <2>2, <3>2, <3>3, RecordInBounds
  <2>3. InBounds'
    BY <2>2 DEF InBounds
  <2> QED
    BY <2>1, <2>3 DEF IInv
<1> QED
  BY <1>1, <1>2, <1>3, <1>4, <1>5, <1>6, <1>7 DEF Reader

\* The invariant is inductive.
LEMMA NextInv == IInv /\ [Next]_vars => IInv'
<1> SUFFICES ASSUME IInv, [Next]_vars PROVE IInv'
  OBVIOUS
<1>1. CASE Guest
  BY <1>1, GuestInv
<1>2. CASE Reader
  BY <1>2, ReaderInv
<1>3. CASE UNCHANGED vars
  BY <1>3 DEF vars, guest, reader, IInv, GuestOK, HeadBlock, CopyOK, InBounds, Slot, Id
<1> QED
  BY <1>1, <1>2, <1>3 DEF Next, Over

\* dump_record never reads outside its copy of the text ring, whatever words of
\* different records meet in a copied descriptor (printk.c, 190-200).
THEOREM NoOverread == Spec => []InBounds
<1>1. IInv => InBounds
  BY DEF IInv
<1> QED
  BY <1>1, InitInv, NextInv, PTL DEF Spec

-----------------------------------------------------------------------------
(***************************************************************************)
(* Remainders, and the ids of records.                                     *)
(***************************************************************************)

\* Quotient and remainder are unique.
LEMMA ModUnique ==
    ASSUME NEW d \in Nat \ {0}, NEW q \in Int, NEW r \in 0..(d - 1), NEW x \in Int,
           x = d * q + r
    PROVE  x % d = r /\ x \div d = q
<1>1. PICK a \in Int, c \in 0..(d - 1) : a = x \div d /\ c = x % d /\ x = d * a + c
  OBVIOUS
<1>2. PICK z \in Int : z = q - a
  OBVIOUS
<1>3. d * z = c - r
  BY <1>1, <1>2
<1>4. CASE z >= 1
  <2>1. d * z >= d
    BY <1>4
  <2> QED
    BY <1>3, <2>1
<1>5. CASE z <= -1
  <2>1. d * z <= -d
    BY <1>5
  <2> QED
    BY <1>3, <2>1
<1>6. CASE z = 0
  BY <1>1, <1>2, <1>3, <1>6
<1> QED
  BY <1>4, <1>5, <1>6

\* r is what x leaves when a multiple of d is taken from it.
Leaves(x, d, r) == r \in 0..(d - 1) /\ \E q \in Int : x = d * q + r

\* Such an r is the remainder.
LEMMA ModIs ==
    ASSUME NEW d \in Nat \ {0}, NEW r, NEW x \in Int, Leaves(x, d, r)
    PROVE  x % d = r
BY ModUnique DEF Leaves

\* Likewise for the quotient.
Goes(x, d, q) == q \in Int /\ \E r \in 0..(d - 1) : x = d * q + r

\* Such a q is the quotient.
LEMMA DivIs ==
    ASSUME NEW d \in Nat \ {0}, NEW q, NEW x \in Int, Goes(x, d, q)
    PROVE  x \div d = q
BY ModUnique DEF Goes

\* What % and \div make of a number.
LEMMA DivMod ==
    ASSUME NEW d \in Nat \ {0}, NEW x \in Nat
    PROVE  /\ x % d \in 0..(d - 1) /\ x \div d \in Nat
           /\ x = d * (x \div d) + (x % d)
OBVIOUS

\* Two numbers less than d apart are different modulo d.
LEMMA ModApart ==
    ASSUME NEW d \in Nat \ {0}, NEW x \in Nat, NEW y \in Nat, x < y, y - x < d
    PROVE  x % d # y % d
<1> SUFFICES ASSUME x % d = y % d PROVE FALSE
  OBVIOUS
<1>0. /\ x % d \in 0..(d - 1) /\ x \div d \in Nat /\ x = d * (x \div d) + (x % d)
      /\ y \div d \in Nat /\ y = d * (y \div d) + (y % d)
  BY DivMod, Zenon
<1>1. PICK a \in Nat, c \in Nat, r \in 0..(d - 1) :
         x = d * a + r /\ y = d * c + r
  BY <1>0, Zenon
<1>2. PICK z \in Int : z = c - a
  BY <1>1
<1>3. y - x = d * z
  BY <1>1, <1>2
<1>4. CASE z >= 1
  <2>1. d * z >= d
    BY <1>4
  <2> QED
    BY <1>3, <2>1
<1>5. CASE z <= 0
  <2>1. d * z <= 0
    BY <1>5
  <2> QED
    BY <1>3, <2>1
<1> QED
  BY <1>4, <1>5

\* Adding modulo d may be done before or after taking the remainder.
LEMMA ModAdd ==
    ASSUME NEW d \in Nat \ {0}, NEW x \in Nat, NEW y \in Nat
    PROVE  ((x % d) + y) % d = (x + y) % d
<1>1. PICK a \in Nat, r \in 0..(d - 1) : a = x \div d /\ r = x % d /\ x = d * a + r
  BY DivMod
<1>2. PICK c \in Nat, s \in 0..(d - 1) :
         s = (r + y) % d /\ r + y = d * c + s
  <2>1. r + y \in Nat
    BY <1>1
  <2> QED
    BY <2>1, DivMod, ZenonT(30)
<1>3. x + y = d * (a + c) + s /\ a + c \in Int /\ x + y \in Int
  <2>1. PICK u \in Nat, v \in Nat : u = d * a /\ v = d * c
    OBVIOUS
  <2>2. d * (a + c) = u + v
    BY <2>1
  <2>3. x = u + r /\ r + y = v + s
    BY <1>1, <1>2, <2>1
  <2> QED
    BY <2>2, <2>3
<1>4. (x + y) % d = s
  <2>1. Leaves(x + y, d, s)
    BY <1>3, Zenon DEF Leaves
  <2> QED
    BY <1>3, <2>1, ModIs, Zenon
<1> QED
  BY <1>1, <1>2, <1>4

\* The slot of a record counts modulo N, although ids wrap at M.
LEMMA SlotMod == ASSUME NEW n \in Nat PROVE Slot(n) = (M - (N + 1) + n) % N
<1>1. PICK x \in Nat : x = M - (N + 1) + n
  BY PrbAssumption
<1>2. M \in Nat \ {0} /\ N \in Nat \ {0}
  BY PrbAssumption
<1>3. PICK q \in Nat : M = N * q
  <2>1. M % N = 0
    BY PrbAssumption
  <2>2. M \div N \in Nat /\ M = N * (M \div N) + (M % N)
    BY <1>2, DivMod
  <2>3. PICK q \in Nat : M = N * q + (M % N)
    BY <2>2, Zenon
  <2>4. M = N * q
    BY <1>2, <2>1, <2>3
  <2> QED
    BY <2>4
<1>4. PICK a \in Nat, y \in Nat : y = x % M /\ x = M * a + y
  <2>1. x % M \in 0..(M - 1) /\ x \div M \in Nat /\ x = M * (x \div M) + (x % M)
    BY <1>2, DivMod, Zenon
  <2>2. x % M \in Nat
    BY <1>2, <2>1
  <2> QED
    BY <2>1, <2>2, Zenon
<1>5. PICK c \in Nat, r \in 0..(N - 1) : r = y % N /\ y = N * c + r
  <2>1. y % N \in 0..(N - 1) /\ y \div N \in Nat /\ y = N * (y \div N) + (y % N)
    BY <1>2, DivMod, Zenon
  <2> QED
    BY <2>1, Zenon
<1>6. PICK u \in Nat : u = q * a + c
  OBVIOUS
<1>7. x = N * u + r
  <2>1. PICK v \in Nat, z \in Nat : v = N * (q * a) /\ z = N * c
    BY <1>2
  <2>2. M * a = v
    BY <1>2, <1>3, <2>1
  <2>3. N * u = v + z
    BY <1>2, <1>6, <2>1
  <2>4. x = v + y /\ y = z + r
    BY <1>4, <1>5, <2>1, <2>2
  <2> QED
    BY <2>3, <2>4
<1>8. x % N = r
  <2>1. u \in Int /\ x \in Int
    OBVIOUS
  <2>2. Leaves(x, N, r)
    BY <1>7, <2>1, Zenon DEF Leaves
  <2> QED
    BY <1>2, <2>1, <2>2, ModIs, Zenon
<1> QED
  BY <1>1, <1>4, <1>5, <1>8 DEF Slot, Id

\* Records less than N apart have different slots.
LEMMA SlotApart ==
    ASSUME NEW a \in Nat, NEW c \in Nat, a < c, c - a < N
    PROVE  Slot(a) # Slot(c)
<1>1. PICK x \in Nat, y \in Nat : x = M - (N + 1) + a /\ y = M - (N + 1) + c
  BY PrbAssumption
<1>2. x < y /\ y - x < N /\ N \in Nat \ {0}
  BY <1>1, PrbAssumption
<1>3. x % N # y % N
  BY <1>2, ModApart, Zenon
<1> QED
  BY <1>1, <1>3, SlotMod

\* Different records of a run have different ids.
LEMMA IdApart ==
    ASSUME NEW a \in 0..MaxRecords, NEW c \in 0..MaxRecords, Id(a) = Id(c)
    PROVE  a = c
<1>1. ASSUME NEW i \in 0..MaxRecords, NEW j \in 0..MaxRecords, i < j
      PROVE  Id(i) # Id(j)
  <2>1. PICK x \in Nat, y \in Nat : x = M - (N + 1) + i /\ y = M - (N + 1) + j
    BY PrbAssumption
  <2>2. x < y /\ y - x < M
    BY <1>1, <2>1, PrbAssumption
  <2>3. x % M # y % M
    BY <2>2, ModApart, PrbAssumption, Zenon
  <2> QED
    BY <2>1, <2>3 DEF Id
<1> QED
  BY <1>1, PrbAssumption

\* The walk from the id of t meets the id of t + i after i turns.
LEMMA IdAdd ==
    ASSUME NEW t \in Nat, NEW i \in Nat
    PROVE  (Id(t) + i) % M = Id(t + i)
<1>1. PICK x \in Nat : x = M - (N + 1) + t
  BY PrbAssumption
<1>2. ((x % M) + i) % M = (x + i) % M
  BY ModAdd, PrbAssumption, ZenonT(30)
<1>3. x + i = M - (N + 1) + (t + i)
  BY <1>1, PrbAssumption
<1> QED
  BY <1>1, <1>2, <1>3 DEF Id

\* The number of turns of the walk.
LEMMA WalkLength ==
    ASSUME m.head \in Nat, m.tail \in Nat, m.tail <= m.head, m.head - m.tail < N
    PROVE  Walk = m.head - m.tail + 1
<1>0. M \in Nat \ {0} /\ N \in Nat \ {0} /\ M > N + 1
  BY PrbAssumption
<1>1. PICK h \in Nat, t \in Nat : h = m.head /\ t = m.tail
  OBVIOUS
<1>2. PICK x \in Nat, y \in Nat : x = M - (N + 1) + h /\ y = M - (N + 1) + t
  BY PrbAssumption
<1>3. PICK a \in Nat, c \in Nat, r \in 0..(M - 1), s \in 0..(M - 1) :
         /\ r = x % M /\ x = M * a + r
         /\ s = y % M /\ y = M * c + s
  <2>1. /\ x % M \in 0..(M - 1) /\ x \div M \in Nat /\ x = M * (x \div M) + (x % M)
        /\ y % M \in 0..(M - 1) /\ y \div M \in Nat /\ y = M * (y \div M) + (y % M)
    BY <1>0, DivMod, Zenon
  <2> QED
    BY <2>1, Zenon
<1>4. PICK z \in Int : z = c - a
  OBVIOUS
<1>5. r - s = M * z + (h - t)
  <2>1. M * z = M * c - M * a
    BY <1>0, <1>4
  <2>2. PICK u \in Int, v \in Int : u = M * a /\ v = M * c
    BY <1>0
  <2>3. x = u + r /\ y = v + s /\ M * z = v - u
    BY <1>3, <2>1, <2>2
  <2> QED
    BY <1>0, <1>2, <2>3
<1>6. h - t \in 0..(M - 1) /\ r - s \in Int
  BY <1>0, <1>1
<1>7. (r - s) % M = h - t
  <2>1. Leaves(r - s, M, h - t)
    BY <1>5, <1>6, Zenon DEF Leaves
  <2> QED
    BY <1>0, <1>6, <2>1, ModIs, Zenon
<1> QED
  BY <1>1, <1>2, <1>3, <1>7 DEF Walk, Id

-----------------------------------------------------------------------------
(***************************************************************************)
(* Where blocks lie.                                                       *)
(***************************************************************************)

\* Where the block of a record of length l that ends at e lies.
Place(l, e) == e - BlockSize(l)

\* A block is a header and room for the text, and two fit in the ring.
LEMMA SizeFacts ==
    ASSUME NEW l \in 0..MaxText
    PROVE  /\ BlockSize(l) \in Nat /\ l + Header <= BlockSize(l)
           /\ 2 * BlockSize(l) < T /\ T \in Nat \ {0}
<1>1. PICK x \in Nat : x = (l + 1) \div 2 /\ l <= x * 2 /\ x * 2 <= l + 1
  BY PrbAssumption
<1>2. BlockSize(l) = 2 + x * 2
  BY <1>1 DEF BlockSize, Header
<1> QED
  BY <1>1, <1>2, PrbAssumption DEF Header

\* A longer text needs no smaller block.
LEMMA SizeMono ==
    ASSUME NEW l \in 0..MaxText, NEW n \in 0..MaxText, l <= n
    PROVE  BlockSize(l) <= BlockSize(n)
<1>1. PICK x \in Nat, y \in Nat : x = (l + 1) \div 2 /\ y = (n + 1) \div 2 /\ x <= y
  BY PrbAssumption
<1> QED
  BY <1>1 DEF BlockSize, Header

\* A block of the ring: it lies at its begin, or at the start of the next lap if
\* it would not end before the end of the ring.
LEMMA BlockFacts ==
    ASSUME NEW b \in Nat, NEW l \in 0..MaxText
    PROVE  LET S == BlockSize(l)
               e == BlockEnd(b, l)
               A == Place(l, e)
           IN  /\ e \in Nat /\ A \in Nat /\ b <= A /\ A = e - S /\ e <= b + 2 * S
               /\ (A % T) + S < T /\ e % T = (A % T) + S
               /\ TextStart(b, e) = (A % T) + Header
               /\ \/ /\ b \div T = e \div T /\ A = b /\ b % T <= e % T
                  \/ /\ b \div T # e \div T /\ b % T > e % T /\ A % T = 0
                     /\ A = T * ((b \div T) + 1)
<1> DEFINE S == BlockSize(l)
           x == b + S
           e == BlockEnd(b, l)
           A == Place(l, e)
<1>1. S \in Nat /\ 2 <= S /\ 2 * S < T /\ T \in Nat \ {0}
  BY SizeFacts, PrbAssumption DEF Header
<1> HIDE DEF S
<1>2. PICK q \in Nat, r \in 0..(T - 1) :
         q = b \div T /\ r = b % T /\ b = T * q + r
  BY <1>1, DivMod, Zenon
<1>3. x \in Nat /\ A = e - S
  BY <1>1 DEF S, Place
<1>4. PICK p \in Nat, y \in 0..(T - 1) :
         p = x \div T /\ y = x % T /\ x = T * p + y
  BY <1>1, <1>3, DivMod, Zenon
<1>5. e = IF q = p THEN x ELSE T * p + S
  <2>1. e = IF b \div T = x \div T THEN x ELSE (x \div T) * T + S
    BY DEF BlockEnd, S
  <2>2. p * T = T * p
    BY <1>1, <1>4
  <2> QED
    BY <1>2, <1>4, <2>1, <2>2
<1>6. TextStart(b, e) = (IF q = e \div T THEN r ELSE 0) + Header
  BY <1>2 DEF TextStart
<1> HIDE DEF x, e, A
<1>7. CASE q = p
  <2>1. PICK u \in Nat : u = T * q
    BY <1>1
  <2>2. x = u + y /\ b = u + r /\ x = b + S /\ e = x
    BY <1>2, <1>4, <1>5, <1>7, <2>1, Zenon DEF x
  <2>3. y = r + S /\ A = b
    BY <1>1, <1>3, <2>2
  <2>4. e \in Nat /\ A \in Nat /\ b <= A /\ e <= b + 2 * S
    BY <1>1, <1>3, <2>2, <2>3
  <2>5. A % T = r /\ e % T = y /\ e \div T = q
    BY <1>2, <1>4, <1>7, <2>2, <2>3, Zenon
  <2>6. (A % T) + S < T /\ e % T = (A % T) + S /\ b % T <= e % T
    BY <1>1, <1>2, <2>3, <2>5
  <2>7. TextStart(b, e) = (A % T) + Header
    BY <1>6, <2>5
  <2> QED
    BY <1>2, <1>3, <2>3, <2>4, <2>5, <2>6, <2>7, Zenon DEF e, A, S
<1>8. CASE q # p
  <2>1. PICK u \in Nat, v \in Nat, z \in Int : u = T * q /\ v = T * p /\ z = p - q
    BY <1>1
  <2>2. x = v + y /\ b = u + r /\ x = b + S
    BY <1>2, <1>4, <2>1, Zenon DEF x
  <2>3. v = u + T * z
    BY <1>1, <2>1
  <2>4. z = 1
    <3>1. CASE z >= 2
      <4>1. T * z >= 2 * T
        BY <1>1, <3>1
      <4> QED
        BY <1>1, <2>2, <2>3, <4>1
    <3>2. CASE z <= -1
      <4>1. T * z <= -T
        BY <1>1, <3>2
      <4> QED
        BY <1>1, <2>2, <2>3, <4>1
    <3> QED
      BY <1>8, <2>1, <3>1, <3>2
  <2>5. v = u + T
    BY <1>1, <2>3, <2>4
  <2>6. e = v + S /\ A = v
    BY <1>1, <1>3, <1>5, <1>8, <2>1
  <2>7. e % T = S /\ e \div T = p
    BY <1>1, <2>1, <2>6, ModUnique
  <2>8. A % T = 0
    <3>1. A = T * p + 0
      BY <1>1, <2>1, <2>6
    <3> QED
      BY <1>1, <2>1, <2>6, <3>1, ModUnique
  <2>9. r > S /\ b <= A /\ e <= b + 2 * S
    BY <1>1, <2>2, <2>5, <2>6
  <2>10. A = T * (q + 1)
    BY <1>1, <2>1, <2>5, <2>6
  <2>11. e \in Nat /\ A \in Nat
    BY <1>1, <2>1, <2>6
  <2>12. (A % T) + S < T /\ e % T = (A % T) + S /\ b % T > e % T
    BY <1>1, <1>2, <2>7, <2>8, <2>9
  <2>13. TextStart(b, e) = (A % T) + Header /\ b \div T # e \div T
    BY <1>2, <1>6, <1>8, <2>7, <2>8
  <2> QED
    BY <1>2, <1>3, <2>8, <2>9, <2>10, <2>11, <2>12, <2>13, Zenon DEF e, A, S
<1> QED
  BY <1>7, <1>8

\* A longer text ends no earlier.
LEMMA EndMono ==
    ASSUME NEW b \in Nat, NEW l \in 0..MaxText, NEW n \in 0..MaxText, l <= n
    PROVE  BlockEnd(b, l) <= BlockEnd(b, n)
<1> DEFINE S == BlockSize(l)
           R == BlockSize(n)
           e == BlockEnd(b, l)
           f == BlockEnd(b, n)
           A == Place(l, e)
           B == Place(n, f)
<1>1. S \in Nat /\ R \in Nat /\ S <= R /\ T \in Nat \ {0}
  BY SizeFacts, SizeMono
<1>2. /\ e \in Nat /\ A \in Nat /\ A = e - S /\ b <= A /\ (A % T) + S < T
      /\ \/ A = b
         \/ A = T * ((b \div T) + 1)
  BY BlockFacts, SMTT(30)
<1>3. /\ f \in Nat /\ B \in Nat /\ B = f - R /\ b <= B /\ (B % T) + R < T
      /\ \/ B = b
         \/ B = T * ((b \div T) + 1)
  BY BlockFacts, SMTT(30)
<1> HIDE DEF S, R, e, f, A, B
<1>4. CASE A = b
  BY <1>1, <1>2, <1>3, <1>4 DEF e, f
<1>5. CASE A = B
  BY <1>1, <1>2, <1>3, <1>5 DEF e, f
<1>6. CASE A = T * ((b \div T) + 1) /\ B = b /\ A # b
  <2>1. f % T = (b % T) + R /\ f = b + R
    <3>1. f % T = (B % T) + R
      BY BlockFacts DEF f, B, R
    <3> QED
      BY <1>1, <1>3, <1>6, <3>1
  <2>2. PICK q \in Nat, r \in 0..(T - 1) : q = b \div T /\ r = b % T /\ b = T * q + r
    BY <1>1, DivMod, Zenon
  <2>3. r + R < T
    BY <1>3, <1>6, <2>2
  <2>4. FALSE
    <3>1. e = BlockEnd(b, l) /\ (b + S) \div T = q
      <4>1. b + S = T * q + (r + S) /\ r + S \in 0..(T - 1) /\ b + S \in Int
        BY <1>1, <2>2, <2>3
      <4>2. q \in Int
        OBVIOUS
      <4>3. Goes(b + S, T, q)
        BY <4>1, <4>2, Zenon DEF Goes
      <4>4. (b + S) \div T = q
        BY <1>1, <4>1, <4>3, DivIs, Zenon
      <4> QED
        BY <4>4 DEF e
    <3>2. e = b + S
      BY <2>2, <3>1 DEF BlockEnd, S
    <3> QED
      BY <1>1, <1>2, <1>6, <3>2
  <2> QED
    BY <2>4
<1> QED
  BY <1>2, <1>3, <1>4, <1>5, <1>6

\* S units from A on and R units from B on, within a lap.
Clear(A, S, B, R) ==
    (A % T) + S < T /\ (B % T) + R < T /\ A + S <= B /\ B + R <= A + T

\* Places less than a lap apart do not meet.
LEMMA PlacesApart ==
    ASSUME NEW A \in Nat, NEW S \in Nat, NEW B \in Nat, NEW R \in Nat,
           Clear(A, S, B, R), NEW i \in 0..(S - 1), NEW j \in 0..(R - 1)
    PROVE  (A % T) + i # (B % T) + j
<1>1. /\ T \in Nat \ {0}
      /\ (A % T) + S < T /\ (B % T) + R < T /\ A + S <= B /\ B + R <= A + T
  BY PrbAssumption DEF Clear
<1>2. PICK q \in Nat, r \in 0..(T - 1) : r = A % T /\ A = T * q + r
  BY <1>1, DivMod, ZenonT(30)
<1>3. PICK p \in Nat, y \in 0..(T - 1) : y = B % T /\ B = T * p + y
  BY <1>1, DivMod, ZenonT(30)
<1>4. (A + i) % T = r + i
  <2>1. A + i = T * q + (r + i) /\ r + i \in 0..(T - 1) /\ A + i \in Int
    BY <1>1, <1>2
  <2>2. Leaves(A + i, T, r + i)
    <3>1. q \in Int
      OBVIOUS
    <3> QED
      BY <2>1, <3>1, Zenon DEF Leaves
  <2> QED
    BY <1>1, <2>1, <2>2, ModIs, Zenon
<1>5. (B + j) % T = y + j
  <2>1. B + j = T * p + (y + j) /\ y + j \in 0..(T - 1) /\ B + j \in Int
    BY <1>1, <1>3
  <2>2. Leaves(B + j, T, y + j)
    <3>1. p \in Int
      OBVIOUS
    <3> QED
      BY <2>1, <3>1, Zenon DEF Leaves
  <2> QED
    BY <1>1, <2>1, <2>2, ModIs, Zenon
<1>6. (A + i) % T # (B + j) % T
  <2>1. /\ A + i \in Nat /\ B + j \in Nat /\ A + i < B + j
        /\ (B + j) - (A + i) < T
    BY <1>1
  <2> QED
    BY <1>1, <2>1, ModApart, Zenon
<1> QED
  BY <1>2, <1>3, <1>4, <1>5, <1>6

\* The units a writer of n units may touch from place a on.
Area(a, n) == (a - Header)..(a + n - 1)

\* A writer at hb does not touch a block that ends before hb, unless it comes
\* round to the begin of that block.
LEMMA OtherPlace ==
    ASSUME NEW b \in Nat, NEW l \in 0..MaxText, NEW hb \in Nat, NEW n \in 0..MaxText,
           BlockEnd(b, l) <= hb, BlockEnd(hb, n) <= b + T,
           NEW j \in 1..l
    PROVE  TextStart(b, BlockEnd(b, l)) + j - 1
               \notin Area(TextStart(hb, BlockEnd(hb, n)), n)
<1> DEFINE S == BlockSize(l)
           R == BlockSize(n)
           e == BlockEnd(b, l)
           f == BlockEnd(hb, n)
           A == Place(l, e)
           B == Place(n, f)
<1>1. S \in Nat /\ R \in Nat /\ l + 2 <= S /\ n + 2 <= R /\ T \in Nat \ {0}
  BY SizeFacts DEF Header
<1>2. /\ e \in Nat /\ A \in Nat /\ A = e - S /\ b <= A /\ (A % T) + S < T
      /\ TextStart(b, e) = (A % T) + 2
  BY BlockFacts DEF Header
<1>3. /\ f \in Nat /\ B \in Nat /\ B = f - R /\ hb <= B /\ (B % T) + R < T
      /\ TextStart(hb, f) = (B % T) + 2
  BY BlockFacts DEF Header
<1>4. e <= hb /\ f <= b + T
  OBVIOUS
<1> HIDE DEF S, R, e, f, A, B
<1>5. A + S <= B /\ B + R <= A + T
  BY <1>1, <1>2, <1>3, <1>4
<1>6. PICK u \in Nat, v \in Nat : u = A % T /\ v = B % T
  BY <1>1, <1>2, <1>3
<1>7. \A i \in 0..(S - 1), x \in 0..(R - 1) : u + i # v + x
  <2>1. \A i \in 0..(S - 1), x \in 0..(R - 1) : (A % T) + i # (B % T) + x
    <3>1. A \in Nat /\ S \in Nat /\ B \in Nat /\ R \in Nat /\ Clear(A, S, B, R)
      BY <1>1, <1>2, <1>3, <1>5 DEF Clear
    <3> QED
      BY <3>1, PlacesApart, Zenon
  <2> QED
    BY <1>6, <2>1, Zenon
<1>8. ASSUME u + 2 + j - 1 \in (v + 2 - 2)..(v + 2 + n - 1) PROVE FALSE
  <2>1. PICK x \in 0..(R - 1) : u + (j + 1) = v + x
    <3>1. u + (j + 1) - v \in 0..(R - 1)
      BY <1>1, <1>6, <1>8
    <3> QED
      BY <1>6, <3>1
  <2>2. j + 1 \in 0..(S - 1)
    BY <1>1
  <2> QED
    BY <1>7, <2>1, <2>2, Zenon
<1> QED
  BY <1>2, <1>3, <1>6, <1>8 DEF Area, Header, e, f

\* A record that grows stays where it is, or moves to units it did not use.
LEMMA OwnPlace ==
    ASSUME NEW b \in Nat, NEW l \in 0..MaxText, NEW n \in 0..MaxText,
           BlockEnd(b, l) <= BlockEnd(b, n)
    PROVE  \/ TextStart(b, BlockEnd(b, l)) = TextStart(b, BlockEnd(b, n))
           \/ \A j \in 1..l : TextStart(b, BlockEnd(b, l)) + j - 1
                                 \notin Area(TextStart(b, BlockEnd(b, n)), n)
<1> DEFINE S == BlockSize(l)
           R == BlockSize(n)
           e == BlockEnd(b, l)
           f == BlockEnd(b, n)
           A == Place(l, e)
           B == Place(n, f)
<1>1. /\ S \in Nat /\ R \in Nat /\ l + 2 <= S /\ n + 2 <= R /\ T \in Nat \ {0}
      /\ 2 * R < T
  BY SizeFacts DEF Header
<1>2. /\ e \in Nat /\ A \in Nat /\ A = e - S /\ b <= A /\ (A % T) + S < T
      /\ TextStart(b, e) = (A % T) + 2
      /\ \/ b \div T = e \div T /\ A = b
         \/ A = T * ((b \div T) + 1)
  BY BlockFacts DEF Header
<1>3. /\ f \in Nat /\ B \in Nat /\ B = f - R /\ b <= B /\ (B % T) + R < T
      /\ TextStart(b, f) = (B % T) + 2 /\ f <= b + 2 * R
      /\ \/ b \div T = f \div T /\ B = b
         \/ B = T * ((b \div T) + 1)
  BY BlockFacts DEF Header
<1>4. e <= f
  OBVIOUS
<1> HIDE DEF S, R, e, f, A, B
<1>5. CASE A = B
  BY <1>2, <1>3, <1>5 DEF e, f
<1>6. CASE A # B
  <2>1. PICK q \in Nat, r \in 0..(T - 1) : q = b \div T /\ r = b % T /\ b = T * q + r
    BY <1>1, DivMod, ZenonT(30)
  <2>2. PICK u \in Nat : u = T * q /\ T * (q + 1) = u + T
    BY <1>1
  <2>3. A = b /\ B = u + T
    <3>1. CASE A = b
      BY <1>2, <1>3, <1>6, <2>1, <2>2, <3>1
    <3>2. CASE A = u + T
      <4>1. B = b
        BY <1>2, <1>3, <1>6, <2>1, <2>2, <3>2
      <4>2. FALSE
        <5>1. r + R < T
          BY <1>3, <2>1, <4>1
        <5> QED
          BY <1>1, <1>2, <1>3, <1>4, <2>1, <2>2, <3>2, <4>1, <5>1
      <4> QED
        BY <4>2
    <3> QED
      BY <1>2, <2>1, <2>2, <3>1, <3>2
  <2>4. A + S <= B /\ B + R <= A + T
    <3>1. r + S < T /\ b = u + r
      BY <1>2, <2>1, <2>2, <2>3, Zenon
    <3> QED
      BY <1>1, <1>2, <1>3, <2>3, <3>1
  <2>5. PICK x \in Nat, v \in Nat : x = A % T /\ v = B % T
    <3>1. T \in Nat \ {0} /\ A \in Nat /\ B \in Nat
      BY <1>1, <1>2, <1>3
    <3> QED
      BY <3>1
  <2>6. \A i \in 0..(S - 1), y \in 0..(R - 1) : x + i # v + y
    <3>1. \A i \in 0..(S - 1), y \in 0..(R - 1) : (A % T) + i # (B % T) + y
      <4>1. A \in Nat /\ S \in Nat /\ B \in Nat /\ R \in Nat /\ Clear(A, S, B, R)
        BY <1>1, <1>2, <1>3, <2>4 DEF Clear
      <4> QED
        BY <4>1, PlacesApart, Zenon
    <3> QED
      BY <2>5, <3>1, Zenon
  <2>7. ASSUME NEW j \in 1..l, x + 2 + j - 1 \in (v + 2 - 2)..(v + 2 + n - 1)
        PROVE  FALSE
    <3>1. PICK y \in 0..(R - 1) : x + (j + 1) = v + y
      <4>1. x + (j + 1) - v \in 0..(R - 1)
        BY <1>1, <2>5, <2>7
      <4> QED
        BY <2>5, <4>1
    <3>2. j + 1 \in 0..(S - 1)
      BY <1>1
    <3> QED
      BY <2>6, <3>1, <3>2, Zenon
  <2> QED
    BY <1>2, <1>3, <2>5, <2>7 DEF Area, Header, e, f
<1> QED
  BY <1>5, <1>6

\* dump_record finds the text of a block where the writer put it, and prints as
\* much of it as text_len says and the block has room for.
LEMMA SpanFacts ==
    ASSUME NEW b \in Nat, NEW l \in 0..MaxText, NEW x \in 0..MaxText
    PROVE  LET e == BlockEnd(b, l)
               sp == Span(b % T, e % T, x)
           IN  /\ b % T # e % T
               /\ sp.start = TextStart(b, e)
               /\ sp.len \in 0..x
               /\ \A y \in 0..l : y <= x => y <= sp.len
<1> DEFINE S == BlockSize(l)
           e == BlockEnd(b, l)
           A == Place(l, e)
<1>1. S \in Nat /\ l + 2 <= S /\ S < T /\ T \in Nat \ {0} /\ W \in Nat /\ W > T
  BY SizeFacts, PrbAssumption DEF Header
<1>2. /\ e \in Nat /\ A \in Nat /\ (A % T) + S < T /\ e % T = (A % T) + S
      /\ TextStart(b, e) = (A % T) + 2
      /\ \/ /\ b \div T = e \div T /\ A = b /\ b % T <= e % T
         \/ /\ b \div T # e \div T /\ b % T > e % T /\ A % T = 0
  BY BlockFacts, SMTT(30) DEF Header
<1> HIDE DEF S, e, A
<1>3. PICK p \in Nat, u \in Nat, v \in Nat : p = b % T /\ u = e % T /\ v = A % T
  BY <1>1, <1>2
<1>4. (IF p > u THEN 0 ELSE p) = v /\ u = v + S /\ p # u
  BY <1>1, <1>2, <1>3
<1>5. (u - (v + 2)) % W = S - 2
  <2>1. u - (v + 2) = S - 2 /\ S - 2 \in 0..(W - 1)
    BY <1>1, <1>4
  <2>2. PICK z \in 0..(W - 1) : z = S - 2
    BY <2>1
  <2>3. z % W = z
    BY <1>1
  <2> QED
    BY <2>1, <2>2, <2>3
<1>6. Span(p, u, x) = [start |-> v + 2, len |-> IF S - 2 < x THEN S - 2 ELSE x]
  BY <1>4, <1>5 DEF Span, Header
<1>7. S - 2 \in Nat /\ l <= S - 2
  BY <1>1
<1> QED
  BY <1>2, <1>3, <1>4, <1>6, <1>7 DEF e

-----------------------------------------------------------------------------
(***************************************************************************)
(* How the guest uses its rings, and what of it has been copied.           *)
(***************************************************************************)

\* Record n is in the ring and owns its slot; and it is complete.
Mine(n) == n \in tail..head /\ desc[Slot(n)].id = Id(n)
Done(n) == Mine(n) /\ Complete(desc[Slot(n)].st)

\* Its fields.
Begin(n) == desc[Slot(n)].begin
End(n) == desc[Slot(n)].next
TextLen(n) == len[Slot(n)]

\* Block <<b, e>> of record n holds its first l cells in ring x.
Holds(x, n, b, e, l) == \A j \in 1..l : x[TextStart(b, e) + j - 1] = <<n, j>>

\* Bounds of the counters, and of the text ring.
Counts ==
    /\ extends \in Nat
    /\ text = [p \in 0..(T - 1) |-> text[p]]

\* The records of the ring are fewer than its slots.
Window ==
    /\ head \in 0..MaxRecords /\ tail \in 0..(head + 1) /\ head - tail < N
    /\ w.ph # "idle" => tail <= head

\* A complete descriptor belongs to a record of the ring.
Owners ==
    \A s \in 0..(N - 1) : Complete(desc[s].st) =>
        \E n \in tail..head : Slot(n) = s /\ desc[s].id = Id(n)

\* The record being written is not complete, and owns its slot once it took it.
Writing ==
    /\ w.ph # "idle" => ~ Complete(desc[Slot(head)].st)
    /\ w.ph \notin {"idle", "reserve"} => desc[Slot(head)].id = Id(head)

\* Where the text in the ring may already have been given up to.
LimitOf(ph, l, h) == IF ph = "next" /\ l > 0 THEN BlockEnd(h, l) ELSE h
Limit == LimitOf(w.ph, w.len, dhead)

\* A complete record has its text in its block, and the block is in the ring.
BlockOK(n, b, e, l, h, lim, x) ==
    /\ l = 0 => b = NoLpos /\ e = NoLpos
    /\ l > 0 => /\ b \in Even /\ e = BlockEnd(b, l) /\ e <= h /\ lim <= b + T
                /\ Holds(x, n, b, e, l)
Blocks ==
    \A n \in tail..head : Done(n) =>
        BlockOK(n, Begin(n), End(n), TextLen(n), dhead, Limit, text)

\* The newest record has a block that nothing follows.
HasBlock(ph, wl, st, l) ==
    \/ ph \in {"next", "text", "len", "commit"} /\ wl > 0
    \/ ph = "extend"
    \/ ph = "idle" /\ Complete(st) /\ l > 0
HeadHas == HasBlock(w.ph, w.len, desc[Slot(head)].st, TextLen(head))

\* The blocks of the other records come before it.
HeadAfter ==
    HeadHas => \A n \in tail..(head - 1) : Done(n) /\ TextLen(n) > 0 => End(n) <= Begin(head)

\* How far the writer has come with the block of the newest record n.
BlockSoFar(n, ph, wl, b, e, l, h, x) ==
    /\ b \in Even
    /\ ph = "next" => b = h
    /\ ph \in {"text", "len", "commit"} => e = BlockEnd(b, wl)
    /\ ph \in {"extend", "idle"} => e = BlockEnd(b, l)
    /\ ph # "next" => e = h
    /\ ph \in {"len", "commit"} => Holds(x, n, b, e, wl)
    /\ ph = "extend" => 0 < l /\ l < wl /\ Holds(x, n, b, e, l)
HeadBlockOK ==
    HeadHas => BlockSoFar(head, w.ph, w.len, Begin(head), End(head), TextLen(head), dhead, text)

\* ... and with its fields.
FieldsSoFar(ph, wl, b, e, l) ==
    /\ ph \in {"next", "len", "commit"} /\ wl = 0 => b = NoLpos
    /\ ph \in {"len", "commit"} /\ wl = 0 => e = NoLpos
    /\ ph = "text" => wl > 0
    /\ ph = "commit" => l = wl
HeadFields == FieldsSoFar(w.ph, w.len, Begin(head), End(head), TextLen(head))

\* The guest.
GInv == /\ GuestOK /\ Counts /\ Window /\ Owners /\ Writing /\ Blocks
        /\ HeadAfter /\ HeadBlockOK /\ HeadFields

\* Words of descriptor s, its info and unit p of the text already copied.
Have(s, i) == (pc = "descs" /\ 3 * s + i < k) \/ pc \in {"infos", "text", "dump", "done"}
HaveLen(s) == (pc = "infos" /\ s < k) \/ pc \in {"text", "dump", "done"}
HaveText(p) == (pc = "text" /\ p < k) \/ pc \in {"dump", "done"}

\* Records that were complete when the dump began and still have slot and block.
Kept == DOMAIN live \ recycled

\* A kept record only grows, and is complete unless it is being extended.
LiveOK ==
    \A n \in Kept :
        /\ Mine(n) /\ live[n] \in 0..MaxText /\ live[n] <= TextLen(n)
        /\ n \notin reopened => Done(n) /\ live[n] = TextLen(n)
        /\ ~ Done(n) => /\ n = head /\ w.ph \in {"extend", "text", "len", "commit"}
                        /\ live[n] <= w.len
                        /\ w.ph = "text" => Holds(text, n, Begin(n), End(n), live[n])

\* The kept records lie between the ids read.
Ids ==
    /\ DOMAIN live \subseteq 0..MaxRecords
    /\ pc = "head" => DOMAIN live = {}
    /\ pc = "tail" => m.head <= head /\ \A n \in DOMAIN live : n <= m.head
    /\ pc \notin {"head", "tail", "failed"} =>
          m.head - m.tail < N /\ \A n \in Kept : m.tail <= n /\ n <= m.head

\* The descriptor of a record left alone is copied as a complete one.
LiveCopied ==
    \A n \in Kept \ reopened :
        Have(Slot(n), 0) => m.desc[Slot(n)].id = Id(n) /\ Complete(m.desc[Slot(n)].st)

\* What is copied of a record that is left alone from then on is what it holds.
Copied(n, s, c, b, e, l) ==
    /\ Have(s, 1) => c.begin = b
    /\ Have(s, 2) => c.next = e
    /\ HaveLen(s) => m.len[s] = l
    /\ \A j \in 1..l : HaveText(TextStart(b, e) + j - 1) =>
                          m.text[TextStart(b, e) + j - 1] = <<n, j>>
StableOK ==
    \A n \in 0..MaxRecords \ (recycled \cup reopened) :
        /\ Have(Slot(n), 0)
        /\ m.desc[Slot(n)].id = Id(n) /\ Complete(m.desc[Slot(n)].st)
        => Done(n) /\ Copied(n, Slot(n), m.desc[Slot(n)], Begin(n), End(n), TextLen(n))

\* What is copied of a record that grows covers what it held at first.
CopiedNext(n, e, b, be, l) ==
    /\ \E x \in l..MaxText : e = BlockEnd(b, x)
    /\ e <= be
    /\ Holds(text, n, b, e, l)
    /\ \A j \in 1..l : HaveText(TextStart(b, e) + j - 1) =>
                          m.text[TextStart(b, e) + j - 1] = <<n, j>>
GrownOK ==
    \A n \in Kept : live[n] > 0 =>
        /\ Have(Slot(n), 1) => m.desc[Slot(n)].begin = Begin(n)
        /\ Have(Slot(n), 2) => CopiedNext(n, m.desc[Slot(n)].next, Begin(n), End(n), live[n])
        /\ HaveLen(Slot(n)) => live[n] <= m.len[Slot(n)]

\* The output is what the walk over the ids makes of the copies.
OutOK ==
    /\ pc \in {"head", "tail", "descs", "infos", "text", "dump", "done", "failed"}
    /\ out = IF pc = "done" THEN [i \in 1..Walk |-> dump_record((Id(m.tail) + i - 1) % M)]
             ELSE <<>>
    /\ m.text = [p \in 0..(T - 1) |-> m.text[p]]
    /\ pc = "descs" => k < 3 * N
    /\ pc = "infos" => k < N
    /\ pc = "text" => k < T

\* The reader.
RInv == LiveOK /\ Ids /\ LiveCopied /\ StableOK /\ GrownOK /\ OutOK

\* Both.
XInv == CopyOK /\ GInv /\ RInv

-----------------------------------------------------------------------------
(***************************************************************************)
(* The ring.                                                               *)
(***************************************************************************)

\* Types that every step of the guest relies on.
LEMMA GuestTypes ==
    ASSUME GInv
    PROVE  /\ GuestOK /\ head \in Nat /\ tail \in Nat /\ head \in 0..MaxRecords
           /\ Slot(head) \in 0..(N - 1) /\ Id(head) \in 0..(M - 1)
           /\ DOMAIN desc = 0..(N - 1) /\ DOMAIN len = 0..(N - 1)
           /\ dhead \in Nat /\ dhead \in Even
           /\ w.len \in 0..MaxText /\ w = [ph |-> w.ph, len |-> w.len]
           /\ \A n \in tail..head : n \in Nat /\ Slot(n) \in 0..(N - 1)
           /\ N \in Nat \ {0} /\ MaxText \in Nat /\ T \in Nat /\ MaxRecords \in Nat
<1>1. GuestOK /\ Window
  BY DEF GInv
<1>2. head \in Nat /\ tail \in Nat /\ head \in 0..MaxRecords
  BY <1>1 DEF GuestOK, Window
<1>3. Slot(head) \in 0..(N - 1) /\ Id(head) \in 0..(M - 1)
  BY <1>2, SlotType, IdType
<1>4. \A n \in tail..head : n \in Nat /\ Slot(n) \in 0..(N - 1)
  BY <1>2, SlotType
<1>5. w.len \in 0..MaxText /\ w = [ph |-> w.ph, len |-> w.len]
  BY <1>1 DEF GuestOK
<1>6. dhead \in Nat /\ dhead \in Even /\ DOMAIN desc = 0..(N - 1) /\ DOMAIN len = 0..(N - 1)
  BY <1>1 DEF GuestOK, Even
<1> QED
  BY <1>1, <1>2, <1>3, <1>4, <1>5, <1>6, PrbAssumption

\* Positions are numbers.
LEMMA LposNat ==
    ASSUME NEW d \in [0..(N - 1) -> Desc], NEW s \in 0..(N - 1)
    PROVE  d[s].begin \in Nat /\ d[s].next \in Nat
BY DEF Desc, Lpos, Even, NoLpos

\* Records of the ring have slots of their own.
LEMMA Uniq ==
    ASSUME GInv, NEW a \in tail..head, NEW c \in tail..head, Slot(a) = Slot(c)
    PROVE  a = c
<1>1. /\ a \in Nat /\ c \in Nat /\ N \in Nat /\ tail \in Nat /\ head \in Nat
      /\ head - tail < N
  BY GuestTypes DEF GInv, Window
<1>2. CASE a < c
  <2>1. c - a < N
    BY <1>1
  <2> QED
    BY <1>1, <1>2, <2>1, SlotApart
<1>3. CASE c < a
  <2>1. a - c < N
    BY <1>1
  <2> QED
    BY <1>1, <1>3, <2>1, SlotApart
<1> QED
  BY <1>1, <1>2, <1>3

\* A record of the ring whose slot is complete is complete.
LEMMA OwnerDone ==
    ASSUME GInv, NEW n \in tail..head, Complete(desc[Slot(n)].st)
    PROVE  Done(n)
<1>1. Slot(n) \in 0..(N - 1)
  BY GuestTypes
<1>2. PICK i \in tail..head : Slot(i) = Slot(n) /\ desc[Slot(n)].id = Id(i)
  BY <1>1 DEF GInv, Owners
<1>3. i = n
  BY <1>2, Uniq
<1> QED
  BY <1>2, <1>3 DEF Done, Mine

\* While a record is written, the complete records are the others.
LEMMA NotHead ==
    ASSUME GInv, w.ph # "idle", NEW n, Done(n)
    PROVE  n \in tail..(head - 1) /\ n # head /\ Slot(n) # Slot(head) /\ head \in tail..head
<1>1. n \in tail..head /\ tail \in Nat /\ head \in Nat /\ tail <= head
  BY GuestTypes DEF GInv, Window, Done, Mine
<1>2. ~ Complete(desc[Slot(head)].st) /\ Complete(desc[Slot(n)].st)
  BY DEF GInv, Writing, Done
<1> QED
  BY <1>1, <1>2

\* Giving up records of V changes the states of their descriptors only.
LEMMA RecycledFields ==
    ASSUME GuestOK, NEW V, NEW s \in 0..(N - 1)
    PROVE  LET r == Recycled(V)[s]
           IN  /\ r.id = desc[s].id /\ r.begin = desc[s].begin /\ r.next = desc[s].next
               /\ (\E n \in V : Slot(n) = s) => r.st = "reusable"
               /\ ~ (\E n \in V : Slot(n) = s) => r.st = desc[s].st
<1>1. desc[s] \in Desc /\ DOMAIN desc = 0..(N - 1)
  BY DEF GuestOK
<1>2. Recycled(V)[s] = IF \E n \in V : Slot(n) = s
                       THEN [desc[s] EXCEPT !.st = "reusable"] ELSE desc[s]
  BY <1>1 DEF Recycled
<1> QED
  BY <1>1, <1>2 DEF Desc

-----------------------------------------------------------------------------
(***************************************************************************)
(* What a step of the guest leaves of the reader's part.                   *)
(***************************************************************************)

\* A step of the guest does not touch the reader.
Frame ==
    /\ UNCHANGED reader /\ UNCHANGED live
    /\ recycled \subseteq recycled' /\ reopened \subseteq reopened'
    /\ head' \in Nat /\ head <= head'

\* A complete record that is neither recycled nor reopened stays as it is.
DoneKept ==
    \A n \in tail..head : Done(n) /\ n \notin recycled' \cup reopened' =>
        Done(n)' /\ Begin(n)' = Begin(n) /\ End(n)' = End(n) /\ TextLen(n)' = TextLen(n)

\* A record that keeps slot and block does not move its first cells.
GrowKept ==
    \A n \in DOMAIN live \ recycled' : live[n] > 0 =>
        /\ Begin(n)' = Begin(n) /\ End(n) <= End(n)'
        /\ \A x \in live[n]..MaxText :
              /\ BlockEnd(Begin(n), x) <= End(n)
              /\ Holds(text, n, Begin(n), BlockEnd(Begin(n), x), live[n])
              => Holds(text', n, Begin(n), BlockEnd(Begin(n), x), live[n])

\* Such a step leaves what the reader has copied true of the guest.
LEMMA ReaderKept ==
    ASSUME XInv, GuestOK', Frame, DoneKept, GrowKept
    PROVE  Ids' /\ LiveCopied' /\ StableOK' /\ GrownOK' /\ OutOK'
<1>0. pc' = pc /\ k' = k /\ m' = m /\ out' = out /\ live' = live
  BY DEF Frame, reader
<1>1. /\ \A s, i : Have(s, i)' <=> Have(s, i)
      /\ \A s : HaveLen(s)' <=> HaveLen(s)
      /\ \A p : HaveText(p)' <=> HaveText(p)
  BY <1>0 DEF Have, HaveLen, HaveText
<1>2. Ids'
  <2>1. head \in Nat /\ m.head \in Nat /\ Kept' \subseteq Kept
    BY <1>0, GuestTypes DEF XInv, CopyOK, Frame, Kept
  <2> QED
    BY <1>0, <2>1 DEF XInv, RInv, Ids, Frame
<1>3. LiveCopied'
  BY <1>0, <1>1, SMTT(30) DEF XInv, RInv, LiveCopied, Frame, Kept
<1>4. StableOK'
  <2> SUFFICES ASSUME NEW n \in 0..MaxRecords \ (recycled' \cup reopened'),
                      Have(Slot(n), 0), m.desc[Slot(n)].id = Id(n),
                      Complete(m.desc[Slot(n)].st)
               PROVE  /\ Done(n)'
                      /\ Copied(n, Slot(n), m.desc[Slot(n)], Begin(n), End(n), TextLen(n))'
    BY <1>0, <1>1, Zenon DEF StableOK
  <2>1. Done(n) /\ Copied(n, Slot(n), m.desc[Slot(n)], Begin(n), End(n), TextLen(n))
    BY SMTT(30) DEF XInv, RInv, StableOK, Frame
  <2>2. Done(n)' /\ Begin(n)' = Begin(n) /\ End(n)' = End(n) /\ TextLen(n)' = TextLen(n)
    BY <2>1, SMTT(30) DEF DoneKept, Done, Mine
  <2> QED
    BY <1>0, <1>1, <2>1, <2>2, Zenon DEF Copied
<1>5. GrownOK'
  <2> SUFFICES ASSUME NEW n \in DOMAIN live \ recycled', live[n] > 0
      PROVE  /\ Have(Slot(n), 1) => m.desc[Slot(n)].begin = Begin(n)'
             /\ Have(Slot(n), 2) =>
                   CopiedNext(n, m.desc[Slot(n)].next, Begin(n), End(n), live[n])'
             /\ HaveLen(Slot(n)) => live[n] <= m.len[Slot(n)]
    BY <1>0, <1>1, Zenon DEF GrownOK, Kept
  <2>1. n \in Kept
    BY DEF Kept, Frame
  <2>2. /\ Have(Slot(n), 1) => m.desc[Slot(n)].begin = Begin(n)
        /\ Have(Slot(n), 2) =>
              CopiedNext(n, m.desc[Slot(n)].next, Begin(n), End(n), live[n])
        /\ HaveLen(Slot(n)) => live[n] <= m.len[Slot(n)]
    BY <2>1, Zenon DEF XInv, RInv, GrownOK
  <2>3. /\ Begin(n)' = Begin(n) /\ End(n) <= End(n)'
        /\ \A x \in live[n]..MaxText :
              /\ BlockEnd(Begin(n), x) <= End(n)
              /\ Holds(text, n, Begin(n), BlockEnd(Begin(n), x), live[n])
              => Holds(text', n, Begin(n), BlockEnd(Begin(n), x), live[n])
    BY DEF GrowKept
  <2>4. ASSUME Have(Slot(n), 2)
        PROVE  CopiedNext(n, m.desc[Slot(n)].next, Begin(n), End(n), live[n])'
    <3> DEFINE e == m.desc[Slot(n)].next
    <3>1. /\ \E x \in live[n]..MaxText : e = BlockEnd(Begin(n), x)
          /\ e <= End(n)
          /\ Holds(text, n, Begin(n), e, live[n])
          /\ \A j \in 1..live[n] : HaveText(TextStart(Begin(n), e) + j - 1) =>
                m.text[TextStart(Begin(n), e) + j - 1] = <<n, j>>
      BY <2>2, <2>4, Zenon DEF CopiedNext
    <3>2. Slot(n) \in 0..(N - 1) /\ Mine(n)
      BY <2>1, GuestTypes DEF XInv, RInv, LiveOK, Mine
    <3>3. e \in Nat /\ End(n) \in Nat /\ End(n)' \in Nat
      <4>1. /\ desc \in [0..(N - 1) -> Desc] /\ desc' \in [0..(N - 1) -> Desc]
            /\ m.desc \in [0..(N - 1) -> Desc]
        BY SMTT(30) DEF XInv, GInv, GuestOK, CopyOK
      <4> QED
        BY <3>2, <4>1, LposNat, Zenon DEF End
    <3>4. Holds(text', n, Begin(n), e, live[n])
      BY <2>3, <3>1, SMTT(30)
    <3>5. e <= End(n)'
      BY <2>3, <3>1, <3>3, SMTT(30)
    <3> HIDE DEF e
    <3>6. CopiedNext(n, e, Begin(n), End(n), live[n])'
          <=> /\ \E x \in live[n]..MaxText : e' = BlockEnd(Begin(n)', x)
              /\ e' <= End(n)'
              /\ Holds(text', n, Begin(n)', e', live[n])
              /\ \A j \in 1..live[n] : HaveText(TextStart(Begin(n)', e') + j - 1) =>
                    m.text[TextStart(Begin(n)', e') + j - 1] = <<n, j>>
      BY <1>0, <1>1, Zenon DEF CopiedNext, Holds
    <3>7. e' = e
      BY <1>0, SMTT(30) DEF e
    <3>8. /\ \E x \in live[n]..MaxText : e = BlockEnd(Begin(n), x)
          /\ \A j \in 1..live[n] : HaveText(TextStart(Begin(n), e) + j - 1) =>
                m.text[TextStart(Begin(n), e) + j - 1] = <<n, j>>
      BY <3>1 DEF e
    <3>9. Begin(n)' = Begin(n)
      BY <2>3
    <3>10. CopiedNext(n, e, Begin(n), End(n), live[n])'
      BY <3>4, <3>5, <3>6, <3>7, <3>8, <3>9, ZenonT(30)
    <3> QED
      BY <3>10, SMTT(30) DEF e
  <2> QED
    BY <2>2, <2>3, <2>4, Zenon
<1>6. OutOK'
  BY <1>0, ZenonT(30) DEF XInv, RInv, OutOK, Walk, dump_record
<1> QED
  BY <1>2, <1>3, <1>4, <1>5, <1>6

\* The complete records after a step were complete before, and as they are.
Fewer ==
    \A n \in tail'..head' : Done(n)' =>
        /\ n \in tail..head /\ Done(n)
        /\ Begin(n)' = Begin(n) /\ End(n)' = End(n) /\ TextLen(n)' = TextLen(n)

\* A step that completes nothing and overwrites nothing keeps the blocks.
LEMMA BlocksKept ==
    ASSUME GInv, GuestOK', Fewer, text' = text, dhead <= dhead', Limit' = Limit
    PROVE  Blocks'
<1> SUFFICES ASSUME NEW n \in tail'..head', Done(n)'
             PROVE  BlockOK(n, Begin(n)', End(n)', TextLen(n)', dhead', Limit', text')
  BY DEF Blocks, BlockOK, Holds
<1>1. /\ n \in tail..head /\ Done(n)
      /\ Begin(n)' = Begin(n) /\ End(n)' = End(n) /\ TextLen(n)' = TextLen(n)
  BY DEF Fewer
<1>2. BlockOK(n, Begin(n), End(n), TextLen(n), dhead, Limit, text)
  BY <1>1 DEF GInv, Blocks
<1>3. Slot(n) \in 0..(N - 1) /\ dhead \in Nat /\ dhead' \in Nat
  BY <1>1, GuestTypes DEF GuestOK, Even
<1>4. End(n) \in Nat
  BY <1>3, LposNat, Zenon DEF GInv, GuestOK, End
<1> QED
  BY <1>1, <1>2, <1>3, <1>4 DEF BlockOK

\* A step of the newest record's writer that completes no other record.
LEMMA AfterKept ==
    ASSUME GInv, Fewer, head' = head, tail' = tail \/ tail' = tail + 1,
           HeadHas' => HeadHas, Begin(head)' = Begin(head)
    PROVE  HeadAfter'
<1> SUFFICES ASSUME HeadHas', NEW n \in tail'..(head' - 1), Done(n)', TextLen(n)' > 0
             PROVE  End(n)' <= Begin(head)'
  BY DEF HeadAfter
<1>1. head \in Nat /\ tail \in Nat
  BY GuestTypes
<1>2. n \in tail'..head' /\ n \in tail..(head - 1)
  BY <1>1
<1>3. Done(n) /\ End(n)' = End(n) /\ TextLen(n)' = TextLen(n)
  BY <1>2 DEF Fewer
<1>4. End(n) <= Begin(head)
  BY <1>2, <1>3 DEF GInv, HeadAfter
<1> QED
  BY <1>3, <1>4

\* Complete records stay as they are, unless they are recycled.
AllKept ==
    \A n \in tail..head : Done(n) /\ n \notin recycled' =>
        Done(n)' /\ Begin(n)' = Begin(n) /\ End(n)' = End(n) /\ TextLen(n)' = TextLen(n)

\* The steps before the text of a new record is written.
LEMMA QuietReader ==
    ASSUME XInv, GuestOK', Frame, AllKept, text' = text,
           w.ph \notin {"extend", "text", "len", "commit"}
    PROVE  RInv'
<1>0. GInv /\ RInv
  BY DEF XInv
<1>1. DoneKept
  BY DEF AllKept, DoneKept
<1>2. \A n \in DOMAIN live \ recycled' : n \in Kept /\ Done(n) /\ n \in tail..head
  BY <1>0 DEF RInv, LiveOK, Kept, Frame, Done, Mine
<1>3. \A n \in DOMAIN live \ recycled' :
         Done(n)' /\ Begin(n)' = Begin(n) /\ End(n)' = End(n) /\ TextLen(n)' = TextLen(n)
  BY <1>2 DEF AllKept
<1>4. LiveOK'
  <2> SUFFICES ASSUME NEW n \in DOMAIN live \ recycled'
        PROVE  /\ Mine(n)' /\ live[n] \in 0..MaxText /\ live[n] <= TextLen(n)'
               /\ n \notin reopened' => Done(n)' /\ live[n] = TextLen(n)'
               /\ Done(n)'
    BY DEF LiveOK, Kept, Frame
  <2>1. Done(n)' /\ TextLen(n)' = TextLen(n) /\ n \in Kept
    BY <1>2, <1>3
  <2>2. /\ live[n] \in 0..MaxText /\ live[n] <= TextLen(n)
        /\ n \notin reopened => live[n] = TextLen(n)
    BY <1>0, <2>1 DEF RInv, LiveOK
  <2> QED
    BY <2>1, <2>2 DEF Done, Frame
<1>5. GrowKept
  <2> SUFFICES ASSUME NEW n \in DOMAIN live \ recycled'
               PROVE  Begin(n)' = Begin(n) /\ End(n) <= End(n)'
    BY DEF GrowKept
  <2>1. Slot(n) \in 0..(N - 1)
    BY <1>0, <1>2, GuestTypes
  <2>2. End(n) \in Nat
    BY <1>0, <2>1, LposNat, Zenon DEF GInv, GuestOK, End
  <2> QED
    BY <1>3, <2>2
<1> QED
  BY <1>1, <1>4, <1>5, ReaderKept DEF RInv

-----------------------------------------------------------------------------
(***************************************************************************)
(* The steps of the guest up to the block of a new record.                 *)
(***************************************************************************)

\* desc_push_tail keeps the invariant.
LEMMA PushTailInv == ASSUME XInv, GuestOK', PushTail PROVE GInv' /\ RInv'
<1> USE DEF Begin, End, TextLen
<1>0. /\ GInv /\ RInv /\ w.ph = "idle" /\ head - tail + 1 = N
      /\ tail' = tail + 1 /\ recycled' = recycled \cup {tail}
      /\ UNCHANGED <<head, len, text, dhead, w, extends, reader, live, reopened>>
      /\ desc' = Recycled({tail})
  BY DEF XInv, PushTail
<1>1. /\ head \in Nat /\ tail \in Nat /\ N \in Nat \ {0} /\ tail \in tail..head
      /\ \A n \in tail..head : Slot(n) \in 0..(N - 1)
  BY <1>0, GuestTypes
<1>2. \A s \in 0..(N - 1) :
         /\ desc'[s].id = desc[s].id
         /\ desc'[s].begin = desc[s].begin /\ desc'[s].next = desc[s].next
         /\ s = Slot(tail) => desc'[s].st = "reusable"
         /\ s # Slot(tail) => desc'[s].st = desc[s].st
  <2>1. GuestOK
    BY <1>0 DEF GInv
  <2> QED
    BY <1>0, <2>1, RecycledFields
<1>3. \A n \in tail..head : Done(n)' <=> Done(n) /\ n # tail
  <2> SUFFICES ASSUME NEW n \in tail..head PROVE Done(n)' <=> Done(n) /\ n # tail
    OBVIOUS
  <2>1. CASE n = tail
    BY <1>0, <1>1, <2>1 DEF Done, Mine
  <2>2. CASE n # tail
    <3>1. Slot(n) # Slot(tail) /\ n \in (tail + 1)..head
      BY <1>0, <1>1, <2>2, Uniq
    <3>2. desc'[Slot(n)].id = desc[Slot(n)].id /\ desc'[Slot(n)].st = desc[Slot(n)].st
      BY <1>1, <1>2, <3>1
    <3> QED
      BY <1>0, <2>2, <3>1, <3>2 DEF Done, Mine
  <2> QED
    BY <2>1, <2>2
<1>4. Fewer
  <2> SUFFICES ASSUME NEW n \in (tail + 1)..head, Done(n)'
        PROVE  /\ n \in tail..head /\ Done(n)
               /\ Begin(n)' = Begin(n) /\ End(n)' = End(n) /\ TextLen(n)' = TextLen(n)
    BY <1>0, Zenon DEF Fewer
  <2>1. n \in tail..head
    BY <1>1
  <2> QED
    BY <1>0, <1>1, <1>2, <1>3, <2>1, Zenon
<1>5. Counts'
  BY <1>0 DEF GInv, Counts
<1>6. Window'
  BY <1>0, <1>1 DEF GInv, Window
<1>7. Owners'
  <2> SUFFICES ASSUME NEW s \in 0..(N - 1), Complete(desc'[s].st)
               PROVE  \E n \in (tail + 1)..head : Slot(n) = s /\ desc'[s].id = Id(n)
    BY <1>0, Zenon DEF Owners
  <2>1. s # Slot(tail) /\ Complete(desc[s].st)
    BY <1>2 DEF Complete
  <2>2. PICK n \in tail..head : Slot(n) = s /\ desc[s].id = Id(n)
    BY <1>0, <2>1 DEF GInv, Owners
  <2>3. n \in (tail + 1)..head
    BY <1>1, <2>1, <2>2
  <2> QED
    BY <1>2, <2>2, <2>3
<1>8. Writing'
  BY <1>0 DEF Writing
<1>9. Blocks'
  <2>1. dhead \in Nat /\ Limit' = Limit
    BY <1>0, GuestTypes DEF Limit
  <2> QED
    BY <1>0, <1>4, <2>1, BlocksKept
<1>10. (HeadHas' => HeadHas) /\ Begin(head)' = Begin(head) /\ End(head)' = End(head)
  <2>1. Slot(head) \in 0..(N - 1)
    BY <1>0, GuestTypes
  <2> QED
    BY <1>0, <1>2, <2>1, Zenon DEF HeadHas, HasBlock, Complete
<1>11. HeadAfter'
  BY <1>0, <1>4, <1>10, AfterKept, SMTT(30)
<1>12. HeadBlockOK' /\ HeadFields'
  BY <1>0, <1>10, ZenonT(30) DEF GInv, HeadBlockOK, HeadFields
<1>13. RInv'
  <2>1. Frame
    BY <1>0, <1>1 DEF Frame
  <2>2. AllKept
    BY <1>0, <1>1, <1>2, <1>3, Zenon DEF AllKept
  <2> QED
    BY <1>0, <2>1, <2>2, QuietReader
<1> QED
  BY <1>5, <1>6, <1>7, <1>8, <1>9, <1>11, <1>12, <1>13 DEF GInv

\* desc_reserve keeps the invariant: the slot the new record will take belongs to
\* no record of the ring.
LEMMA ReserveInv == ASSUME XInv, GuestOK', Reserve PROVE GInv' /\ RInv'
<1> USE DEF Begin, End, TextLen
<1>0. /\ GInv /\ RInv /\ w.ph = "idle" /\ head < MaxRecords /\ head - tail + 1 < N
      /\ head' = head + 1 /\ w'.ph = "reserve"
      /\ UNCHANGED <<tail, desc, len, text, dhead, extends, reader, history>>
  BY DEF XInv, Reserve
<1>1. /\ head \in Nat /\ tail \in Nat /\ N \in Nat \ {0} /\ MaxRecords \in Nat
      /\ tail \in 0..(head + 1) /\ dhead \in Nat
  BY <1>0, GuestTypes DEF GInv, Window
<1>2. ~ Complete(desc[Slot(head + 1)].st)
  <2> SUFFICES ASSUME Complete(desc[Slot(head + 1)].st) PROVE FALSE
    OBVIOUS
  <2>1. Slot(head + 1) \in 0..(N - 1)
    BY <1>1, SlotType
  <2>2. PICK n \in tail..head : Slot(n) = Slot(head + 1)
    BY <1>0, <2>1 DEF GInv, Owners
  <2>3. n \in Nat /\ n < head + 1 /\ (head + 1) - n < N
    BY <1>0, <1>1
  <2> QED
    BY <1>1, <2>2, <2>3, SlotApart
<1>3. \A n \in tail..(head + 1) : Done(n)' => n \in tail..head /\ Done(n)
  <2> SUFFICES ASSUME NEW n \in tail..(head + 1), Done(n)'
               PROVE  n \in tail..head /\ Done(n)
    OBVIOUS
  <2>1. desc[Slot(n)].id = Id(n) /\ Complete(desc[Slot(n)].st)
    BY <1>0 DEF Done, Mine
  <2>2. n # head + 1
    BY <1>2, <2>1
  <2> QED
    BY <1>1, <2>1, <2>2 DEF Done, Mine
<1>4. Fewer
  BY <1>0, <1>3 DEF Fewer
<1>5. Counts'
  BY <1>0 DEF GInv, Counts
<1>6. Window'
  BY <1>0, <1>1 DEF Window
<1>7. Owners'
  <2> SUFFICES ASSUME NEW s \in 0..(N - 1), Complete(desc[s].st)
               PROVE  \E n \in tail..(head + 1) : Slot(n) = s /\ desc[s].id = Id(n)
    BY <1>0 DEF Owners
  <2>1. PICK n \in tail..head : Slot(n) = s /\ desc[s].id = Id(n)
    BY <1>0 DEF GInv, Owners
  <2>2. n \in tail..(head + 1)
    BY <1>1
  <2> QED
    BY <2>1, <2>2
<1>8. Writing'
  BY <1>0, <1>2 DEF Writing
<1>9. Blocks'
  <2>1. Limit' = Limit
    BY <1>0, SMTT(30) DEF Limit, LimitOf
  <2> QED
    BY <1>0, <1>1, <1>4, <2>1, BlocksKept
<1>10. HeadAfter' /\ HeadBlockOK' /\ HeadFields'
  BY <1>0, Zenon DEF HeadAfter, HeadBlockOK, HeadFields, HeadHas, HasBlock, FieldsSoFar
<1>11. RInv'
  <2>1. Frame
    BY <1>0, <1>1 DEF Frame, history
  <2>2. AllKept
    <3> SUFFICES ASSUME NEW n \in tail..head, Done(n) PROVE Done(n)'
      BY <1>0 DEF AllKept
    <3> QED
      BY <1>0, <1>1 DEF Done, Mine
  <2> QED
    BY <1>0, <2>1, <2>2, QuietReader
<1> QED
  BY <1>5, <1>6, <1>7, <1>8, <1>9, <1>10, <1>11 DEF GInv

\* Taking the slot, and finalizing the predecessor, keeps the invariant.
LEMMA TakeSlotInv == ASSUME XInv, GuestOK', TakeSlot PROVE GInv' /\ RInv'
<1> USE DEF Begin, End, TextLen
<1>0. /\ GInv /\ RInv /\ w.ph = "reserve" /\ w'.ph = "begin" /\ w'.len = w.len
      /\ UNCHANGED <<head, tail, len, text, dhead, extends, reader, history>>
  BY GuestTypes, Zenon DEF XInv, TakeSlot
<1>1. /\ head \in Nat /\ tail \in Nat /\ N \in Nat \ {0} /\ dhead \in Nat
      /\ Slot(head) \in 0..(N - 1) /\ tail <= head
      /\ \A n \in tail..head : Slot(n) \in 0..(N - 1)
  BY <1>0, GuestTypes, SMTT(30) DEF GInv, Window
<1>2. \A s \in 0..(N - 1) :
         /\ desc'[s].begin = desc[s].begin /\ desc'[s].next = desc[s].next
         /\ s = Slot(head) => desc'[s].id = Id(head) /\ desc'[s].st = "reserved"
         /\ s # Slot(head) => /\ desc'[s].id = desc[s].id
                              /\ Complete(desc'[s].st) <=> Complete(desc[s].st)
  <2> SUFFICES ASSUME NEW s \in 0..(N - 1)
        PROVE  /\ desc'[s].begin = desc[s].begin /\ desc'[s].next = desc[s].next
               /\ s = Slot(head) => desc'[s].id = Id(head) /\ desc'[s].st = "reserved"
               /\ s # Slot(head) => /\ desc'[s].id = desc[s].id
                                    /\ Complete(desc'[s].st) <=> Complete(desc[s].st)
    OBVIOUS
  <2>1. desc[s] \in Desc /\ DOMAIN desc = 0..(N - 1)
    BY <1>0 DEF GInv, GuestOK
  <2>2. desc'[s] = IF s = Slot(head)
                   THEN [desc[s] EXCEPT !.id = Id(head), !.st = "reserved"]
                   ELSE IF s = Slot(head - 1) /\ desc[s].st = "committed"
                   THEN [desc[s] EXCEPT !.st = "finalized"] ELSE desc[s]
    BY <2>1, Zenon DEF TakeSlot
  <2>3. CASE s = Slot(head)
    BY <2>1, <2>2, <2>3 DEF Desc
  <2>4. CASE s # Slot(head) /\ s = Slot(head - 1) /\ desc[s].st = "committed"
    BY <2>1, <2>2, <2>4 DEF Desc, Complete
  <2>5. CASE s # Slot(head) /\ ~ (s = Slot(head - 1) /\ desc[s].st = "committed")
    BY <2>2, <2>5
  <2> QED
    BY <2>3, <2>4, <2>5, SMTT(30)
<1>3. \A n \in tail..head : Done(n)' <=> Done(n)
  <2> SUFFICES ASSUME NEW n \in tail..head PROVE Done(n)' <=> Done(n)
    OBVIOUS
  <2>1. CASE n = head
    BY <1>0, <1>1, <1>2, <2>1 DEF Done, Complete, GInv, Writing
  <2>2. CASE n # head
    <3>1. Slot(n) # Slot(head)
      BY <1>0, <1>1, <2>2, Uniq
    <3> QED
      BY <1>0, <1>1, <1>2, <3>1 DEF Done, Mine
  <2> QED
    BY <2>1, <2>2
<1>4. Fewer
  BY <1>0, <1>1, <1>2, <1>3 DEF Fewer
<1>5. Counts' /\ Window'
  BY <1>0 DEF GInv, Counts, Window
<1>6. Owners'
  <2> SUFFICES ASSUME NEW s \in 0..(N - 1), Complete(desc'[s].st)
               PROVE  \E n \in tail..head : Slot(n) = s /\ desc'[s].id = Id(n)
    BY <1>0 DEF Owners
  <2>1. s # Slot(head) /\ Complete(desc[s].st)
    BY <1>2 DEF Complete
  <2> QED
    BY <1>0, <1>2, <2>1 DEF GInv, Owners
<1>7. Writing'
  BY <1>0, <1>1, <1>2, SMTT(30) DEF Writing, Complete
<1>8. Blocks'
  <2>1. Limit' = Limit
    BY <1>0, SMTT(30) DEF Limit, LimitOf
  <2> QED
    BY <1>0, <1>1, <1>4, <2>1, BlocksKept
<1>9. HeadAfter' /\ HeadBlockOK' /\ HeadFields'
  BY <1>0, Zenon DEF HeadAfter, HeadBlockOK, HeadFields, HeadHas, HasBlock, FieldsSoFar
<1>10. RInv'
  <2>1. Frame
    BY <1>0, <1>1 DEF Frame, history
  <2>2. AllKept
    BY <1>0, <1>1, <1>2, <1>3, SMTT(30) DEF AllKept
  <2> QED
    BY <1>0, <2>1, <2>2, QuietReader
<1> QED
  BY <1>5, <1>6, <1>7, <1>8, <1>9, <1>10 DEF GInv

\* Making records of V reusable and setting one field of the head's descriptor.
LEMMA RecycleStep ==
    ASSUME GInv, w.ph # "idle", NEW V, V \subseteq Owned \ {head},
           head' = head, tail' = tail,
           \A s \in 0..(N - 1) :
              /\ desc'[s].id = Recycled(V)[s].id /\ desc'[s].st = Recycled(V)[s].st
              /\ s # Slot(head) => /\ desc'[s].begin = Recycled(V)[s].begin
                                   /\ desc'[s].next = Recycled(V)[s].next
    PROVE  /\ \A n \in tail..head : Done(n)' <=> Done(n) /\ n \notin V
           /\ \A n \in tail..head : Done(n) => Begin(n)' = Begin(n) /\ End(n)' = End(n)
           /\ Owners'
           /\ ~ Complete(desc'[Slot(head)].st)
           /\ desc'[Slot(head)].id = desc[Slot(head)].id
<1>1. /\ GuestOK /\ Slot(head) \in 0..(N - 1) /\ head \in tail..head
      /\ \A n \in tail..head : Slot(n) \in 0..(N - 1)
  BY GuestTypes DEF GInv, Window
<1>2. \A n \in V : n \in tail..head /\ n # head
  BY SMTT(30) DEF Owned
<1>3. \A s \in 0..(N - 1) :
         /\ desc'[s].id = desc[s].id
         /\ (\E n \in V : Slot(n) = s) => desc'[s].st = "reusable"
         /\ ~ (\E n \in V : Slot(n) = s) => desc'[s].st = desc[s].st
         /\ s # Slot(head) => /\ desc'[s].begin = desc[s].begin
                              /\ desc'[s].next = desc[s].next
  BY <1>1, RecycledFields
<1>4. \A n \in tail..head : (\E i \in V : Slot(i) = Slot(n)) <=> n \in V
  BY <1>2, Uniq, SMTT(30)
<1>5. ASSUME NEW n \in tail..head PROVE Done(n)' <=> Done(n) /\ n \notin V
  BY <1>1, <1>3, <1>4, SMTT(30) DEF Done, Mine, Complete
<1>6. ASSUME NEW n \in tail..head, Done(n) PROVE Begin(n)' = Begin(n) /\ End(n)' = End(n)
  <2>1. Slot(n) # Slot(head)
    BY <1>6, NotHead
  <2> QED
    BY <1>1, <1>3, <2>1 DEF Begin, End
<1>7. Owners'
  <2> SUFFICES ASSUME NEW s \in 0..(N - 1), Complete(desc'[s].st)
               PROVE  \E n \in tail..head : Slot(n) = s /\ desc'[s].id = Id(n)
    BY SMTT(30) DEF Owners
  <2>1. Complete(desc[s].st)
    BY <1>3 DEF Complete
  <2> QED
    BY <1>3, <2>1 DEF GInv, Owners
<1>8. ~ Complete(desc'[Slot(head)].st) /\ desc'[Slot(head)].id = desc[Slot(head)].id
  BY <1>1, <1>3 DEF GInv, Writing, Complete
<1> QED
  BY <1>5, <1>6, <1>7, <1>8, ZenonT(30)

\* The records left when the ring grows to e begin less than a lap before e.
LEMMA Survivors ==
    ASSUME GInv, w.ph # "idle", NEW e \in Nat, NEW n \in tail..head, Done(n), TextLen(n) > 0,
           n \notin Victims(e)
    PROVE  e <= Begin(n) + T
<1>1. n # head /\ n \in Owned
  BY NotHead DEF Owned, Done, Mine
<1>2. Slot(n) \in 0..(N - 1) /\ T \in Nat
  BY GuestTypes
<1>3. Begin(n) \in Nat /\ TextLen(n) \in 0..MaxText
  BY <1>2, LposNat, Zenon DEF GInv, GuestOK, Begin, TextLen
<1>4. End(n) = BlockEnd(Begin(n), TextLen(n))
  BY DEF GInv, Blocks, BlockOK
<1>5. Begin(n) # End(n)
  <2>1. BlockSize(TextLen(n)) \in Nat /\ BlockSize(TextLen(n)) >= 2
    BY <1>3, SizeFacts, PrbAssumption DEF Header
  <2>2. /\ Place(TextLen(n), End(n)) \in Nat /\ Begin(n) <= Place(TextLen(n), End(n))
        /\ Place(TextLen(n), End(n)) = End(n) - BlockSize(TextLen(n)) /\ End(n) \in Nat
    BY <1>3, <1>4, BlockFacts
  <2> QED
    BY <1>3, <2>1, <2>2
<1>6. desc[Slot(n)].st # "reusable"
  BY DEF Done, Complete
<1>7. ~ (Begin(n) < e - T)
  BY <1>1, <1>5, <1>6, SMTT(30) DEF Victims, Begin, End
<1> QED
  BY <1>2, <1>3, <1>7

\* data_alloc, first half: making room and setting begin keeps the invariant.
LEMMA AllocBeginInv == ASSUME XInv, GuestOK', AllocBegin PROVE GInv' /\ RInv'
<1> DEFINE V == IF w.len = 0 THEN {} ELSE Victims(BlockEnd(dhead, w.len))
           b == IF w.len = 0 THEN NoLpos ELSE dhead
<1>0. /\ GInv /\ RInv /\ w.ph = "begin" /\ w'.ph = "next" /\ w'.len = w.len
      /\ UNCHANGED <<head, tail, len, text, dhead, extends, reader, live, reopened>>
      /\ recycled' = recycled \cup V
      /\ desc' = [Recycled(V) EXCEPT ![Slot(head)].begin = b]
  BY GuestTypes DEF XInv, AllocBegin
<1>1. /\ head \in Nat /\ tail \in Nat /\ N \in Nat \ {0} /\ dhead \in Nat /\ dhead \in Even
      /\ Slot(head) \in 0..(N - 1) /\ w.len \in 0..MaxText /\ GuestOK
      /\ \A n \in tail..head : n \in Nat /\ Slot(n) \in 0..(N - 1)
      /\ MaxText \in Nat
  BY <1>0, GuestTypes
<1>2. V \subseteq Owned \ {head}
  BY DEF Victims
<1>3. w.len > 0 => V = Victims(BlockEnd(dhead, w.len)) /\ b = dhead
  BY <1>1
<1>4. w.len = 0 => b = NoLpos
  OBVIOUS
<1> HIDE DEF V, b
<1>5. /\ \A s \in 0..(N - 1) :
            /\ desc'[s].id = Recycled(V)[s].id /\ desc'[s].st = Recycled(V)[s].st
            /\ s # Slot(head) => /\ desc'[s].begin = Recycled(V)[s].begin
                                 /\ desc'[s].next = Recycled(V)[s].next
      /\ desc'[Slot(head)].begin = b
  <2>1. Recycled(V) \in [0..(N - 1) -> Desc]
    BY <1>1, RecycledKeeps
  <2> QED
    BY <1>0, <1>1, <2>1 DEF Desc
<1>6. /\ \A n \in tail..head : Done(n)' <=> Done(n) /\ n \notin V
      /\ \A n \in tail..head : Done(n) => Begin(n)' = Begin(n) /\ End(n)' = End(n)
      /\ Owners'
      /\ ~ Complete(desc'[Slot(head)].st)
      /\ desc'[Slot(head)].id = desc[Slot(head)].id
  <2>1. head' = head /\ tail' = tail /\ w.ph # "idle"
    BY <1>0
  <2> QED
    BY <1>0, <1>2, <1>5, <2>1, RecycleStep
<1>7. Counts' /\ Window'
  BY <1>0 DEF GInv, Counts, Window
<1>8. Writing'
  BY <1>0, <1>6 DEF Writing, GInv
<1>9. Blocks'
  <2> SUFFICES ASSUME NEW n \in tail..head, Done(n)'
               PROVE  BlockOK(n, Begin(n)', End(n)', TextLen(n)', dhead', Limit', text')
    BY <1>0 DEF Blocks, BlockOK, Holds
  <2>1. Done(n) /\ n \notin V /\ Begin(n)' = Begin(n) /\ End(n)' = End(n)
    BY <1>6
  <2>2. TextLen(n)' = TextLen(n) /\ dhead' = dhead /\ text' = text
    BY <1>0 DEF TextLen
  <2>3. BlockOK(n, Begin(n), End(n), TextLen(n), dhead, Limit, text)
    BY <1>0, <2>1 DEF GInv, Blocks
  <2>4. CASE w.len = 0
    <3>1. Limit' = Limit
      BY <1>0, <2>4 DEF Limit, LimitOf
    <3> QED
      BY <2>1, <2>2, <2>3, <3>1
  <2>5. CASE w.len > 0 /\ TextLen(n) > 0
    <3>1. Limit' = BlockEnd(dhead, w.len)
      BY <1>0, <2>5 DEF Limit, LimitOf
    <3>2. BlockEnd(dhead, w.len) \in Nat
      BY <1>1, BlockFacts, Zenon
    <3>3. BlockEnd(dhead, w.len) <= Begin(n) + T
      BY <1>0, <1>3, <2>1, <2>5, <3>2, Survivors
    <3> QED
      BY <2>1, <2>2, <2>3, <2>5, <3>1, <3>3 DEF BlockOK
  <2>6. CASE TextLen(n) = 0
    BY <2>1, <2>2, <2>3, <2>6 DEF BlockOK
  <2>7. TextLen(n) \in 0..MaxText
    BY <1>1, SMTT(30) DEF GuestOK, TextLen
  <2> QED
    BY <1>1, <2>4, <2>5, <2>6, <2>7
<1>10. HeadAfter'
  <2> SUFFICES ASSUME HeadHas', NEW n \in tail..(head - 1), Done(n)', TextLen(n)' > 0
               PROVE  End(n)' <= Begin(head)'
    BY <1>0 DEF HeadAfter
  <2>1. w.len > 0
    BY <1>0 DEF HeadHas, HasBlock
  <2>2. n \in tail..head
    BY <1>1
  <2>3. Done(n) /\ End(n)' = End(n) /\ TextLen(n)' = TextLen(n)
    BY <1>0, <1>6, <2>2 DEF TextLen
  <2>4. End(n) <= dhead
    BY <1>0, <2>2, <2>3 DEF GInv, Blocks, BlockOK
  <2>5. Begin(head)' = dhead
    BY <1>0, <1>3, <1>5, <2>1 DEF Begin
  <2> QED
    BY <2>3, <2>4, <2>5
<1>11. HeadBlockOK'
  <2> SUFFICES ASSUME HeadHas'
        PROVE  BlockSoFar(head', w'.ph, w'.len, Begin(head)', End(head)', TextLen(head)', dhead', text')
    BY Zenon DEF HeadBlockOK, BlockSoFar, Holds
  <2>1. w.len > 0
    BY <1>0 DEF HeadHas, HasBlock
  <2>2. Begin(head)' = dhead
    BY <1>0, <1>3, <1>5, <2>1 DEF Begin
  <2> QED
    BY <1>0, <1>1, <2>2, SMTT(30) DEF BlockSoFar
<1>12. HeadFields'
  <2>1. w.len = 0 => Begin(head)' = NoLpos
    BY <1>0, <1>4, <1>5 DEF Begin
  <2> QED
    BY <1>0, <2>1 DEF HeadFields, FieldsSoFar
<1>13. RInv'
  <2>1. Frame
    BY <1>0, <1>1 DEF Frame
  <2>2. AllKept
    BY <1>0, <1>6 DEF AllKept, TextLen
  <2> QED
    BY <1>0, <2>1, <2>2, QuietReader
<1> QED
  BY <1>6, <1>7, <1>8, <1>9, <1>10, <1>11, <1>12, <1>13 DEF GInv

=============================================================================

-------------------------- MODULE PrbExactProofs --------------------------
(***************************************************************************)
(* What dump_lockless_record_log prints, proved for every size of the      *)
(* rings, every length of text, any number of records below the number of  *)
(* ids, any number of continuations, and every interleaving of the guest's *)
(* writer with the reader's copies.                                        *)
(*                                                                         *)
(* PrbProofs has the invariant XInv and the guest's first steps.  Here are *)
(* the steps that allocate, fill, extend and commit a block, the steps of  *)
(* the reader, and what XInv says about the output.                        *)
(***************************************************************************)
EXTENDS PrbProofs

\* A step that names no prover is tried with these two, in this order.
USE SMTT(30), ZenonT(30)

-----------------------------------------------------------------------------
(***************************************************************************)
(* The steps of the guest that write a block.                              *)
(***************************************************************************)

\* A step that touches only the newest record's slot leaves the other records.
LEMMA HeadOnly ==
    ASSUME GInv, head' = head, tail' = tail,
           \A s \in 0..(N - 1) : s # Slot(head) => desc'[s] = desc[s] /\ len'[s] = len[s]
    PROVE  \A n \in tail..(head - 1) :
               /\ n \in tail..head /\ n # head /\ Slot(n) # Slot(head)
               /\ (Done(n)' <=> Done(n)) /\ (Mine(n)' <=> Mine(n))
               /\ Begin(n)' = Begin(n) /\ End(n)' = End(n) /\ TextLen(n)' = TextLen(n)
<1> SUFFICES ASSUME NEW n \in tail..(head - 1)
      PROVE  /\ n \in tail..head /\ n # head /\ Slot(n) # Slot(head)
             /\ (Done(n)' <=> Done(n)) /\ (Mine(n)' <=> Mine(n))
             /\ Begin(n)' = Begin(n) /\ End(n)' = End(n) /\ TextLen(n)' = TextLen(n)
  OBVIOUS
<1>1. n \in tail..head /\ n # head /\ head \in tail..head /\ Slot(n) \in 0..(N - 1)
  BY GuestTypes
<1>2. Slot(n) # Slot(head)
  BY <1>1, Uniq
<1>3. desc'[Slot(n)] = desc[Slot(n)] /\ len'[Slot(n)] = len[Slot(n)]
  BY <1>1, <1>2
<1> QED
  BY <1>1, <1>2, <1>3 DEF Done, Mine, Begin, End, TextLen

\* data_alloc, second half: setting next keeps the invariant.
LEMMA AllocNextInv == ASSUME XInv, GuestOK', AllocNext PROVE GInv' /\ RInv'
<1>0. /\ GInv /\ RInv /\ w.ph = "next" /\ w'.len = w.len
      /\ w'.ph = IF w.len = 0 THEN "len" ELSE "text"
      /\ UNCHANGED <<head, tail, len, text, extends, reader, history>>
  BY GuestTypes DEF XInv, AllocNext
<1>1. /\ head \in Nat /\ tail \in Nat /\ N \in Nat \ {0} /\ dhead \in Nat /\ dhead \in Even
      /\ Slot(head) \in 0..(N - 1) /\ w.len \in 0..MaxText /\ GuestOK
      /\ \A n \in tail..head : n \in Nat /\ Slot(n) \in 0..(N - 1)
      /\ MaxText \in Nat /\ head \in tail..head
  BY <1>0, GuestTypes DEF GInv, Window
<1>2. PICK e : /\ desc' = [desc EXCEPT ![Slot(head)].next = e]
               /\ w.len = 0 => e = NoLpos /\ dhead' = dhead
               /\ w.len > 0 => e = BlockEnd(dhead, w.len) /\ dhead' = e
  BY <1>1 DEF AllocNext
<1>3. /\ \A s \in 0..(N - 1) : s # Slot(head) => desc'[s] = desc[s] /\ len'[s] = len[s]
      /\ desc'[Slot(head)].id = desc[Slot(head)].id
      /\ desc'[Slot(head)].st = desc[Slot(head)].st
      /\ desc'[Slot(head)].begin = desc[Slot(head)].begin
      /\ desc'[Slot(head)].next = e
  BY <1>0, <1>1, <1>2 DEF GuestOK, Desc
<1>4. /\ \A n \in tail..(head - 1) :
            /\ n \in tail..head /\ (Done(n)' <=> Done(n))
            /\ Begin(n)' = Begin(n) /\ End(n)' = End(n) /\ TextLen(n)' = TextLen(n)
      /\ ~ Done(head) /\ ~ Done(head)'
  <2>1. ~ Done(head) /\ ~ Done(head)'
    BY <1>0, <1>1, <1>3 DEF GInv, Writing, Done
  <2> QED
    BY <1>0, <1>3, <2>1, HeadOnly
<1>5. \A n \in tail..head : n = head \/ n \in tail..(head - 1)
  BY <1>1
<1>6. Fewer
  BY <1>0, <1>4, <1>5 DEF Fewer
<1>7. Counts' /\ Window'
  BY <1>0 DEF GInv, Counts, Window
<1>8. Owners'
  <2> SUFFICES ASSUME NEW s \in 0..(N - 1), Complete(desc'[s].st)
               PROVE  \E n \in tail..head : Slot(n) = s /\ desc'[s].id = Id(n)
    BY <1>0 DEF Owners
  <2>1. desc'[s].id = desc[s].id /\ desc'[s].st = desc[s].st
    BY <1>3
  <2> QED
    BY <1>0, <2>1 DEF GInv, Owners
<1>9. Writing'
  BY <1>0, <1>3 DEF GInv, Writing
<1>10. Blocks'
  <2>1. Limit' = Limit /\ dhead <= dhead'
    <3>1. CASE w.len = 0
      BY <1>0, <1>1, <1>2, <3>1 DEF Limit, LimitOf
    <3>2. CASE w.len > 0
      <4>1. /\ BlockEnd(dhead, w.len) \in Nat /\ BlockSize(w.len) \in Nat
            /\ dhead <= BlockEnd(dhead, w.len) - BlockSize(w.len)
        BY <1>1, BlockFacts, SizeFacts, ZenonT(30)
      <4>2. Limit = BlockEnd(dhead, w.len) /\ Limit' = BlockEnd(dhead, w.len)
        BY <1>0, <1>2, <3>2 DEF Limit, LimitOf
      <4> QED
        BY <1>1, <1>2, <3>2, <4>1, <4>2
    <3> QED
      BY <1>1, <3>1, <3>2
  <2> QED
    BY <1>0, <1>6, <2>1, BlocksKept
<1>11. (HeadHas' => HeadHas) /\ Begin(head)' = Begin(head)
  BY <1>0, <1>3 DEF HeadHas, HasBlock, Begin
<1>12. HeadAfter'
  BY <1>0, <1>6, <1>11, AfterKept
<1>13. HeadBlockOK'
  <2> SUFFICES ASSUME HeadHas'
        PROVE  BlockSoFar(head', w'.ph, w'.len, Begin(head)', End(head)', TextLen(head)', dhead', text')
    BY DEF HeadBlockOK, BlockSoFar, Holds
  <2>1. w.len > 0 /\ w'.ph = "text"
    BY <1>0, <1>1 DEF HeadHas, HasBlock
  <2>2. Begin(head) \in Even /\ Begin(head) = dhead
    BY <1>0, <1>11 DEF GInv, HeadBlockOK, BlockSoFar
  <2>3. End(head)' = BlockEnd(dhead, w.len) /\ dhead' = BlockEnd(dhead, w.len)
    BY <1>0, <1>2, <1>3, <2>1 DEF End
  <2> QED
    BY <1>0, <1>11, <2>1, <2>2, <2>3 DEF BlockSoFar
<1>14. HeadFields'
  <2>1. w.len = 0 => Begin(head) = NoLpos
    BY <1>0 DEF GInv, HeadFields, FieldsSoFar
  <2>2. w.len = 0 => End(head)' = NoLpos
    BY <1>0, <1>2, <1>3 DEF End
  <2> QED
    BY <1>0, <1>1, <1>11, <2>1, <2>2 DEF HeadFields, FieldsSoFar
<1>15. RInv'
  <2>1. Frame
    BY <1>0, <1>1 DEF Frame, history
  <2>2. AllKept
    BY <1>4, <1>5 DEF AllKept
  <2> QED
    BY <1>0, <2>1, <2>2, QuietReader
<1> QED
  BY <1>7, <1>8, <1>9, <1>10, <1>12, <1>13, <1>14, <1>15 DEF GInv

\* What a writer of the newest record must leave of the others ...
OthersKept ==
    \A n \in tail..(head - 1) : Done(n) /\ n \notin recycled' =>
        /\ Done(n)' /\ Begin(n)' = Begin(n) /\ End(n)' = End(n) /\ TextLen(n)' = TextLen(n)
        /\ \A x \in 0..MaxText, l \in 0..MaxText :
              /\ TextLen(n) > 0 /\ l <= x /\ BlockEnd(Begin(n), x) <= End(n)
              /\ Holds(text, n, Begin(n), BlockEnd(Begin(n), x), l)
              => Holds(text', n, Begin(n), BlockEnd(Begin(n), x), l)

\* ... and of the newest record, if it was complete when the dump began.
HeadLive ==
    /\ Mine(head)' /\ live[head] <= TextLen(head)'
    /\ head \notin reopened' => Done(head)' /\ live[head] = TextLen(head)'
    /\ ~ Done(head)' => /\ w'.ph \in {"extend", "text", "len", "commit"}
                        /\ live[head] <= w'.len
                        /\ w'.ph = "text" =>
                              Holds(text', head, Begin(head)', End(head)', live[head])
\* ... and its text stays in place.
HeadGrow ==
    live[head] > 0 =>
        /\ Begin(head)' = Begin(head) /\ End(head) <= End(head)'
        /\ \A x \in live[head]..MaxText :
              /\ BlockEnd(Begin(head), x) <= End(head)
              /\ Holds(text, head, Begin(head), BlockEnd(Begin(head), x), live[head])
              => Holds(text', head, Begin(head), BlockEnd(Begin(head), x), live[head])

\* A step of the writer of the newest record.
LEMMA BusyReader ==
    ASSUME XInv, GuestOK', Frame, head' = head, OthersKept,
           Done(head) => head \in reopened',
           head \in DOMAIN live \ recycled' => HeadLive /\ HeadGrow
    PROVE  RInv'
<1>0. GInv /\ RInv /\ live' = live /\ head \in Nat /\ tail \in Nat
  BY GuestTypes DEF XInv, Frame
<1>1. \A n \in tail..head : n = head \/ n \in tail..(head - 1)
  BY <1>0
<1>2. DoneKept
  BY <1>1 DEF OthersKept, DoneKept
<1>3. \A n \in DOMAIN live \ recycled' :
         /\ n \in Kept /\ n \in tail..head
         /\ n # head => n \in tail..(head - 1) /\ Done(n)
  BY <1>0, <1>1 DEF RInv, LiveOK, Kept, Frame, Mine
<1>4. LiveOK'
  <2> SUFFICES ASSUME NEW n \in DOMAIN live \ recycled'
        PROVE  /\ Mine(n)' /\ live[n] \in 0..MaxText /\ live[n] <= TextLen(n)'
               /\ n \notin reopened' => Done(n)' /\ live[n] = TextLen(n)'
               /\ ~ Done(n)' => /\ n = head /\ w'.ph \in {"extend", "text", "len", "commit"}
                                /\ live[n] <= w'.len
                                /\ w'.ph = "text" =>
                                      Holds(text', n, Begin(n)', End(n)', live[n])
    BY <1>0 DEF LiveOK, Kept, Holds
  <2>1. /\ live[n] \in 0..MaxText /\ live[n] <= TextLen(n)
        /\ n \notin reopened => live[n] = TextLen(n)
    BY <1>0, <1>3 DEF RInv, LiveOK
  <2>2. CASE n = head
    BY <2>1, <2>2 DEF HeadLive
  <2>3. CASE n # head
    <3>1. Done(n)' /\ TextLen(n)' = TextLen(n)
      BY <1>3, <2>3 DEF OthersKept
    <3> QED
      BY <2>1, <3>1 DEF Done, Frame
  <2> QED
    BY <2>2, <2>3
<1>5. GrowKept
  <2> SUFFICES ASSUME NEW n \in DOMAIN live \ recycled', live[n] > 0
        PROVE  /\ Begin(n)' = Begin(n) /\ End(n) <= End(n)'
               /\ \A x \in live[n]..MaxText :
                    /\ BlockEnd(Begin(n), x) <= End(n)
                    /\ Holds(text, n, Begin(n), BlockEnd(Begin(n), x), live[n])
                    => Holds(text', n, Begin(n), BlockEnd(Begin(n), x), live[n])
    BY DEF GrowKept
  <2>1. CASE n = head
    BY <2>1 DEF HeadGrow
  <2>2. CASE n # head
    <3>1. n \in tail..(head - 1) /\ Done(n) /\ n \in Kept
      BY <1>3, <2>2
    <3>2. live[n] \in 0..MaxText /\ live[n] <= TextLen(n) /\ MaxText \in Nat
      BY <1>0, <3>1, PrbAssumption DEF RInv, LiveOK
    <3>3. Slot(n) \in 0..(N - 1)
      BY <1>0, <1>3, GuestTypes
    <3>4. End(n) \in Nat /\ TextLen(n) \in Nat
      <4>1. End(n) \in Nat
        BY <1>0, <3>3, LposNat, Zenon DEF GInv, GuestOK, End
      <4>2. TextLen(n) \in 0..MaxText
        BY <1>0, <3>3 DEF GInv, GuestOK, TextLen
      <4> QED
        BY <3>2, <4>1, <4>2
    <3>5. TextLen(n) > 0
      BY <3>2, <3>4
    <3>6. Begin(n)' = Begin(n) /\ End(n) <= End(n)'
      BY <3>1, <3>4 DEF OthersKept
    <3>7. \A x \in live[n]..MaxText : x \in 0..MaxText /\ live[n] <= x
      BY <3>2
    <3> QED
      BY <3>1, <3>2, <3>5, <3>6, <3>7 DEF OthersKept
  <2> QED
    BY <2>1, <2>2
<1> QED
  BY <1>2, <1>4, <1>5, ReaderKept DEF RInv

\* The text of a block lies in the ring.
LEMMA InRing ==
    ASSUME NEW b \in Nat, NEW l \in 0..MaxText
    PROVE  /\ TextStart(b, BlockEnd(b, l)) \in Nat /\ TextStart(b, BlockEnd(b, l)) >= 2
           /\ \A j \in 1..l : TextStart(b, BlockEnd(b, l)) + j - 1 \in 0..(T - 1)
<1> DEFINE S == BlockSize(l)
           e == BlockEnd(b, l)
           A == Place(l, e)
<1>1. S \in Nat /\ l + 2 <= S /\ T \in Nat \ {0}
  BY SizeFacts DEF Header
<1>2. A \in Nat /\ (A % T) + S < T /\ TextStart(b, e) = (A % T) + 2
  BY BlockFacts DEF Header
<1> HIDE DEF S, e, A
<1>3. A % T \in Nat
  BY <1>1, <1>2
<1> QED
  BY <1>1, <1>2, <1>3 DEF e

\* The ring changes in the block of n units at b only.
Outside(b, n) ==
    \A p \in 0..(T - 1) : p \notin Area(TextStart(b, BlockEnd(b, n)), n) => text'[p] = text[p]

\* What is written at hb does not disturb a block before it.
LEMMA OtherHolds ==
    ASSUME NEW n, NEW b \in Nat, NEW x \in 0..MaxText, NEW l \in 0..x,
           NEW hb \in Nat, NEW y \in 0..MaxText,
           BlockEnd(b, x) <= hb, BlockEnd(hb, y) <= b + T, Outside(hb, y),
           Holds(text, n, b, BlockEnd(b, x), l)
    PROVE  Holds(text', n, b, BlockEnd(b, x), l)
<1> SUFFICES ASSUME NEW j \in 1..l
             PROVE  text'[TextStart(b, BlockEnd(b, x)) + j - 1] = <<n, j>>
  BY DEF Holds
<1>1. j \in 1..x
  BY PrbAssumption
<1>2. TextStart(b, BlockEnd(b, x)) + j - 1 \in 0..(T - 1)
  BY <1>1, InRing
<1>3. TextStart(b, BlockEnd(b, x)) + j - 1 \notin Area(TextStart(hb, BlockEnd(hb, y)), y)
  BY <1>1, OtherPlace
<1> QED
  BY <1>2, <1>3 DEF Outside, Holds

\* What is written at b for a record that grows does not disturb its first cells.
LEMMA OwnHolds ==
    ASSUME NEW n, NEW b \in Nat, NEW x \in 0..MaxText, NEW l \in 0..x,
           NEW y \in 0..MaxText, BlockEnd(b, x) <= BlockEnd(b, y), Outside(b, y),
           Holds(text, n, b, BlockEnd(b, x), l),
           Holds(text', n, b, BlockEnd(b, y), l)
    PROVE  Holds(text', n, b, BlockEnd(b, x), l)
<1>1. CASE TextStart(b, BlockEnd(b, x)) = TextStart(b, BlockEnd(b, y))
  BY <1>1 DEF Holds
<1>2. CASE \A j \in 1..x : TextStart(b, BlockEnd(b, x)) + j - 1
                              \notin Area(TextStart(b, BlockEnd(b, y)), y)
  <2> SUFFICES ASSUME NEW j \in 1..l
               PROVE  text'[TextStart(b, BlockEnd(b, x)) + j - 1] = <<n, j>>
    BY Zenon DEF Holds
  <2>1. j \in 1..x
    BY PrbAssumption
  <2>2. TextStart(b, BlockEnd(b, x)) + j - 1 \in 0..(T - 1)
    BY <2>1, InRing
  <2> QED
    BY <1>2, <2>1, <2>2 DEF Outside, Holds
<1> QED
  BY <1>1, <1>2, OwnPlace

\* Writing the text keeps the invariant: a record is written over no other.
LEMMA WriteTextInv == ASSUME XInv, GuestOK', WriteText PROVE GInv' /\ RInv'
<1> DEFINE hb == Begin(head)
           a == TextStart(hb, BlockEnd(hb, w.len))
<1>0. /\ GInv /\ RInv /\ w.ph = "text" /\ w'.ph = "len" /\ w'.len = w.len
      /\ UNCHANGED <<head, tail, desc, len, dhead, extends, reader, history>>
  BY GuestTypes DEF XInv, WriteText
<1>1. /\ head \in Nat /\ tail \in Nat /\ N \in Nat \ {0} /\ dhead \in Nat
      /\ Slot(head) \in 0..(N - 1) /\ w.len \in 0..MaxText /\ GuestOK
      /\ \A n \in tail..head : n \in Nat /\ Slot(n) \in 0..(N - 1)
      /\ MaxText \in Nat /\ head \in tail..head /\ T \in Nat
  BY <1>0, GuestTypes DEF GInv, Window
<1>2. w.len > 0 /\ HeadHas
  BY <1>0 DEF GInv, HeadFields, FieldsSoFar, HeadHas, HasBlock
<1>3. /\ hb \in Even /\ End(head) = BlockEnd(hb, w.len) /\ End(head) = dhead
  BY <1>0, <1>2 DEF GInv, HeadBlockOK, BlockSoFar
<1>4. hb \in Nat /\ Limit = dhead /\ Limit' = dhead
  BY <1>0, <1>3 DEF Even, Limit, LimitOf
<1>5. \A p \in 0..(T - 1) :
         text'[p] = IF p \in (a - 2)..(a - 1) THEN <<head, 0>>
                    ELSE IF p \in a..(a + w.len - 1) THEN <<head, p - a + 1>>
                    ELSE text[p]
  <2>1. DOMAIN text = 0..(T - 1)
    BY <1>0 DEF GInv, Counts
  <2>2. a = TextStart(desc[Slot(head)].begin, desc[Slot(head)].next)
    BY <1>3 DEF Begin, End
  <2> HIDE DEF a
  <2> QED
    BY <2>1, <2>2 DEF WriteText, Header
<1>6. /\ a \in Nat /\ a >= 2 /\ \A j \in 1..w.len : a + j - 1 \in 0..(T - 1)
  BY <1>1, <1>4, InRing, Zenon
<1> HIDE DEF a
<1>7. Outside(hb, w.len)
  <2> SUFFICES ASSUME NEW p \in 0..(T - 1), p \notin (a - 2)..(a + w.len - 1)
               PROVE  text'[p] = text[p]
    BY DEF Outside, Area, Header, a
  <2>1. p \notin (a - 2)..(a - 1) /\ p \notin a..(a + w.len - 1)
    BY <1>1, <1>6
  <2> QED
    BY <1>5, <2>1, Zenon
<1>8. Holds(text', head, hb, BlockEnd(hb, w.len), w.len)
  <2> SUFFICES ASSUME NEW j \in 1..w.len PROVE text'[a + j - 1] = <<head, j>>
    BY DEF Holds, a
  <2>1. /\ a + j - 1 \in 0..(T - 1) /\ a + j - 1 \notin (a - 2)..(a - 1)
        /\ a + j - 1 \in a..(a + w.len - 1) /\ (a + j - 1) - a + 1 = j
    BY <1>1, <1>6
  <2> QED
    BY <1>5, <2>1, Zenon
<1> HIDE DEF hb
<1>9. \A n : Done(n)' <=> Done(n)
  BY <1>0 DEF Done, Mine
<1>10. \A n : Begin(n)' = Begin(n) /\ End(n)' = End(n) /\ TextLen(n)' = TextLen(n)
  BY <1>0 DEF Begin, End, TextLen
<1>11. ASSUME NEW n \in tail..head, Done(n), TextLen(n) > 0,
              NEW x \in 0..MaxText, NEW l \in 0..x, BlockEnd(Begin(n), x) <= End(n),
              Holds(text, n, Begin(n), BlockEnd(Begin(n), x), l)
       PROVE  Holds(text', n, Begin(n), BlockEnd(Begin(n), x), l)
  <2>1. n \in tail..(head - 1)
    BY <1>0, <1>11, NotHead
  <2>2. End(n) <= hb
    BY <1>0, <1>2, <1>11, <2>1 DEF GInv, HeadAfter, hb
  <2>3. dhead <= Begin(n) + T
    BY <1>0, <1>4, <1>11 DEF GInv, Blocks, BlockOK
  <2>4. Begin(n) \in Nat /\ End(n) \in Nat
    BY <1>1, LposNat, Zenon DEF GuestOK, Begin, End
  <2>5. BlockEnd(Begin(n), x) \in Nat
    BY <2>4, BlockFacts
  <2>6. BlockEnd(Begin(n), x) <= hb /\ BlockEnd(hb, w.len) <= Begin(n) + T
    BY <1>3, <1>4, <1>11, <2>2, <2>3, <2>4, <2>5
  <2> QED
    BY <1>1, <1>4, <1>7, <1>11, <2>4, <2>6, OtherHolds
<1>12. Counts' /\ Window' /\ Owners' /\ Writing'
  <2>1. text' = [p \in 0..(T - 1) |-> text'[p]]
    BY <1>0 DEF GInv, Counts, WriteText
  <2>2. Counts'
    BY <1>0, <2>1 DEF GInv, Counts
  <2> QED
    BY <1>0, <2>2 DEF GInv, Window, Owners, Writing
<1>13. Blocks'
  <2> SUFFICES ASSUME NEW n \in tail..head, Done(n)
               PROVE  BlockOK(n, Begin(n), End(n), TextLen(n), dhead, dhead, text')
    BY <1>0, <1>4, <1>9, <1>10 DEF Blocks, BlockOK, Holds
  <2>1. BlockOK(n, Begin(n), End(n), TextLen(n), dhead, dhead, text)
    BY <1>0, <1>4 DEF GInv, Blocks
  <2>2. TextLen(n) \in 0..MaxText
    BY <1>1 DEF GuestOK, TextLen
  <2>3. CASE TextLen(n) = 0
    BY <2>1, <2>3 DEF BlockOK
  <2>4. CASE TextLen(n) > 0
    <3>1. /\ End(n) = BlockEnd(Begin(n), TextLen(n)) /\ Begin(n) \in Even
          /\ Holds(text, n, Begin(n), End(n), TextLen(n))
      BY <2>1, <2>4 DEF BlockOK
    <3>2. TextLen(n) \in 0..TextLen(n) /\ BlockEnd(Begin(n), TextLen(n)) <= End(n)
      <4>1. Begin(n) \in Nat
        BY <3>1 DEF Even
      <4>2. End(n) \in Nat
        BY <2>2, <3>1, <4>1, BlockFacts
      <4> QED
        BY <1>1, <2>2, <3>1, <4>2
    <3>3. Holds(text', n, Begin(n), End(n), TextLen(n))
      BY <1>11, <2>2, <2>4, <3>1, <3>2
    <3> QED
      BY <2>1, <2>4, <3>3 DEF BlockOK
  <2> QED
    BY <1>1, <2>2, <2>3, <2>4
<1>14. HeadAfter'
  <2>1. Fewer
    BY <1>0, <1>9, <1>10 DEF Fewer
  <2>2. Begin(head)' = Begin(head)
    BY <1>0 DEF Begin
  <2> QED
    BY <1>0, <1>2, <2>1, <2>2, AfterKept
<1>15. HeadBlockOK' /\ HeadFields'
  <2>1. /\ Begin(head)' = hb /\ End(head)' = BlockEnd(hb, w.len) /\ TextLen(head)' = TextLen(head)
        /\ dhead' = End(head)' /\ head' = head
    BY <1>0, <1>3 DEF Begin, End, TextLen, hb
  <2>2. BlockSoFar(head', w'.ph, w'.len, Begin(head)', End(head)', TextLen(head)', dhead', text')
    BY <1>0, <1>3, <1>8, <2>1 DEF BlockSoFar
  <2>3. HeadBlockOK'
    BY <2>2 DEF HeadBlockOK, BlockSoFar, Holds
  <2>4. HeadFields'
    BY <1>0, <1>1, <1>2 DEF HeadFields, FieldsSoFar
  <2> QED
    BY <2>3, <2>4
<1>16. ~ Done(head)
  BY <1>0 DEF GInv, Writing, Done
<1>17. OthersKept
  <2> SUFFICES ASSUME NEW n \in tail..(head - 1), Done(n), TextLen(n) > 0,
                      NEW x \in 0..MaxText, NEW l \in 0..MaxText, l <= x,
                      BlockEnd(Begin(n), x) <= End(n),
                      Holds(text, n, Begin(n), BlockEnd(Begin(n), x), l)
               PROVE  Holds(text', n, Begin(n), BlockEnd(Begin(n), x), l)
    BY <1>9, <1>10 DEF OthersKept
  <2>1. n \in tail..head /\ l \in 0..x
    BY <1>1
  <2> QED
    BY <1>11, <2>1
<1>18. ASSUME head \in DOMAIN live \ recycled' PROVE HeadLive /\ HeadGrow
  <2>1. head \in Kept
    BY <1>0, <1>18 DEF Kept, history
  <2>2. /\ Mine(head) /\ live[head] \in 0..MaxText /\ live[head] <= TextLen(head)
        /\ head \in reopened /\ live[head] <= w.len
    BY <1>0, <1>16, <2>1 DEF RInv, LiveOK
  <2>3. HeadLive
    <3>1. Mine(head)' /\ TextLen(head)' = TextLen(head) /\ reopened' = reopened
      BY <1>0, <2>2 DEF Mine, TextLen, history
    <3> QED
      BY <1>0, <2>2, <3>1 DEF HeadLive
  <2>4. HeadGrow
    <3> SUFFICES ASSUME NEW x \in live[head]..MaxText,
                        BlockEnd(hb, x) <= End(head),
                        Holds(text, head, hb, BlockEnd(hb, x), live[head])
                 PROVE  Holds(text', head, hb, BlockEnd(hb, x), live[head])
      <4>1. Begin(head)' = Begin(head) /\ End(head) <= End(head)'
        BY <1>0, <1>1, <1>3 DEF Begin, End
      <4> QED
        BY <4>1 DEF HeadGrow, hb
    <3>1. x \in 0..MaxText /\ live[head] \in 0..x
      BY <1>1, <2>2
    <3>2. Holds(text', head, hb, BlockEnd(hb, w.len), live[head])
      <4>1. \A j \in 1..live[head] : j \in 1..w.len
        BY <1>1, <2>2
      <4> QED
        BY <1>8, <4>1 DEF Holds
    <3> QED
      BY <1>1, <1>3, <1>4, <1>7, <3>1, <3>2, OwnHolds, Zenon
  <2> QED
    BY <2>3, <2>4
<1>19. RInv'
  <2>1. Frame
    BY <1>0, <1>1 DEF Frame, history
  <2> QED
    BY <1>0, <1>16, <1>17, <1>18, <2>1, BusyReader
<1> QED
  BY <1>12, <1>13, <1>14, <1>15, <1>19 DEF GInv

\* Writing the length keeps the invariant.
LEMMA WriteLenInv == ASSUME XInv, GuestOK', WriteLen PROVE GInv' /\ RInv'
<1>0. /\ GInv /\ RInv /\ w.ph = "len" /\ w'.ph = "commit" /\ w'.len = w.len
      /\ len' = [len EXCEPT ![Slot(head)] = w.len]
      /\ UNCHANGED <<head, tail, desc, text, dhead, extends, reader, history>>
  BY GuestTypes DEF XInv, WriteLen
<1>1. /\ head \in Nat /\ tail \in Nat /\ N \in Nat \ {0} /\ dhead \in Nat
      /\ Slot(head) \in 0..(N - 1) /\ w.len \in 0..MaxText /\ GuestOK
      /\ MaxText \in Nat /\ head \in tail..head
  BY <1>0, GuestTypes DEF GInv, Window
<1>2. /\ \A s \in 0..(N - 1) : s # Slot(head) => desc'[s] = desc[s] /\ len'[s] = len[s]
      /\ len'[Slot(head)] = w.len
  BY <1>0, <1>1 DEF GuestOK
<1>3. /\ \A n \in tail..(head - 1) :
            /\ n \in tail..head /\ (Done(n)' <=> Done(n))
            /\ Begin(n)' = Begin(n) /\ End(n)' = End(n) /\ TextLen(n)' = TextLen(n)
      /\ ~ Done(head) /\ ~ Done(head)'
  <2>1. ~ Done(head) /\ ~ Done(head)'
    BY <1>0 DEF GInv, Writing, Done
  <2> QED
    BY <1>0, <1>2, <2>1, HeadOnly, ZenonT(30)
<1>4. \A n \in tail..head : n = head \/ n \in tail..(head - 1)
  BY <1>1
<1>5. Fewer
  BY <1>0, <1>3, <1>4 DEF Fewer
<1>6. Counts' /\ Window' /\ Owners' /\ Writing'
  BY <1>0 DEF GInv, Counts, Window, Owners, Writing
<1>7. Blocks'
  <2>1. Limit' = Limit
    BY <1>0 DEF Limit, LimitOf
  <2> QED
    BY <1>0, <1>1, <1>5, <2>1, BlocksKept
<1>8. /\ HeadHas' => HeadHas
      /\ Begin(head)' = Begin(head) /\ End(head)' = End(head) /\ TextLen(head)' = w.len
  BY <1>0, <1>2 DEF HeadHas, HasBlock, Begin, End, TextLen
<1>9. HeadAfter'
  BY <1>0, <1>5, <1>8, AfterKept
<1>10. HeadBlockOK' /\ HeadFields'
  <2>1. HeadBlockOK'
    <3> SUFFICES ASSUME HeadHas'
          PROVE  BlockSoFar(head', w'.ph, w'.len, Begin(head)', End(head)', TextLen(head)',
                            dhead', text')
      BY DEF HeadBlockOK, BlockSoFar, Holds
    <3>1. BlockSoFar(head, w.ph, w.len, Begin(head), End(head), TextLen(head), dhead, text)
      BY <1>0, <1>8, Zenon DEF GInv, HeadBlockOK
    <3> QED
      BY <1>0, <1>8, <3>1, Zenon DEF BlockSoFar
  <2>2. HeadFields'
    <3>1. FieldsSoFar(w.ph, w.len, Begin(head), End(head), TextLen(head))
      BY <1>0 DEF GInv, HeadFields
    <3> QED
      BY <1>0, <1>8, <3>1 DEF HeadFields, FieldsSoFar
  <2> QED
    BY <2>1, <2>2
<1>11. OthersKept
  BY <1>0, <1>3 DEF OthersKept
<1>12. ASSUME head \in DOMAIN live \ recycled' PROVE HeadLive /\ HeadGrow
  <2>1. head \in Kept
    BY <1>0, <1>12 DEF Kept, history
  <2>2. Mine(head) /\ head \in reopened /\ live[head] <= w.len
    BY <1>0, <1>3, <2>1 DEF RInv, LiveOK
  <2>3. Mine(head)' /\ reopened' = reopened
    BY <1>0, <2>2 DEF Mine, history
  <2>4. End(head) \in Nat
    BY <1>1, LposNat, Zenon DEF GuestOK, End
  <2> QED
    BY <1>0, <1>8, <2>2, <2>3, <2>4 DEF HeadLive, HeadGrow
<1>13. RInv'
  <2>1. Frame
    BY <1>0, <1>1 DEF Frame, history
  <2> QED
    BY <1>0, <1>3, <1>11, <1>12, <2>1, BusyReader
<1> QED
  BY <1>6, <1>7, <1>9, <1>10, <1>13 DEF GInv

\* prb_commit keeps the invariant: what becomes complete is whole.
LEMMA CommitInv == ASSUME XInv, GuestOK', Commit PROVE GInv' /\ RInv'
<1>0. /\ GInv /\ RInv /\ w.ph = "commit" /\ w'.ph = "idle" /\ w'.len = w.len
      /\ UNCHANGED <<head, tail, len, text, dhead, extends, reader, history>>
  BY GuestTypes DEF XInv, Commit
<1>1. /\ head \in Nat /\ tail \in Nat /\ N \in Nat \ {0} /\ dhead \in Nat
      /\ Slot(head) \in 0..(N - 1) /\ w.len \in 0..MaxText /\ GuestOK
      /\ MaxText \in Nat /\ head \in tail..head /\ T \in Nat
  BY <1>0, GuestTypes DEF GInv, Window
<1>2. PICK st \in {"committed", "finalized"} : desc' = [desc EXCEPT ![Slot(head)].st = st]
  BY Zenon DEF Commit
<1>3. /\ \A s \in 0..(N - 1) : s # Slot(head) => desc'[s] = desc[s] /\ len'[s] = len[s]
      /\ desc'[Slot(head)].id = desc[Slot(head)].id
      /\ Complete(desc'[Slot(head)].st)
      /\ desc'[Slot(head)].begin = desc[Slot(head)].begin
      /\ desc'[Slot(head)].next = desc[Slot(head)].next
  BY <1>0, <1>1, <1>2 DEF GuestOK, Desc, Complete
<1>4. /\ \A n \in tail..(head - 1) :
            /\ n \in tail..head /\ (Done(n)' <=> Done(n))
            /\ Begin(n)' = Begin(n) /\ End(n)' = End(n) /\ TextLen(n)' = TextLen(n)
      /\ ~ Done(head) /\ Done(head)' /\ desc[Slot(head)].id = Id(head)
      /\ Begin(head)' = Begin(head) /\ End(head)' = End(head) /\ TextLen(head)' = TextLen(head)
  <2>1. ~ Done(head) /\ desc[Slot(head)].id = Id(head)
    BY <1>0 DEF GInv, Writing, Done
  <2>2. Done(head)'
    BY <1>0, <1>1, <1>3, <2>1 DEF Done, Mine
  <2>3. Begin(head)' = Begin(head) /\ End(head)' = End(head) /\ TextLen(head)' = TextLen(head)
    BY <1>0, <1>3 DEF Begin, End, TextLen
  <2> QED
    BY <1>0, <1>3, <2>1, <2>2, <2>3, HeadOnly, ZenonT(30)
<1>5. \A n \in tail..head : n = head \/ n \in tail..(head - 1)
  BY <1>1
<1>6. Counts' /\ Window' /\ Writing'
  BY <1>0 DEF GInv, Counts, Window, Writing
<1>7. Owners'
  <2> SUFFICES ASSUME NEW s \in 0..(N - 1), Complete(desc'[s].st)
               PROVE  \E n \in tail..head : Slot(n) = s /\ desc'[s].id = Id(n)
    BY <1>0 DEF Owners
  <2>1. CASE s = Slot(head)
    BY <1>1, <1>3, <1>4, <2>1, ZenonT(30)
  <2>2. CASE s # Slot(head)
    BY <1>0, <1>3, <2>2 DEF GInv, Owners
  <2> QED
    BY <2>1, <2>2
<1>8. Limit = dhead /\ Limit' = dhead
  BY <1>0 DEF Limit, LimitOf
<1>9. TextLen(head) = w.len
  BY <1>0 DEF GInv, HeadFields, FieldsSoFar
<1>10. BlockOK(head, Begin(head), End(head), TextLen(head), dhead, dhead, text)
  <2>1. CASE w.len = 0
    BY <1>0, <1>9, <2>1 DEF GInv, HeadFields, FieldsSoFar, BlockOK
  <2>2. CASE w.len > 0
    <3>1. HeadHas
      BY <1>0, <2>2 DEF HeadHas, HasBlock
    <3>2. /\ Begin(head) \in Even /\ End(head) = BlockEnd(Begin(head), w.len)
          /\ End(head) = dhead
          /\ Holds(text, head, Begin(head), End(head), w.len)
      BY <1>0, <3>1 DEF GInv, HeadBlockOK, BlockSoFar
    <3>3. Begin(head) \in Nat
      BY <3>2 DEF Even
    <3>4. /\ BlockEnd(Begin(head), w.len) <= Begin(head) + 2 * BlockSize(w.len)
          /\ BlockSize(w.len) \in Nat /\ 2 * BlockSize(w.len) < T
      BY <1>1, <3>3, BlockFacts, SizeFacts, Zenon
    <3>5. dhead <= Begin(head) + T
      BY <1>1, <3>2, <3>3, <3>4
    <3> QED
      BY <1>1, <1>9, <2>2, <3>2, <3>5 DEF BlockOK
  <2> QED
    BY <1>1, <2>1, <2>2
<1>11. Blocks'
  <2> SUFFICES ASSUME NEW n \in tail..head, Done(n)'
               PROVE  BlockOK(n, Begin(n)', End(n)', TextLen(n)', dhead, dhead, text)
    BY <1>0, <1>8 DEF Blocks, BlockOK, Holds
  <2>1. CASE n = head
    <3>1. /\ Begin(n)' = Begin(head) /\ End(n)' = End(head) /\ TextLen(n)' = TextLen(head)
      BY <1>0, <1>3, <2>1, ZenonT(30) DEF Begin, End, TextLen
    <3> QED
      BY <1>10, <2>1, <3>1
  <2>2. CASE n # head
    <3>1. /\ Done(n) /\ n \in tail..head
          /\ Begin(n)' = Begin(n) /\ End(n)' = End(n) /\ TextLen(n)' = TextLen(n)
      BY <1>4, <1>5, <2>2
    <3> QED
      BY <1>0, <1>8, <3>1 DEF GInv, Blocks
  <2> QED
    BY <2>1, <2>2
<1>12. HeadHas' => HeadHas /\ w.len > 0
  BY <1>0, <1>9 DEF HeadHas, HasBlock, TextLen
<1>13. HeadAfter'
  <2> SUFFICES ASSUME HeadHas', NEW n \in tail..(head - 1), Done(n)', TextLen(n)' > 0
               PROVE  End(n)' <= Begin(head)'
    BY <1>0 DEF HeadAfter
  <2> QED
    BY <1>0, <1>4, <1>12 DEF GInv, HeadAfter
<1>14. HeadBlockOK' /\ HeadFields'
  <2>1. HeadBlockOK'
    <3> SUFFICES ASSUME HeadHas'
          PROVE  BlockSoFar(head', w'.ph, w'.len, Begin(head)', End(head)', TextLen(head)',
                            dhead', text')
      BY DEF HeadBlockOK, BlockSoFar, Holds
    <3>1. BlockSoFar(head, w.ph, w.len, Begin(head), End(head), TextLen(head), dhead, text)
      BY <1>0, <1>12 DEF GInv, HeadBlockOK
    <3> QED
      BY <1>0, <1>4, <1>9, <3>1, ZenonT(30) DEF BlockSoFar
  <2>2. HeadFields'
    BY <1>0 DEF HeadFields, FieldsSoFar
  <2> QED
    BY <2>1, <2>2
<1>15. OthersKept
  BY <1>0, <1>4, Zenon DEF OthersKept
<1>16. ASSUME head \in DOMAIN live \ recycled' PROVE HeadLive /\ HeadGrow
  <2>1. head \in Kept
    BY <1>0, <1>16 DEF Kept, history
  <2>2. head \in reopened /\ live[head] <= TextLen(head) /\ reopened' = reopened
    BY <1>0, <1>4, <2>1 DEF RInv, LiveOK, history
  <2>3. End(head) \in Nat
    BY <1>1, LposNat, ZenonT(30) DEF GuestOK, End
  <2>4. HeadLive
    BY <1>0, <1>4, <2>2, SMTT(30) DEF HeadLive, Done
  <2>5. HeadGrow
    BY <1>0, <1>4, <2>2, <2>3 DEF HeadGrow
  <2> QED
    BY <2>4, <2>5
<1>17. RInv'
  <2>1. Frame
    BY <1>0, <1>1 DEF Frame, history
  <2> QED
    BY <1>0, <1>4, <1>15, <1>16, <2>1, BusyReader
<1> QED
  BY <1>6, <1>7, <1>11, <1>13, <1>14, <1>17 DEF GInv

\* prb_reserve_in_last keeps the invariant.
LEMMA ReopenInv == ASSUME XInv, GuestOK', Reopen PROVE GInv' /\ RInv'
<1>0. /\ GInv /\ RInv /\ w.ph = "idle" /\ w'.ph = "extend"
      /\ desc[Slot(head)].st = "committed" /\ TextLen(head) > 0 /\ w'.len > TextLen(head)
      /\ desc' = [desc EXCEPT ![Slot(head)].st = "reserved"]
      /\ extends' = extends + 1 /\ reopened' = reopened \cup {head}
      /\ UNCHANGED <<head, tail, len, text, dhead, reader, live, recycled>>
  BY DEF XInv, Reopen, TextLen
<1>1. /\ head \in Nat /\ tail \in Nat /\ N \in Nat \ {0} /\ dhead \in Nat
      /\ Slot(head) \in 0..(N - 1) /\ GuestOK /\ MaxText \in Nat
  BY <1>0, GuestTypes
<1>2. head \in tail..head /\ Done(head)
  <2>1. Complete(desc[Slot(head)].st)
    BY <1>0 DEF Complete
  <2>2. \E n \in tail..head : TRUE
    BY <1>0, <1>1, <2>1 DEF GInv, Owners
  <2>3. head \in tail..head
    BY <1>1, <2>2
  <2> QED
    BY <1>0, <2>1, <2>3, OwnerDone
<1>3. /\ \A s \in 0..(N - 1) : s # Slot(head) => desc'[s] = desc[s] /\ len'[s] = len[s]
      /\ desc'[Slot(head)].id = desc[Slot(head)].id
      /\ desc'[Slot(head)].st = "reserved"
      /\ desc'[Slot(head)].begin = desc[Slot(head)].begin
      /\ desc'[Slot(head)].next = desc[Slot(head)].next
  BY <1>0, <1>1 DEF GuestOK, Desc
<1>4. /\ \A n \in tail..(head - 1) :
            /\ n \in tail..head /\ (Done(n)' <=> Done(n))
            /\ Begin(n)' = Begin(n) /\ End(n)' = End(n) /\ TextLen(n)' = TextLen(n)
      /\ ~ Done(head)' /\ Mine(head)'
      /\ Begin(head)' = Begin(head) /\ End(head)' = End(head) /\ TextLen(head)' = TextLen(head)
  <2>1. ~ Done(head)'
    BY <1>0, <1>3 DEF Done, Complete
  <2>2. Mine(head)'
    BY <1>0, <1>2, <1>3 DEF Done, Mine
  <2>3. Begin(head)' = Begin(head) /\ End(head)' = End(head) /\ TextLen(head)' = TextLen(head)
    BY <1>0, <1>3 DEF Begin, End, TextLen
  <2> QED
    BY <1>0, <1>3, <2>1, <2>2, <2>3, HeadOnly
<1>5. \A n \in tail..head : n = head \/ n \in tail..(head - 1)
  BY <1>1
<1>6. Fewer
  <2> SUFFICES ASSUME NEW n \in tail..head, Done(n)'
        PROVE  /\ n \in tail..head /\ Done(n)
               /\ Begin(n)' = Begin(n) /\ End(n)' = End(n) /\ TextLen(n)' = TextLen(n)
    BY <1>0 DEF Fewer
  <2>1. n # head
    BY <1>0, <1>4 DEF Done, Mine
  <2> QED
    BY <1>4, <1>5, <2>1
<1>7. Counts' /\ Window'
  BY <1>0, <1>1, <1>2 DEF GInv, Counts, Window
<1>8. Owners'
  <2> SUFFICES ASSUME NEW s \in 0..(N - 1), Complete(desc'[s].st)
               PROVE  \E n \in tail..head : Slot(n) = s /\ desc'[s].id = Id(n)
    BY <1>0 DEF Owners
  <2>1. s # Slot(head)
    BY <1>3 DEF Complete
  <2> QED
    BY <1>0, <1>3, <2>1 DEF GInv, Owners
<1>9. Writing'
  BY <1>0, <1>2, <1>3 DEF Writing, Complete, Done, Mine
<1>10. Blocks'
  <2>1. Limit' = Limit
    BY <1>0 DEF Limit, LimitOf
  <2> QED
    BY <1>0, <1>1, <1>6, <2>1, BlocksKept
<1>11. HeadHas
  BY <1>0 DEF HeadHas, HasBlock, Complete
<1>12. HeadAfter'
  BY <1>0, <1>4, <1>6, <1>11, AfterKept
<1>13. HeadBlockOK' /\ HeadFields'
  <2>1. BlockSoFar(head, w.ph, w.len, Begin(head), End(head), TextLen(head), dhead, text)
    BY <1>0, <1>11 DEF GInv, HeadBlockOK
  <2>2. BlockOK(head, Begin(head), End(head), TextLen(head), dhead, Limit, text)
    BY <1>0, <1>2 DEF GInv, Blocks
  <2>3. TextLen(head) \in 0..MaxText /\ w'.len \in 0..MaxText
    BY <1>1, Zenon DEF GuestOK, TextLen
  <2>4. BlockSoFar(head', w'.ph, w'.len, Begin(head)', End(head)', TextLen(head)', dhead', text')
    BY <1>0, <1>1, <1>4, <2>1, <2>2, <2>3 DEF BlockSoFar, BlockOK
  <2>5. HeadBlockOK'
    BY <2>4 DEF HeadBlockOK, BlockSoFar, Holds
  <2>6. HeadFields'
    BY <1>0 DEF HeadFields, FieldsSoFar
  <2> QED
    BY <2>5, <2>6
<1>14. OthersKept
  BY <1>0, <1>4 DEF OthersKept
<1>15. ASSUME head \in DOMAIN live \ recycled' PROVE HeadLive /\ HeadGrow
  <2>1. head \in Kept
    BY <1>0, <1>15 DEF Kept
  <2>2. live[head] <= TextLen(head) /\ live[head] \in 0..MaxText
    BY <1>0, <2>1 DEF RInv, LiveOK
  <2>3. TextLen(head) \in 0..MaxText /\ w'.len \in 0..MaxText
    BY <1>1 DEF GuestOK, TextLen
  <2>4. live[head] <= w'.len
    BY <1>0, <1>1, <2>2, <2>3
  <2>5. End(head) \in Nat
    BY <1>1, LposNat, Zenon DEF GuestOK, End
  <2>6. HeadLive
    BY <1>0, <1>4, <2>2, <2>4 DEF HeadLive
  <2>7. HeadGrow
    BY <1>0, <1>4, <2>5 DEF HeadGrow
  <2> QED
    BY <2>6, <2>7
<1>16. RInv'
  <2>1. Frame
    BY <1>0, <1>1 DEF Frame
  <2> QED
    BY <1>0, <1>14, <1>15, <2>1, BusyReader
<1> QED
  BY <1>7, <1>8, <1>9, <1>10, <1>12, <1>13, <1>16 DEF GInv

\* data_realloc keeps the invariant: the text of the record moves as a whole, and
\* over no other record.
LEMMA ExtendInv == ASSUME XInv, GuestOK', Extend PROVE GInv' /\ RInv'
<1> DEFINE hb == Begin(head)
           e == BlockEnd(hb, w.len)
           V == Victims(e)
           from == TextStart(hb, End(head))
           to == TextStart(hb, e)
<1>0. /\ GInv /\ RInv /\ w.ph = "extend" /\ w'.ph = "text" /\ w'.len = w.len
      /\ desc' = [Recycled(V) EXCEPT ![Slot(head)].next = e]
      /\ recycled' = recycled \cup V /\ dhead' = e
      /\ text' = [p \in DOMAIN text |->
                    IF p \in (to - 2)..(to + TextLen(head) - 1)
                    THEN text[from + (p - to)] ELSE text[p]]
      /\ UNCHANGED <<head, tail, len, extends, reader, live, reopened>>
  BY GuestTypes DEF XInv, Extend, Begin, End, TextLen, Header
<1>1. /\ head \in Nat /\ tail \in Nat /\ N \in Nat \ {0} /\ dhead \in Nat
      /\ Slot(head) \in 0..(N - 1) /\ w.len \in 0..MaxText /\ GuestOK
      /\ \A n \in tail..head : n \in Nat /\ Slot(n) \in 0..(N - 1)
      /\ MaxText \in Nat /\ head \in tail..head /\ T \in Nat
  BY <1>0, GuestTypes DEF GInv, Window
<1>2. HeadHas
  BY <1>0 DEF HeadHas, HasBlock
<1>3. /\ hb \in Even /\ End(head) = BlockEnd(hb, TextLen(head)) /\ End(head) = dhead
      /\ 0 < TextLen(head) /\ TextLen(head) < w.len
      /\ Holds(text, head, hb, End(head), TextLen(head))
  BY <1>0, <1>2 DEF GInv, HeadBlockOK, BlockSoFar
<1>4. hb \in Nat /\ Limit' = e /\ TextLen(head) \in 0..MaxText
  <2>1. hb \in Nat
    BY <1>3 DEF Even
  <2>2. Limit' = e
    BY <1>0 DEF Limit, LimitOf
  <2>3. TextLen(head) \in 0..MaxText
    BY <1>1 DEF GuestOK, TextLen
  <2> QED
    BY <2>1, <2>2, <2>3
<1>5. e \in Nat /\ End(head) <= e /\ End(head) \in Nat
  <2>1. e \in Nat /\ End(head) \in Nat
    BY <1>1, <1>3, <1>4, BlockFacts, Zenon
  <2>2. TextLen(head) <= w.len
    BY <1>1, <1>3, <1>4
  <2>3. BlockEnd(hb, TextLen(head)) <= BlockEnd(hb, w.len)
    BY <1>1, <1>4, <2>2, EndMono
  <2> QED
    BY <1>3, <2>1, <2>3
<1>6. /\ to \in Nat /\ to >= 2 /\ \A j \in 1..w.len : to + j - 1 \in 0..(T - 1)
  BY <1>1, <1>4, InRing, ZenonT(30)
<1>7. V \subseteq Owned \ {head}
  BY DEF Victims
<1>8. from = TextStart(hb, End(head)) /\ from \in Nat
  BY <1>3, <1>4, InRing, Zenon
<1> HIDE DEF from, to, V
<1>9. DOMAIN text = 0..(T - 1)
  BY <1>0 DEF GInv, Counts
<1>10. Outside(hb, w.len)
  <2> SUFFICES ASSUME NEW p \in 0..(T - 1), p \notin (to - 2)..(to + w.len - 1)
               PROVE  text'[p] = text[p]
    BY DEF Outside, Area, Header, to
  <2>1. p \notin (to - 2)..(to + TextLen(head) - 1)
    BY <1>1, <1>3, <1>4, <1>6
  <2> QED
    BY <1>0, <1>9, <2>1
<1>11. Holds(text', head, hb, e, TextLen(head))
  <2> SUFFICES ASSUME NEW j \in 1..TextLen(head) PROVE text'[to + j - 1] = <<head, j>>
    BY DEF Holds, to
  <2>1. /\ to + j - 1 \in 0..(T - 1) /\ to + j - 1 \in (to - 2)..(to + TextLen(head) - 1)
        /\ from + ((to + j - 1) - to) = from + j - 1
    <3>1. j \in 1..w.len
      BY <1>1, <1>3, <1>4
    <3> QED
      BY <1>1, <1>3, <1>4, <1>6, <1>8, <3>1
  <2>2. text'[to + j - 1] = text[from + j - 1]
    BY <1>0, <1>9, <2>1
  <2> QED
    BY <1>3, <2>2 DEF Holds, from
<1> HIDE DEF hb, e
<1>12. /\ \A s \in 0..(N - 1) :
             /\ desc'[s].id = Recycled(V)[s].id /\ desc'[s].st = Recycled(V)[s].st
             /\ desc'[s].begin = Recycled(V)[s].begin
             /\ s # Slot(head) => desc'[s].next = Recycled(V)[s].next
       /\ desc'[Slot(head)].next = e
  <2>1. Recycled(V) \in [0..(N - 1) -> Desc]
    BY <1>1, RecycledKeeps
  <2> QED
    BY <1>0, <1>1, <2>1 DEF Desc
<1>13. /\ \A n \in tail..head : Done(n)' <=> Done(n) /\ n \notin V
       /\ \A n \in tail..head : Done(n) => Begin(n)' = Begin(n) /\ End(n)' = End(n)
       /\ Owners'
       /\ ~ Complete(desc'[Slot(head)].st)
       /\ desc'[Slot(head)].id = desc[Slot(head)].id
  <2>1. head' = head /\ tail' = tail /\ w.ph # "idle"
    BY <1>0
  <2> QED
    BY <1>0, <1>7, <1>12, <2>1, RecycleStep
<1>14. /\ Begin(head)' = hb /\ End(head)' = e /\ TextLen(head)' = TextLen(head) /\ head' = head
       /\ dhead' = e
  <2>1. Recycled(V)[Slot(head)].begin = desc[Slot(head)].begin
    BY <1>1, RecycledFields
  <2> QED
    BY <1>0, <1>1, <1>12, <2>1 DEF Begin, End, TextLen, hb
<1>15. \A n : TextLen(n)' = TextLen(n)
  BY <1>0 DEF TextLen
<1>16. ~ Done(head) /\ desc[Slot(head)].id = Id(head)
  BY <1>0 DEF GInv, Writing, Done
<1>17. ASSUME NEW n \in tail..head, Done(n), n \notin V, TextLen(n) > 0
       PROVE  /\ e <= Begin(n) + T /\ End(n) <= hb
              /\ Begin(n) \in Nat /\ End(n) \in Nat /\ n \in tail..(head - 1)
  <2>1. n \in tail..(head - 1) /\ w.ph # "idle"
    BY <1>0, <1>17, NotHead
  <2>2. End(n) <= hb
    BY <1>0, <1>2, <1>17, <2>1 DEF GInv, HeadAfter, hb
  <2>3. e <= Begin(n) + T
    BY <1>0, <1>5, <1>17, <2>1, Survivors DEF V
  <2>4. Begin(n) \in Nat /\ End(n) \in Nat
    BY <1>1, LposNat, Zenon DEF GuestOK, Begin, End
  <2> QED
    BY <2>1, <2>2, <2>3, <2>4
<1>18. ASSUME NEW n \in tail..head, Done(n), n \notin V, TextLen(n) > 0,
              NEW x \in 0..MaxText, NEW l \in 0..x, BlockEnd(Begin(n), x) <= End(n),
              Holds(text, n, Begin(n), BlockEnd(Begin(n), x), l)
       PROVE  Holds(text', n, Begin(n), BlockEnd(Begin(n), x), l)
  <2>1. e <= Begin(n) + T /\ End(n) <= hb /\ Begin(n) \in Nat /\ End(n) \in Nat
    BY <1>17, <1>18
  <2>2. BlockEnd(Begin(n), x) \in Nat
    BY <2>1, BlockFacts
  <2>3. BlockEnd(Begin(n), x) <= hb
    BY <1>4, <1>18, <2>1, <2>2
  <2>4. BlockEnd(hb, w.len) <= Begin(n) + T
    BY <2>1 DEF e
  <2> QED
    BY <1>1, <1>4, <1>10, <1>18, <2>1, <2>3, <2>4, OtherHolds
<1>19. Counts' /\ Window' /\ Writing'
  <2>1. text' = [p \in 0..(T - 1) |-> text'[p]]
    BY <1>0, <1>9
  <2>2. Counts'
    BY <1>0, <2>1 DEF GInv, Counts
  <2>3. Writing'
    BY <1>0, <1>13, <1>16 DEF Writing
  <2> QED
    BY <1>0, <2>2, <2>3 DEF GInv, Window
<1>20. Blocks'
  <2> SUFFICES ASSUME NEW n \in tail..head, Done(n)'
               PROVE  BlockOK(n, Begin(n), End(n), TextLen(n), e, e, text')
    BY <1>0, <1>4, <1>13, <1>15, ZenonT(30) DEF Blocks, BlockOK, Holds
  <2>1. Done(n) /\ n \notin V
    BY <1>13
  <2>2. BlockOK(n, Begin(n), End(n), TextLen(n), dhead, Limit, text)
    BY <1>0, <2>1 DEF GInv, Blocks
  <2>3. TextLen(n) \in 0..MaxText
    BY <1>1, Zenon DEF GuestOK, TextLen
  <2>4. CASE TextLen(n) = 0
    BY <2>2, <2>4 DEF BlockOK
  <2>5. CASE TextLen(n) > 0
    <3>1. /\ End(n) = BlockEnd(Begin(n), TextLen(n)) /\ Begin(n) \in Even /\ End(n) <= dhead
          /\ Holds(text, n, Begin(n), End(n), TextLen(n))
      BY <2>2, <2>5 DEF BlockOK
    <3>2. e <= Begin(n) + T /\ End(n) \in Nat
      BY <1>17, <2>1, <2>5
    <3>3. TextLen(n) \in 0..TextLen(n) /\ BlockEnd(Begin(n), TextLen(n)) <= End(n)
      BY <1>1, <2>3, <3>1, <3>2
    <3>4. Holds(text', n, Begin(n), End(n), TextLen(n))
      BY <1>18, <2>1, <2>3, <2>5, <3>1, <3>3, ZenonT(30)
    <3>5. End(n) <= e
      BY <1>1, <1>3, <1>5, <3>1, <3>2
    <3> QED
      BY <2>5, <3>1, <3>2, <3>4, <3>5 DEF BlockOK
  <2> QED
    BY <1>1, <2>3, <2>4, <2>5
<1>21. HeadAfter'
  <2> SUFFICES ASSUME NEW n \in tail..(head - 1), Done(n)', TextLen(n)' > 0
               PROVE  End(n)' <= hb
    BY <1>0, <1>14 DEF HeadAfter
  <2>1. n \in tail..head
    BY <1>1
  <2>2. Done(n) /\ n \notin V /\ End(n)' = End(n) /\ TextLen(n)' = TextLen(n)
    BY <1>13, <1>15, <2>1
  <2> QED
    BY <1>17, <2>1, <2>2
<1>22. HeadBlockOK' /\ HeadFields'
  <2>1. BlockSoFar(head', w'.ph, w'.len, Begin(head)', End(head)', TextLen(head)', dhead', text')
    BY <1>0, <1>3, <1>14 DEF BlockSoFar, e
  <2>2. HeadBlockOK'
    BY <2>1 DEF HeadBlockOK, BlockSoFar, Holds
  <2>3. w.len > 0
    BY <1>1, <1>3, <1>4
  <2>4. HeadFields'
    BY <1>0, <2>3 DEF HeadFields, FieldsSoFar
  <2> QED
    BY <2>2, <2>4
<1>23. OthersKept
  <2> SUFFICES ASSUME NEW n \in tail..(head - 1), Done(n), n \notin recycled'
        PROVE  /\ Done(n)' /\ Begin(n)' = Begin(n) /\ End(n)' = End(n) /\ TextLen(n)' = TextLen(n)
               /\ \A x \in 0..MaxText, l \in 0..MaxText :
                     /\ TextLen(n) > 0 /\ l <= x /\ BlockEnd(Begin(n), x) <= End(n)
                     /\ Holds(text, n, Begin(n), BlockEnd(Begin(n), x), l)
                     => Holds(text', n, Begin(n), BlockEnd(Begin(n), x), l)
    BY DEF OthersKept
  <2>1. n \in tail..head /\ n \notin V
    BY <1>0, <1>1, SMTT(30)
  <2>2. Done(n)' /\ Begin(n)' = Begin(n) /\ End(n)' = End(n) /\ TextLen(n)' = TextLen(n)
    BY <1>13, <1>15, <2>1, Zenon
  <2>3. \A x \in 0..MaxText, l \in 0..MaxText : l <= x => l \in 0..x
    BY <1>1
  <2> QED
    BY <1>18, <2>1, <2>2, <2>3, ZenonT(30)
<1>24. ASSUME head \in DOMAIN live \ recycled' PROVE HeadLive /\ HeadGrow
  <2>1. head \in Kept
    BY <1>0, <1>24 DEF Kept
  <2>2. /\ Mine(head) /\ live[head] \in 0..MaxText /\ live[head] <= TextLen(head)
        /\ head \in reopened /\ live[head] <= w.len
    BY <1>0, <1>16, <2>1 DEF RInv, LiveOK
  <2>3. Holds(text', head, hb, e, live[head])
    <3>1. \A j \in 1..live[head] : j \in 1..TextLen(head)
      BY <1>1, <1>4, <2>2
    <3> QED
      BY <1>11, <3>1 DEF Holds
  <2>4. HeadLive
    <3>1. Mine(head)'
      BY <1>0, <1>1, <1>13, <1>16 DEF Mine
    <3> QED
      BY <1>0, <1>14, <2>2, <2>3, <3>1 DEF HeadLive
  <2>5. HeadGrow
    <3> SUFFICES ASSUME NEW x \in live[head]..MaxText,
                        BlockEnd(hb, x) <= End(head),
                        Holds(text, head, hb, BlockEnd(hb, x), live[head])
                 PROVE  Holds(text', head, hb, BlockEnd(hb, x), live[head])
      BY <1>5, <1>14, ZenonT(30) DEF HeadGrow, hb
    <3>1. x \in 0..MaxText /\ live[head] \in 0..x
      BY <1>1, <2>2
    <3>2. BlockEnd(hb, x) \in Nat
      BY <1>4, <3>1, BlockFacts
    <3>3. BlockEnd(hb, x) <= BlockEnd(hb, w.len)
      BY <1>5, <3>2 DEF e
    <3>4. Holds(text', head, hb, BlockEnd(hb, w.len), live[head])
      BY <2>3 DEF e
    <3> QED
      BY <1>1, <1>4, <1>10, <3>1, <3>3, <3>4, OwnHolds, ZenonT(30)
  <2> QED
    BY <2>4, <2>5
<1>25. RInv'
  <2>1. Frame
    BY <1>0, <1>1 DEF Frame
  <2> QED
    BY <1>0, <1>16, <1>23, <1>24, <2>1, BusyReader
<1> QED
  BY <1>13, <1>19, <1>20, <1>21, <1>22, <1>25 DEF GInv

-----------------------------------------------------------------------------
(***************************************************************************)
(* The steps of the reader.                                                *)
(***************************************************************************)

\* The reader does not touch the guest.
LEMMA GuestKept ==
    ASSUME GInv, UNCHANGED guest
    PROVE  /\ GInv'
           /\ \A n : (Done(n)' <=> Done(n)) /\ (Mine(n)' <=> Mine(n))
           /\ \A n : Begin(n)' = Begin(n) /\ End(n)' = End(n) /\ TextLen(n)' = TextLen(n)
<1>1. /\ UNCHANGED <<head, tail, desc, len, text, dhead, w, extends>>
  BY DEF guest
<1>2. \A n : (Done(n)' <=> Done(n)) /\ (Mine(n)' <=> Mine(n))
  BY <1>1 DEF Done, Mine
<1>3. \A n : Begin(n)' = Begin(n) /\ End(n)' = End(n) /\ TextLen(n)' = TextLen(n)
  BY <1>1 DEF Begin, End, TextLen
<1>4. GuestOK' /\ Counts' /\ Window' /\ Owners' /\ Writing'
  BY <1>1, ZenonT(30) DEF GInv, GuestOK, Counts, Window, Owners, Writing
<1>5. Limit' = Limit /\ (HeadHas' <=> HeadHas)
  BY <1>1 DEF Limit, HeadHas, TextLen
<1>6. Blocks'
  BY <1>1, <1>2, <1>3, <1>5 DEF GInv, Blocks
<1>7. Begin(head)' = Begin(head) /\ End(head)' = End(head) /\ TextLen(head)' = TextLen(head)
  BY <1>1 DEF Begin, End, TextLen
<1>8. HeadAfter' /\ HeadBlockOK' /\ HeadFields'
  BY <1>1, <1>2, <1>3, <1>5, <1>7 DEF GInv, HeadAfter, HeadBlockOK, HeadFields
<1> QED
  BY <1>2, <1>3, <1>4, <1>6, <1>8 DEF GInv

\* Reading the arrays does not change the history of the guest.
LEMMA LiveKept ==
    ASSUME XInv, UNCHANGED guest, UNCHANGED history
    PROVE  LiveOK' /\ Kept' = Kept /\ live' = live
<1>1. /\ UNCHANGED <<head, tail, desc, len, text, dhead, w>>
      /\ UNCHANGED <<live, recycled, reopened>>
  BY DEF guest, history
<1>2. Kept' = Kept
  BY <1>1 DEF Kept
<1>3. /\ \A n : (Done(n)' <=> Done(n)) /\ (Mine(n)' <=> Mine(n))
      /\ \A n : Begin(n)' = Begin(n) /\ End(n)' = End(n) /\ TextLen(n)' = TextLen(n)
  BY GuestKept DEF XInv
<1> QED
  BY <1>1, <1>2, <1>3 DEF XInv, RInv, LiveOK

\* A complete descriptor belongs to the record its id names.
LEMMA OwnerIs ==
    ASSUME GInv, NEW n \in 0..MaxRecords, desc[Slot(n)].id = Id(n),
           Complete(desc[Slot(n)].st)
    PROVE  Done(n)
<1>1. Slot(n) \in 0..(N - 1)
  BY SlotType, PrbAssumption
<1>2. PICK i \in tail..head : Slot(i) = Slot(n) /\ desc[Slot(n)].id = Id(i)
  BY <1>1 DEF GInv, Owners
<1>3. i \in 0..MaxRecords
  BY GuestTypes
<1>4. i = n
  BY <1>2, <1>3, IdApart, Zenon
<1> QED
  BY <1>2, <1>4 DEF Done, Mine

\* A kept record that had text has a block that holds at least that text.
LEMMA KeptBlock ==
    ASSUME XInv, NEW n \in Kept, live[n] > 0
    PROVE  /\ Begin(n) \in Nat /\ End(n) \in Nat /\ live[n] \in 0..MaxText
           /\ \E x \in live[n]..MaxText : End(n) = BlockEnd(Begin(n), x)
           /\ Holds(text, n, Begin(n), End(n), live[n])
<1>0. /\ GInv /\ Mine(n) /\ live[n] \in 0..MaxText /\ live[n] <= TextLen(n)
      /\ n \in tail..head /\ MaxText \in Nat
      /\ ~ Done(n) => /\ n = head /\ w.ph \in {"extend", "text", "len", "commit"}
                      /\ live[n] <= w.len
                      /\ w.ph = "text" => Holds(text, n, Begin(n), End(n), live[n])
  BY PrbAssumption DEF XInv, RInv, LiveOK, Mine
<1>1. Slot(n) \in 0..(N - 1) /\ GuestOK /\ w.len \in 0..MaxText
  BY <1>0, GuestTypes
<1>2. Begin(n) \in Nat /\ End(n) \in Nat
  BY <1>1, LposNat, Zenon DEF GuestOK, Begin, End
<1>3. TextLen(n) \in 0..MaxText
  BY <1>1 DEF GuestOK, TextLen
<1>4. TextLen(n) > 0
  BY <1>0, <1>3
<1>5. ASSUME NEW l \in 0..MaxText, live[n] <= l, End(n) = BlockEnd(Begin(n), l),
             Holds(text, n, Begin(n), End(n), l)
      PROVE  /\ \E x \in live[n]..MaxText : End(n) = BlockEnd(Begin(n), x)
             /\ Holds(text, n, Begin(n), End(n), live[n])
  <2>1. l \in live[n]..MaxText /\ \A j \in 1..live[n] : j \in 1..l
    BY <1>0, <1>5
  <2> QED
    BY <1>5, <2>1 DEF Holds
<1>6. CASE Done(n)
  <2>1. End(n) = BlockEnd(Begin(n), TextLen(n)) /\ Holds(text, n, Begin(n), End(n), TextLen(n))
    BY <1>0, <1>4, <1>6 DEF GInv, Blocks, BlockOK
  <2> QED
    BY <1>0, <1>2, <1>3, <1>5, <2>1
<1>7. CASE ~ Done(n)
  <2>1. n = head /\ w.ph \in {"extend", "text", "len", "commit"} /\ live[n] <= w.len
    BY <1>0, <1>7
  <2>2. w.len > 0
    BY <1>0, <1>1, <2>1
  <2>3. HeadHas
    BY <2>1, <2>2 DEF HeadHas, HasBlock
  <2>4. BlockSoFar(n, w.ph, w.len, Begin(n), End(n), TextLen(n), dhead, text)
    BY <1>0, <2>1, <2>3 DEF GInv, HeadBlockOK
  <2>5. CASE w.ph = "extend"
    BY <1>0, <1>2, <1>3, <1>5, <2>4, <2>5, ZenonT(30) DEF BlockSoFar
  <2>6. CASE w.ph \in {"len", "commit"}
    BY <1>0, <1>1, <1>2, <1>5, <2>1, <2>4, <2>6 DEF BlockSoFar
  <2>7. CASE w.ph = "text"
    <3>1. End(n) = BlockEnd(Begin(n), w.len)
      BY <2>4, <2>7 DEF BlockSoFar
    <3>2. w.len \in live[n]..MaxText
      BY <1>0, <1>1, <2>1
    <3> QED
      BY <1>0, <1>2, <1>7, <2>7, <3>1, <3>2
  <2> QED
    BY <2>1, <2>5, <2>6, <2>7
<1> QED
  BY <1>6, <1>7

\* Reading head_id keeps the invariant: the history starts here.
LEMMA ReadHeadInv == ASSUME XInv, ReadHead PROVE RInv'
<1>0. /\ GInv /\ RInv /\ CopyOK /\ pc' = "tail" /\ UNCHANGED guest
      /\ m' = [m EXCEPT !.head = head] /\ out' = out /\ pc = "head"
      /\ recycled' = {} /\ reopened' = {}
      /\ live' = [n \in {n \in Owned : Complete(desc[Slot(n)].st)} |-> len[Slot(n)]]
  BY DEF XInv, ReadHead
<1>1. UNCHANGED <<head, tail, desc, len, text, dhead, w>> /\ m'.head = head /\ m'.text = m.text
  BY <1>0 DEF guest, CopyOK
<1>2. \A n \in DOMAIN live' : n \in tail..head /\ Done(n) /\ live'[n] = TextLen(n)
  BY <1>0 DEF Owned, Done, Mine, TextLen
<1>3. Kept' = DOMAIN live'
  BY <1>0 DEF Kept
<1>4. LiveOK'
  <2> SUFFICES ASSUME NEW n \in DOMAIN live'
        PROVE  Done(n)' /\ live'[n] \in 0..MaxText /\ live'[n] = TextLen(n)'
    <3>1. ASSUME NEW n \in DOMAIN live'
          PROVE  /\ Done(n)' /\ Mine(n)' /\ live'[n] \in 0..MaxText /\ live'[n] = TextLen(n)'
                 /\ live'[n] <= TextLen(n)'
      <4>1. Done(n)' /\ live'[n] \in 0..MaxText /\ live'[n] = TextLen(n)'
        BY <3>1
      <4>2. live'[n] <= live'[n]
        BY <4>1, PrbAssumption
      <4> QED
        BY <4>1, <4>2 DEF Done
    <3> QED
      BY <1>3, <3>1, Zenon DEF LiveOK
  <2>1. Done(n) /\ live'[n] = TextLen(n) /\ Slot(n) \in 0..(N - 1)
    BY <1>0, <1>2, GuestTypes
  <2>2. TextLen(n) \in 0..MaxText
    BY <1>0, <2>1 DEF GInv, GuestOK, TextLen
  <2> QED
    BY <1>0, <2>1, <2>2, GuestKept
<1>5. Ids'
  <2>1. \A n \in DOMAIN live' : n \in 0..MaxRecords /\ n <= head
    BY <1>0, <1>2, GuestTypes
  <2>2. head <= head
    BY <1>0, GuestTypes
  <2> QED
    BY <1>0, <1>1, <2>1, <2>2 DEF Ids
<1>6. \A s, i : ~ Have(s, i)' /\ ~ HaveLen(s)'
  BY <1>0, Zenon DEF Have, HaveLen
<1>7. LiveCopied' /\ StableOK' /\ GrownOK'
  BY <1>6, Zenon DEF LiveCopied, StableOK, GrownOK
<1>8. OutOK'
  BY <1>0, <1>1 DEF RInv, OutOK
<1> QED
  BY <1>4, <1>5, <1>7, <1>8 DEF RInv

\* A word held after a step is one that was held, unchanged, or the guest's own.
Word(had, has, was, is, now) == has => is = IF had THEN was ELSE now

\* A step of the reader that only adds words to the copies.
Copying ==
    /\ UNCHANGED <<guest, history>>
    /\ \A s \in 0..(N - 1) :
          /\ Word(Have(s, 0), Have(s, 0)', m.desc[s].id, m'.desc[s].id, desc[s].id)
          /\ Word(Have(s, 0), Have(s, 0)', m.desc[s].st, m'.desc[s].st, desc[s].st)
          /\ Word(Have(s, 1), Have(s, 1)', m.desc[s].begin, m'.desc[s].begin, desc[s].begin)
          /\ Word(Have(s, 2), Have(s, 2)', m.desc[s].next, m'.desc[s].next, desc[s].next)
          /\ Word(HaveLen(s), HaveLen(s)', m.len[s], m'.len[s], len[s])
    /\ \A p \in 0..(T - 1) :
          Word(HaveText(p), HaveText(p)', m.text[p], m'.text[p], text[p])

\* The arrays are read in order: descriptors, infos, text.
LEMMA InOrder ==
    ASSUME CopyOK, NEW s \in 0..(N - 1)
    PROVE  /\ Have(s, 1) => Have(s, 0)
           /\ Have(s, 2) => Have(s, 1)
           /\ HaveLen(s) => Have(s, 2)
           /\ \A p : HaveText(p) => Have(s, 2)
<1>1. k \in Nat /\ s \in Nat
  BY PrbAssumption DEF CopyOK
<1>2. (3 * s + 1 < k => 3 * s + 0 < k) /\ (3 * s + 2 < k => 3 * s + 1 < k)
  BY <1>1
<1> QED
  BY <1>2 DEF Have, HaveLen, HaveText

\* The words a step adds are those the guest holds, so what is known of the
\* copies of a record stays known.
LEMMA CopyingInv == ASSUME XInv, Copying PROVE LiveOK' /\ LiveCopied' /\ StableOK' /\ GrownOK'
<1>0. GInv /\ RInv /\ CopyOK /\ UNCHANGED <<guest, history>>
  BY ZenonT(30) DEF XInv, Copying
<1>1. LiveOK' /\ Kept' = Kept /\ live' = live /\ text' = text
      /\ recycled' = recycled /\ reopened' = reopened
  BY <1>0, LiveKept DEF guest, history
<1>2. /\ \A n : Done(n)' <=> Done(n)
      /\ \A n : Begin(n)' = Begin(n) /\ End(n)' = End(n) /\ TextLen(n)' = TextLen(n)
  BY <1>0, GuestKept
<1>3. \A n \in 0..MaxRecords : Slot(n) \in 0..(N - 1)
  BY SlotType, PrbAssumption
<1>4. \A n \in Kept : /\ n \in 0..MaxRecords /\ live[n] \in 0..MaxText
                      /\ live[n] <= TextLen(n) /\ (n \notin reopened => Done(n))
  BY <1>0, Zenon DEF RInv, Ids, Kept, LiveOK
<1>5. ASSUME NEW s \in 0..(N - 1)
      PROVE  /\ Word(Have(s, 0), Have(s, 0)', m.desc[s].id, m'.desc[s].id, desc[s].id)
             /\ Word(Have(s, 0), Have(s, 0)', m.desc[s].st, m'.desc[s].st, desc[s].st)
             /\ Word(Have(s, 1), Have(s, 1)', m.desc[s].begin, m'.desc[s].begin, desc[s].begin)
             /\ Word(Have(s, 2), Have(s, 2)', m.desc[s].next, m'.desc[s].next, desc[s].next)
             /\ Word(HaveLen(s), HaveLen(s)', m.len[s], m'.len[s], len[s])
  BY <1>5, Zenon DEF Copying
<1>6. ASSUME NEW p \in 0..(T - 1), NEW v, text[p] = v, HaveText(p) => m.text[p] = v, HaveText(p)'
      PROVE  m'.text[p] = v
  BY <1>6, Zenon DEF Copying, Word
<1>7. LiveCopied'
  <2> SUFFICES ASSUME NEW n \in Kept \ reopened, Have(Slot(n), 0)'
        PROVE  m'.desc[Slot(n)].id = Id(n) /\ Complete(m'.desc[Slot(n)].st)
    BY <1>1, ZenonT(30) DEF LiveCopied
  <2>1. /\ Have(Slot(n), 0) => m.desc[Slot(n)].id = Id(n) /\ Complete(m.desc[Slot(n)].st)
        /\ desc[Slot(n)].id = Id(n) /\ Complete(desc[Slot(n)].st)
    BY <1>0, <1>4 DEF RInv, LiveCopied, Done, Mine
  <2>2. Slot(n) \in 0..(N - 1)
    BY <1>3, <1>4, Zenon
  <2> QED
    BY <1>5, <2>1, <2>2, Zenon DEF Word
<1>8. StableOK'
  <2> SUFFICES ASSUME NEW n \in 0..MaxRecords \ (recycled \cup reopened),
                      Have(Slot(n), 0)', m'.desc[Slot(n)].id = Id(n),
                      Complete(m'.desc[Slot(n)].st)
        PROVE  /\ Done(n)
               /\ Have(Slot(n), 1)' => m'.desc[Slot(n)].begin = Begin(n)
               /\ Have(Slot(n), 2)' => m'.desc[Slot(n)].next = End(n)
               /\ HaveLen(Slot(n))' => m'.len[Slot(n)] = TextLen(n)
               /\ \A j \in 1..TextLen(n) : HaveText(TextStart(Begin(n), End(n)) + j - 1)' =>
                     m'.text[TextStart(Begin(n), End(n)) + j - 1] = <<n, j>>
    BY <1>1, <1>2, <1>3, Zenon DEF StableOK, Copied, TextStart
  <2> DEFINE s == Slot(n)
  <2>1. s \in 0..(N - 1)
    BY <1>3, Zenon
  <2>2. /\ Have(s, 1) => Have(s, 0)
        /\ Have(s, 2) => Have(s, 0)
        /\ HaveLen(s) => Have(s, 0)
        /\ \A p : HaveText(p) => Have(s, 0)
    BY <1>0, <2>1, InOrder, Zenon
  <2> HIDE DEF s
  <2>3. Have(s, 0) => Done(n) /\ Copied(n, s, m.desc[s], Begin(n), End(n), TextLen(n))
    <3>1. Have(s, 0) => m.desc[s].id = Id(n) /\ Complete(m.desc[s].st)
      BY <1>5, <2>1, Zenon DEF Word, s
    <3> QED
      BY <1>0, <3>1, Zenon DEF RInv, StableOK, s
  <2>4. Done(n)
    <3>1. ~ Have(s, 0) => desc[s].id = Id(n) /\ Complete(desc[s].st)
      BY <1>5, <2>1, Zenon DEF Word, s
    <3> QED
      BY <1>0, <2>3, <3>1, OwnerIs, Zenon DEF s
  <2>5. Have(s, 1)' => m'.desc[s].begin = Begin(n)
    BY <1>5, <2>1, <2>2, <2>3, Zenon DEF Word, Copied, Begin, s
  <2>6. Have(s, 2)' => m'.desc[s].next = End(n)
    BY <1>5, <2>1, <2>2, <2>3, Zenon DEF Word, Copied, End, s
  <2>7. HaveLen(s)' => m'.len[s] = TextLen(n)
    BY <1>5, <2>1, <2>2, <2>3, Zenon DEF Word, Copied, TextLen, s
  <2>8. ASSUME NEW j \in 1..TextLen(n), HaveText(TextStart(Begin(n), End(n)) + j - 1)'
        PROVE  m'.text[TextStart(Begin(n), End(n)) + j - 1] = <<n, j>>
    <3>1. TextLen(n) \in 0..MaxText /\ n \in tail..head
      BY <1>0, <2>1, <2>4, ZenonT(30) DEF GInv, GuestOK, TextLen, Done, Mine, s
    <3>2. TextLen(n) > 0 /\ TextLen(n) \in 0..TextLen(n)
      BY <3>1, PrbAssumption
    <3>3. /\ Begin(n) \in Even /\ End(n) = BlockEnd(Begin(n), TextLen(n))
          /\ Holds(text, n, Begin(n), End(n), TextLen(n))
      BY <1>0, <2>4, <3>1, <3>2 DEF GInv, Blocks, BlockOK
    <3>4. Begin(n) \in Nat
      BY <3>3 DEF Even
    <3>5. PICK p \in 0..(T - 1) : p = TextStart(Begin(n), End(n)) + j - 1
      BY <3>1, <3>3, <3>4, InRing
    <3>6. (TextStart(Begin(n), End(n)) + j - 1)' = p
      BY <1>2, <3>5 DEF TextStart, Header
    <3>7. HaveText(p)'
      BY <2>8, <3>6, Zenon DEF HaveText
    <3>8. text[p] = <<n, j>> /\ (HaveText(p) => m.text[p] = <<n, j>>)
      BY <2>2, <2>3, <3>3, <3>5, Zenon DEF Copied, Holds
    <3>9. m'.text[p] = <<n, j>>
      BY <1>6, <3>7, <3>8, ZenonT(30)
    <3> QED
      BY <3>5, <3>9, ZenonT(30)
  <2> QED
    BY <2>4, <2>5, <2>6, <2>7, <2>8, Zenon DEF s
<1>9. GrownOK'
  <2> SUFFICES ASSUME NEW n \in Kept, live[n] > 0
        PROVE  /\ Have(Slot(n), 1)' => m'.desc[Slot(n)].begin = Begin(n)
               /\ Have(Slot(n), 2)' =>
                    LET e == m'.desc[Slot(n)].next
                    IN  /\ \E x \in live[n]..MaxText : e = BlockEnd(Begin(n), x)
                        /\ e <= End(n)
                        /\ Holds(text, n, Begin(n), e, live[n])
                        /\ \A j \in 1..live[n] : \A p :
                              p = TextStart(Begin(n), e) + j - 1 /\ HaveText(p)' => m'.text[p] = <<n, j>>
               /\ HaveLen(Slot(n))' => live[n] <= m'.len[Slot(n)]
    BY <1>1, <1>2, <1>3, <1>4, ZenonT(30) DEF GrownOK, CopiedNext, Holds, TextStart, HaveText
  <2> DEFINE s == Slot(n)
             e == m'.desc[s].next
  <2>1. s \in 0..(N - 1) /\ live[n] \in 0..MaxText /\ MaxText \in Nat
    BY <1>3, <1>4, PrbAssumption
  <2>2. \A p : HaveText(p) => Have(s, 2)
    BY <1>0, <2>1, InOrder
  <2>3. /\ Have(s, 1) => m.desc[s].begin = Begin(n)
        /\ Have(s, 2) => CopiedNext(n, m.desc[s].next, Begin(n), End(n), live[n])
        /\ HaveLen(s) => live[n] <= m.len[s]
    BY <1>0, Zenon DEF RInv, GrownOK
  <2> HIDE DEF s, e
  <2>4. Have(s, 1)' => m'.desc[s].begin = Begin(n)
    BY <1>5, <2>1, <2>3, Zenon DEF Word, Begin, s
  <2>5. HaveLen(s)' => live[n] <= m'.len[s]
    BY <1>4, <1>5, <2>1, <2>3, Zenon DEF Word, TextLen, s
  <2>6. ASSUME Have(s, 2)'
        PROVE  /\ \E x \in live[n]..MaxText : e = BlockEnd(Begin(n), x)
               /\ e <= End(n)
               /\ Holds(text, n, Begin(n), e, live[n])
               /\ \A j \in 1..live[n] : \A p :
                     p = TextStart(Begin(n), e) + j - 1 /\ HaveText(p)' => m'.text[p] = <<n, j>>
    <3>1. e = IF Have(s, 2) THEN m.desc[s].next ELSE End(n)
      BY <1>5, <2>1, <2>6 DEF Word, End, s, e
    <3>2. /\ Begin(n) \in Nat /\ End(n) \in Nat
          /\ \E x \in live[n]..MaxText : End(n) = BlockEnd(Begin(n), x)
          /\ Holds(text, n, Begin(n), End(n), live[n])
      BY KeptBlock, Zenon
    <3>3. /\ \E x \in live[n]..MaxText : e = BlockEnd(Begin(n), x)
          /\ e <= End(n) /\ Holds(text, n, Begin(n), e, live[n])
          /\ \A i \in 1..live[n] : HaveText(TextStart(Begin(n), e) + i - 1) =>
                m.text[TextStart(Begin(n), e) + i - 1] = <<n, i>>
      <4>1. CASE Have(s, 2)
        BY <2>3, <3>1, <4>1, Zenon DEF CopiedNext
      <4>2. CASE ~ Have(s, 2)
        <5>1. e = End(n) /\ e <= End(n)
          BY <3>1, <3>2, <4>2
        <5>2. \A p : ~ HaveText(p)
          BY <2>2, <4>2, ZenonT(30)
        <5> QED
          BY <3>2, <5>1, <5>2, ZenonT(30)
      <4> QED
        BY <4>1, <4>2, Zenon
    <3>4. PICK l \in live[n]..MaxText : e = BlockEnd(Begin(n), l)
      BY <3>3
    <3>5. l \in 0..MaxText /\ live[n] \in 0..l
      BY <2>1
    <3>6. ASSUME NEW j \in 1..live[n], NEW p, p = TextStart(Begin(n), e) + j - 1, HaveText(p)'
          PROVE  m'.text[p] = <<n, j>>
      <4>1. p \in 0..(T - 1)
        <5>1. j \in 1..l
          BY <2>1, <3>5, SMTT(30)
        <5> QED
          BY <3>2, <3>4, <3>5, <3>6, <5>1, InRing
      <4>2. text[p] = <<n, j>> /\ (HaveText(p) => m.text[p] = <<n, j>>)
        BY <3>3, <3>6 DEF Holds
      <4> QED
        BY <1>6, <3>6, <4>1, <4>2, ZenonT(30)
    <3> QED
      BY <3>3, <3>6, ZenonT(30)
  <2> QED
    BY <2>4, <2>5, <2>6, Zenon DEF s, e
<1> QED
  BY <1>1, <1>7, <1>8, <1>9, ZenonT(30)

\* Reading tail_id keeps the invariant: tail is not beyond a kept record.
LEMMA ReadTailInv == ASSUME XInv, ReadTail PROVE RInv'
<1>0. /\ GInv /\ RInv /\ CopyOK /\ pc' = "descs" /\ k' = 0 /\ UNCHANGED <<guest, history>>
      /\ m' = [m EXCEPT !.tail = tail] /\ out' = out /\ pc = "tail"
  BY DEF XInv, ReadTail
<1>1. /\ m'.head = m.head /\ m'.tail = tail /\ m'.text = m.text
      /\ head \in Nat /\ tail \in Nat /\ N \in Nat \ {0} /\ m.head \in Nat
      /\ head - tail < N
  BY <1>0, GuestTypes DEF CopyOK, GInv, Window
<1>2. Copying
  <2>1. \A s \in 0..(N - 1) : ~ Have(s, 0)' /\ ~ Have(s, 1)' /\ ~ Have(s, 2)' /\ ~ HaveLen(s)'
    BY <1>0 DEF Have, HaveLen
  <2>2. \A p : ~ HaveText(p)'
    BY <1>0 DEF HaveText
  <2> QED
    BY <1>0, <2>1, <2>2 DEF Copying, Word
<1>3. Ids'
  <2>1. m.head <= head /\ \A n \in DOMAIN live : n <= m.head
    BY <1>0 DEF RInv, Ids
  <2>2. m'.head - m'.tail < N
    BY <1>1, <2>1
  <2>3. \A n \in Kept : n \in tail..head /\ n \in DOMAIN live
    BY <1>0 DEF RInv, LiveOK, Mine, Kept
  <2>4. \A n \in Kept : m'.tail <= n /\ n <= m'.head
    BY <1>1, <2>1, <2>3
  <2>5. Kept' = Kept /\ live' = live
    BY <1>0, LiveKept
  <2> QED
    BY <1>0, <2>2, <2>4, <2>5 DEF RInv, Ids
<1>4. OutOK'
  <2>1. 0 < 3 * N
    BY <1>1
  <2> QED
    BY <1>0, <1>1, <2>1 DEF RInv, OutOK
<1> QED
  BY <1>2, <1>3, <1>4, CopyingInv DEF RInv

\* A step that only adds words to the copies, and leaves the ids alone.
LEMMA CopyStep ==
    ASSUME XInv, Copying, OutOK', m'.head = m.head, m'.tail = m.tail,
           pc' = pc \/ pc' = "failed" \/ pc \notin {"head", "tail", "failed"},
           pc' \in {"head", "tail"} => pc' = pc
    PROVE  RInv'
<1>1. UNCHANGED <<head, live, recycled>> /\ Ids
  BY Zenon DEF XInv, RInv, Copying, guest, history
<1>2. Ids'
  BY <1>1 DEF Ids, Kept
<1> QED
  BY <1>2, CopyingInv, Zenon DEF RInv

\* Reading a word of the descriptors keeps the invariant.
LEMMA ReadDescsInv == ASSUME XInv, ReadDescs PROVE RInv'
<1>0. /\ RInv /\ CopyOK /\ pc = "descs" /\ UNCHANGED <<guest, history>> /\ out' = out
      /\ k \in Nat /\ N \in Nat \ {0} /\ k < 3 * N
      /\ IF k + 1 = 3 * N THEN pc' = "infos" /\ k' = 0 ELSE pc' = pc /\ k' = k + 1
  BY PrbAssumption, Zenon DEF XInv, RInv, OutOK, ReadDescs, CopyOK
<1>1. PICK s \in 0..(N - 1), r \in {0, 1, 2} : s = k \div 3 /\ r = k % 3 /\ k = 3 * s + r
  <2>1. k % 3 \in {0, 1, 2} /\ k \div 3 \in Nat /\ k = 3 * (k \div 3) + (k % 3)
    BY <1>0
  <2>2. k \div 3 < N
    BY <1>0, <2>1
  <2> QED
    BY <1>0, <2>1, <2>2
<1>2. \A i \in 0..(N - 1), j \in {0, 1, 2} : Have(i, j)' <=> Have(i, j) \/ (i = s /\ j = r)
  <2> SUFFICES ASSUME NEW i \in 0..(N - 1), NEW j \in {0, 1, 2}
               PROVE  Have(i, j)' <=> Have(i, j) \/ (i = s /\ j = r)
    OBVIOUS
  <2>1. Have(i, j) <=> 3 * i + j < 3 * s + r
    BY <1>0, <1>1 DEF Have
  <2>2. Have(i, j)' <=> 3 * i + j < 3 * s + r + 1
    <3>1. CASE k + 1 = 3 * N
      <4>1. pc' = "infos"
        BY <1>0, <3>1
      <4>2. 3 * i + j < 3 * s + r + 1
        BY <1>0, <1>1, <3>1
      <4> QED
        BY <4>1, <4>2 DEF Have
    <3>2. CASE k + 1 # 3 * N
      <4>1. pc' = "descs" /\ k' = 3 * s + r + 1
        BY <1>0, <1>1, <3>2
      <4> QED
        BY <4>1 DEF Have
    <3> QED
      BY <3>1, <3>2
  <2>3. 3 * i + j < 3 * s + r + 1 <=> 3 * i + j < 3 * s + r \/ (i = s /\ j = r)
    BY <1>0
  <2> QED
    BY <2>1, <2>2, <2>3
<1>3. \A j \in {0, 1, 2} : Have(s, j) <=> j < r
  BY <1>0, <1>1 DEF Have
<1>4. /\ m.desc \in [0..(N - 1) -> Desc] /\ m.desc[s] \in Desc
      /\ m = [head |-> m.head, tail |-> m.tail, desc |-> m.desc, len |-> m.len,
              text |-> m.text]
  BY <1>0, ZenonT(30) DEF CopyOK
<1>5. PICK f : /\ m' = [m EXCEPT !.desc = [m.desc EXCEPT ![s] = f]]
               /\ r = 0 => f.id = desc[s].id /\ f.st = desc[s].st
               /\ r # 0 => f.id = m.desc[s].id /\ f.st = m.desc[s].st
               /\ f.begin = IF r = 1 THEN desc[s].begin ELSE m.desc[s].begin
               /\ f.next = IF r = 2 THEN desc[s].next ELSE m.desc[s].next
  <2>1. CASE k % 3 = 0
    <3>1. m' = [m EXCEPT !.desc[k \div 3].id = desc[k \div 3].id,
                         !.desc[k \div 3].st = desc[k \div 3].st]
      BY <2>1 DEF ReadDescs
    <3> DEFINE f == [m.desc[s] EXCEPT !.id = desc[s].id, !.st = desc[s].st]
    <3>2. m' = [m EXCEPT !.desc = [m.desc EXCEPT ![s] = f]]
      BY <1>1, <1>4, <3>1, Zenon
    <3>3. /\ f.id = desc[s].id /\ f.st = desc[s].st /\ f.begin = m.desc[s].begin
          /\ f.next = m.desc[s].next
      BY <1>4 DEF Desc
    <3>4. r = 0
      BY <1>1, <2>1
    <3> HIDE DEF f
    <3>5. /\ m' = [m EXCEPT !.desc = [m.desc EXCEPT ![s] = f]]
          /\ r = 0 => f.id = desc[s].id /\ f.st = desc[s].st
          /\ r # 0 => f.id = m.desc[s].id /\ f.st = m.desc[s].st
          /\ f.begin = IF r = 1 THEN desc[s].begin ELSE m.desc[s].begin
          /\ f.next = IF r = 2 THEN desc[s].next ELSE m.desc[s].next
      BY <3>2, <3>3, <3>4
    <3> QED
      BY <3>5, ZenonT(30)
  <2>2. CASE k % 3 = 1
    <3>1. m' = [m EXCEPT !.desc[k \div 3].begin = desc[k \div 3].begin]
      BY <2>2 DEF ReadDescs
    <3> DEFINE f == [m.desc[s] EXCEPT !.begin = desc[s].begin]
    <3>2. m' = [m EXCEPT !.desc = [m.desc EXCEPT ![s] = f]]
      BY <1>1, <1>4, <3>1
    <3>3. /\ f.id = m.desc[s].id /\ f.st = m.desc[s].st /\ f.begin = desc[s].begin
          /\ f.next = m.desc[s].next
      BY <1>4 DEF Desc
    <3>4. r = 1
      BY <1>1, <2>2
    <3> HIDE DEF f
    <3>5. /\ m' = [m EXCEPT !.desc = [m.desc EXCEPT ![s] = f]]
          /\ r = 0 => f.id = desc[s].id /\ f.st = desc[s].st
          /\ r # 0 => f.id = m.desc[s].id /\ f.st = m.desc[s].st
          /\ f.begin = IF r = 1 THEN desc[s].begin ELSE m.desc[s].begin
          /\ f.next = IF r = 2 THEN desc[s].next ELSE m.desc[s].next
      BY <3>2, <3>3, <3>4
    <3> QED
      BY <3>5, Zenon
  <2>3. CASE k % 3 = 2
    <3>1. m' = [m EXCEPT !.desc[k \div 3].next = desc[k \div 3].next]
      BY <2>3 DEF ReadDescs
    <3> DEFINE f == [m.desc[s] EXCEPT !.next = desc[s].next]
    <3>2. m' = [m EXCEPT !.desc = [m.desc EXCEPT ![s] = f]]
      BY <1>1, <1>4, <3>1
    <3>3. /\ f.id = m.desc[s].id /\ f.st = m.desc[s].st /\ f.begin = m.desc[s].begin
          /\ f.next = desc[s].next
      BY <1>4 DEF Desc
    <3>4. r = 2
      BY <1>1, <2>3
    <3> HIDE DEF f
    <3>5. /\ m' = [m EXCEPT !.desc = [m.desc EXCEPT ![s] = f]]
          /\ r = 0 => f.id = desc[s].id /\ f.st = desc[s].st
          /\ r # 0 => f.id = m.desc[s].id /\ f.st = m.desc[s].st
          /\ f.begin = IF r = 1 THEN desc[s].begin ELSE m.desc[s].begin
          /\ f.next = IF r = 2 THEN desc[s].next ELSE m.desc[s].next
      BY <3>2, <3>3, <3>4
    <3> QED
      BY <3>5, Zenon
  <2> QED
    BY <1>1, <2>1, <2>2, <2>3, ZenonT(30)
<1>6. /\ m'.desc[s] = f /\ \A i \in 0..(N - 1) : i # s => m'.desc[i] = m.desc[i]
      /\ m'.head = m.head /\ m'.tail = m.tail /\ m'.len = m.len /\ m'.text = m.text
  BY <1>4, <1>5, ZenonT(30)
<1>7. Copying
  <2>1. ASSUME NEW i \in 0..(N - 1)
        PROVE  /\ Word(Have(i, 0), Have(i, 0)', m.desc[i].id, m'.desc[i].id, desc[i].id)
               /\ Word(Have(i, 0), Have(i, 0)', m.desc[i].st, m'.desc[i].st, desc[i].st)
               /\ Word(Have(i, 1), Have(i, 1)', m.desc[i].begin, m'.desc[i].begin, desc[i].begin)
               /\ Word(Have(i, 2), Have(i, 2)', m.desc[i].next, m'.desc[i].next, desc[i].next)
    <3>1. CASE i # s
      BY <1>2, <1>6, <3>1 DEF Word
    <3>2. CASE i = s
      BY <1>2, <1>3, <1>5, <1>6, <3>2 DEF Word
    <3> QED
      BY <3>1, <3>2, ZenonT(30)
  <2>2. (\A i \in 0..(N - 1) : ~ HaveLen(i)') /\ \A p : ~ HaveText(p)'
    <3>1. pc' = "descs" \/ (pc' = "infos" /\ k' = 0)
      BY <1>0
    <3>2. \A i \in 0..(N - 1) : ~ (i < 0)
      BY <1>0, SMTT(30)
    <3> QED
      BY <3>1, <3>2 DEF HaveLen, HaveText
  <2> QED
    BY <1>0, <2>1, <2>2, Zenon DEF Copying, Word
<1>8. OutOK'
  <2>1. (pc' = "descs" => k' < 3 * N) /\ (pc' = "infos" => k' < N)
    BY <1>0
  <2> QED
    BY <1>0, <1>6, <2>1 DEF RInv, OutOK
<1> QED
  BY <1>0, <1>6, <1>7, <1>8, CopyStep

\* Reading an info keeps the invariant.
LEMMA ReadInfosInv == ASSUME XInv, ReadInfos PROVE RInv'
<1>0. /\ RInv /\ CopyOK /\ pc = "infos" /\ UNCHANGED <<guest, history>> /\ out' = out
      /\ k \in Nat /\ k < N /\ N \in Nat \ {0} /\ T \in Nat /\ T > 0
      /\ IF k + 1 = N THEN pc' = "text" /\ k' = 0 ELSE pc' = pc /\ k' = k + 1
      /\ m' = [m EXCEPT !.len[k] = len[k]]
  <2>1. RInv /\ CopyOK /\ k \in Nat
    BY DEF XInv, CopyOK
  <2>2. N \in Nat \ {0} /\ T \in Nat /\ T > 0
    BY PrbAssumption DEF Header
  <2>3. pc = "infos" => k < N
    BY <2>1 DEF RInv, OutOK
  <2> QED
    BY <2>1, <2>2, <2>3 DEF ReadInfos
<1>1. /\ m'.len[k] = len[k] /\ \A i \in 0..(N - 1) : i # k => m'.len[i] = m.len[i]
      /\ m'.head = m.head /\ m'.tail = m.tail /\ m'.desc = m.desc /\ m'.text = m.text
  BY <1>0 DEF CopyOK
<1>2. Copying
  <2>1. \A i, j : Have(i, j)' /\ Have(i, j)
    BY <1>0, Zenon DEF Have
  <2>2. \A i \in 0..(N - 1) : Word(HaveLen(i), HaveLen(i)', m.len[i], m'.len[i], len[i])
    <3> SUFFICES ASSUME NEW i \in 0..(N - 1)
                 PROVE  Word(HaveLen(i), HaveLen(i)', m.len[i], m'.len[i], len[i])
      OBVIOUS
    <3>1. HaveLen(i) <=> i < k
      BY <1>0 DEF HaveLen
    <3>2. HaveLen(i)' => i <= k
      <4>1. CASE k + 1 = N
        BY <1>0, <4>1
      <4>2. CASE k + 1 # N
        <5>1. pc' = "infos" /\ k' = k + 1
          BY <1>0, <4>2
        <5>2. i < k + 1 => i <= k
          BY <1>0
        <5> QED
          BY <5>1, <5>2 DEF HaveLen
      <4> QED
        BY <4>1, <4>2
    <3>3. i < k \/ i = k \/ ~ (i <= k)
      BY <1>0
    <3>4. ~ (k < k)
      BY <1>0
    <3>5. CASE i = k
      BY <1>1, <3>1, <3>4, <3>5 DEF Word
    <3>6. CASE i < k
      <4>1. i # k
        BY <3>4, <3>6
      <4> QED
        BY <1>1, <3>1, <3>6, <4>1 DEF Word
    <3> QED
      BY <3>2, <3>3, <3>5, <3>6, ZenonT(30) DEF Word
  <2>3. \A p \in 0..(T - 1) : ~ HaveText(p)'
    <3>1. pc' = "infos" \/ (pc' = "text" /\ k' = 0)
      BY <1>0
    <3>2. \A p \in 0..(T - 1) : ~ (p < 0)
      BY <1>0
    <3> QED
      BY <3>1, <3>2 DEF HaveText
  <2> QED
    BY <1>0, <1>1, <2>1, <2>2, <2>3 DEF Copying, Word
<1>3. OutOK'
  <2>1. (pc' = "infos" => k' < N) /\ (pc' = "text" => k' < T)
    BY <1>0, SMTT(30)
  <2> QED
    BY <1>0, <1>1, <2>1 DEF RInv, OutOK
<1> QED
  BY <1>0, <1>1, <1>2, <1>3, CopyStep

\* Reading units of the text keeps the invariant.
LEMMA ReadTextInv == ASSUME XInv, ReadText PROVE RInv'
<1>0. /\ RInv /\ CopyOK /\ pc = "text" /\ UNCHANGED <<guest, history>> /\ out' = out
      /\ k \in Nat /\ k < T /\ T \in Nat /\ Grain \in Nat \ {0}
      /\ IF k + Grain >= T THEN pc' = "dump" /\ k' = 0
                           ELSE pc' = pc /\ k' = k + Grain
  BY PrbAssumption, Zenon DEF XInv, RInv, OutOK, ReadText, CopyOK
<1>1. /\ m'.text = [p \in 0..(T - 1) |-> IF p \in k..(k + Grain - 1) THEN text[p] ELSE m.text[p]]
      /\ m'.head = m.head /\ m'.tail = m.tail /\ m'.desc = m.desc /\ m'.len = m.len
  BY <1>0 DEF CopyOK, ReadText
<1>2. Copying
  <2>1. (\A i, j : Have(i, j)' /\ Have(i, j)) /\ (\A i : HaveLen(i)' /\ HaveLen(i))
    BY <1>0 DEF Have, HaveLen
  <2>2. ASSUME NEW p \in 0..(T - 1)
        PROVE  Word(HaveText(p), HaveText(p)', m.text[p], m'.text[p], text[p])
    <3>1. HaveText(p) <=> p < k
      BY <1>0 DEF HaveText
    <3>2. HaveText(p)' => p < k + Grain
      <4>1. CASE k + Grain >= T
        BY <1>0, <4>1
      <4>2. CASE ~ (k + Grain >= T)
        <5>1. pc' = "text" /\ k' = k + Grain
          BY <1>0, <4>2
        <5> QED
          BY <5>1 DEF HaveText
      <4> QED
        BY <4>1, <4>2
    <3>3. p < k + Grain => (p \in k..(k + Grain - 1) <=> ~ (p < k))
      BY <1>0
    <3>4. m'.text[p] = IF p \in k..(k + Grain - 1) THEN text[p] ELSE m.text[p]
      BY <1>1, ZenonT(30)
    <3> QED
      BY <3>1, <3>2, <3>3, <3>4 DEF Word
  <2> QED
    BY <1>0, <1>1, <2>1, <2>2 DEF Copying, Word
<1>3. OutOK'
  <2>1. pc' = "text" => k' < T
    BY <1>0
  <2>2. m'.text = [p \in 0..(T - 1) |-> m'.text[p]]
    BY <1>1
  <2> QED
    BY <1>0, <1>1, <2>1, <2>2 DEF RInv, OutOK
<1> QED
  BY <1>0, <1>1, <1>2, <1>3, CopyStep

\* The steps that do not read keep it: a failing read, which leaves nothing to
\* say about the copies, the printing, and a step that changes nothing.
LEMMA PrintInv == ASSUME XInv, ReadFails \/ Dump \/ UNCHANGED vars PROVE RInv'
<1>0. RInv /\ UNCHANGED <<guest, history>> /\ m' = m /\ k' = k
  BY DEF XInv, ReadFails, Dump, vars, reader
<1>1. pc' = pc \/ pc' = "failed" \/ (pc = "dump" /\ pc' = "done")
  BY ZenonT(30) DEF ReadFails, Dump, vars, reader
<1>2. Copying
  <2>1. (\A i, j : Have(i, j)' => Have(i, j)) /\ (\A i : HaveLen(i)' => HaveLen(i))
        /\ \A p : HaveText(p)' => HaveText(p)
    BY <1>0, <1>1 DEF Have, HaveLen, HaveText
  <2> QED
    BY <1>0, <2>1 DEF Copying, Word
<1>3. OutOK'
  <2>1. Walk' = Walk
    BY <1>0 DEF Walk
  <2>2. [i \in 1..Walk |-> dump_record((Id(m.tail) + i - 1) % M)]'
          = [i \in 1..Walk |-> dump_record((Id(m.tail) + i - 1) % M)]
    <3>1. \A id : dump_record(id)' = dump_record(id)
      BY <1>0, Zenon DEF dump_record
    <3> QED
      BY <1>0, <2>1, <3>1, Zenon
  <2>3. out' = IF pc' = "done" THEN [i \in 1..Walk |-> dump_record((Id(m.tail) + i - 1) % M)]
               ELSE <<>>
    <3>1. CASE ReadFails
      BY <1>0, <3>1 DEF ReadFails, RInv, OutOK
    <3>2. CASE Dump
      BY <3>2 DEF Dump
    <3>3. CASE UNCHANGED vars
      BY <1>0, <3>3 DEF vars, reader, RInv, OutOK
    <3> QED
      BY <3>1, <3>2, <3>3
  <2> QED
    BY <1>0, <1>1, <2>2, <2>3, ZenonT(30) DEF RInv, OutOK
<1> QED
  BY <1>0, <1>1, <1>2, <1>3, CopyStep

\* The invariant holds at the start.
LEMMA InitX == Init => XInv
<1> SUFFICES ASSUME Init PROVE XInv
  OBVIOUS
<1>0. CopyOK /\ GuestOK
  BY InitInv, Zenon DEF IInv
<1>1. /\ head = 0 /\ tail = 0 /\ dhead = 0 /\ extends = 0
      /\ text = [p \in 0..(T - 1) |-> <<0, 0>>] /\ w = [ph |-> "idle", len |-> 0]
      /\ pc = "head" /\ k = 0 /\ out = <<>> /\ live = <<>> /\ recycled = {} /\ reopened = {}
      /\ m.text = [p \in 0..(T - 1) |-> <<0, 0>>]
  BY Zenon DEF Init, GuestInit, ReaderInit
<1>2. \A s \in 0..(N - 1) : ~ Complete(desc[s].st)
  BY DEF Init, GuestInit, Complete
<1>3. Slot(0) \in 0..(N - 1) /\ N \in Nat \ {0} /\ MaxRecords \in Nat
  BY SlotType, PrbAssumption
<1>4. DOMAIN live = {}
  BY <1>1
<1>5. Counts /\ Window
  BY <1>1, <1>3 DEF Counts, Window
<1>6. Owners /\ Writing
  BY <1>1, <1>2, Zenon DEF Owners, Writing
<1>7. Blocks
  <2>1. ASSUME NEW n \in tail..head PROVE ~ Done(n)
    <3>1. n = 0
      BY <1>1
    <3> QED
      BY <1>2, <1>3, <3>1 DEF Done
  <2> QED
    BY <2>1, Zenon DEF Blocks
<1>8. ~ HeadHas
  BY <1>1, <1>2, <1>3 DEF HeadHas, HasBlock
<1>9. HeadAfter /\ HeadBlockOK /\ HeadFields
  BY <1>1, <1>8, SMTT(30) DEF HeadAfter, HeadBlockOK, HeadFields, FieldsSoFar
<1>10. LiveOK /\ Ids
  BY <1>1, <1>4 DEF LiveOK, Kept, Ids
<1>11. (\A i, j : ~ Have(i, j)) /\ (\A i : ~ HaveLen(i))
  BY <1>1, Zenon DEF Have, HaveLen
<1>12. LiveCopied /\ StableOK /\ GrownOK
  BY <1>11, ZenonT(30) DEF LiveCopied, StableOK, GrownOK
<1>13. OutOK
  BY <1>1 DEF OutOK
<1> QED
  BY <1>0, <1>5, <1>6, <1>7, <1>9, <1>10, <1>12, <1>13, ZenonT(30) DEF XInv, GInv, RInv

\* The invariant is inductive.
LEMMA NextX == IInv /\ XInv /\ [Next]_vars => IInv' /\ XInv'
<1> SUFFICES ASSUME IInv, XInv, [Next]_vars PROVE IInv' /\ XInv'
  OBVIOUS
<1>1. IInv' /\ CopyOK' /\ GuestOK'
  BY NextInv DEF IInv
<1>2. CASE Guest
  <2>1. GInv' /\ RInv'
    BY <1>1, <1>2, PushTailInv, ReserveInv, TakeSlotInv, AllocBeginInv, AllocNextInv,
       WriteTextInv, WriteLenInv, CommitInv, ReopenInv, ExtendInv DEF Guest
  <2> QED
    BY <1>1, <2>1 DEF XInv
<1>3. CASE Reader
  <2>1. UNCHANGED guest
    BY <1>3 DEF Reader, ReadHead, ReadTail, ReadDescs, ReadInfos, ReadText, ReadFails, Dump
  <2>2. GInv'
    BY <2>1, GuestKept DEF XInv
  <2>3. RInv'
    BY <1>3, ReadHeadInv, ReadTailInv, ReadDescsInv, ReadInfosInv, ReadTextInv,
       PrintInv DEF Reader
  <2> QED
    BY <1>1, <2>2, <2>3 DEF XInv
<1>4. CASE UNCHANGED vars
  <2>1. GInv'
    BY <1>4, GuestKept DEF XInv, vars
  <2>2. RInv'
    BY <1>4, PrintInv
  <2> QED
    BY <1>1, <2>1, <2>2 DEF XInv
<1> QED
  BY <1>2, <1>3, <1>4 DEF Next, Over

-----------------------------------------------------------------------------
(***************************************************************************)
(* What the output holds.                                                  *)
(***************************************************************************)

\* What entry i of the output is.
LEMMA Entry ==
    ASSUME XInv, NEW i \in DOMAIN out
    PROVE  /\ pc = "done" /\ (Id(m.tail) + i - 1) % M \in 0..(M - 1)
           /\ out[i] = dump_record((Id(m.tail) + i - 1) % M)
<1>1. pc = "done" /\ out = [j \in 1..Walk |-> dump_record((Id(m.tail) + j - 1) % M)]
  <2>1. pc # "done" => DOMAIN out = {}
    BY DEF XInv, RInv, OutOK
  <2> QED
    BY <2>1 DEF XInv, RInv, OutOK
<1>2. i \in 1..Walk
  BY <1>1
<1>3. Id(m.tail) \in Nat /\ M \in Nat \ {0} /\ Walk \in Nat
  <2>1. Id(m.head) \in 0..(M - 1) /\ Id(m.tail) \in 0..(M - 1)
    BY IdType DEF XInv, CopyOK
  <2>2. M \in Nat \ {0}
    BY PrbAssumption
  <2>3. PICK z \in Int : z = Id(m.head) - Id(m.tail)
    BY <2>1, <2>2
  <2> QED
    BY <2>1, <2>2, <2>3 DEF Walk
<1>4. PICK z \in Nat : z = Id(m.tail) + i - 1
  BY <1>2, <1>3
<1>5. z % M \in 0..(M - 1)
  BY <1>3, <1>4, SMTT(30)
<1> QED
  BY <1>1, <1>2, <1>4, <1>5

\* What dump_record finds for the id of record n.
LEMMA EntryOf ==
    ASSUME CopyOK, NEW n \in 0..MaxRecords
    PROVE  LET d == m.desc[Slot(n)]
               r == dump_record(Id(n))
           IN  /\ r.id = Id(n)
               /\ r.kind = "text" <=> /\ d.id = Id(n) /\ Complete(d.st)
                                      /\ d.begin % T # d.next % T
               /\ d.id = Id(n) /\ Complete(d.st) /\ d.begin % T = d.next % T
                  => r.kind = "blank"
               /\ r.kind = "text" => r.span = Span(d.begin % T, d.next % T, m.len[Slot(n)])
BY ZenonT(30) DEF dump_record, Slot

\* The types of an entry.
LEMMA EntryType ==
    ASSUME CopyOK, NEW id \in 0..(M - 1)
    PROVE  dump_record(id).id = id /\ dump_record(id).span.len \in 0..MaxText
<1>1. id % N \in 0..(N - 1) /\ MaxText \in Nat /\ T \in Nat \ {0} /\ W \in Nat \ {0}
  BY PrbAssumption DEF Header
<1>2. m.desc[id % N].begin \in Nat /\ m.desc[id % N].next \in Nat /\ m.len[id % N] \in 0..MaxText
  BY <1>1, LposNat, Zenon DEF CopyOK
<1>3. ASSUME NEW b \in Nat, NEW e \in Nat, NEW l \in 0..MaxText
      PROVE  Span(b, e, l).len \in 0..MaxText
  <2> DEFINE a == (IF b > e THEN 0 ELSE b) + Header
  <2>1. a \in Nat
    BY DEF Header
  <2>2. PICK z \in Int : z = e - a
    BY <2>1
  <2>3. (e - a) % W \in Nat
    BY <1>1, <2>2
  <2>4. Span(b, e, l).len = IF (e - a) % W < l THEN (e - a) % W ELSE l
    BY DEF Span
  <2> HIDE DEF a
  <2> QED
    BY <1>1, <2>3, <2>4
<1>4. m.desc[id % N].begin % T \in Nat /\ m.desc[id % N].next % T \in Nat
  BY <1>1, <1>2, SMTT(30)
<1>5. Span(m.desc[id % N].begin % T, m.desc[id % N].next % T, m.len[id % N]).len \in 0..MaxText
  BY <1>2, <1>3, <1>4, Zenon
<1>6. /\ dump_record(id).id = id
      /\ \/ dump_record(id).span = [start |-> 0, len |-> 0]
         \/ dump_record(id).span = Span(m.desc[id % N].begin % T, m.desc[id % N].next % T,
                                        m.len[id % N])
  BY Zenon DEF dump_record
<1>7. 0 \in 0..MaxText
  BY <1>1, SMTT(30)
<1> QED
  BY <1>5, <1>6, <1>7

\* A complete record that was left alone, as dump_record finds it in the copies.
LEMMA StableEntry ==
    ASSUME XInv, pc = "done", NEW n \in 0..MaxRecords \ (recycled \cup reopened),
           m.desc[Slot(n)].id = Id(n), Complete(m.desc[Slot(n)].st)
    PROVE  LET r == dump_record(Id(n))
           IN  /\ TextLen(n) \in 0..MaxText
               /\ TextLen(n) = 0 => r.kind = "blank"
               /\ TextLen(n) > 0 => /\ r.kind = "text" /\ r.span.len = TextLen(n)
                                /\ \A j \in 1..TextLen(n) : m.text[r.span.start + j - 1] = <<n, j>>
<1> DEFINE d == m.desc[Slot(n)]
           r == dump_record(Id(n))
<1>0. GInv /\ RInv /\ CopyOK /\ Slot(n) \in 0..(N - 1) /\ MaxText \in Nat
  BY SlotType, PrbAssumption DEF XInv
<1>1. (\A i, j : Have(i, j)) /\ (\A i : HaveLen(i)) /\ (\A p : HaveText(p))
  BY Zenon DEF Have, HaveLen, HaveText
<1>2. /\ Done(n) /\ d.begin = Begin(n) /\ d.next = End(n) /\ m.len[Slot(n)] = TextLen(n)
      /\ \A j \in 1..TextLen(n) : m.text[TextStart(Begin(n), End(n)) + j - 1] = <<n, j>>
  BY <1>0, <1>1, Zenon DEF RInv, StableOK, Copied
<1>3. TextLen(n) \in 0..MaxText /\ n \in tail..head
  BY <1>0, <1>2, Zenon DEF GInv, GuestOK, TextLen, Done, Mine
<1>4. BlockOK(n, Begin(n), End(n), TextLen(n), dhead, Limit, text)
  BY <1>0, <1>2, <1>3, Zenon DEF GInv, Blocks
<1>5. /\ r.kind = "text" <=> /\ d.id = Id(n) /\ Complete(d.st)
                             /\ d.begin % T # d.next % T
      /\ d.id = Id(n) /\ Complete(d.st) /\ d.begin % T = d.next % T => r.kind = "blank"
      /\ r.kind = "text" => r.span = Span(d.begin % T, d.next % T, m.len[Slot(n)])
  BY <1>0, EntryOf, Zenon
<1> HIDE DEF r, d
<1>6. CASE TextLen(n) = 0
  <2>1. d.begin % T = d.next % T
    BY <1>2, <1>4, <1>6, Zenon DEF BlockOK
  <2>2. r.kind = "blank"
    BY <1>5, <2>1, Zenon DEF d
  <2>3. ~ (TextLen(n) > 0)
    BY <1>6, SMTT(30)
  <2> QED
    BY <1>3, <2>2, <2>3, Zenon DEF r
<1>7. CASE TextLen(n) > 0
  <2>1. Begin(n) \in Nat /\ End(n) = BlockEnd(Begin(n), TextLen(n))
    BY <1>4, <1>7 DEF BlockOK, Even
  <2>2. PICK b \in Nat, l \in 0..MaxText : b = Begin(n) /\ l = TextLen(n)
    BY <1>3, <2>1
  <2>b. PICK e : e = BlockEnd(b, l)
    OBVIOUS
  <2>3. /\ b % T # e % T
        /\ Span(b % T, e % T, l).start = TextStart(b, e)
        /\ Span(b % T, e % T, l).len \in 0..l
        /\ \A y \in 0..l : y <= l => y <= Span(b % T, e % T, l).len
    BY <2>2, <2>b, SpanFacts, ZenonT(30)
  <2>4. Span(b % T, e % T, l).len = l
    BY <1>0, <2>2, <2>b, <2>3, SMTT(30)
  <2>5. r.kind = "text" /\ r.span = Span(b % T, e % T, l)
    BY <1>2, <1>5, <2>1, <2>2, <2>b, <2>3, Zenon DEF d
  <2>6. r.kind = "text" /\ r.span.len = TextLen(n) /\ r.span.start = TextStart(Begin(n), End(n))
    BY <2>1, <2>2, <2>b, <2>3, <2>4, <2>5, ZenonT(30)
  <2>7. \A j \in 1..TextLen(n) : m.text[r.span.start + j - 1] = <<n, j>>
    BY <1>2, <2>6, Zenon
  <2>8. TextLen(n) # 0
    BY <1>3, <1>7, SMTT(30)
  <2> QED
    BY <1>3, <2>6, <2>7, <2>8, Zenon DEF r
<1> QED
  BY <1>0, <1>3, <1>6, <1>7, ZenonT(30)

\* The invariant implies that a record left alone is printed with its own text.
LEMMA Exact == XInv => PrintedIsExact
<1> SUFFICES ASSUME XInv, NEW i \in DOMAIN out,
                    NEW n \in 0..MaxRecords \ (recycled \cup reopened),
                    out[i].kind = "text", out[i].id = Id(n)
             PROVE  Cells(i) = [j \in 1..len[Slot(n)] |-> <<n, j>>]
  BY DEF PrintedIsExact
<1>0. PICK id \in 0..(M - 1) : pc = "done" /\ out[i] = dump_record(id)
  BY Entry
<1>1. CopyOK
  BY DEF XInv
<1>2. id = Id(n)
  BY <1>0, <1>1, EntryType, ZenonT(30)
<1>3. m.desc[Slot(n)].id = Id(n) /\ Complete(m.desc[Slot(n)].st)
  BY <1>0, <1>1, <1>2, EntryOf, Zenon
<1>4. /\ TextLen(n) \in 0..MaxText
      /\ TextLen(n) = 0 => out[i].kind = "blank"
      /\ TextLen(n) > 0 => /\ out[i].span.len = TextLen(n)
                       /\ \A j \in 1..TextLen(n) : m.text[out[i].span.start + j - 1] = <<n, j>>
  BY <1>0, <1>2, <1>3, StableEntry, ZenonT(30)
<1>5. TextLen(n) > 0
  BY <1>4, PrbAssumption, SMTT(30)
<1> QED
  BY <1>4, <1>5, ZenonT(30) DEF Cells, TextLen

\* The invariant implies that no record left alone is missing.
LEMMA Printed == XInv => StableIsPrinted
<1> SUFFICES ASSUME XInv, pc = "done", NEW n \in DOMAIN live \ (recycled \cup reopened)
             PROVE  \E i \in DOMAIN out :
                /\ out[i].id = Id(n)
                /\ IF live[n] = 0 THEN out[i].kind = "blank"
                   ELSE out[i].kind = "text" /\ out[i].span.len = live[n]
  BY DEF StableIsPrinted
<1>0. GInv /\ RInv /\ CopyOK /\ n \in Kept \ reopened
  BY SMTT(30) DEF XInv, Kept
<1>1. n \in 0..MaxRecords /\ m.tail <= n /\ n <= m.head /\ m.head - m.tail < N
      /\ m.tail \in Nat /\ m.head \in Nat /\ N \in Nat /\ MaxRecords \in Nat
  BY <1>0, PrbAssumption DEF RInv, Ids, Kept, CopyOK
<1>2. Walk = m.head - m.tail + 1
  BY <1>1, WalkLength
<1>3. PICK t \in Nat, i \in Nat : t = m.tail /\ i = n - t /\ n = t + i
  BY <1>1
<1>4. (Id(t) + i) % M = Id(n)
  BY <1>3, IdAdd
<1>5. Id(m.tail) + (i + 1) - 1 = Id(t) + i
  <2>1. Id(t) \in Nat
    BY IdType, PrbAssumption
  <2> QED
    BY <1>3, <2>1
<1>6. i + 1 \in 1..Walk
  BY <1>1, <1>2, <1>3
<1>7. i + 1 \in DOMAIN out /\ out[i + 1] = dump_record(Id(n))
  <2>1. out = [j \in 1..Walk |-> dump_record((Id(m.tail) + j - 1) % M)]
    BY <1>0 DEF RInv, OutOK
  <2>2. i + 1 \in DOMAIN out /\ out[i + 1] = dump_record((Id(m.tail) + (i + 1) - 1) % M)
    BY <1>6, <2>1, SMTT(30)
  <2> QED
    BY <1>4, <1>5, <2>2
<1>8. m.desc[Slot(n)].id = Id(n) /\ Complete(m.desc[Slot(n)].st)
  BY <1>0, Zenon DEF RInv, LiveCopied, Have
<1>9. /\ TextLen(n) = 0 => out[i + 1].kind = "blank"
      /\ TextLen(n) > 0 => out[i + 1].kind = "text" /\ out[i + 1].span.len = TextLen(n)
      /\ TextLen(n) \in 0..MaxText
  <2>1. n \in 0..MaxRecords \ (recycled \cup reopened)
    BY <1>0, <1>1 DEF Kept
  <2> QED
    BY <1>7, <1>8, <2>1, StableEntry, Zenon
<1>10. live[n] = TextLen(n)
  BY <1>0, ZenonT(30) DEF RInv, LiveOK
<1>11. out[i + 1].id = Id(n)
  BY <1>0, <1>1, <1>7, EntryOf, ZenonT(30)
<1>12. TextLen(n) = 0 \/ TextLen(n) > 0
  BY <1>9, PrbAssumption, SMTT(30)
<1> QED
  BY <1>7, <1>9, <1>10, <1>11, <1>12, ZenonT(30)

\* The invariant implies that what a record held at first is printed whole.
LEMMA Prefix == XInv => ExtendedKeepsPrefix
<1> SUFFICES ASSUME XInv, NEW i \in DOMAIN out, NEW n \in DOMAIN live \ recycled,
                    out[i].kind = "text", out[i].id = Id(n)
             PROVE  /\ out[i].span.len >= live[n]
                    /\ \A j \in 1..live[n] : Cells(i)[j] = <<n, j>>
  BY DEF ExtendedKeepsPrefix
<1>0. GInv /\ RInv /\ CopyOK /\ n \in Kept
  BY DEF XInv, Kept
<1>1. PICK id \in 0..(M - 1) : pc = "done" /\ out[i] = dump_record(id)
  BY Entry
<1>2. id = Id(n) /\ out[i].span.len \in 0..MaxText
  BY <1>0, <1>1, EntryType, Zenon
<1>3. n \in 0..MaxRecords /\ live[n] \in 0..MaxText /\ MaxText \in Nat /\ MaxRecords \in Nat
  BY <1>0, PrbAssumption, Zenon DEF RInv, LiveOK, Ids, Kept
<1>4. CASE live[n] = 0
  BY <1>2, <1>3, <1>4, SMTT(30)
<1>5. CASE live[n] > 0
  <2>1. /\ m.desc[Slot(n)].begin = Begin(n)
        /\ CopiedNext(n, m.desc[Slot(n)].next, Begin(n), End(n), live[n])
        /\ live[n] <= m.len[Slot(n)]
    BY <1>0, <1>1, <1>5, ZenonT(30) DEF RInv, GrownOK, Have, HaveLen
  <2>2. Begin(n) \in Nat /\ Slot(n) \in 0..(N - 1)
    BY <1>0, <1>3, <1>5, KeptBlock, SlotType, SMTT(30)
  <2>3. PICK x \in live[n]..MaxText : m.desc[Slot(n)].next = BlockEnd(Begin(n), x)
    BY <2>1, Zenon DEF CopiedNext
  <2>a. PICK b \in Nat, l \in 0..MaxText, c \in 0..MaxText :
           b = Begin(n) /\ l = x /\ c = m.len[Slot(n)]
    <3>1. m.len[Slot(n)] \in 0..MaxText
      BY <1>0, <2>2, Zenon DEF CopyOK
    <3>2. x \in 0..MaxText
      BY <1>3
    <3> QED
      BY <2>2, <3>1, <3>2, Zenon
  <2>b. PICK e : e = BlockEnd(b, l)
    OBVIOUS
  <2>4. b = Begin(n) /\ l = x /\ e = BlockEnd(b, l) /\ c = m.len[Slot(n)]
    BY <2>a, <2>b, ZenonT(30)
  <2>5. /\ Span(b % T, e % T, c).start = TextStart(b, e)
        /\ \A y \in 0..l : y <= c => y <= Span(b % T, e % T, c).len
    BY <2>4, SpanFacts
  <2>6. out[i].span = Span(b % T, e % T, c)
    <3>1. out[i].span = Span(m.desc[Slot(n)].begin % T, m.desc[Slot(n)].next % T,
                             m.len[Slot(n)])
      BY <1>0, <1>1, <1>2, <1>3, EntryOf, Zenon
    <3>2. m.desc[Slot(n)].begin = b /\ m.desc[Slot(n)].next = e /\ m.len[Slot(n)] = c
      BY <2>1, <2>3, <2>4, Zenon
    <3> QED
      BY <3>1, <3>2, ZenonT(30)
  <2>7. out[i].span.len >= live[n]
    <3>1. live[n] <= c
      BY <2>1, <2>4, ZenonT(30)
    <3>2. live[n] <= x
      BY <1>3
    <3>3. live[n] <= l
      BY <2>4, <3>2, ZenonT(30)
    <3>4. live[n] \in 0..l
      BY <1>3, <3>3, SMTT(30)
    <3> QED
      BY <1>2, <1>3, <2>5, <2>6, <3>1, <3>4, ZenonT(30)
  <2>8. ASSUME NEW j \in 1..live[n] PROVE Cells(i)[j] = <<n, j>>
    <3>1. j \in 1..out[i].span.len
      BY <1>2, <1>3, <2>7, SMTT(30)
    <3>2. Cells(i)[j] = m.text[out[i].span.start + j - 1]
      BY <3>1, Zenon DEF Cells
    <3>3. m.text[TextStart(b, e) + j - 1] = <<n, j>>
      BY <1>1, <2>1, <2>3, <2>4, Zenon DEF CopiedNext, HaveText
    <3>4. out[i].span.start = TextStart(b, e)
      BY <2>5, <2>6, Zenon
    <3> QED
      BY <3>2, <3>3, <3>4, ZenonT(30)
  <2> QED
    BY <2>7, <2>8, Zenon
<1> QED
  BY <1>3, <1>4, <1>5, SMTT(30)

\* The invariant bounds the walk over the ids.
LEMMA Walked == XInv => WalkBounded
<1> SUFFICES ASSUME XInv, pc = "done", m.tail <= m.head PROVE Walk <= N
  BY SMTT(30) DEF WalkBounded, XInv, CopyOK
<1>1. m.head \in Nat /\ m.tail \in Nat /\ m.head - m.tail < N /\ N \in Nat
  BY PrbAssumption DEF XInv, RInv, Ids, CopyOK
<1>2. Walk = m.head - m.tail + 1
  BY <1>1, WalkLength, Zenon
<1> QED
  BY <1>1, <1>2

\* The invariant implies the types.
LEMMA Typed == XInv => TypeOK
<1> SUFFICES ASSUME XInv PROVE TypeOK
  OBVIOUS
<1>1. GuestOK /\ CopyOK /\ extends \in Nat /\ OutOK
  BY DEF XInv, GInv, RInv, Counts
<1>2. \A d \in Desc : d \in Descriptor
  BY DEF Desc, Descriptor, Lpos, Even, NoLpos
<1>3. desc \in [0..(N - 1) -> Descriptor] /\ m.desc \in [0..(N - 1) -> Descriptor]
  BY <1>1, <1>2, Zenon DEF GuestOK, CopyOK
<1>4. \A i \in DOMAIN out : out[i].id \in 0..(M - 1) /\ out[i].span.len \in 0..MaxText
  BY <1>1, Entry, EntryType, Zenon
<1>5. dhead \in Nat /\ w.len \in 0..MaxText
  BY <1>1 DEF GuestOK, Even
<1> QED
  BY <1>1, <1>3, <1>4, <1>5, Zenon DEF TypeOK, GuestOK, CopyOK, OutOK

\* The invariant holds in every reachable state.
LEMMA Always == Spec => [](IInv /\ XInv)
BY InitInv, InitX, NextX, PTL DEF Spec

-----------------------------------------------------------------------------
(***************************************************************************)
(* The theorems.                                                           *)
(***************************************************************************)

\* The guest's ring, the copies of struct prb_map and what dump_record prints keep
\* their types, torn copies included.
THEOREM SnapshotTypes == Spec => []TypeOK
BY Always, Typed, PTL

\* What dump_record (printk.c) prints for a record that the guest neither recycled
\* nor reopened since dump_lockless_record_log began is the record's own text, whole
\* and nothing else: although ids, descriptors, infos and text are copied at
\* different moments, and also for records logged while they are.
THEOREM SnapshotExact == Spec => []PrintedIsExact
BY Always, Exact, PTL

\* dump_lockless_record_log skips no record that was complete when it read head_id
\* and that the guest left alone: its descriptor is copied with its own id, and the
\* walk from tail_id to head_id comes by it, across the wrap of the ids.
THEOREM NothingStableMissing == Spec => []StableIsPrinted
BY Always, Printed, PTL

\* A record that the guest reopens during the dump, and perhaps moves to the start
\* of the text ring (data_realloc), is skipped or printed with at least the text it
\* had when the dump began, whichever of its old and new fields were copied.
THEOREM PrefixIntact == Spec => []ExtendedKeepsPrefix
BY Always, Prefix, PTL

\* The loop of dump_lockless_record_log makes at most one turn per descriptor,
\* unless the guest laps the ring between the reads of head_id and tail_id.
THEOREM WalkEnds == Spec => []WalkBounded
BY Always, Walked, PTL

=============================================================================

------------------------------ MODULE LogProofs ------------------------------
(***************************************************************************)
(* Proofs about LogBuf, for every size of the ring, every set of texts and *)
(* every grain of the copy.                                                *)
(*                                                                         *)
(* What makes the walk right is where the records lie, and the program     *)
(* keeps no table of that: there are only len fields in memory that is     *)
(* being recycled.  The invariant therefore says that there are positions  *)
(* E and wrap counts G, one pair for each record ever logged, for which    *)
(* the ring (GuestOK) and the copy (ReaderOK) hold what they should.       *)
(* Logging a record extends E and G and changes them nowhere else, so what *)
(* the reader knows about a record stays true while the guest goes on.     *)
(***************************************************************************)
EXTENDS LogBuf, TLAPS

\* A step that names no prover is tried with these two, in this order.
USE SMTT(30), ZenonT(30)

\* The positions of the records.  E[n] is the index behind record n, where the next
\* one is looked for, and G[n] counts how often the ring was wrapped up to record n.
\* Record n lies at At(n): behind the one before, or at the start of the ring.
At(E, G, n) == IF G[n] = G[n - 1] THEN E[n - 1] ELSE 0

Layout(E, G, N) ==
    /\ E[0] = 0
    /\ \A n \in 0..N : E[n] < size
    /\ \A n \in 1..N : /\ E[n] = At(E, G, n) + 1 + texts[n]
                       /\ G[n] = G[n - 1] \/ G[n] = G[n - 1] + 1
    /\ \A a, b \in 0..N : a < b => G[a] < G[b] \/ (G[a] = G[b] /\ E[a] < E[b])

\* The records in the ring take less than one turn of it.
Ring(E, G, N) ==
    /\ first = E[firstSeq - 1]
    /\ LET F == firstSeq - 1
       IN  G[N] = G[F] \/ (G[N] = G[F] + 1 /\ E[N] < E[F])

\* The first K cells of b hold what belongs to a record at a with number n and text t.
Header(n, t) == [n |-> n, j |-> 0, len |-> 1 + t, text |-> t]
Stored(b, K, n, t, a) ==
    /\ a < K => b[a] = Header(n, t)
    /\ \A j \in 1..t : a + j < K => b[a + j] = TextCell(n, j)

\* ... and an empty header where it was looked for in vain.
Holds(E, G, b, K, n) ==
    /\ Stored(b, K, n, texts[n], At(E, G, n))
    /\ G[n] # G[n - 1] /\ E[n - 1] < K => b[E[n - 1]].len = 0

Wrapping == {"wrapped", "wrappedlen", "wrappedinsert"}
Straight == {"fill", "len", "insert"}

\* Where the writer is: the place of the new record is free, and holds what was
\* written so far.
Writer(E, G, N) ==
    LET F == firstSeq - 1
    IN  /\ w.ph \in {"idle", "free"} \cup Straight => next = E[N]
        /\ w.ph \in Straight => /\ next + w.text + 2 <= size
                                /\ G[N] # G[F] => next + w.text + 2 <= first
        /\ w.ph \in Wrapping => /\ next = 0 /\ w.text + 2 <= first
                                /\ G[N] = G[F] /\ buf[E[N]].len = 0
        /\ w.ph \in {"len", "insert", "wrappedlen", "wrappedinsert"} =>
              /\ buf[next].n = N + 1 /\ buf[next].j = 0 /\ buf[next].text = w.text
              /\ \A j \in 1..w.text : buf[next + j] = TextCell(N + 1, j)
        /\ w.ph \in {"insert", "wrappedinsert"} => buf[next].len = 1 + w.text

GuestOK(E, G, N) ==
    /\ Layout(E, G, N) /\ Ring(E, G, N) /\ Writer(E, G, N)
    /\ \A n \in firstSeq..N : Holds(E, G, buf, size, n)

Shown == UNION {[1..t -> [n : Nat, j : Nat, len : Nat, text : Nat]] : t \in Nat}

\* Where a walk is that has met nothing but copied cells: behind the records printed.
Tracked(E) ==
    /\ out \in Seq(Shown) /\ Len(out) \in 0..(upto - from)
    /\ idx = E[from - 1 + Len(out)]
    /\ \A i \in 1..Len(out) : out[i] = Text(from + i - 1)
    /\ seen = {E[n] : n \in (from - 1)..(from - 2 + Len(out))}

\* What the reader knows, as long as its copy is intact.
ReaderOK(E, G, N) ==
    /\ pc # "first" /\ ~ failed => from \in 1..firstSeq /\ c.first = E[from - 1]
    /\ pc \notin {"first", "next"} /\ ~ failed /\ ~ torn =>
          upto \in from..(N + 1) /\ c.next = E[upto - 1]
    /\ pc \in {"buf", "walk", "done", "wild"} /\ ~ failed => c.len = size % LenMod
    /\ pc \in {"buf", "walk", "done", "wild"} /\ Intact =>
          \A n \in from..(upto - 1) : Holds(E, G, logbuf, k, n)
    /\ pc \in {"walk", "done", "wild"} /\ Intact /\ Sighted => Tracked(E)
    /\ pc \in {"walk", "done", "wild"} /\ Whole => Sighted
    /\ pc = "done" /\ Intact /\ Whole => Len(out) = upto - from
    /\ pc = "wild" => ~ (Intact /\ Whole)

GuestTypes(N) ==
    /\ size \in Nat \ {0} /\ buf \in [0..(size - 1) -> Cell]
    /\ texts \in Seq(Nat) /\ N = Len(texts) /\ texts \in [1..N -> Nat]
    /\ N \in Nat /\ N <= MaxRecords /\ firstSeq \in 1..(N + 1)
    /\ w \in [ph : {"idle", "free"} \cup Straight \cup Wrapping, text : Nat]
    /\ w.ph # "idle" => N < MaxRecords

ReaderTypes ==
    /\ pc \in {"first", "next", "len", "buf", "walk", "done", "wild"}
    /\ c \in [first : Nat, next : Nat, len : Nat]
    /\ logbuf \in [0..(c.len - 1) -> Cell]
    /\ k \in Nat /\ idx \in Nat /\ seen \subseteq 0..(c.len - 1)
    /\ from \in Nat /\ upto \in Nat /\ torn \in BOOLEAN /\ failed \in BOOLEAN
    /\ pc \in {"first", "next", "len"} => k = 0
    /\ pc \notin {"walk", "done", "wild"} => seen = {} /\ out = <<>>

GInv(E, G, N) == GuestTypes(N) /\ GuestOK(E, G, N)
RInv(E, G, N) == ReaderTypes /\ ReaderOK(E, G, N)

\* The invariant: the records have positions for which all of this is true.
LogInv == \E E, G \in [Nat -> Nat] : GInv(E, G, Len(texts)) /\ RInv(E, G, Len(texts))

-----------------------------------------------------------------------------
(***************************************************************************)
(* Positions of records.                                                   *)
(***************************************************************************)

\* Positions are in the order of the records.
LEMMA Order ==
    ASSUME NEW N \in Nat, NEW E \in [Nat -> Nat], NEW G \in [Nat -> Nat],
           GuestTypes(N), Layout(E, G, N),
           NEW a \in 0..N, NEW b \in 0..N, a <= b
    PROVE  G[a] <= G[b] /\ (G[a] = G[b] => E[a] <= E[b])
<1>1. a \in Nat /\ b \in Nat /\ G[a] \in Nat /\ G[b] \in Nat /\ E[a] \in Nat /\ E[b] \in Nat
  BY DEF GuestTypes
<1>2. a < b => G[a] < G[b] \/ (G[a] = G[b] /\ E[a] < E[b])
  BY DEF Layout
<1> QED
  BY <1>1, <1>2

\* A record lies between its position and the index behind it.
LEMMA Extent ==
    ASSUME NEW N \in Nat, NEW E \in [Nat -> Nat], NEW G \in [Nat -> Nat],
           GuestTypes(N), Layout(E, G, N),
           NEW n \in 1..N
    PROVE  /\ At(E, G, n) \in Nat /\ texts[n] \in Nat
           /\ E[n] = At(E, G, n) + 1 + texts[n] /\ E[n] \in Nat /\ E[n] < size
           /\ E[n - 1] \in Nat /\ E[n - 1] < size
           /\ G[n] = G[n - 1] => At(E, G, n) = E[n - 1]
           /\ G[n] # G[n - 1] => At(E, G, n) = 0 /\ G[n] = G[n - 1] + 1
<1>1. n - 1 \in 0..N /\ n \in 0..N /\ N \in Nat
  BY DEF GuestTypes
<1>2. texts[n] \in Nat
  BY Zenon DEF GuestTypes
<1> QED
  BY <1>1, <1>2 DEF Layout, At

\* Where the records of the ring lie, seen from log_first_idx and log_next_idx.
LEMMA Where ==
    ASSUME NEW N \in Nat, NEW E \in [Nat -> Nat], NEW G \in [Nat -> Nat],
           GuestTypes(N),
           Layout(E, G, N), Ring(E, G, N), NEW n \in firstSeq..N
    PROVE  /\ n \in 1..N
           /\ G[N] = G[firstSeq - 1] =>
                 G[n] = G[n - 1] /\ first <= At(E, G, n) /\ E[n] <= E[N]
           /\ G[N] # G[firstSeq - 1] =>
                 /\ first <= At(E, G, n) \/ E[n] <= E[N]
                 /\ G[n] # G[n - 1] => first <= E[n - 1]
<1> DEFINE F == firstSeq - 1
<1>1. /\ n \in 1..N /\ n \in 0..N /\ n - 1 \in 0..N /\ F \in 0..N /\ N \in 0..N
      /\ F <= n - 1 /\ n <= N /\ N \in Nat
  BY DEF GuestTypes
<1>2. /\ G[F] <= G[n - 1] /\ (G[F] = G[n - 1] => E[F] <= E[n - 1])
      /\ G[n] <= G[N] /\ (G[n] = G[N] => E[n] <= E[N])
  BY <1>1, Order, Zenon
<1>3. /\ G[n] = G[n - 1] => At(E, G, n) = E[n - 1]
      /\ G[n] # G[n - 1] => G[n] = G[n - 1] + 1
  BY <1>1, Extent
<1>4. first = E[F] /\ (G[N] = G[F] \/ G[N] = G[F] + 1)
  BY DEF Ring
<1>5. G[N] \in Nat /\ G[F] \in Nat /\ G[n] \in Nat /\ G[n - 1] \in Nat
  BY <1>1
<1> QED
  BY <1>1, <1>2, <1>3, <1>4, <1>5

\* A write outside the ring's records leaves them alone.
LEMMA Untouched ==
    ASSUME NEW N \in Nat, NEW E \in [Nat -> Nat], NEW G \in [Nat -> Nat], GInv(E, G, N),
           NEW b, NEW lo \in Nat, NEW hi \in Nat,
           \A p \in 0..(size - 1) : p \notin lo..hi => b[p] = buf[p],
           G[N] = G[firstSeq - 1] => hi < first \/ E[N] <= lo,
           G[N] # G[firstSeq - 1] => E[N] <= lo /\ hi < first,
           NEW n \in firstSeq..N
    PROVE  Holds(E, G, b, size, n)
<1> DEFINE a == At(E, G, n)
           e == E[n - 1]
           l == texts[n]
<1>1. GuestTypes(N) /\ Layout(E, G, N) /\ Ring(E, G, N) /\ Holds(E, G, buf, size, n)
  BY DEF GInv, GuestOK
<1>0. n \in 1..N /\ firstSeq - 1 \in Nat
  BY <1>1 DEF GuestTypes
<1>2. n \in 1..N /\ first \in Nat /\ E[N] \in Nat
  BY <1>0, <1>1 DEF Ring
<1>3. /\ a \in Nat /\ l \in Nat /\ E[n] = a + 1 + l /\ E[n] < size /\ E[n] \in Nat
      /\ e \in Nat /\ e < size /\ size \in Nat
      /\ G[n] = G[n - 1] => a = e
  <2>1. size \in Nat
    BY <1>1 DEF GuestTypes
  <2> QED
    BY <1>0, <1>1, <2>1, Extent
<1>x. /\ G[N] = G[firstSeq - 1] => first <= a /\ E[n] <= E[N] /\ G[n] = G[n - 1]
      /\ G[N] # G[firstSeq - 1] => first <= a \/ E[n] <= E[N]
      /\ G[N] # G[firstSeq - 1] /\ G[n] # G[n - 1] => first <= e
  BY <1>1, Where
<1>4. ASSUME NEW p \in Nat, a <= p, p < E[n] PROVE b[p] = buf[p]
  <2>1. p \notin lo..hi
    <3> HIDE DEF a, e, l
    <3>1. CASE G[N] = G[firstSeq - 1]
      BY <1>2, <1>3, <1>4, <1>x, <3>1
    <3>2. CASE G[N] # G[firstSeq - 1]
      BY <1>2, <1>3, <1>4, <1>x, <3>2
    <3> QED
      BY <3>1, <3>2
  <2> QED
    BY <1>3, <1>4, <2>1
<1>5. ASSUME G[n] # G[n - 1] PROVE b[e] = buf[e]
  <2>1. e \notin lo..hi
    BY <1>2, <1>3, <1>5, <1>x
  <2> QED
    BY <1>3, <2>1
<1>6. b[a] = buf[a] /\ \A j \in 1..l : b[a + j] = buf[a + j]
  BY <1>3, <1>4
<1> HIDE DEF a, e, l
<1> QED
  BY <1>1, <1>5, <1>6 DEF Holds, Stored, a, e, l

-----------------------------------------------------------------------------
(***************************************************************************)
(* Steps of the guest.                                                     *)
(***************************************************************************)

\* What the invariant says about log_first_idx and log_next_idx.
LEMMA Indices ==
    ASSUME NEW N \in Nat, NEW E \in [Nat -> Nat], NEW G \in [Nat -> Nat], GInv(E, G, N)
    PROVE  /\ size \in Nat /\ firstSeq \in Nat /\ firstSeq - 1 \in 0..N /\ w.text \in Nat
           /\ first = E[firstSeq - 1] /\ first \in Nat /\ first < size
           /\ E[N] \in Nat /\ E[N] < size /\ next \in Nat /\ next < size
           /\ G[N] = G[firstSeq - 1] => /\ first <= E[N]
                                        /\ first = E[N] => firstSeq = N + 1
           /\ G[N] # G[firstSeq - 1] => E[N] < first /\ firstSeq # N + 1
<1>1. GuestTypes(N) /\ Layout(E, G, N) /\ Ring(E, G, N) /\ Writer(E, G, N)
  BY DEF GInv, GuestOK
<1>2. /\ size \in Nat /\ size > 0 /\ firstSeq \in Nat /\ firstSeq - 1 \in 0..N
      /\ w.text \in Nat /\ N \in 0..N /\ firstSeq <= N + 1
      /\ w.ph \in {"idle", "free"} \cup Straight \cup Wrapping
  BY <1>1 DEF GuestTypes
<1>3. first = E[firstSeq - 1] /\ first \in Nat /\ first < size /\ E[N] \in Nat /\ E[N] < size
  BY <1>1, <1>2 DEF Ring, Layout
<1>4. next \in Nat /\ next < size
  BY <1>1, <1>2, <1>3 DEF Writer
<1>5. G[N] = G[firstSeq - 1] => first <= E[N] /\ (first = E[N] => firstSeq = N + 1)
  <2>1. firstSeq - 1 < N =>
           G[firstSeq - 1] < G[N] \/ (G[firstSeq - 1] = G[N] /\ E[firstSeq - 1] < E[N])
    BY <1>1, <1>2 DEF Layout
  <2>2. G[N] \in Nat /\ G[firstSeq - 1] \in Nat
    BY <1>2
  <2> QED
    BY <1>2, <1>3, <2>1, <2>2
<1>6. G[N] # G[firstSeq - 1] => E[N] < first /\ firstSeq # N + 1
  BY <1>1, <1>2, <1>3 DEF Ring
<1> QED
  BY <1>2, <1>3, <1>4, <1>5, <1>6

\* A step that changes nothing but the writer's phase and text, before a record
\* is placed.
LEMMA LogStep ==
    ASSUME NEW N \in Nat, NEW E \in [Nat -> Nat], NEW G \in [Nat -> Nat], GInv(E, G, N), Log
    PROVE  GInv(E, G, N)'
<1>1. PICK t \in TextLens : w' = [ph |-> "free", text |-> t]
  BY DEF Log
<1>2. /\ UNCHANGED <<size, buf, first, firstSeq, next, texts>>
      /\ w.ph = "idle" /\ Len(texts) < MaxRecords
  BY DEF Log
<1>3. t \in Nat
  BY LogBufAssumption
<1>4. GuestTypes(N)'
  BY <1>1, <1>2, <1>3, Zenon DEF GInv, GuestTypes, Cell
<1>5. Layout(E, G, N)' /\ Ring(E, G, N)'
  BY <1>2 DEF GInv, GuestOK, Layout, Ring
<1>6. Writer(E, G, N)'
  BY <1>1, <1>2 DEF GInv, GuestOK, Writer, Straight, Wrapping
<1>7. \A n \in firstSeq..N : Holds(E, G, buf, size, n)'
  BY <1>2, Zenon DEF GInv, GuestOK, Holds
<1> QED
  BY <1>2, <1>4, <1>5, <1>6, <1>7 DEF GInv, GuestOK

\* Following the len field of the oldest record leads to the next one.
LEMMA DropStep ==
    ASSUME NEW N \in Nat, NEW E \in [Nat -> Nat], NEW G \in [Nat -> Nat],
           GInv(E, G, N), DropOldest
    PROVE  GInv(E, G, N)'
<1> DEFINE n == firstSeq
<1>1. /\ UNCHANGED <<size, buf, next, texts, w>> /\ w.ph = "free" /\ firstSeq' = n + 1
      /\ first' = IF buf[first].len = 0 THEN buf[0].len ELSE first + buf[first].len
      /\ n < Len(texts) + 1
  BY DEF DropOldest, nextSeq
<1>2. /\ GuestTypes(N) /\ Layout(E, G, N) /\ Ring(E, G, N) /\ Writer(E, G, N)
      /\ n \in firstSeq..N /\ n \in 1..N
      /\ Holds(E, G, buf, size, n)
  <2>1. GuestTypes(N) /\ Layout(E, G, N) /\ Ring(E, G, N) /\ Writer(E, G, N)
    BY DEF GInv, GuestOK
  <2>2. n \in firstSeq..N /\ n \in 1..N
    BY <1>1, <2>1 DEF GuestTypes
  <2> QED
    BY <2>1, <2>2 DEF GInv, GuestOK
<1>3. /\ At(E, G, n) \in Nat /\ texts[n] \in Nat
      /\ E[n] = At(E, G, n) + 1 + texts[n] /\ E[n] \in Nat /\ E[n] < size
      /\ E[n - 1] \in Nat /\ E[n - 1] < size
      /\ G[n] = G[n - 1] => At(E, G, n) = E[n - 1]
      /\ G[n] # G[n - 1] => At(E, G, n) = 0 /\ G[n] = G[n - 1] + 1
  BY <1>2, Extent
<1>4. size \in Nat /\ first = E[n - 1] /\ n \in Nat
  BY Indices
<1>5. buf[At(E, G, n)].len = 1 + texts[n]
  BY <1>2, <1>3, <1>4 DEF Holds, Stored, Header
<1>6. G[n] # G[n - 1] => buf[E[n - 1]].len = 0
  BY <1>2, <1>3 DEF Holds
<1>7. first' = E[n]
  <2>1. CASE G[n] = G[n - 1]
    <3>1. buf[first].len = 1 + texts[n] /\ 1 + texts[n] # 0
      BY <1>3, <1>4, <1>5, <2>1
    <3>2. first' = first + buf[first].len
      BY <1>1, <3>1
    <3> QED
      BY <1>3, <1>4, <2>1, <3>1, <3>2
  <2>2. CASE G[n] # G[n - 1]
    BY <1>1, <1>3, <1>4, <1>5, <1>6, <2>2
  <2> QED
    BY <2>1, <2>2
<1>8. Layout(E, G, N)'
  BY <1>1, <1>2 DEF Layout
<1>9. GuestTypes(N)'
  <2>1. firstSeq' \in 1..(N + 1)
    <3>1. n \in 1..N
      BY <1>2
    <3>2. n + 1 \in 1..(N + 1)
      BY <3>1
    <3>3. firstSeq' = n + 1
      BY <1>1
    <3> QED
      BY <3>2, <3>3, Zenon
  <2>2. GuestTypes(N)
    BY <1>2
  <2> QED
    BY <1>1, <2>1, <2>2, Zenon DEF GuestTypes, Cell
<1>10. Ring(E, G, N)'
  <2>1. /\ G[n - 1] <= G[n] /\ (G[n - 1] = G[n] => E[n - 1] < E[n])
        /\ G[n] <= G[N] /\ G[n - 1] \in Nat /\ G[n] \in Nat /\ G[N] \in Nat
    <3>1. G[n] <= G[N]
      <4>1. n \in 0..N /\ N \in 0..N /\ n <= N
        BY <1>2
      <4> QED
        BY <1>2, <4>1, Order
    <3> QED
      BY <1>2, <1>3, <1>4, <3>1
  <2>2. first = E[n - 1] /\ (G[N] = G[n - 1] \/ (G[N] = G[n - 1] + 1 /\ E[N] < E[n - 1]))
    BY <1>2 DEF Ring
  <2>3. G[N] = G[n] \/ (G[N] = G[n] + 1 /\ E[N] < E[n])
    <3>1. E[N] \in Nat
      OBVIOUS
    <3> QED
      BY <1>3, <2>1, <2>2, <3>1
  <2>4. firstSeq' - 1 = n
    BY <1>1, <1>4
  <2> QED
    BY <1>7, <2>3, <2>4 DEF Ring
<1>11. Writer(E, G, N)'
  BY <1>1, <1>2 DEF Writer, Straight, Wrapping
<1>12. \A m \in (n + 1)..N : Holds(E, G, buf, size, m)'
  <2>1. \A m \in (n + 1)..N : Holds(E, G, buf, size, m)
    BY <1>4 DEF GInv, GuestOK
  <2> QED
    BY <1>1, <2>1, Zenon DEF Holds
<1> QED
  BY <1>1, <1>8, <1>9, <1>10, <1>11, <1>12 DEF GInv, GuestOK

\* The place of a new record is inside the ring and outside its records.
LEMMA Room ==
    ASSUME NEW N \in Nat, NEW E \in [Nat -> Nat], NEW G \in [Nat -> Nat], GInv(E, G, N),
           w.ph \in Straight \cup Wrapping
    PROVE  /\ next + w.text + 1 < size
           /\ G[N] = G[firstSeq - 1] => next + w.text < first \/ E[N] <= next
           /\ G[N] # G[firstSeq - 1] => E[N] <= next /\ next + w.text < first
           /\ w.ph \in Wrapping => next + w.text < E[N] /\ next = 0 /\ G[N] = G[firstSeq - 1]
           /\ w.ph \in Straight => next = E[N]
<1>1. Writer(E, G, N)
  BY DEF GInv, GuestOK
<1>2. /\ size \in Nat /\ w.text \in Nat /\ first \in Nat /\ first < size
      /\ E[N] \in Nat /\ next \in Nat
      /\ G[N] = G[firstSeq - 1] => first <= E[N]
  BY Indices
<1>3. CASE w.ph \in Straight
  <2>1. w.ph \notin Wrapping
    BY <1>3 DEF Straight, Wrapping
  <2> QED
    BY <1>1, <1>2, <1>3, <2>1 DEF Writer
<1>4. CASE w.ph \in Wrapping
  <2>1. w.ph \notin Straight
    BY <1>4 DEF Straight, Wrapping
  <2> QED
    BY <1>1, <1>2, <1>4, <2>1 DEF Writer
<1> QED
  BY <1>3, <1>4

\* logbuf_has_space answers for a place that is free, with or without a wrap.
LEMMA PlaceStep ==
    ASSUME NEW N \in Nat, NEW E \in [Nat -> Nat], NEW G \in [Nat -> Nat], GInv(E, G, N), Place
    PROVE  GInv(E, G, N)'
<1> DEFINE F == firstSeq - 1
           t == w.text
<1>1. /\ UNCHANGED <<size, first, firstSeq, texts>> /\ w.ph = "free"
      /\ HasSpace(1 + t, firstSeq = nextSeq)
  BY DEF Place
<1>2. /\ GuestTypes(N) /\ Layout(E, G, N) /\ Ring(E, G, N) /\ Writer(E, G, N)
  BY DEF GInv, GuestOK
<1>3. /\ size \in Nat /\ F \in 0..N /\ t \in Nat /\ first \in Nat /\ first < size
      /\ E[N] \in Nat /\ E[N] < size
      /\ G[N] = G[F] => first <= E[N] /\ (first = E[N] => firstSeq = N + 1)
      /\ G[N] # G[F] => E[N] < first /\ firstSeq # N + 1
  BY Indices
<1>4. next = E[N]
  BY <1>1, <1>2 DEF Writer
<1>5. t + 2 <= IF E[N] > first \/ firstSeq = N + 1 THEN Larger(size - E[N], first)
                                                  ELSE first - E[N]
  <2>1. nextSeq = N + 1
    BY <1>2 DEF GuestTypes, nextSeq
  <2>2. 1 + t + 1 = t + 2
    BY <1>3
  <2> QED
    BY <1>1, <1>4, <2>1, <2>2 DEF HasSpace
<1>6. Layout(E, G, N)' /\ Ring(E, G, N)'
  BY <1>1, <1>2 DEF Layout, Ring
<1>7. CASE next + (1 + t) + 1 > size
  <2>1. buf' = [buf EXCEPT ![next] = Zero] /\ next' = 0 /\ w' = [w EXCEPT !.ph = "wrapped"]
    BY <1>7 DEF Place
  <2>2. G[N] = G[F] /\ t + 2 <= first
    BY <1>3, <1>4, <1>5, <1>7 DEF Larger
  <2>3. Zero \in Cell
    BY LogBufAssumption DEF Zero, Cell
  <2>4. GuestTypes(N)'
    <3>1. buf' \in [0..(size - 1) -> Cell]
      BY <1>2, <2>1, <2>3, Zenon DEF GuestTypes
    <3>2. w' \in [ph : {"idle", "free"} \cup Straight \cup Wrapping, text : Nat]
      BY <1>2, <2>1, Zenon DEF GuestTypes, Wrapping
    <3> QED
      BY <1>1, <1>2, <3>1, <3>2, Zenon DEF GuestTypes, Cell
  <2>5. \A n \in firstSeq..N : Holds(E, G, buf', size, n)
    <3>1. \A p \in 0..(size - 1) : p \notin next..next => buf'[p] = buf[p]
      BY <1>2, <1>3, <1>4, <2>1 DEF GuestTypes
    <3>2. next \in Nat /\ (G[N] = G[firstSeq - 1] => next < first \/ E[N] <= next)
      BY <1>3, <1>4
    <3>3. G[N] # G[firstSeq - 1] => E[N] <= next /\ next < first
      BY <2>2
    <3> QED
      BY <3>1, <3>2, <3>3, Untouched, Zenon
  <2>6. Writer(E, G, N)'
    <3>1. w'.ph = "wrapped" /\ w'.text = t
      BY <1>2, <2>1 DEF GuestTypes
    <3>2. buf'[E[N]].len = 0
      BY <1>2, <1>3, <1>4, <2>1 DEF GuestTypes, Zero
    <3> QED
      BY <1>1, <2>1, <2>2, <3>1, <3>2 DEF Writer, Straight, Wrapping
  <2> QED
    BY <1>1, <1>6, <2>4, <2>5, <2>6 DEF GInv, GuestOK, Holds
<1>8. CASE ~ (next + (1 + t) + 1 > size)
  <2>1. w' = [w EXCEPT !.ph = "fill"] /\ UNCHANGED <<buf, next>>
    BY <1>8 DEF Place
  <2>2. next + t + 2 <= size /\ (G[N] # G[F] => next + t + 2 <= first)
    BY <1>3, <1>4, <1>5, <1>8 DEF Larger
  <2>3. GuestTypes(N)'
    <3>1. w' \in [ph : {"idle", "free"} \cup Straight \cup Wrapping, text : Nat]
      BY <1>2, <2>1, Zenon DEF GuestTypes, Straight
    <3> QED
      BY <1>1, <1>2, <2>1, <3>1, Zenon DEF GuestTypes, Cell
  <2>4. Writer(E, G, N)'
    <3>1. w'.ph = "fill" /\ w'.text = t
      BY <1>2, <2>1 DEF GuestTypes
    <3> QED
      BY <1>1, <1>4, <2>1, <2>2, <3>1 DEF Writer, Straight, Wrapping
  <2>5. \A n \in firstSeq..N : Holds(E, G, buf, size, n)'
    BY <1>1, <2>1 DEF GInv, GuestOK, Holds
  <2> QED
    BY <1>1, <1>6, <2>3, <2>4, <2>5 DEF GInv, GuestOK
<1> QED
  BY <1>7, <1>8

\* Fields of a cell keep their types.
LEMMA CellFields ==
    ASSUME NEW r \in Cell, NEW n \in 0..MaxRecords, NEW v \in Nat
    PROVE  /\ [r EXCEPT !.len = v] \in Cell
           /\ [r EXCEPT !.n = n, !.j = 0, !.text = v] \in Cell
<1> SUFFICES ASSUME NEW R, R = 0..MaxRecords, n \in R,
                    r \in [n : R, j : Nat, len : Nat, text : Nat]
             PROVE  /\ [r EXCEPT !.len = v] \in [n : R, j : Nat, len : Nat, text : Nat]
                    /\ [r EXCEPT !.n = n, !.j = 0, !.text = v] \in
                          [n : R, j : Nat, len : Nat, text : Nat]
  BY ZenonT(30) DEF Cell
<1> QED
  BY Zenon

\* The text and the fields of the new record but for its len.
LEMMA FillStep ==
    ASSUME NEW N \in Nat, NEW E \in [Nat -> Nat], NEW G \in [Nat -> Nat], GInv(E, G, N), Fill
    PROVE  GInv(E, G, N)'
<1> DEFINE t == w.text
<1>1. /\ UNCHANGED <<size, first, firstSeq, next, texts>> /\ w.ph \in {"fill", "wrapped"}
      /\ w' = [w EXCEPT !.ph = IF @ = "fill" THEN "len" ELSE "wrappedlen"]
  BY Zenon DEF Fill
<1>2. GuestTypes(N) /\ Layout(E, G, N) /\ Ring(E, G, N) /\ Writer(E, G, N)
  BY DEF GInv, GuestOK
<1>3. /\ size \in Nat /\ t \in Nat /\ first \in Nat /\ next \in Nat /\ E[N] \in Nat /\ E[N] < size
      /\ firstSeq \in Nat
  BY Indices
<1>4. /\ next + t + 1 < size
      /\ G[N] = G[firstSeq - 1] => next + t < first \/ E[N] <= next
      /\ G[N] # G[firstSeq - 1] => E[N] <= next /\ next + t < first
      /\ w.ph = "wrapped" => next + t < E[N]
  BY <1>1, Room DEF Straight, Wrapping
<1>5. nextSeq = N + 1 /\ N < MaxRecords /\ DOMAIN buf = 0..(size - 1) /\ MaxRecords \in Nat
  BY <1>1, <1>2, LogBufAssumption, Zenon DEF GuestTypes, nextSeq
<1>6. buf' = [p \in 0..(size - 1) |->
                 IF p = next THEN [buf[p] EXCEPT !.n = N + 1, !.j = 0, !.text = t]
                 ELSE IF p \in (next + 1)..(next + t) THEN TextCell(N + 1, p - next)
                 ELSE buf[p]]
  BY <1>5, Zenon DEF Fill
<1>7. Layout(E, G, N)' /\ Ring(E, G, N)'
  BY <1>1, <1>2 DEF Layout, Ring
<1>8. /\ buf'[next].n = N + 1 /\ buf'[next].j = 0 /\ buf'[next].text = t
      /\ \A j \in 1..t : buf'[next + j] = TextCell(N + 1, j)
  <2>1. next \in 0..(size - 1)
    BY <1>3, <1>4
  <2>2. buf'[next] = [buf[next] EXCEPT !.n = N + 1, !.j = 0, !.text = t]
    BY <1>6, <2>1, Zenon
  <2>3. buf[next] \in Cell
    BY <1>2, <2>1 DEF GuestTypes
  <2>4. ASSUME NEW j \in 1..t PROVE buf'[next + j] = TextCell(N + 1, j)
    <3>1. next + j \in 0..(size - 1) /\ next + j \in (next + 1)..(next + t) /\ next + j # next
          /\ (next + j) - next = j
      BY <1>3, <1>4
    <3> QED
      BY <1>6, <3>1, Zenon
  <2> QED
    BY <2>2, <2>3, <2>4 DEF Cell
<1>9. \A p \in 0..(size - 1) : p \notin next..(next + t) => buf'[p] = buf[p]
  <2> SUFFICES ASSUME NEW p \in 0..(size - 1), p \notin next..(next + t) PROVE buf'[p] = buf[p]
    OBVIOUS
  <2>1. p # next /\ p \notin (next + 1)..(next + t)
    BY <1>3
  <2> QED
    BY <1>6, <2>1, Zenon
<1>10. buf' \in [0..(size - 1) -> Cell]
  <2>1. ASSUME NEW p \in 0..(size - 1) PROVE buf'[p] \in Cell
    <3>1. buf[p] \in Cell
      BY <1>2 DEF GuestTypes
    <3>2. CASE p = next
      <4>1. [buf[p] EXCEPT !.n = N + 1, !.j = 0, !.text = t] \in Cell
        <5>1. N + 1 \in 0..MaxRecords
          BY <1>5
        <5> QED
          BY <1>3, <3>1, <5>1, CellFields, Zenon
      <4> QED
        BY <1>6, <3>2, <4>1, Zenon
    <3>3. CASE p \in (next + 1)..(next + t) /\ p # next
      <4>1. TextCell(N + 1, p - next) \in Cell
        BY <1>3, <1>5, <3>3, LogBufAssumption DEF TextCell, Cell
      <4> QED
        BY <1>6, <3>3, <4>1, Zenon
    <3>4. CASE p \notin (next + 1)..(next + t) /\ p # next
      BY <1>6, <3>1, <3>4, Zenon
    <3> QED
      BY <3>2, <3>3, <3>4
  <2> QED
    BY <1>6, <2>1, Zenon
<1>11. /\ w' \in [ph : {"idle", "free"} \cup Straight \cup Wrapping, text : Nat]
       /\ w'.text = t
       /\ w.ph = "fill" => w'.ph = "len"
       /\ w.ph = "wrapped" => w'.ph = "wrappedlen"
  BY <1>1, <1>2, Zenon DEF GuestTypes, Straight, Wrapping
<1>12. GuestTypes(N)'
  BY <1>1, <1>2, <1>5, <1>10, <1>11, Zenon DEF GuestTypes, Cell
<1>13. \A n \in firstSeq..N : Holds(E, G, buf', size, n)
  <2>1. next + t \in Nat
    BY <1>3
  <2> QED
    BY <1>3, <1>4, <1>9, <2>1, Untouched, Zenon
<1>14. Writer(E, G, N)'
  <2>1. w.ph = "wrapped" => buf'[E[N]].len = 0
    <3>1. w.ph = "wrapped" =>
             buf[E[N]].len = 0 /\ E[N] \in 0..(size - 1) /\ E[N] \notin next..(next + t)
      BY <1>2, <1>3, <1>4 DEF Writer, Wrapping
    <3> QED
      BY <1>9, <3>1
  <2> QED
    BY <1>1, <1>2, <1>8, <1>11, <2>1 DEF Writer, Straight, Wrapping
<1> QED
  BY <1>1, <1>7, <1>12, <1>13, <1>14 DEF GInv, GuestOK, Holds

\* The len of the new record.
LEMMA SetLenStep ==
    ASSUME NEW N \in Nat, NEW E \in [Nat -> Nat], NEW G \in [Nat -> Nat], GInv(E, G, N), SetLen
    PROVE  GInv(E, G, N)'
<1> DEFINE t == w.text
<1>1. /\ UNCHANGED <<size, first, firstSeq, next, texts>> /\ w.ph \in {"len", "wrappedlen"}
      /\ w' = [w EXCEPT !.ph = IF @ = "len" THEN "insert" ELSE "wrappedinsert"]
      /\ buf' = [buf EXCEPT ![next].len = 1 + t]
  BY DEF SetLen
<1>2. GuestTypes(N) /\ Layout(E, G, N) /\ Ring(E, G, N) /\ Writer(E, G, N)
  BY DEF GInv, GuestOK
<1>3. /\ size \in Nat /\ t \in Nat /\ first \in Nat /\ next \in Nat /\ E[N] \in Nat /\ E[N] < size
  BY Indices
<1>4. /\ next + t + 1 < size
      /\ G[N] = G[firstSeq - 1] => next + t < first \/ E[N] <= next
      /\ G[N] # G[firstSeq - 1] => E[N] <= next /\ next + t < first
      /\ w.ph = "wrappedlen" => next + t < E[N]
  BY <1>1, Room DEF Straight, Wrapping
<1>5. Layout(E, G, N)' /\ Ring(E, G, N)'
  BY <1>1, <1>2 DEF Layout, Ring
<1>6. /\ buf \in [0..(size - 1) -> Cell] /\ next \in 0..(size - 1) /\ buf[next] \in Cell
  <2>1. next \in 0..(size - 1)
    BY <1>3, <1>4
  <2> QED
    BY <1>2, <2>1, Zenon DEF GuestTypes
<1>7. /\ \A p \in 0..(size - 1) : p \notin next..next => buf'[p] = buf[p]
      /\ buf'[next] = [buf[next] EXCEPT !.len = 1 + t]
  BY <1>1, <1>3, <1>6
<1>8. /\ buf'[next].n = buf[next].n /\ buf'[next].j = buf[next].j
      /\ buf'[next].text = buf[next].text /\ buf'[next].len = 1 + t /\ buf'[next] \in Cell
  <2>1. 1 + t \in Nat /\ 0 \in 0..MaxRecords
    BY <1>3, LogBufAssumption
  <2>2. [buf[next] EXCEPT !.len = 1 + t] \in Cell
    BY <1>6, <2>1, CellFields, Zenon
  <2> QED
    BY <1>6, <1>7, <2>2 DEF Cell
<1>9. buf' \in [0..(size - 1) -> Cell]
  BY <1>1, <1>6, <1>7, <1>8
<1>10. /\ w' \in [ph : {"idle", "free"} \cup Straight \cup Wrapping, text : Nat]
       /\ w'.text = t
       /\ w.ph = "len" => w'.ph = "insert"
       /\ w.ph = "wrappedlen" => w'.ph = "wrappedinsert"
  BY <1>1, <1>2, Zenon DEF GuestTypes, Straight, Wrapping
<1>11. GuestTypes(N)'
  BY <1>1, <1>2, <1>9, <1>10, Zenon DEF GuestTypes, Cell
<1>12. \A n \in firstSeq..N : Holds(E, G, buf', size, n)
  <2>1. /\ G[N] = G[firstSeq - 1] => next < first \/ E[N] <= next
        /\ G[N] # G[firstSeq - 1] => E[N] <= next /\ next < first
    BY <1>3, <1>4
  <2> QED
    BY <1>3, <1>7, <2>1, Untouched, Zenon
<1>13. Writer(E, G, N)'
  <2>1. w.ph = "wrappedlen" => buf'[E[N]].len = 0
    <3>1. w.ph = "wrappedlen" =>
             buf[E[N]].len = 0 /\ E[N] \in 0..(size - 1) /\ E[N] \notin next..next
      BY <1>2, <1>3, <1>4 DEF Writer, Wrapping
    <3> QED
      BY <1>7, <3>1
  <2>2. \A j \in 1..t : buf'[next + j] = TextCell(N + 1, j)
    <3> SUFFICES ASSUME NEW j \in 1..t PROVE buf'[next + j] = TextCell(N + 1, j)
      OBVIOUS
    <3>1. next + j \in 0..(size - 1) /\ next + j \notin next..next
      BY <1>3, <1>4
    <3>2. buf[next + j] = TextCell(N + 1, j)
      BY <1>1, <1>2 DEF Writer
    <3> QED
      BY <1>7, <3>1, <3>2
  <2>3. buf[next].n = N + 1 /\ buf[next].j = 0 /\ buf[next].text = t
    BY <1>1, <1>2 DEF Writer
  <2> QED
    BY <1>1, <1>2, <1>8, <1>10, <2>1, <2>2, <2>3 DEF Writer, Straight, Wrapping
<1> QED
  BY <1>1, <1>5, <1>11, <1>12, <1>13, Zenon DEF GInv, GuestOK, Holds

\* Appending a text's length, or a text, keeps the others.
LEMMA Appended ==
    ASSUME NEW S \in {Nat, Shown}, NEW s \in Seq(S), NEW t \in S
    PROVE  /\ Append(s, t) \in Seq(S) /\ Len(Append(s, t)) = Len(s) + 1
           /\ Append(s, t) \in [1..(Len(s) + 1) -> S]
           /\ \A n \in 1..Len(s) : Append(s, t)[n] = s[n]
           /\ Append(s, t)[Len(s) + 1] = t
<1> DEFINE r == Append(s, t)
<1>1. r \in Seq(S) /\ Len(r) = Len(s) + 1
  OBVIOUS
<1>2. \A n \in 1..Len(s) : r[n] = s[n]
  OBVIOUS
<1>3. r[Len(s) + 1] = t
  OBVIOUS
<1> HIDE DEF r
<1>4. r \in [1..Len(r) -> S]
  BY <1>1
<1>5. r \in [1..(Len(s) + 1) -> S]
  BY <1>1, <1>4, Zenon
<1> QED
  BY <1>1, <1>2, <1>3, <1>5, Zenon DEF r

\* Positions can be given to one more record.
LEMMA Extended ==
    ASSUME NEW N \in Nat, NEW F \in [Nat -> Nat], NEW x \in Nat
    PROVE  \E H \in [Nat -> Nat] : H[N + 1] = x /\ \A n \in 0..N : H[n] = F[n]
<1> DEFINE H == [F EXCEPT ![N + 1] = x]
<1>1. H \in [Nat -> Nat] /\ H[N + 1] = x /\ \A n \in 0..N : H[n] = F[n]
  OBVIOUS
<1> HIDE DEF H
<1> QED
  BY <1>1, Zenon

\* The new record is entered: its position is added to the others.
LEMMA InsertStep ==
    ASSUME NEW N \in Nat, NEW E \in [Nat -> Nat], NEW G \in [Nat -> Nat], GInv(E, G, N), Insert
    PROVE  \E E2, G2 \in [Nat -> Nat] :
              /\ \A n \in 0..N : E2[n] = E[n] /\ G2[n] = G[n]
              /\ \A n \in 1..N : texts'[n] = texts[n]
              /\ GInv(E2, G2, N + 1)'
<1> DEFINE t == w.text
           F == firstSeq - 1
<1>1. UNCHANGED <<size, buf, first, firstSeq>> /\ w.ph \in {"insert", "wrappedinsert"}
  BY DEF Insert
<1>a. w' = [w EXCEPT !.ph = "idle"] /\ texts' = Append(texts, t) /\ next' = next + buf[next].len
  BY DEF Insert
<1>2. GuestTypes(N) /\ Layout(E, G, N) /\ Ring(E, G, N) /\ Writer(E, G, N)
  BY DEF GInv, GuestOK
<1>3. /\ size \in Nat /\ t \in Nat /\ first \in Nat /\ next \in Nat /\ E[N] \in Nat /\ E[N] < size
      /\ F \in 0..N /\ first = E[F] /\ firstSeq \in Nat /\ G[N] \in Nat
  BY Indices
<1>4. /\ next + t + 1 < size
      /\ (w.ph = "insert" => next = E[N]) /\ (w.ph = "wrappedinsert" => next = 0)
  BY <1>1, Room DEF Straight, Wrapping
<1>5. next' = next + 1 + t /\ next' \in Nat /\ next' < size
  <2>1. buf[next].len = 1 + t
    BY <1>1, <1>2 DEF Writer
  <2>2. next' = next + buf[next].len
    BY <1>a
  <2> QED
    BY <1>3, <1>4, <2>1, <2>2
<1>6. w.ph \in Wrapping <=> w.ph = "wrappedinsert"
  BY <1>1 DEF Wrapping
<1>9. /\ texts' \in Seq(Nat) /\ Len(texts') = N + 1 /\ texts' \in [1..(N + 1) -> Nat]
      /\ \A n \in 1..N : texts'[n] = texts[n]
      /\ texts'[N + 1] = t
  <2>1. texts \in Seq(Nat) /\ Len(texts) = N
    BY <1>2 DEF GuestTypes
  <2>2. texts' = Append(texts, t)
    BY <1>a
  <2>3. /\ Append(texts, t) \in Seq(Nat) /\ Len(Append(texts, t)) = Len(texts) + 1
        /\ Append(texts, t) \in [1..(Len(texts) + 1) -> Nat]
        /\ \A n \in 1..Len(texts) : Append(texts, t)[n] = texts[n]
        /\ Append(texts, t)[Len(texts) + 1] = t
    <3>1. t \in Nat /\ texts \in Seq(Nat)
      BY <1>3, <2>1
    <3> HIDE DEF t
    <3> QED
      BY <3>1, Appended, Zenon
  <2> QED
    BY <2>1, <2>2, <2>3, Zenon
<1>b. PICK E2 \in [Nat -> Nat] : E2[N + 1] = next' /\ \A n \in 0..N : E2[n] = E[n]
  <2>1. \A y \in Nat : \E H \in [Nat -> Nat] : H[N + 1] = y /\ \A n \in 0..N : H[n] = E[n]
    BY Extended, Zenon
  <2> QED
    BY <1>5, <2>1, Zenon
<1>c. PICK g \in Nat : g = IF w.ph = "wrappedinsert" THEN G[N] + 1 ELSE G[N]
  OBVIOUS
<1>d. PICK G2 \in [Nat -> Nat] : G2[N + 1] = g /\ \A n \in 0..N : G2[n] = G[n]
  <2>1. \A y \in Nat : \E H \in [Nat -> Nat] : H[N + 1] = y /\ \A n \in 0..N : H[n] = G[n]
    BY Extended, ZenonT(30)
  <2> QED
    BY <2>1, Zenon
<1>7. /\ E2[N + 1] = next'
      /\ G2[N + 1] = IF w.ph = "wrappedinsert" THEN G[N] + 1 ELSE G[N]
  BY <1>b, <1>c, <1>d, Zenon
<1>8. \A n \in 0..N : E2[n] = E[n] /\ G2[n] = G[n]
  BY <1>b, <1>d, Zenon
<1>10. At(E2, G2, N + 1) = next
  <2>1. E2[N] = E[N] /\ G2[N] = G[N] /\ (N + 1) - 1 = N
    BY <1>8
  <2>2. CASE w.ph = "insert"
    <3>1. G2[N + 1] = G2[(N + 1) - 1] /\ E2[(N + 1) - 1] = next
      BY <1>4, <1>7, <2>1, <2>2
    <3> QED
      BY <3>1 DEF At
  <2>3. CASE w.ph = "wrappedinsert"
    <3>1. G2[N + 1] # G2[(N + 1) - 1] /\ next = 0
      BY <1>3, <1>4, <1>7, <2>1, <2>3
    <3> QED
      BY <3>1 DEF At
  <2> QED
    BY <1>1, <2>2, <2>3
<1>11. GuestTypes(N + 1)'
  <2>1. w' \in [ph : {"idle", "free"} \cup Straight \cup Wrapping, text : Nat] /\ w'.ph = "idle"
    BY <1>a, <1>2, Zenon DEF GuestTypes
  <2>2. N + 1 \in Nat /\ N + 1 <= MaxRecords /\ firstSeq \in 1..(N + 1 + 1)
    <3>1. N < MaxRecords /\ firstSeq \in 1..(N + 1)
      BY <1>1, <1>2, Zenon DEF GuestTypes
    <3> QED
      BY <3>1, LogBufAssumption
  <2> QED
    BY <1>1, <1>2, <1>9, <2>1, <2>2, Zenon DEF GuestTypes, Cell
<1>12. Layout(E2, G2, N + 1)'
  <2>1. E2[0] = 0 /\ \A n \in 0..(N + 1) : E2[n] < size
    <3>1. \A n \in 0..(N + 1) : n \in 0..N \/ n = N + 1
      OBVIOUS
    <3>2. E[0] = 0 /\ \A n \in 0..N : E[n] < size
      BY <1>2 DEF Layout
    <3>3. 0 \in 0..N
      OBVIOUS
    <3> QED
      BY <1>5, <1>7, <1>8, <3>1, <3>2, <3>3, Zenon
  <2>2. ASSUME NEW n \in 1..(N + 1)
        PROVE  /\ E2[n] = At(E2, G2, n) + 1 + texts'[n]
               /\ G2[n] = G2[n - 1] \/ G2[n] = G2[n - 1] + 1
    <3>1. CASE n \in 1..N
      <4>1. n \in 0..N /\ n - 1 \in 0..N
        BY <3>1
      <4>2. E2[n] = E[n] /\ G2[n] = G[n] /\ G2[n - 1] = G[n - 1] /\ E2[n - 1] = E[n - 1]
        BY <1>8, <4>1
      <4>3. At(E2, G2, n) = At(E, G, n)
        BY <4>2 DEF At
      <4> QED
        BY <1>2, <1>9, <3>1, <4>2, <4>3 DEF Layout
    <3>2. CASE n = N + 1
      <4>1. G2[N] = G[N] /\ (N + 1) - 1 = N
        BY <1>8
      <4>2. E2[N + 1] = next + 1 + t
        BY <1>5, <1>7
      <4> QED
        BY <1>7, <1>9, <1>10, <3>2, <4>1, <4>2
    <3> QED
      BY <3>1, <3>2
  <2>3. ASSUME NEW a \in 0..(N + 1), NEW b \in 0..(N + 1), a < b
        PROVE  G2[a] < G2[b] \/ (G2[a] = G2[b] /\ E2[a] < E2[b])
    <3>1. CASE b \in 0..N
      <4>1. a \in 0..N
        BY <2>3, <3>1
      <4> QED
        BY <1>2, <1>8, <2>3, <3>1, <4>1 DEF Layout
    <3>2. CASE b = N + 1
      <4>1. a \in 0..N /\ a <= N /\ N \in 0..N
        BY <2>3, <3>2
      <4>2. G[a] <= G[N] /\ (G[a] = G[N] => E[a] <= E[N]) /\ G[a] \in Nat /\ E[a] \in Nat
        <5>1. G[a] <= G[N] /\ (G[a] = G[N] => E[a] <= E[N])
          BY <1>2, <4>1, Order, Zenon
        <5> QED
          BY <4>1, <5>1
      <4>3. E2[a] = E[a] /\ G2[a] = G[a]
        BY <1>8, <4>1
      <4>4. CASE w.ph = "insert"
        <5>1. G2[b] = G[N] /\ E2[b] = E[N] + 1 + t
          BY <1>4, <1>5, <1>7, <3>2, <4>4
        <5>2. G[a] < G[N] \/ (G[a] = G[N] /\ E[a] < E[N] + 1 + t)
          <6>1. PICK x \in Nat, y \in Nat, u \in Nat, v \in Nat, s \in Nat :
                   x = G[a] /\ y = G[N] /\ u = E[a] /\ v = E[N] /\ s = t
            BY <1>3, <4>2, Zenon
          <6>a. x <= y /\ (x = y => u <= v)
            BY <4>2, <6>1, Zenon
          <6>2. x < y \/ (x = y /\ u < v + 1 + s)
            BY <6>a
          <6> QED
            BY <6>1, <6>2, Zenon
        <5> QED
          BY <4>3, <5>1, <5>2, Zenon
      <4>5. CASE w.ph = "wrappedinsert"
        <5>1. G2[b] = G[N] + 1
          BY <1>7, <3>2, <4>5
        <5>2. G[a] < G[N] + 1
          BY <1>3, <4>2
        <5> QED
          BY <4>3, <5>1, <5>2, Zenon
      <4> QED
        BY <1>1, <4>4, <4>5
    <3> QED
      BY <3>1, <3>2
  <2> QED
    BY <1>1, <2>1, <2>2, <2>3 DEF Layout, At
<1>13. Ring(E2, G2, N + 1)'
  <2>1. E2[F] = E[F] /\ G2[F] = G[F] /\ G[F] \in Nat
    BY <1>3, <1>8
  <2>2. G[N] = G[F] \/ (G[N] = G[F] + 1 /\ E[N] < E[F])
    BY <1>2 DEF Ring
  <2>3. w.ph = "wrappedinsert" => G[N] = G[F] /\ next + t + 2 <= first
    BY <1>2, <1>3 DEF Writer, Wrapping
  <2>4. w.ph = "insert" /\ G[N] # G[F] => next + t + 2 <= first
    BY <1>2, <1>3 DEF Writer, Straight
  <2>5. G2[N + 1] = G2[F] \/ (G2[N + 1] = G2[F] + 1 /\ E2[N + 1] < E2[F])
    <3>1. E2[N + 1] = next + 1 + t
      BY <1>5, <1>7
    <3>2. CASE w.ph = "insert"
      <4>1. G2[N + 1] = G[N]
        BY <1>7, <3>2
      <4> QED
        BY <1>3, <2>1, <2>2, <2>4, <3>1, <3>2, <4>1
    <3>3. CASE w.ph = "wrappedinsert"
      <4>1. G2[N + 1] = G[N] + 1
        BY <1>7, <3>3
      <4> QED
        BY <1>3, <2>1, <2>3, <3>1, <3>3, <4>1
    <3> QED
      BY <1>1, <3>2, <3>3
  <2> QED
    BY <1>1, <1>3, <2>1, <2>5 DEF Ring
<1>14. Writer(E2, G2, N + 1)'
  <2>1. w'.ph = "idle"
    BY <1>a, <1>2 DEF GuestTypes
  <2> QED
    BY <1>7, <2>1 DEF Writer, Straight, Wrapping
<1>15. ASSUME NEW n \in firstSeq..(N + 1) PROVE Holds(E2, G2, buf, size, n)'
  <2>1. CASE n \in firstSeq..N
    <3>1. n \in 1..N /\ Holds(E, G, buf, size, n)
      BY <1>2, <2>1 DEF GInv, GuestOK, GuestTypes
    <3>2. n \in 0..N /\ n - 1 \in 0..N
      BY <3>1
    <3>3. /\ E2[n - 1] = E[n - 1] /\ G2[n - 1] = G[n - 1] /\ G2[n] = G[n]
          /\ texts'[n] = texts[n]
      BY <1>8, <1>9, <3>1, <3>2, Zenon
    <3>4. At(E2, G2, n) = At(E, G, n)
      BY <3>3 DEF At
    <3> QED
      BY <1>1, <3>1, <3>3, <3>4 DEF Holds, At, Stored
  <2>2. CASE n = N + 1
    <3>1. buf[next] = Header(N + 1, t)
      <4>1. next \in 0..(size - 1)
        BY <1>3, <1>4
      <4>2. buf[next] \in Cell
        BY <1>2, <4>1 DEF GuestTypes
      <4>3. buf[next].n = N + 1 /\ buf[next].j = 0 /\ buf[next].text = t /\ buf[next].len = 1 + t
        BY <1>1, <1>2 DEF Writer
      <4> QED
        BY <4>2, <4>3, Zenon DEF Header, Cell
    <3>2. \A j \in 1..t : buf[next + j] = TextCell(N + 1, j)
      BY <1>1, <1>2 DEF Writer
    <3>3. Stored(buf, size, N + 1, t, next)
      BY <3>1, <3>2 DEF Stored
    <3>4. G2[N + 1] # G2[N] => buf[E2[N]].len = 0
      <4>1. E2[N] = E[N] /\ G2[N] = G[N]
        BY <1>8
      <4> QED
        BY <1>2, <1>7, <4>1 DEF Writer, Wrapping
    <3>5. (N + 1) - 1 = N
      OBVIOUS
    <3> QED
      BY <1>1, <1>9, <1>10, <2>2, <3>3, <3>4, <3>5, Zenon DEF Holds, At, Stored
  <2> QED
    BY <1>3, <2>1, <2>2
<1> QED
  BY <1>1, <1>7, <1>8, <1>9, <1>11, <1>12, <1>13, <1>14, <1>15, Zenon DEF GInv, GuestOK

-----------------------------------------------------------------------------
(***************************************************************************)
(* The start, and steps of one side that leave the other alone.            *)
(***************************************************************************)

\* Before anything is logged or read.
LEMMA LogInit ==
    ASSUME Init
    PROVE  LogInv
<1> DEFINE E == [n \in Nat |-> 0]
<1>1. E \in [Nat -> Nat] /\ E[0] = 0
  OBVIOUS
<1>2. /\ size \in Nat \ {0} /\ buf = [p \in 0..(size - 1) |-> Zero] /\ first = 0 /\ firstSeq = 1
      /\ next = 0 /\ texts = <<>> /\ w = [ph |-> "idle", text |-> 0]
  BY LogBufAssumption DEF Init, GuestInit
<1>3. Len(texts) = 0
  BY <1>2
<1> HIDE DEF E
<1>4. GInv(E, E, 0)
  <2>1. GuestTypes(0)
    BY <1>2, <1>3, LogBufAssumption DEF GuestTypes, Cell, Zero
  <2>2. Layout(E, E, 0) /\ Ring(E, E, 0)
    BY <1>1, <1>2 DEF Layout, Ring
  <2>3. Writer(E, E, 0)
    BY <1>1, <1>2 DEF Writer, Straight, Wrapping
  <2>4. \A n \in firstSeq..0 : Holds(E, E, buf, size, n)
    BY <1>2
  <2> QED
    BY <2>1, <2>2, <2>3, <2>4 DEF GInv, GuestOK
<1>5. RInv(E, E, 0)
  <2>1. pc = "first" /\ c = [first |-> 0, next |-> 0, len |-> 0] /\ seen = {} /\ out = <<>>
    BY DEF Init, ReaderInit
  <2>2. logbuf = <<>> /\ k = 0 /\ idx = 0 /\ from = 0 /\ upto = 0
    BY DEF Init, ReaderInit
  <2>3. torn \in BOOLEAN /\ failed \in BOOLEAN
    BY Zenon DEF Init, ReaderInit
  <2>4. logbuf \in [0..(c.len - 1) -> Cell]
    BY <2>1, <2>2
  <2>5. ReaderTypes
    <3>1. /\ pc \in {"first", "next", "len", "buf", "walk", "done", "wild"}
          /\ c \in [first : Nat, next : Nat, len : Nat]
          /\ k \in Nat /\ idx \in Nat /\ seen \subseteq 0..(c.len - 1)
          /\ from \in Nat /\ upto \in Nat
      BY <2>1, <2>2
    <3> QED
      BY <2>1, <2>2, <2>3, <2>4, <3>1, Zenon DEF ReaderTypes
  <2>6. ReaderOK(E, E, 0)
    BY <2>1 DEF ReaderOK
  <2> QED
    BY <2>5, <2>6 DEF RInv
<1> QED
  BY <1>1, <1>3, <1>4, <1>5, Zenon DEF LogInv

\* A step of the reader leaves the guest as it is.
LEMMA GuestRests ==
    ASSUME NEW N \in Nat, NEW E \in [Nat -> Nat], NEW G \in [Nat -> Nat],
           GInv(E, G, N), UNCHANGED guest
    PROVE  GInv(E, G, N)'
<1>1. UNCHANGED <<size, buf, first, firstSeq, next, texts, w>>
  BY DEF guest
<1>2. GuestTypes(N)' /\ Layout(E, G, N)' /\ Ring(E, G, N)'
  BY <1>1, Zenon DEF GInv, GuestOK, GuestTypes, Layout, Ring, Cell
<1>3. Writer(E, G, N)'
  BY <1>1 DEF GInv, GuestOK, Writer
<1>4. \A n \in firstSeq..N : Holds(E, G, buf, size, n)'
  BY <1>1 DEF GInv, GuestOK, Holds
<1> QED
  BY <1>1, <1>2, <1>3, <1>4 DEF GInv, GuestOK

\* A step of the guest before the walk leaves the reader what it has: the records it
\* copies keep their positions and texts.  Dropping a record can only end the intactness
\* of the copy.
LEMMA ReaderRests ==
    ASSUME NEW N \in Nat, NEW E \in [Nat -> Nat], NEW G \in [Nat -> Nat],
           NEW M \in Nat, NEW E2 \in [Nat -> Nat], NEW G2 \in [Nat -> Nat],
           N <= M, \A n \in 0..N : E2[n] = E[n] /\ G2[n] = G[n],
           \A n \in 1..N : texts'[n] = texts[n],
           firstSeq \in 1..(N + 1), firstSeq' \in Nat, firstSeq <= firstSeq',
           UNCHANGED <<size, reader, history>>, pc \notin {"walk", "done", "wild"},
           RInv(E, G, N)
    PROVE  RInv(E2, G2, M)'
<1>1. UNCHANGED <<size, pc, c, logbuf, k, idx, seen, out>>
  BY DEF reader
<1>2. UNCHANGED <<from, upto, torn, failed>>
  BY DEF history
<1>3. ReaderTypes /\ ReaderOK(E, G, N)
  BY DEF RInv
<1>4. from \in Nat /\ upto \in Nat
  BY <1>3 DEF ReaderTypes
<1>5. ReaderTypes'
  <2>1. pc' \notin {"walk", "done"}
    BY <1>1
  <2> QED
    BY <1>1, <1>2, <1>3, <2>1, Zenon DEF ReaderTypes, Cell
<1>7. Intact' => Intact
  <2>1. firstSeq' <= from => firstSeq <= from
    <3>1. \A x, y, z \in Nat : x <= y /\ y <= z => x <= z
      OBVIOUS
    <3>2. firstSeq \in Nat
      OBVIOUS
    <3> QED
      BY <1>4, <3>1, <3>2, Zenon
  <2> QED
    BY <1>1, <1>2, <2>1 DEF Intact
<1>8. pc # "first" /\ ~ failed => from \in 1..firstSeq' /\ c.first = E2[from - 1]
  <2>1. SUFFICES ASSUME pc # "first", ~ failed PROVE from \in 1..firstSeq' /\ c.first = E2[from - 1]
    OBVIOUS
  <2>2. from \in 1..firstSeq /\ c.first = E[from - 1]
    BY <1>3, <2>1 DEF ReaderOK
  <2>3. from - 1 \in 0..N /\ from \in 1..firstSeq'
    BY <2>2
  <2> QED
    BY <2>2, <2>3
<1>9. pc \notin {"first", "next"} /\ ~ failed /\ ~ torn =>
          upto \in from..(M + 1) /\ c.next = E2[upto - 1]
  <2>1. SUFFICES ASSUME pc \notin {"first", "next"}, ~ failed, ~ torn
                 PROVE  upto \in from..(M + 1) /\ c.next = E2[upto - 1]
    OBVIOUS
  <2>2. upto \in from..(N + 1) /\ c.next = E[upto - 1] /\ from \in 1..firstSeq
    BY <1>3, <2>1 DEF ReaderOK
  <2>3. upto - 1 \in 0..N /\ upto \in from..(M + 1)
    BY <2>2
  <2> QED
    BY <2>2, <2>3
<1>10. ASSUME pc = "buf", Intact' PROVE \A n \in from..(upto - 1) : Holds(E2, G2, logbuf, k, n)'
  <2>1. Intact /\ ~ failed /\ ~ torn
    BY <1>7, <1>10 DEF Intact
  <2>2. /\ \A n \in from..(upto - 1) : Holds(E, G, logbuf, k, n)
        /\ upto \in from..(N + 1) /\ from \in 1..firstSeq
    BY <1>3, <1>10, <2>1 DEF ReaderOK
  <2>3. SUFFICES ASSUME NEW n \in from..(upto - 1) PROVE Holds(E2, G2, logbuf, k, n)'
    OBVIOUS
  <2>4. n \in 1..N /\ n \in 0..N /\ n - 1 \in 0..N
    BY <2>2
  <2>5. At(E2, G2, n) = At(E, G, n) /\ E2[n - 1] = E[n - 1] /\ G2[n] = G[n] /\ G2[n - 1] = G[n - 1]
    BY <2>4 DEF At
  <2>6. texts'[n] = texts[n] /\ Holds(E, G, logbuf, k, n)
    BY <2>2, <2>4
  <2> QED
    BY <1>1, <2>5, <2>6 DEF Holds
<1>11. ReaderOK(E2, G2, M)'
  <2>1. pc \in {"buf", "walk", "done", "wild"} /\ ~ failed => c.len = size % LenMod
    BY <1>3 DEF ReaderOK
  <2>2. pc \notin {"walk", "done", "wild"}
    OBVIOUS
  <2> QED
    BY <1>1, <1>2, <1>8, <1>9, <1>10, <2>1, <2>2, Zenon DEF ReaderOK
<1> QED
  BY <1>5, <1>11 DEF RInv

-----------------------------------------------------------------------------
(***************************************************************************)
(* The reads before the walk.                                              *)
(***************************************************************************)

\* The masked length is a length, and the length itself for a ring below 2 MB.
LEMMA Masked ==
    ASSUME NEW l \in Nat
    PROVE  l % LenMod \in Nat /\ (l < LenMod => l % LenMod = l)
<1>1. LenMod \in Nat /\ LenMod > 0
  BY LogBufAssumption
<1> QED
  BY <1>1

\* log_first_idx is the position of the oldest record.
LEMMA ReadFirstStep ==
    ASSUME NEW N \in Nat, NEW E \in [Nat -> Nat], NEW G \in [Nat -> Nat],
           GInv(E, G, N), RInv(E, G, N), ReadFirst
    PROVE  RInv(E, G, N)'
<1>1. /\ pc = "first" /\ pc' = "next" /\ c' = [c EXCEPT !.first = first] /\ from' = firstSeq
      /\ UNCHANGED <<logbuf, k, idx, seen, out, upto, torn, failed>>
  BY DEF ReadFirst
<1>2. UNCHANGED <<size, firstSeq, texts>>
  BY DEF ReadFirst, guest
<1>3. ReaderTypes
  BY DEF RInv
<1>4. firstSeq \in Nat /\ firstSeq >= 1 /\ first \in Nat /\ first = E[firstSeq - 1]
  BY Indices
<1>5. c' \in [first : Nat, next : Nat, len : Nat] /\ c'.len = c.len /\ c'.first = first
  BY <1>1, <1>3, <1>4, Zenon DEF ReaderTypes
<1>6. ReaderTypes'
  BY <1>1, <1>3, <1>4, <1>5, Zenon DEF ReaderTypes, Cell
<1>7. firstSeq \in 1..firstSeq
  BY <1>4
<1>8. ReaderOK(E, G, N)'
  BY <1>1, <1>2, <1>4, <1>5, <1>7, Zenon DEF ReaderOK
<1> QED
  BY <1>6, <1>8 DEF RInv

\* log_next_idx is the index behind the newest record, unless it is read in the middle
\* of a wrap.
LEMMA ReadNextStep ==
    ASSUME NEW N \in Nat, NEW E \in [Nat -> Nat], NEW G \in [Nat -> Nat],
           GInv(E, G, N), RInv(E, G, N), ReadNext
    PROVE  RInv(E, G, N)'
<1>1. /\ pc = "next" /\ pc' = "len" /\ c' = [c EXCEPT !.next = next] /\ upto' = nextSeq
      /\ UNCHANGED <<logbuf, k, idx, seen, out, from, failed>>
      /\ torn' = (w.ph \in Wrapping)
  BY DEF ReadNext, Wrapping
<1>2. UNCHANGED <<size, firstSeq, texts>>
  BY DEF ReadNext, guest
<1>3. ReaderTypes /\ ReaderOK(E, G, N)
  BY DEF RInv
<1>4. firstSeq \in Nat /\ firstSeq - 1 \in 0..N /\ next \in Nat
  BY Indices
<1>5. /\ c' \in [first : Nat, next : Nat, len : Nat]
      /\ c'.len = c.len /\ c'.next = next /\ c'.first = c.first
  BY <1>1, <1>3, <1>4, Zenon DEF ReaderTypes
<1>6. upto' = N + 1 /\ upto' \in Nat /\ upto' - 1 = N
  <2>1. Len(texts) = N
    BY DEF GInv, GuestTypes
  <2>2. upto' = Len(texts) + 1
    BY DEF ReadNext, nextSeq
  <2> QED
    BY <2>1, <2>2
<1>7. ReaderTypes'
  <2>1. torn' \in BOOLEAN
    <3>1. torn' = (w.ph \in Wrapping)
      BY <1>1
    <3>2. (w.ph \in Wrapping) \in BOOLEAN
      OBVIOUS
    <3> QED
      BY <3>1, <3>2, SMT
  <2> QED
    BY <1>1, <1>3, <1>5, <1>6, <2>1, Zenon DEF ReaderTypes, Cell
<1>8. ~ torn' => next = E[N]
  <2>1. w.ph \in {"idle", "free"} \cup Straight \cup Wrapping /\ Writer(E, G, N)
    BY DEF GInv, GuestOK, GuestTypes
  <2> QED
    BY <1>1, <2>1, Zenon DEF Writer
<1>9. ~ failed => from \in 1..firstSeq /\ c.first = E[from - 1]
  BY <1>1, <1>3 DEF ReaderOK
<1>10. ~ failed => N + 1 \in from..(N + 1)
  BY <1>4, <1>9
<1>11. ReaderOK(E, G, N)'
  BY <1>1, <1>2, <1>5, <1>6, <1>8, <1>9, <1>10, Zenon DEF ReaderOK
<1> QED
  BY <1>7, <1>11 DEF RInv

\* A fresh copy is as long as the masked length.
LEMMA Allocated ==
    ASSUME NEW l \in Nat, ReaderTypes, Allocate(l), pc' = "buf", k = 0,
           UNCHANGED <<k, idx, seen, out, from, upto, torn>>, failed' \in BOOLEAN,
           pc = "len"
    PROVE  /\ ReaderTypes'
           /\ c'.len = l % LenMod /\ c'.first = c.first /\ c'.next = c.next
<1>1. c' = [c EXCEPT !.len = l % LenMod] /\ logbuf' = [p \in 0..((l % LenMod) - 1) |-> Zero]
  BY DEF Allocate
<1>2. l % LenMod \in Nat
  BY Masked
<1>3. /\ c' \in [first : Nat, next : Nat, len : Nat] /\ c'.len = l % LenMod
      /\ c'.first = c.first /\ c'.next = c.next
  BY <1>1, <1>2 DEF ReaderTypes
<1>4. Zero \in Cell
  BY LogBufAssumption DEF Zero, Cell
<1>5. logbuf' \in [0..(c'.len - 1) -> Cell]
  BY <1>1, <1>3, <1>4, Zenon
<1>6. seen' = {} /\ out' = <<>>
  BY DEF ReaderTypes
<1>7. seen' \subseteq 0..(c'.len - 1)
  BY <1>6
<1>8. ReaderTypes'
  BY <1>3, <1>5, <1>6, <1>7, Zenon DEF ReaderTypes, Cell
<1> QED
  BY <1>3, <1>8

\* log_buf_len: no record has been copied yet.
LEMMA ReadLenStep ==
    ASSUME NEW N \in Nat, NEW E \in [Nat -> Nat], NEW G \in [Nat -> Nat],
           GInv(E, G, N), RInv(E, G, N), ReadLen
    PROVE  RInv(E, G, N)'
<1>1. /\ pc = "len" /\ pc' = "buf" /\ Allocate(size) /\ UNCHANGED <<k, idx, seen, out>>
      /\ UNCHANGED <<from, upto, torn, failed>>
  BY DEF ReadLen, history
<1>2. UNCHANGED <<size, firstSeq, texts>>
  BY DEF ReadLen, guest
<1>3. ReaderTypes /\ ReaderOK(E, G, N)
  BY DEF RInv
<1>4. k = 0 /\ failed' \in BOOLEAN
  BY <1>1, <1>3, Zenon DEF ReaderTypes
<1>5. size \in Nat /\ firstSeq \in Nat /\ firstSeq - 1 \in 0..N
  BY Indices
<1>6. ReaderTypes' /\ c'.len = size % LenMod /\ c'.first = c.first /\ c'.next = c.next
  BY <1>1, <1>3, <1>4, <1>5, Allocated
<1>7. ~ failed => from \in 1..firstSeq /\ c.first = E[from - 1]
  BY <1>1, <1>3 DEF ReaderOK
<1>8. ~ failed /\ ~ torn => upto \in from..(N + 1) /\ c.next = E[upto - 1]
  BY <1>1, <1>3 DEF ReaderOK
<1>9. ASSUME ~ failed, ~ torn, NEW n \in from..(upto - 1) PROVE Holds(E, G, logbuf, k, n)'
  <2>1. n \in 1..N
    BY <1>5, <1>7, <1>8, <1>9
  <2>2. At(E, G, n) \in Nat /\ E[n - 1] \in Nat
    BY <2>1, Extent DEF GInv, GuestOK
  <2>3. texts[n] \in Nat
    BY <2>1, Zenon DEF GInv, GuestTypes
  <2>4. ~ (At(E, G, n) < 0) /\ ~ (E[n - 1] < 0) /\ \A j \in 1..texts[n] : ~ (At(E, G, n) + j < 0)
    BY <2>2, <2>3
  <2> QED
    BY <1>1, <1>2, <1>4, <2>4, Zenon DEF Holds, Stored
<1>10. ReaderOK(E, G, N)'
  <2>1. Intact' => ~ failed /\ ~ torn
    BY <1>1 DEF Intact
  <2> QED
    BY <1>1, <1>2, <1>6, <1>7, <1>8, <1>9, <2>1, Zenon DEF ReaderOK
<1> QED
  BY <1>6, <1>10 DEF RInv

\* After a failed read of a symbol the copy counts as broken.
LEMMA ReadSymbolFailsStep ==
    ASSUME NEW N \in Nat, NEW E \in [Nat -> Nat], NEW G \in [Nat -> Nat],
           GInv(E, G, N), RInv(E, G, N), ReadSymbolFails
    PROVE  RInv(E, G, N)'
<1>1. ReaderTypes
  BY DEF RInv
<1>2. PICK v \in Stack : IF pc = "len" THEN Allocate(v)
                         ELSE c' = [c EXCEPT ![pc] = v] /\ UNCHANGED logbuf
  BY DEF ReadSymbolFails
<1>3. /\ pc \in {"first", "next", "len"}
      /\ pc' = CASE pc = "first" -> "next" [] pc = "next" -> "len" [] pc = "len" -> "buf"
      /\ UNCHANGED <<k, idx, seen, out, from, upto, torn>>
  BY DEF ReadSymbolFails
<1>4. failed' /\ failed' \in BOOLEAN
  BY Zenon DEF ReadSymbolFails
<1>5. v \in Nat
  BY LogBufAssumption
<1>6. k = 0 /\ seen = {} /\ out = <<>>
  BY <1>1, <1>3, Zenon DEF ReaderTypes
<1>7. ReaderTypes' /\ pc' \notin {"walk", "done", "wild"}
  <2>1. CASE pc = "len"
    <3>1. Allocate(v) /\ pc' = "buf"
      BY <1>2, <1>3, <2>1
    <3> QED
      BY <1>1, <1>3, <1>4, <1>5, <1>6, <2>1, <3>1, Allocated
  <2>2. CASE pc \in {"first", "next"}
    <3>1. c' = [c EXCEPT ![pc] = v] /\ UNCHANGED logbuf /\ pc' \in {"next", "len"}
      BY <1>2, <1>3, <2>2
    <3>2. c' \in [first : Nat, next : Nat, len : Nat] /\ c'.len = c.len
      BY <1>1, <1>5, <2>2, <3>1, Zenon DEF ReaderTypes
    <3>3. ReaderTypes'
      BY <1>1, <1>3, <1>4, <1>6, <3>1, <3>2, Zenon DEF ReaderTypes, Cell
    <3> QED
      BY <3>1, <3>3
  <2> QED
    BY <1>3, <2>1, <2>2
<1>8. ReaderOK(E, G, N)'
  BY <1>4, <1>7 DEF ReaderOK, Intact
<1> QED
  BY <1>7, <1>8 DEF RInv

-----------------------------------------------------------------------------
(***************************************************************************)
(* The copy.                                                               *)
(***************************************************************************)

\* What an intact copy rests on, once log_buf_len is read: the copy is as long as the
\* ring, and every record asked for is still in the ring.
LEMMA Kept ==
    ASSUME NEW N \in Nat, NEW E \in [Nat -> Nat], NEW G \in [Nat -> Nat],
           GInv(E, G, N), RInv(E, G, N), Intact, pc \in {"buf", "walk", "done", "wild"}
    PROVE  /\ from \in Nat /\ from >= 1 /\ upto \in Nat /\ from <= upto /\ upto <= N + 1
           /\ firstSeq <= from
           /\ c.first = E[from - 1] /\ c.next = E[upto - 1] /\ c.len = size
<1>1. ~ failed /\ ~ torn /\ size < LenMod /\ firstSeq <= from
  BY DEF Intact
<1>2. ReaderOK(E, G, N) /\ from \in Nat /\ upto \in Nat
  BY DEF RInv, ReaderTypes
<1>3. /\ from \in 1..firstSeq /\ c.first = E[from - 1]
      /\ upto \in from..(N + 1) /\ c.next = E[upto - 1]
      /\ c.len = size % LenMod
  BY <1>1, <1>2, ZenonT(30) DEF ReaderOK
<1>4. size \in Nat
  BY Indices
<1>5. size % LenMod = size
  BY <1>1, <1>4, Masked
<1> QED
  BY <1>1, <1>2, <1>3, <1>5

\* The cells of a record lie before the index behind it.
LEMMA Cells ==
    ASSUME NEW a \in Nat, NEW t \in Nat, NEW s \in Nat, a + 1 + t < s
    PROVE  a < s /\ \A j \in 1..t : a + j \in Nat /\ a + j < s
  OBVIOUS

\* The piece of g cells at l is what lies below l + g and not below l.
LEMMA Piece ==
    ASSUME NEW l \in Nat, NEW g \in Nat, NEW p \in Nat, p < l + g
    PROVE  p \in l..(l + g - 1) <=> ~ (p < l)
  OBVIOUS

\* Unknown memory shows cells.
LEMMA UnknownCells == Unknown \subseteq Cell
<1>1. SUFFICES ASSUME NEW x \in Unknown PROVE x \in Cell
  OBVIOUS
<1>2. PICK l \in HeapLens, t \in HeapTexts : x = [n |-> 0, j |-> 0, len |-> l, text |-> t]
  BY DEF Unknown
<1>3. l \in Nat /\ t \in Nat /\ 0 \in 0..MaxRecords
  BY LogBufAssumption
<1> QED
  BY <1>2, <1>3 DEF Cell

\* Each piece that is read brings the copy of the records asked for further.
LEMMA ReadBufStep ==
    ASSUME NEW N \in Nat, NEW E \in [Nat -> Nat], NEW G \in [Nat -> Nat],
           GInv(E, G, N), RInv(E, G, N), ReadBuf
    PROVE  RInv(E, G, N)'
<1>1. /\ pc = "buf" /\ k < c.len /\ k' = k + Grain /\ UNCHANGED <<pc, c, idx, seen, out>>
      /\ UNCHANGED <<from, upto, torn, failed>>
  BY DEF ReadBuf, history
<1>2. UNCHANGED <<size, buf, firstSeq, texts>>
  BY DEF ReadBuf, guest
<1>4. ReaderTypes /\ ReaderOK(E, G, N)
  BY DEF RInv
<1>5. k \in Nat /\ c.len \in Nat /\ logbuf \in [0..(c.len - 1) -> Cell] /\ seen = {} /\ out = <<>>
  BY <1>1, <1>4, Zenon DEF ReaderTypes
<1>6. size \in Nat /\ buf \in [0..(size - 1) -> Cell]
  BY Indices, Zenon DEF GInv, GuestTypes
<1>7. Grain \in Nat /\ k' \in Nat
  <2>1. Grain \in Nat /\ Grain # 0
    BY LogBufAssumption
  <2> QED
    BY <1>1, <1>5, <2>1
<1>3. /\ logbuf' \in [0..(c.len - 1) -> Cell]
      /\ \A p \in 0..(c.len - 1) :
            /\ p \notin k..(k + Grain - 1) => logbuf'[p] = logbuf[p]
            /\ p \in k..(k + Grain - 1) /\ p < size => logbuf'[p] = buf[p]
  <2>1. PICK behind \in [size..(c.len - 1) -> Unknown] :
          logbuf' = [p \in DOMAIN logbuf |->
                        IF p \notin k..(k + Grain - 1) THEN logbuf[p]
                        ELSE IF p < size THEN buf[p] ELSE behind[p]]
    BY DEF ReadBuf
  <2>2. ASSUME NEW p \in 0..(c.len - 1)
        PROVE  (IF p \notin k..(k + Grain - 1) THEN logbuf[p]
                ELSE IF p < size THEN buf[p] ELSE behind[p]) \in Cell
    <3>1. (p < size => p \in 0..(size - 1)) /\ (~ (p < size) => p \in size..(c.len - 1))
      BY <1>5, <1>6
    <3>2. ~ (p < size) => behind[p] \in Cell
      BY <3>1, UnknownCells, Zenon
    <3> QED
      BY <1>5, <1>6, <3>1, <3>2, Zenon
  <2>3. DOMAIN logbuf = 0..(c.len - 1)
    BY <1>5, Zenon
  <2> QED
    BY <2>1, <2>2, <2>3, Zenon
<1>9. ReaderTypes'
  BY <1>1, <1>3, <1>4, <1>5, <1>7, Zenon DEF ReaderTypes, Cell
<1>11. ASSUME Intact, NEW n \in from..(upto - 1) PROVE Holds(E, G, logbuf, k, n)'
  <2>1. /\ n \in 1..N /\ n \in firstSeq..N /\ c.len = size
    <3>1. firstSeq \in Nat /\ firstSeq >= 1
      BY Indices
    <3> QED
      BY <1>1, <1>11, <3>1, Kept
  <2>2. Holds(E, G, logbuf, k, n)
    BY <1>1, <1>4, <1>11 DEF ReaderOK
  <2>3. Holds(E, G, buf, size, n)
    BY <2>1 DEF GInv, GuestOK
  <2>4. ASSUME NEW p \in Nat, p < size, p < k + Grain
        PROVE  /\ p < k => logbuf'[p] = logbuf[p]
               /\ ~ (p < k) => logbuf'[p] = buf[p]
    <3>1. p \in 0..(c.len - 1)
      BY <1>6, <2>1, <2>4
    <3>2. p \in k..(k + Grain - 1) <=> ~ (p < k)
      BY <1>5, <1>7, <2>4, Piece, Zenon
    <3> QED
      BY <1>3, <2>4, <3>1, <3>2, Zenon
  <2>5. /\ At(E, G, n) \in Nat /\ texts[n] \in Nat /\ At(E, G, n) + 1 + texts[n] < size
        /\ E[n - 1] \in Nat /\ E[n - 1] < size
    BY <2>1, Extent DEF GInv, GuestOK
  <2>6. /\ At(E, G, n) < size
        /\ \A j \in 1..texts[n] : At(E, G, n) + j \in Nat /\ At(E, G, n) + j < size
    BY <1>6, <2>5, Cells, Zenon
  <2>7. At(E, G, n) < k + Grain => logbuf'[At(E, G, n)] = Header(n, texts[n])
    <3>1. At(E, G, n) < size
      BY <2>6
    <3>2. /\ At(E, G, n) < k => logbuf[At(E, G, n)] = Header(n, texts[n])
          /\ buf[At(E, G, n)] = Header(n, texts[n])
      BY <2>2, <2>3, <3>1, Zenon DEF Holds, Stored
    <3> QED
      BY <2>4, <2>5, <3>1, <3>2, Zenon
  <2>8. ASSUME NEW j \in 1..texts[n], At(E, G, n) + j < k + Grain
        PROVE  logbuf'[At(E, G, n) + j] = TextCell(n, j)
    <3>1. At(E, G, n) + j < size /\ At(E, G, n) + j \in Nat
      BY <2>6
    <3>2. /\ At(E, G, n) + j < k => logbuf[At(E, G, n) + j] = TextCell(n, j)
          /\ buf[At(E, G, n) + j] = TextCell(n, j)
      BY <2>2, <2>3, <3>1, Zenon DEF Holds, Stored
    <3> QED
      BY <2>4, <2>8, <3>1, <3>2, Zenon
  <2>9. G[n] # G[n - 1] /\ E[n - 1] < k + Grain => logbuf'[E[n - 1]].len = 0
    <3>1. G[n] # G[n - 1] => buf[E[n - 1]].len = 0 /\ (E[n - 1] < k => logbuf[E[n - 1]].len = 0)
      BY <2>2, <2>3, <2>5, Zenon DEF Holds
    <3> QED
      BY <2>4, <2>5, <3>1, Zenon
  <2> QED
    BY <1>1, <1>2, <2>7, <2>8, <2>9, Zenon DEF Holds, Stored, Header, TextCell
<1>12. ReaderOK(E, G, N)'
  <2>1. Intact' <=> Intact
    BY <1>1, <1>2 DEF Intact
  <2>2. pc' = "buf" /\ pc' \notin {"walk", "done", "wild"}
    BY <1>1
  <2> QED
    BY <1>1, <1>2, <1>4, <1>11, <2>1, <2>2, Zenon DEF ReaderOK
<1> QED
  BY <1>9, <1>12 DEF RInv

\* The walk starts at the oldest record; what was copied stays in the copy, whatever
\* malloc returned behind it.
LEMMA StartWalkStep ==
    ASSUME NEW N \in Nat, NEW E \in [Nat -> Nat], NEW G \in [Nat -> Nat],
           GInv(E, G, N), RInv(E, G, N), StartWalk
    PROVE  RInv(E, G, N)'
<1>1. /\ pc = "buf" /\ pc' = "walk" /\ idx' = c.first
      /\ UNCHANGED <<c, k, seen, out>> /\ UNCHANGED <<from, upto, torn, failed>>
  BY DEF StartWalk, history
<1>2. UNCHANGED <<size, firstSeq, texts>>
  BY DEF StartWalk, guest
<1>4. ReaderTypes /\ ReaderOK(E, G, N)
  BY DEF RInv
<1>5. /\ seen = {} /\ out = <<>> /\ c.first \in Nat /\ k \in Nat /\ c.len \in Nat
      /\ logbuf \in [0..(c.len - 1) -> Cell]
  BY <1>1, <1>4 DEF ReaderTypes
<1>6. /\ logbuf' \in [0..(c.len - 1) -> Cell]
      /\ \A p \in 0..(c.len - 1) : p < k => logbuf'[p] = logbuf[p]
  <2>1. PICK heap \in [k..(c.len - 1) -> Unknown] :
          logbuf' = [p \in DOMAIN logbuf |-> IF p < k THEN logbuf[p] ELSE heap[p]]
    BY DEF StartWalk
  <2>2. ASSUME NEW p \in 0..(c.len - 1)
        PROVE  (IF p < k THEN logbuf[p] ELSE heap[p]) \in Cell
    <3>1. ~ (p < k) => p \in k..(c.len - 1)
      BY <1>5
    <3>2. ~ (p < k) => heap[p] \in Cell
      BY <3>1, UnknownCells, Zenon
    <3> QED
      BY <1>5, <3>2, Zenon
  <2>3. DOMAIN logbuf = 0..(c.len - 1)
    BY <1>5, Zenon
  <2> QED
    BY <2>1, <2>2, <2>3, Zenon
<1>7. ReaderTypes'
  BY <1>1, <1>4, <1>5, <1>6, Zenon DEF ReaderTypes, Cell
<1>8. Intact' <=> Intact
  BY <1>1, <1>2 DEF Intact
<1>9. Sighted'
  BY <1>1, <1>5 DEF Sighted
<1>10. ASSUME Intact, NEW n \in from..(upto - 1) PROVE Holds(E, G, logbuf, k, n)'
  <2>1. n \in 1..N /\ c.len = size
    <3>1. from \in Nat /\ from >= 1 /\ upto \in Nat /\ upto <= N + 1 /\ c.len = size
      BY <1>1, <1>10, Kept
    <3> QED
      BY <1>10, <3>1
  <2>2. Holds(E, G, logbuf, k, n)
    BY <1>1, <1>4, <1>10 DEF ReaderOK
  <2>3. \A p \in Nat : p < size /\ p < k => logbuf'[p] = logbuf[p]
    <3>1. \A p \in Nat : p < size => p \in 0..(c.len - 1)
      BY <1>5, <2>1
    <3> QED
      BY <1>6, <3>1, Zenon
  <2>4. /\ At(E, G, n) \in Nat /\ texts[n] \in Nat /\ At(E, G, n) + 1 + texts[n] < size
        /\ E[n - 1] \in Nat /\ E[n - 1] < size
    BY <2>1, Extent DEF GInv, GuestOK
  <2>5. /\ At(E, G, n) < size
        /\ \A j \in 1..texts[n] : At(E, G, n) + j \in Nat /\ At(E, G, n) + j < size
    <3>1. size \in Nat
      BY Indices
    <3> QED
      BY <2>4, <3>1, Cells, Zenon
  <2> QED
    BY <1>1, <1>2, <2>2, <2>3, <2>4, <2>5, Zenon DEF Holds, Stored, Header, TextCell
<1>11. ASSUME Intact PROVE Tracked(E)'
  <2>1. /\ from \in Nat /\ from >= 1 /\ upto \in Nat /\ from <= upto
        /\ c.first = E[from - 1]
    BY <1>1, <1>11, Kept
  <2>2. out' \in Seq(Shown') /\ Len(out') = 0 /\ seen' = {}
    BY <1>1, <1>5
  <2>3. from - 1 + 0 = from - 1 /\ 0 \in 0..(upto - from)
    BY <2>1
  <2>4. (from - 1)..(from - 2 + 0) = {} /\ 1..0 = {}
    BY <2>1
  <2>5. {E[n] : n \in (from - 1)..(from - 2 + 0)} = {}
    BY <2>4
  <2> QED
    BY <1>1, <2>1, <2>2, <2>3, <2>4, <2>5, Zenon DEF Tracked
<1>12. ReaderOK(E, G, N)'
  <2>1. pc' \notin {"first", "next", "buf", "done", "wild"}
    BY <1>1
  <2>2. ~ failed => from \in 1..firstSeq /\ c.first = E[from - 1] /\ c.len = size % LenMod
    BY <1>1, <1>4 DEF ReaderOK
  <2>3. ~ failed /\ ~ torn => upto \in from..(N + 1) /\ c.next = E[upto - 1]
    BY <1>1, <1>4 DEF ReaderOK
  <2> QED
    BY <1>1, <1>2, <1>8, <1>9, <1>10, <1>11, <2>1, <2>2, <2>3, Zenon DEF ReaderOK
<1> QED
  BY <1>7, <1>12 DEF RInv

-----------------------------------------------------------------------------
(***************************************************************************)
(* The walk.                                                               *)
(***************************************************************************)

\* Records in the ring end at different indices.
LEMMA Distinct ==
    ASSUME NEW N \in Nat, NEW E \in [Nat -> Nat], NEW G \in [Nat -> Nat], GInv(E, G, N),
           NEW a \in 0..N, NEW b \in 0..N, firstSeq - 1 <= a, a < b
    PROVE  E[a] # E[b]
<1> DEFINE F == firstSeq - 1
<1>1. GuestTypes(N) /\ Layout(E, G, N) /\ Ring(E, G, N)
  BY DEF GInv, GuestOK
<1>2. F \in 0..N /\ N \in 0..N /\ F <= a /\ b <= N
  BY Indices
<1>3. G[F] <= G[a] /\ (G[F] = G[a] => E[F] <= E[a])
  BY <1>1, <1>2, Order, Zenon
<1>4. G[b] <= G[N] /\ (G[b] = G[N] => E[b] <= E[N])
  BY <1>1, <1>2, Order, Zenon
<1>5. G[a] < G[b] \/ (G[a] = G[b] /\ E[a] < E[b])
  BY <1>1 DEF Layout
<1>6. G[N] = G[F] \/ (G[N] = G[F] + 1 /\ E[N] < E[F])
  BY <1>1 DEF Ring
<1>7. /\ G[F] \in Nat /\ G[a] \in Nat /\ G[b] \in Nat /\ G[N] \in Nat
      /\ E[F] \in Nat /\ E[a] \in Nat /\ E[b] \in Nat /\ E[N] \in Nat
  BY <1>2
<1> HIDE DEF F
<1> QED
  BY <1>3, <1>4, <1>5, <1>6, <1>7

\* The record the walk is at.
Current == from + Len(out)

\* The header and the text of this turn were copied.
Copied == idx < k /\ log_from_idx(idx) + logbuf[log_from_idx(idx)].text < k

\* Where the walk is as long as it has met only copied cells: behind the records printed
\* so far, at an index it has not been at.
LEMMA WalkAt ==
    ASSUME NEW N \in Nat, NEW E \in [Nat -> Nat], NEW G \in [Nat -> Nat],
           GInv(E, G, N), RInv(E, G, N), Intact, Sighted, pc = "walk"
    PROVE  /\ Len(out) \in Nat /\ Current \in from..upto
           /\ idx = E[Current - 1] /\ idx < c.len /\ idx \notin seen
           /\ idx = c.next => Len(out) = upto - from
<1>1. /\ from \in Nat /\ from >= 1 /\ upto \in Nat /\ from <= upto /\ upto <= N + 1
      /\ firstSeq <= from /\ c.next = E[upto - 1] /\ c.len = size
  BY Kept
<1>2. /\ Len(out) \in 0..(upto - from)
      /\ idx = E[from - 1 + Len(out)]
      /\ seen = {E[n] : n \in (from - 1)..(from - 2 + Len(out))}
  BY Zenon DEF RInv, ReaderOK, Tracked
<1>l. PICK l \in Nat : l = Len(out) /\ l <= upto - from
  <2>1. \A l \in 0..(upto - from) : l \in Nat /\ l <= upto - from
    BY <1>1
  <2> QED
    BY <1>2, <2>1, Zenon
<1>a. l <= upto - from
  BY <1>l
<1>b. Current = from + l
  BY <1>l DEF Current
<1>3. PICK m \in Nat : m = from - 1 + l /\ m >= from - 1 /\ m <= upto - 1
  <2>1. from - 1 + l \in Nat /\ from - 1 + l >= from - 1 /\ from - 1 + l <= upto - 1
    BY <1>1, <1>a
  <2> QED
    BY <2>1, Zenon
<1>4. Len(out) \in Nat /\ Current \in from..upto /\ Current - 1 = m
  <2>1. from + l \in from..upto /\ from + l - 1 = m
    BY <1>1, <1>a, <1>3
  <2>2. Current \in from..upto /\ Current - 1 = m
    BY <1>1, <1>b, <2>1
  <2>3. Len(out) \in Nat
    BY <1>l, Zenon
  <2> QED
    BY <2>2, <2>3, Zenon
<1>5. idx = E[m] /\ seen = {E[n] : n \in (from - 1)..(m - 1)}
  <2>1. from - 2 + l = m - 1
    BY <1>1, <1>3
  <2> QED
    BY <1>2, <1>l, <1>3, <2>1
<1>6. firstSeq \in Nat /\ firstSeq - 1 <= from - 1 /\ m \in 0..N /\ upto - 1 \in 0..N
  <2>1. firstSeq \in Nat
    BY Indices
  <2> QED
    BY <1>1, <1>3, <2>1
<1>7. idx < c.len
  <2>1. E[m] < size
    BY <1>6 DEF GInv, GuestOK, Layout
  <2> QED
    BY <1>1, <1>5, <2>1
<1>8. idx \notin seen
  <2>1. SUFFICES ASSUME NEW n \in (from - 1)..(m - 1) PROVE E[n] # E[m]
    BY <1>5
  <2>2. n \in 0..N /\ firstSeq - 1 <= n /\ n < m
    BY <1>1, <1>3, <1>6
  <2> QED
    BY <1>6, <2>2, Distinct, Zenon
<1>9. idx = c.next => Len(out) = upto - from
  <2>1. SUFFICES ASSUME E[m] = E[upto - 1] PROVE Len(out) = upto - from
    BY <1>1, <1>5
  <2>2. firstSeq - 1 <= m
    BY <1>1, <1>3, <1>6
  <2>3. ~ (m < upto - 1)
    BY <1>6, <2>1, <2>2, Distinct, Zenon
  <2>4. l = upto - from
    BY <1>1, <1>a, <1>3, <2>3
  <2> QED
    BY <1>l, <2>4
<1> QED
  BY <1>4, <1>5, <1>7, <1>8, <1>9

\* A turn over copied cells prints the next record and goes behind it.
LEMMA WalkTurn ==
    ASSUME NEW N \in Nat, NEW E \in [Nat -> Nat], NEW G \in [Nat -> Nat],
           GInv(E, G, N), RInv(E, G, N), Intact, Sighted, pc = "walk", idx # c.next,
           Whole \/ Copied, NEW n, n = Current
    PROVE  /\ n \in from..(upto - 1) /\ n \in 1..N /\ Inside
           /\ dump_log_entry(log_from_idx(idx)) = Text(n)
           /\ log_next(idx) = E[n]
<1>1. /\ from \in Nat /\ from >= 1 /\ upto \in Nat /\ from <= upto /\ upto <= N + 1
      /\ c.next = E[upto - 1] /\ c.len = size
  BY Kept
<1>2. n \in from..upto /\ idx = E[n - 1] /\ idx < c.len
  BY WalkAt, Zenon
<1>3. n \in from..(upto - 1) /\ n \in 1..N
  <2>1. n # upto
    BY <1>1, <1>2
  <2> QED
    BY <1>1, <1>2, <2>1
<1>4. Holds(E, G, logbuf, k, n) /\ k \in Nat
  BY <1>3 DEF RInv, ReaderOK, ReaderTypes
<1>5. PICK a \in Nat : a = At(E, G, n)
  BY <1>3, Extent DEF GInv, GuestOK
<1>6. PICK t \in Nat : t = texts[n]
  BY <1>3, Zenon DEF GInv, GuestTypes
<1>7. /\ E[n] = a + 1 + t /\ E[n] < size /\ E[n - 1] < size /\ size \in Nat
      /\ G[n] = G[n - 1] => a = E[n - 1]
      /\ G[n] # G[n - 1] => a = 0
  <2>1. size \in Nat
    BY Indices
  <2>2. /\ E[n] = At(E, G, n) + 1 + texts[n] /\ E[n] < size /\ E[n - 1] < size
        /\ G[n] = G[n - 1] => At(E, G, n) = E[n - 1]
        /\ G[n] # G[n - 1] => At(E, G, n) = 0
    BY <1>3, Extent, ZenonT(30) DEF GInv, GuestOK
  <2> QED
    BY <1>5, <1>6, <2>1, <2>2, Zenon
<1>8. E[n - 1] < k /\ a < k
  <2>1. E[n - 1] < k
    BY <1>1, <1>2, <1>4, <1>7 DEF Whole, Copied
  <2>2. E[n - 1] \in Nat
    BY <1>3
  <2> QED
    BY <1>4, <1>7, <2>1, <2>2
<1>9. logbuf[a] = Header(n, t) /\ (G[n] # G[n - 1] => logbuf[E[n - 1]].len = 0)
  BY <1>4, <1>5, <1>6, <1>8, Zenon DEF Holds, Stored
<1>10. logbuf[a].len = 1 + t /\ logbuf[a].text = t /\ logbuf[a].len # 0
  BY <1>9 DEF Header
<1>11. log_from_idx(idx) = a
  <2>1. CASE G[n] = G[n - 1]
    BY <1>2, <1>7, <1>10, <2>1 DEF log_from_idx
  <2>2. CASE G[n] # G[n - 1]
    BY <1>2, <1>7, <1>9, <2>2 DEF log_from_idx
  <2> QED
    BY <2>1, <2>2
<1>15. \A j \in 1..t : logbuf[a + j] = TextCell(n, j)
  <2>1. a + t < k
    BY <1>1, <1>4, <1>7, <1>10, <1>11 DEF Whole, Copied
  <2>2. \A j \in 1..t : a + j < k
    BY <1>4, <2>1
  <2> QED
    BY <1>4, <1>5, <1>6, <2>2, Zenon DEF Holds, Stored
<1>12. log_next(idx) = E[n]
  <2>1. CASE G[n] = G[n - 1]
    <3>1. log_next(idx) = a + (1 + t)
      BY <1>2, <1>7, <1>10, <2>1 DEF log_next
    <3> QED
      BY <1>7, <3>1
  <2>2. CASE G[n] # G[n - 1]
    <3>1. log_next(idx) = 1 + t /\ a = 0
      BY <1>2, <1>7, <1>9, <1>10, <2>2 DEF log_next
    <3> QED
      BY <1>7, <3>1
  <2> QED
    BY <2>1, <2>2
<1>13. Inside
  <2>1. a + t < c.len
    BY <1>1, <1>7
  <2> QED
    BY <1>2, <1>10, <1>11, <2>1 DEF Inside
<1>14. dump_log_entry(a) = Text(n)
  BY <1>6, <1>10, <1>15, Zenon DEF dump_log_entry, Text
<1> QED
  BY <1>3, <1>11, <1>12, <1>13, <1>14

\* What a turn over copied cells does to the walk.
LEMMA TurnIntact ==
    ASSUME NEW N \in Nat, NEW E \in [Nat -> Nat], NEW G \in [Nat -> Nat],
           GInv(E, G, N), RInv(E, G, N), Intact, Sighted, Copied, Turn
    PROVE  /\ out' \in Seq(Shown) /\ Len(out') \in 0..(upto - from)
           /\ idx' = E[from - 1 + Len(out')]
           /\ \A i \in 1..Len(out') : out'[i] = Text(from + i - 1)
           /\ seen' = {E[n] : n \in (from - 1)..(from - 2 + Len(out'))}
<1>1. pc = "walk" /\ idx # c.next
  BY DEF Turn, InLoop
<1>2. /\ out' = Append(out, dump_log_entry(log_from_idx(idx))) /\ idx' = log_next(idx)
      /\ seen' = seen \cup {idx}
  BY DEF Turn
<1>3. PICK n : n = Current
  OBVIOUS
<1>4. /\ n \in from..(upto - 1) /\ n \in 1..N /\ dump_log_entry(log_from_idx(idx)) = Text(n)
      /\ log_next(idx) = E[n]
  BY <1>1, <1>3, WalkTurn, Zenon
<1>5. /\ out \in Seq(Shown) /\ Len(out) \in Nat /\ idx = E[n - 1]
      /\ \A i \in 1..Len(out) : out[i] = Text(from + i - 1)
      /\ seen = {E[x] : x \in (from - 1)..(from - 2 + Len(out))}
  <2>1. Len(out) \in Nat /\ idx = E[n - 1]
    BY <1>1, <1>3, WalkAt, Zenon
  <2>2. /\ out \in Seq(Shown) /\ \A i \in 1..Len(out) : out[i] = Text(from + i - 1)
        /\ seen = {E[x] : x \in (from - 1)..(from - 2 + Len(out))}
    BY <1>1, Zenon DEF RInv, ReaderOK, Tracked
  <2> QED
    BY <2>1, <2>2, Zenon
<1>6. PICK l \in Nat : l = Len(out)
  BY <1>5, Zenon
<1>7. n = from + l
  BY <1>3, <1>6 DEF Current
<1>8. from \in Nat /\ upto \in Nat /\ n \in Nat /\ l + 1 <= upto - from /\ n >= from
  <2>1. from \in Nat /\ upto \in Nat
    BY DEF RInv, ReaderTypes
  <2>2. n \in Nat /\ n >= from /\ n <= upto - 1
    BY <1>4, <2>1
  <2> QED
    BY <1>7, <2>1, <2>2
<1>9. Text(n) \in Shown
  <2>1. texts[n] \in Nat
    BY <1>4, Zenon DEF GInv, GuestTypes
  <2>2. Text(n) \in [1..texts[n] -> [n : Nat, j : Nat, len : Nat, text : Nat]]
    BY <1>8, <2>1, LogBufAssumption DEF Text, TextCell
  <2> QED
    BY <2>1, <2>2, Zenon DEF Shown
<1>10. /\ out' \in Seq(Shown) /\ Len(out') = l + 1
       /\ \A i \in 1..l : out'[i] = out[i]
       /\ out'[l + 1] = Text(n)
  <2>1. PICK x \in Shown : x = Text(n)
    BY <1>9, Zenon
  <2>2. out' = Append(out, x)
    BY <1>2, <1>4, <2>1, Zenon
  <2>3. out \in Seq(Shown)
    BY <1>5, Zenon
  <2>4. Len(out) = l
    BY <1>6, Zenon
  <2>5. /\ Append(out, x) \in Seq(Shown) /\ Len(Append(out, x)) = Len(out) + 1
        /\ Append(out, x) \in [1..(Len(out) + 1) -> Shown]
        /\ \A i \in 1..Len(out) : Append(out, x)[i] = out[i]
        /\ Append(out, x)[Len(out) + 1] = x
    BY <2>3, Appended, Zenon
  <2> QED
    BY <2>1, <2>2, <2>4, <2>5, Zenon
<1>11. l + 1 \in 0..(upto - from) /\ from - 1 + (l + 1) = n /\ from - 2 + (l + 1) = n - 1
       /\ from - 2 + l = n - 2 /\ from + (l + 1) - 1 = n
  BY <1>7, <1>8
<1>12. idx' = E[from - 1 + Len(out')] /\ Len(out') \in 0..(upto - from)
  BY <1>2, <1>4, <1>10, <1>11, Zenon
<1>13. \A i \in 1..Len(out') : out'[i] = Text(from + i - 1)
  <2>1. \A i \in 1..(l + 1) : i \in 1..l \/ i = l + 1
    OBVIOUS
  <2>2. \A i \in 1..l : out[i] = Text(from + i - 1)
    BY <1>5, <1>6, Zenon
  <2> QED
    BY <1>10, <1>11, <2>1, <2>2, Zenon
<1>14. seen' = {E[x] : x \in (from - 1)..(n - 1)}
  <2>1. seen = {E[x] : x \in (from - 1)..(n - 2)}
    BY <1>5, <1>6, <1>11, Zenon
  <2>2. (from - 1)..(n - 1) = (from - 1)..(n - 2) \cup {n - 1}
    BY <1>8
  <2> QED
    BY <1>2, <1>5, <2>1, <2>2, ZenonT(30)
<1> QED
  BY <1>10, <1>11, <1>12, <1>13, <1>14, Zenon

\* A turn of the walk.
LEMMA TurnStep ==
    ASSUME NEW N \in Nat, NEW E \in [Nat -> Nat], NEW G \in [Nat -> Nat],
           GInv(E, G, N), RInv(E, G, N), Turn
    PROVE  RInv(E, G, N)'
<1>1. /\ pc = "walk" /\ UNCHANGED <<pc, c, logbuf, k>> /\ UNCHANGED <<from, upto, torn, failed>>
      /\ idx' = log_next(idx) /\ seen' = seen \cup {idx} /\ Inside
  BY DEF Turn, InLoop, history
<1>2. UNCHANGED <<size, firstSeq, texts>>
  BY DEF Turn, guest
<1>3. ReaderTypes /\ ReaderOK(E, G, N)
  BY DEF RInv
<1>4. /\ c.len \in Nat /\ logbuf \in [0..(c.len - 1) -> Cell] /\ idx \in Nat
      /\ seen \subseteq 0..(c.len - 1) /\ idx < c.len
  BY <1>1, <1>3, Zenon DEF ReaderTypes, Inside
<1>5. idx \in 0..(c.len - 1) /\ 0 \in 0..(c.len - 1)
  <2>1. c.len \in Nat /\ idx \in Nat /\ idx < c.len
    BY <1>4, Zenon
  <2> QED
    BY <2>1
<1>6. logbuf[idx].len \in Nat /\ logbuf[0].len \in Nat
  <2>1. logbuf[idx] \in Cell /\ logbuf[0] \in Cell
    BY <1>4, <1>5, Zenon
  <2> QED
    BY <2>1 DEF Cell
<1>7. idx' \in Nat
  <2>1. idx \in Nat
    BY <1>4
  <2>2. log_next(idx) \in Nat
    BY <1>6, <2>1 DEF log_next
  <2> QED
    BY <1>1, <2>2
<1>8. seen' \subseteq 0..(c.len - 1) /\ seen' # {}
  BY <1>1, <1>4, <1>5, Zenon
<1>9. Intact' <=> Intact
  BY <1>1, <1>2 DEF Intact
<1>10. ReaderTypes'
  <2>1. pc' \notin {"first", "next", "len", "buf"}
    BY <1>1
  <2> QED
    BY <1>1, <1>3, <1>7, <1>8, <2>1, Zenon DEF ReaderTypes, Cell
<1>11. /\ Sighted' <=> Sighted /\ Copied
       /\ Whole /\ Sighted => Sighted'
  <2>1. \A i : log_from_idx(i)' = log_from_idx(i)
    BY <1>1, Zenon DEF log_from_idx
  <2>2. Sighted' <=> Sighted /\ Copied
    BY <1>1, <2>1, Zenon DEF Sighted, Copied
  <2>3. Whole => Copied
    <3>1. k \in Nat /\ c.len \in Nat /\ idx \in Nat /\ idx < c.len
      BY <1>3, <1>4 DEF ReaderTypes
    <3>2. logbuf[log_from_idx(idx)] \in Cell /\ log_from_idx(idx) \in Nat
      BY <1>4, <1>5, Zenon DEF log_from_idx
    <3>3. logbuf[log_from_idx(idx)].text \in Nat
      BY <3>2 DEF Cell
    <3>4. log_from_idx(idx) + logbuf[log_from_idx(idx)].text < c.len
      BY <1>1 DEF Inside
    <3> QED
      BY <3>1, <3>2, <3>3, <3>4 DEF Whole, Copied
  <2> QED
    BY <2>2, <2>3, Zenon
<1>12. ASSUME Intact, Sighted' PROVE Tracked(E)'
  <2>1. \A n : Text(n)' = Text(n)
    BY <1>2 DEF Text, TextCell
  <2>2. Sighted /\ Copied
    BY <1>11, <1>12
  <2>3. /\ out' \in Seq(Shown) /\ Len(out') \in 0..(upto - from)
        /\ idx' = E[from - 1 + Len(out')]
        /\ \A i \in 1..Len(out') : out'[i] = Text(from + i - 1)
        /\ seen' = {E[n] : n \in (from - 1)..(from - 2 + Len(out'))}
    BY <1>12, <2>2, TurnIntact, Zenon
  <2>4. Shown' = Shown
    BY DEF Shown
  <2> QED
    BY <1>1, <2>1, <2>3, <2>4, Zenon DEF Tracked
<1>13. ReaderOK(E, G, N)'
  <2>1. pc' \notin {"first", "next", "buf", "done", "wild"}
    BY <1>1
  <2>2. ~ failed => from \in 1..firstSeq /\ c.first = E[from - 1] /\ c.len = size % LenMod
    BY <1>1, <1>3 DEF ReaderOK
  <2>3. ~ failed /\ ~ torn => upto \in from..(N + 1) /\ c.next = E[upto - 1]
    BY <1>1, <1>3 DEF ReaderOK
  <2>4. \A n : Holds(E, G, logbuf, k, n)' <=> Holds(E, G, logbuf, k, n)
    BY <1>1, <1>2, ZenonT(30) DEF Holds, Stored, Header, TextCell
  <2>5. Intact => \A n \in from..(upto - 1) : Holds(E, G, logbuf, k, n)
    BY <1>1, <1>3, Zenon DEF ReaderOK
  <2>6. Whole' => Sighted'
    <3>1. Whole' => Whole
      BY <1>1 DEF Whole
    <3>2. Whole => Sighted
      BY <1>1, <1>3 DEF ReaderOK
    <3> QED
      BY <1>11, <3>1, <3>2
  <2> QED
    BY <1>1, <1>2, <1>9, <1>12, <2>1, <2>2, <2>3, <2>4, <2>5, <2>6, Zenon DEF ReaderOK
<1> QED
  BY <1>10, <1>13 DEF RInv

\* The end of the walk changes nothing that was read or printed.
LEMMA WalkOver ==
    ASSUME NEW N \in Nat, NEW E \in [Nat -> Nat], NEW G \in [Nat -> Nat],
           RInv(E, G, N), pc = "walk", pc' \in {"done", "wild"},
           UNCHANGED <<c, logbuf, k, idx, seen, out>>, UNCHANGED <<from, upto, torn, failed>>,
           UNCHANGED <<size, firstSeq, texts>>,
           Intact /\ Whole => pc' = "done" /\ Len(out) = upto - from
    PROVE  RInv(E, G, N)'
<1>1. ReaderTypes /\ ReaderOK(E, G, N)
  BY DEF RInv
<1>2. ReaderTypes'
  <2>1. pc' \notin {"first", "next", "len", "buf", "walk"}
    OBVIOUS
  <2> QED
    BY <1>1, <2>1, Zenon DEF ReaderTypes, Cell
<1>3. (Intact' <=> Intact) /\ (Whole' <=> Whole)
  BY DEF Intact, Whole
<1>4. Sighted' <=> Sighted
  BY Zenon DEF Sighted, log_from_idx
<1>5. Tracked(E) => Tracked(E)'
  <2>1. \A n : Text(n)' = Text(n)
    BY DEF Text, TextCell
  <2> QED
    BY <2>1, Zenon DEF Tracked, Shown
<1>6. \A n : Holds(E, G, logbuf, k, n)' <=> Holds(E, G, logbuf, k, n)
  BY ZenonT(30) DEF Holds, Stored, Header, TextCell
<1>7. ReaderOK(E, G, N)'
  <2>1. pc' \notin {"first", "next", "buf", "walk"} /\ ~ (pc' = "done" /\ pc' = "wild")
    OBVIOUS
  <2>2. ~ failed => from \in 1..firstSeq /\ c.first = E[from - 1] /\ c.len = size % LenMod
    BY <1>1 DEF ReaderOK
  <2>3. ~ failed /\ ~ torn => upto \in from..(N + 1) /\ c.next = E[upto - 1]
    BY <1>1 DEF ReaderOK
  <2>4. /\ Intact => \A n \in from..(upto - 1) : Holds(E, G, logbuf, k, n)
        /\ Intact /\ Sighted => Tracked(E)
        /\ Whole => Sighted
    BY <1>1, Zenon DEF ReaderOK
  <2> QED
    BY <1>3, <1>4, <1>5, <1>6, <2>1, <2>2, <2>3, <2>4, Zenon DEF ReaderOK
<1> QED
  BY <1>2, <1>7 DEF RInv

\* The walk leaves the copy only if the copy is not intact or not whole.
LEMMA OverreadStep ==
    ASSUME NEW N \in Nat, NEW E \in [Nat -> Nat], NEW G \in [Nat -> Nat],
           GInv(E, G, N), RInv(E, G, N), Overread
    PROVE  RInv(E, G, N)'
<1>1. /\ pc = "walk" /\ idx # c.next /\ ~ Inside /\ pc' = "wild"
      /\ UNCHANGED <<c, logbuf, k, idx, seen, out>> /\ UNCHANGED <<from, upto, torn, failed>>
  BY DEF Overread, InLoop, history
<1>2. UNCHANGED <<size, firstSeq, texts>>
  BY DEF Overread, guest
<1>3. ~ (Intact /\ Whole)
  <2>1. Whole => Sighted
    BY <1>1 DEF RInv, ReaderOK
  <2>2. PICK n : n = Current
    OBVIOUS
  <2> QED
    BY <1>1, <2>1, <2>2, WalkTurn, Zenon
<1>4. pc' \in {"done", "wild"}
  BY <1>1
<1> QED
  BY <1>1, <1>2, <1>3, <1>4, WalkOver, Zenon

\* The walk over an intact and whole copy ends behind the last record.
LEMMA EndWalkStep ==
    ASSUME NEW N \in Nat, NEW E \in [Nat -> Nat], NEW G \in [Nat -> Nat],
           GInv(E, G, N), RInv(E, G, N), EndWalk
    PROVE  RInv(E, G, N)'
<1>1. /\ pc = "walk" /\ ~ InLoop /\ pc' = "done"
      /\ UNCHANGED <<c, logbuf, k, idx, seen, out>> /\ UNCHANGED <<from, upto, torn, failed>>
  BY DEF EndWalk, history
<1>2. UNCHANGED <<size, firstSeq, texts>>
  BY DEF EndWalk, guest
<1>3. idx = c.next \/ (seen # {} /\ ~ (idx < c.len))
  BY <1>1 DEF InLoop
<1>4. Intact /\ Whole => Len(out) = upto - from
  <2>1. Whole => Sighted
    BY <1>1 DEF RInv, ReaderOK
  <2>2. Intact /\ Sighted => idx < c.len /\ (idx = c.next => Len(out) = upto - from)
    BY <1>1, WalkAt, Zenon
  <2> QED
    BY <1>3, <2>1, <2>2, Zenon
<1>5. pc' \in {"done", "wild"}
  BY <1>1
<1> QED
  BY <1>1, <1>2, <1>4, <1>5, WalkOver, Zenon

\* Nothing happens.
LEMMA LogStutter ==
    ASSUME NEW N \in Nat, NEW E \in [Nat -> Nat], NEW G \in [Nat -> Nat],
           GInv(E, G, N), RInv(E, G, N), UNCHANGED vars
    PROVE  GInv(E, G, N)' /\ RInv(E, G, N)'
<1>1. UNCHANGED guest /\ UNCHANGED reader /\ UNCHANGED history
  BY DEF vars
<1>2. GInv(E, G, N)'
  BY <1>1, GuestRests
<1>3. UNCHANGED <<size, firstSeq, texts>>
  BY <1>1 DEF guest
<1>4. UNCHANGED <<pc, c, logbuf, k, idx, seen, out>>
  BY <1>1 DEF reader
<1>5. UNCHANGED <<from, upto, torn, failed>>
  BY <1>1 DEF history
<1>6. ReaderTypes /\ ReaderOK(E, G, N)
  BY DEF RInv
<1>7. (Intact' <=> Intact) /\ (Whole' <=> Whole)
  BY <1>3, <1>4, <1>5 DEF Intact, Whole
<1>8. ReaderTypes'
  BY <1>4, <1>5, <1>6, Zenon DEF ReaderTypes, Cell
<1>9. Sighted' <=> Sighted
  BY <1>4, Zenon DEF Sighted, log_from_idx
<1>10. ReaderOK(E, G, N)'
  <2>1. \A n : Text(n)' = Text(n)
    BY <1>3 DEF Text, TextCell
  <2>2. Tracked(E) => Tracked(E)'
    BY <1>4, <1>5, <2>1, Zenon DEF Tracked, Shown
  <2>3. \A n : Holds(E, G, logbuf, k, n)' <=> Holds(E, G, logbuf, k, n)
    BY <1>3, <1>4, ZenonT(30) DEF Holds, Stored, Header, TextCell
  <2> QED
    BY <1>3, <1>4, <1>5, <1>6, <1>7, <1>9, <2>2, <2>3, Zenon DEF ReaderOK
<1> QED
  BY <1>2, <1>8, <1>10 DEF RInv

-----------------------------------------------------------------------------
(***************************************************************************)
(* The theorems.                                                           *)
(***************************************************************************)

\* A step of the guest keeps the invariant: the positions stay, and a record that is
\* entered gets one.
LEMMA GuestStep ==
    ASSUME NEW N \in Nat, NEW E \in [Nat -> Nat], NEW G \in [Nat -> Nat],
           GInv(E, G, N), RInv(E, G, N), Guest, pc \notin {"walk", "done", "wild"}
    PROVE  \E M \in Nat : \E E2, G2 \in [Nat -> Nat] : GInv(E2, G2, M)' /\ RInv(E2, G2, M)'
<1>1. firstSeq \in 1..(N + 1) /\ texts \in Seq(Nat)
  BY DEF GInv, GuestTypes
<1>2. CASE Insert
  <2>1. UNCHANGED <<size, firstSeq>> /\ UNCHANGED <<reader, history>>
    BY <1>2 DEF Insert
  <2>2. N + 1 \in Nat /\ N <= N + 1 /\ firstSeq' \in Nat /\ firstSeq <= firstSeq'
    BY <1>1, <2>1
  <2>3. PICK E2 \in [Nat -> Nat], G2 \in [Nat -> Nat] :
           /\ \A n \in 0..N : E2[n] = E[n] /\ G2[n] = G[n]
           /\ \A n \in 1..N : texts'[n] = texts[n]
           /\ GInv(E2, G2, N + 1)'
    BY <1>2, InsertStep, ZenonT(30)
  <2>4. RInv(E2, G2, N + 1)'
    BY <1>1, <2>1, <2>2, <2>3, ReaderRests, Zenon
  <2> QED
    BY <2>2, <2>3, <2>4, Zenon
<1>3. CASE Log \/ DropOldest \/ Place \/ Fill \/ SetLen
  <2>1. UNCHANGED <<size, texts>> /\ UNCHANGED <<reader, history>>
    BY <1>3, ZenonT(30) DEF Log, DropOldest, Place, Fill, SetLen
  <2>2. firstSeq' = firstSeq \/ firstSeq' = firstSeq + 1
    BY <1>3, Zenon DEF Log, DropOldest, Place, Fill, SetLen
  <2>3. firstSeq' \in Nat /\ firstSeq <= firstSeq' /\ N <= N
    <3>1. firstSeq \in Nat
      BY <1>1
    <3> QED
      BY <2>2, <3>1
  <2>4. GInv(E, G, N)'
    BY <1>3, LogStep, DropStep, PlaceStep, FillStep, SetLenStep, Zenon
  <2>5. \A n \in 1..N : texts'[n] = texts[n]
    BY <2>1
  <2>6. \A n \in 0..N : E[n] = E[n] /\ G[n] = G[n]
    OBVIOUS
  <2>7. RInv(E, G, N)'
    BY <1>1, <2>1, <2>3, <2>5, <2>6, ReaderRests, Zenon
  <2> QED
    BY <2>4, <2>7, Zenon
<1> QED
  BY <1>2, <1>3, Zenon DEF Guest

\* The invariant is inductive.
LEMMA LogNext ==
    ASSUME LogInv, [Next]_vars
    PROVE  LogInv'
<1>1. PICK E \in [Nat -> Nat] : \E G \in [Nat -> Nat] :
               GInv(E, G, Len(texts)) /\ RInv(E, G, Len(texts))
  BY Zenon DEF LogInv
<1>2. PICK G \in [Nat -> Nat] : GInv(E, G, Len(texts)) /\ RInv(E, G, Len(texts))
  BY <1>1, Zenon
<1>3. PICK N \in Nat : N = Len(texts)
  BY <1>2, Zenon DEF GInv, GuestTypes
<1>4. GInv(E, G, N) /\ RInv(E, G, N)
  BY <1>2, <1>3, Zenon
<1>5. \E M \in Nat : \E E2, G2 \in [Nat -> Nat] : GInv(E2, G2, M)' /\ RInv(E2, G2, M)'
  <2>1. CASE Guest /\ pc \notin {"walk", "done", "wild"}
    BY <1>4, <2>1, GuestStep, Zenon
  <2>2. ASSUME UNCHANGED guest, RInv(E, G, N)'
        PROVE  \E M \in Nat : \E E2, G2 \in [Nat -> Nat] : GInv(E2, G2, M)' /\ RInv(E2, G2, M)'
    BY <1>4, <2>2, GuestRests, Zenon
  <2>3. CASE ReadFirst
    BY <1>4, <2>2, <2>3, ReadFirstStep, Zenon DEF ReadFirst
  <2>4. CASE ReadNext
    BY <1>4, <2>2, <2>4, ReadNextStep, Zenon DEF ReadNext
  <2>5. CASE ReadLen
    BY <1>4, <2>2, <2>5, ReadLenStep, Zenon DEF ReadLen
  <2>6. CASE ReadSymbolFails
    BY <1>4, <2>2, <2>6, ReadSymbolFailsStep, Zenon DEF ReadSymbolFails
  <2>7. CASE ReadBuf
    BY <1>4, <2>2, <2>7, ReadBufStep, Zenon DEF ReadBuf
  <2>8. CASE StartWalk
    BY <1>4, <2>2, <2>8, StartWalkStep, Zenon DEF StartWalk
  <2>9. CASE Turn
    BY <1>4, <2>2, <2>9, TurnStep, Zenon DEF Turn
  <2>10. CASE EndWalk
    BY <1>4, <2>2, <2>10, EndWalkStep, Zenon DEF EndWalk
  <2>11. CASE Overread
    BY <1>4, <2>2, <2>11, OverreadStep, Zenon DEF Overread
  <2>12. CASE UNCHANGED vars
    BY <1>4, <2>12, LogStutter, Zenon
  <2> QED
    BY <2>1, <2>3, <2>4, <2>5, <2>6, <2>7, <2>8, <2>9, <2>10, <2>11, <2>12, Zenon
       DEF Next, Reader, Walk, Spin, Over
<1>6. \A M, E2, G2 : GInv(E2, G2, M)' => M = Len(texts')
  BY DEF GInv, GuestTypes
<1> QED
  BY <1>5, <1>6, Zenon DEF LogInv

\* The records always have positions for which the invariant is true.
LEMMA LogInvariant == Spec => []LogInv
<1>1. Init => LogInv
  BY LogInit
<1>2. LogInv /\ [Next]_vars => LogInv'
  BY LogNext
<1> QED
  BY <1>1, <1>2, PTL DEF Spec

\* The positions of a state of the invariant.
LEMMA Positions ==
    ASSUME LogInv
    PROVE  \E N \in Nat : \E E, G \in [Nat -> Nat] :
              N = Len(texts) /\ GInv(E, G, N) /\ RInv(E, G, N)
<1>1. PICK E \in [Nat -> Nat], G \in [Nat -> Nat] :
              GInv(E, G, Len(texts)) /\ RInv(E, G, Len(texts))
  BY Zenon DEF LogInv
<1>2. Len(texts) \in Nat
  BY <1>1 DEF GInv, GuestTypes
<1> QED
  BY <1>1, <1>2, Zenon

\* Every variable of dump_variable_length_record_log and of the guest's ring has its type
\* in every reachable state; in particular the copy is as long as the masked log_buf_len.
THEOREM LogTypeCorrect == Spec => []TypeOK
<1>1. LogInv => TypeOK
  <2> SUFFICES ASSUME LogInv PROVE TypeOK
    OBVIOUS
  <2>1. PICK N \in Nat : \E E, G \in [Nat -> Nat] :
              N = Len(texts) /\ GInv(E, G, N) /\ RInv(E, G, N)
    BY Positions, Zenon
  <2>2. PICK E \in [Nat -> Nat], G \in [Nat -> Nat] :
              N = Len(texts) /\ GInv(E, G, N) /\ RInv(E, G, N)
    BY <2>1, Zenon
  <2>3. first \in 0..(size - 1) /\ next \in 0..(size - 1)
    <3>1. size \in Nat /\ first \in Nat /\ first < size /\ next \in Nat /\ next < size
      BY <2>2, Indices, Zenon
    <3> QED
      BY <3>1
  <2>4. buf \in [0..(size - 1) -> Cell] /\ firstSeq \in 1..(Len(texts) + 1)
    BY <2>2, Zenon DEF GInv, GuestTypes
  <2>5. ReaderTypes
    BY <2>2 DEF RInv
  <2> QED
    BY <2>3, <2>4, <2>5, Zenon DEF TypeOK, ReaderTypes, nextSeq
<1> QED
  BY <1>1, LogInvariant, PTL

\* As long as the walk of dump_variable_length_record_log has met only units that were
\* copied, it has printed the oldest records, each once, in order and with its own text,
\* however early readmem failed and whatever malloc returned, for every size of the ring
\* and of the texts.
THEOREM PrintsSightedRecords == Spec => []SightedIsExact
<1>1. LogInv => SightedIsExact
  <2> SUFFICES ASSUME LogInv, pc \in {"walk", "done", "wild"}, Intact, Sighted
               PROVE  /\ Len(out) <= upto - from
                      /\ out = [i \in 1..Len(out) |-> Text(from + i - 1)]
    BY DEF SightedIsExact
  <2>1. PICK N \in Nat : \E E, G \in [Nat -> Nat] :
              N = Len(texts) /\ GInv(E, G, N) /\ RInv(E, G, N)
    BY Positions, Zenon
  <2>2. PICK E \in [Nat -> Nat], G \in [Nat -> Nat] : GInv(E, G, N) /\ RInv(E, G, N)
    BY <2>1, Zenon
  <2>3. Tracked(E) /\ from \in Nat /\ upto \in Nat
    BY <2>2 DEF RInv, ReaderOK, ReaderTypes
  <2>4. /\ out \in Seq(Shown) /\ Len(out) \in 0..(upto - from)
        /\ \A i \in 1..Len(out) : out[i] = Text(from + i - 1)
    BY <2>3 DEF Tracked
  <2>5. Len(out) <= upto - from
    BY <2>3, <2>4
  <2>6. out = [i \in 1..Len(out) |-> out[i]]
    BY <2>4
  <2> QED
    BY <2>4, <2>5, <2>6, Zenon
<1> QED
  BY <1>1, LogInvariant, PTL

\* The dump of an intact copy prints exactly the records from log_first_idx to
\* log_next_idx, each once, in order and with its own text, whatever the guest logs and
\* recycles between the reads, for every size of the ring and of the texts.
THEOREM PrintsExactRecords == Spec => []ExactRecords
<1>1. LogInv /\ SightedIsExact => ExactRecords
  <2> SUFFICES ASSUME LogInv, SightedIsExact, pc = "done", Intact, Whole
               PROVE  out = [i \in 1..(upto - from) |-> Text(from + i - 1)]
    BY DEF ExactRecords
  <2>1. PICK N \in Nat : \E E, G \in [Nat -> Nat] :
              N = Len(texts) /\ GInv(E, G, N) /\ RInv(E, G, N)
    BY Positions, Zenon
  <2>2. PICK E \in [Nat -> Nat], G \in [Nat -> Nat] : GInv(E, G, N) /\ RInv(E, G, N)
    BY <2>1, Zenon
  <2>3. Sighted /\ Len(out) = upto - from
    BY <2>2 DEF RInv, ReaderOK
  <2>4. out = [i \in 1..Len(out) |-> Text(from + i - 1)]
    BY <2>3 DEF SightedIsExact
  <2> QED
    BY <2>3, <2>4, Zenon
<1> QED
  BY <1>1, LogInvariant, PrintsSightedRecords, PTL

\* The walk over an intact and whole copy never follows a len field out of the copy, and is
\* never at an index for the second time: what WalkEnds needs besides the fairness of the
\* loop.
OnTrack == Intact /\ Whole => pc # "wild" /\ (pc = "walk" => idx \notin seen)

\* dump_variable_length_record_log never loses its way in an intact and whole copy: no
\* index is visited twice and no header or text is looked for outside.
THEOREM WalkStaysOnTrack == Spec => []OnTrack
<1>1. LogInv => OnTrack
  <2> SUFFICES ASSUME LogInv, Intact, Whole
               PROVE  pc # "wild" /\ (pc = "walk" => idx \notin seen)
    BY DEF OnTrack
  <2>1. PICK N \in Nat : \E E, G \in [Nat -> Nat] :
              N = Len(texts) /\ GInv(E, G, N) /\ RInv(E, G, N)
    BY Positions, Zenon
  <2>2. PICK E \in [Nat -> Nat], G \in [Nat -> Nat] : GInv(E, G, N) /\ RInv(E, G, N)
    BY <2>1, Zenon
  <2>3. pc # "wild" /\ (pc = "walk" => Sighted)
    BY <2>2 DEF RInv, ReaderOK
  <2>4. pc = "walk" => idx \notin seen
    BY <2>2, <2>3, WalkAt, Zenon
  <2> QED
    BY <2>3, <2>4
<1> QED
  BY <1>1, LogInvariant, PTL

==============================================================================

------------------------- MODULE BackendReadProofs -------------------------
(***************************************************************************)
(* Proofs about BackendRead, for any sizes of memory, reads, steps, words, *)
(* lines and blocks, and any number of writes by the guest.                *)
(***************************************************************************)
EXTENDS BackendRead, TLAPS

\* A step that names no prover is tried with these two, in this order.
USE SMTT(30), ZenonT(30)

\* Each back end has its own places.
Places ==
    IF back = "file" THEN pc \in {"idle", "fseek", "fread"}
                     ELSE pc \in {"idle", "part", "ask", "answered"}

\* The parts cut the read at whole steps; a command asks for no more than the words
\* of its part, and inside the memory it is answered in full.
Parts ==
    /\ pc = "part" => k = 0 /\ (done = size \/ done % Step = 0)
    /\ pc \in {"ask", "answered"} =>
          /\ part \in 1..Step /\ done + part <= size /\ done % Step = 0
          /\ part = Step \/ done + part = size
          /\ k <= Asked
    /\ pc = "ask" => k < Asked
    /\ pc = "answered" /\ InMemory => k = Asked

\* What was answered is what the cells held at some moment of the call.
Answers ==
    back # "file" =>
        /\ ans \in [0..k - 1 -> Nat]
        /\ \A j \in 0..k - 1 : /\ addr + done + j \in Cells
                               /\ old[addr + done + j] <= ans[j]
                               /\ ans[j] <= mem[addr + done + j]

\* Cells are stored from the front, without a gap if the read lies in the memory.
Stored ==
    IF back = "file"
    THEN /\ k <= size /\ (k > 0 => addr + k <= MemSize)
         /\ \A i \in 0..k - 1 : buf[i] # Junk
         /\ \A i \in k..MaxSize + Word : buf[i] = Junk
         /\ pc = "idle" /\ ret = 0 => k = size \/ addr >= MemSize
    ELSE /\ \A i \in done..MaxSize + Word : buf[i] = Junk
         /\ InMemory => \A i \in 0..done - 1 : buf[i] # Junk
         /\ pc = "idle" /\ ret = 0 => done = size

\* A block in the stdio buffer is as old as the call that read it.
Cached ==
    /\ cache.blk \in Int /\ DOMAIN cache.val \subseteq Cells
    /\ cache.blk # -1 => DOMAIN cache.val = {c \in Cells : c \div Block = cache.blk}
    /\ \A a \in DOMAIN cache.val :
          /\ cache.val[a] \in Nat /\ cache.val[a] <= mem[a]
          /\ cache.blk # oldblk => old[a] <= cache.val[a]

Fresh ==
    /\ old \in [Cells -> Nat] /\ \A a \in Cells : old[a] <= mem[a]
    /\ \A i \in 0..size - 1 : buf[i] # Junk =>
          /\ addr + i \in Cells /\ buf[i] <= mem[addr + i]
          /\ buf[i] < old[addr + i] => (addr + i) \div Block = oldblk

IInv == TypeOK /\ Places /\ Parts /\ Answers /\ Stored /\ Cached /\ Fresh

-----------------------------------------------------------------------------
(***************************************************************************)
(* Arithmetic.                                                             *)
(***************************************************************************)

LEMMA DivMod ==
  ASSUME NEW x \in Nat, NEW n \in Nat \ {0}
  PROVE  /\ x \div n \in Nat /\ x % n \in 0..(n - 1)
         /\ x = (x \div n) * n + (x % n)
  OBVIOUS

LEMMA Multiple ==
  ASSUME NEW x \in Nat, NEW n \in Nat \ {0}, x % n = 0
  PROVE  \E q \in Nat : x = q * n
<1>1. PICK q \in Nat : q = x \div n  BY DivMod
<1>2. x = q * n  BY <1>1, DivMod
<1> QED  BY <1>2

LEMMA MultipleMod == \A q \in Nat, n \in Nat \ {0} : (q * n) % n = 0
  OBVIOUS

\* Rounding up keeps what was asked for, and does not cross a multiple.
LEMMA Roundup ==
  ASSUME NEW n \in Nat, NEW m \in Nat \ {0}
  PROVE  /\ roundup(n, m) \in Nat /\ n <= roundup(n, m)
         /\ \A c \in Nat : n <= c * m => roundup(n, m) <= c * m
<1>1. PICK x \in Nat : x = n + m - 1  OBVIOUS
<1>2. PICK q \in Nat : q = x \div m  BY DivMod
<1>3. PICK r \in 0..(m - 1) : r = x % m  BY DivMod
<1>4. x = q * m + r  BY <1>2, <1>3, DivMod
<1>5. roundup(n, m) = q * m  BY <1>1, <1>2 DEF roundup
<1>6. q * m \in Nat  OBVIOUS
<1>7. n <= q * m  BY <1>1, <1>4, <1>6
<1>8. ASSUME NEW c \in Nat, n <= c * m PROVE q * m <= c * m
  <2> SUFFICES ASSUME q >= c + 1 PROVE FALSE
    <3>1. CASE q <= c  BY <3>1
    <3> QED  BY <3>1
  <2>1. q * m >= (c + 1) * m  OBVIOUS
  <2>2. (c + 1) * m = c * m + m  OBVIOUS
  <2>3. c * m \in Nat  OBVIOUS
  <2> QED  BY <1>1, <1>4, <1>6, <1>8, <2>1, <2>2, <2>3
<1> QED  BY <1>5, <1>6, <1>7, <1>8

\* A step more does not cross the end of the whole steps.
LEMMA StepFits ==
  ASSUME NEW n \in Nat, NEW t \in Nat \ {0}, NEW d \in Nat, d % t = 0, d < (n \div t) * t
  PROVE  d + t <= n /\ (d + t) % t = 0
<1>1. PICK e \in Nat : e = n \div t  BY DivMod
<1>2. n >= e * t  BY <1>1, DivMod
<1>3. PICK q \in Nat : d = q * t  BY Multiple
<1>4. q < e
  <2> SUFFICES ASSUME q >= e PROVE FALSE  OBVIOUS
  <2>1. q * t >= e * t  OBVIOUS
  <2>2. q * t \in Nat /\ e * t \in Nat  OBVIOUS
  <2> QED  BY <1>1, <1>3, <2>1, <2>2
<1>5. (q + 1) * t = q * t + t  OBVIOUS
<1>6. (q + 1) * t <= e * t  BY <1>4
<1>7. ((q + 1) * t) % t = 0  BY MultipleMod
<1>8. e * t \in Nat /\ q * t \in Nat  OBVIOUS
<1> QED  BY <1>2, <1>3, <1>5, <1>6, <1>7, <1>8

\* The words of a part inside the memory are inside the memory.
LEMMA WordsFit ==
  ASSUME NEW a \in Nat, NEW d \in Nat, NEW p \in Nat, a % Word = 0, d % Step = 0,
         a + d + p <= MemSize
  PROVE  a + d + roundup(p, Word) <= MemSize
<1>1. PICK w, t \in Nat \ {0} : w = Word /\ t = Step  BY ReadAssumption
<1>2. PICK x, y, u, z \in Nat : a = x * w /\ d = y * t /\ t = u * w /\ MemSize = z * w
  <2>1. a % w = 0 /\ d % t = 0 /\ t % w = 0 /\ MemSize % w = 0 /\ MemSize \in Nat
    BY <1>1, ReadAssumption
  <2>2. \E x \in Nat : a = x * w  BY <2>1, Multiple, Zenon
  <2>3. \E y \in Nat : d = y * t  BY <2>1, Multiple, Zenon
  <2>4. \E u \in Nat : t = u * w  BY <2>1, Multiple, Zenon
  <2>5. \E z \in Nat : MemSize = z * w  BY <2>1, Multiple, Zenon
  <2> QED  BY <2>2, <2>3, <2>4, <2>5, Zenon
<1>3. PICK v \in Nat : v = y * u  OBVIOUS
<1>4. d = v * w  BY <1>2, <1>3
<1>5. (x + v) * w = a + d  BY <1>2, <1>4
<1>6. PICK c \in Int : c = z - (x + v)  OBVIOUS
<1>7. c * w = MemSize - (a + d)
  <2>1. c * w = z * w - (x + v) * w  BY <1>6
  <2> QED  BY <1>2, <1>5, <2>1
<1>8. c >= 0
  <2> SUFFICES ASSUME c <= -1 PROVE FALSE  OBVIOUS
  <2>1. c * w <= (-1) * w  OBVIOUS
  <2>2. MemSize \in Nat  BY ReadAssumption
  <2> QED  BY <1>7, <2>1, <2>2
<1>9. p <= c * w  BY <1>7, ReadAssumption
<1>10. roundup(p, w) <= c * w /\ roundup(p, w) \in Nat
  <2>1. c \in Nat  BY <1>8
  <2> QED  BY <1>9, <2>1, Roundup, Zenon
<1>11. MemSize \in Nat  BY ReadAssumption
<1> QED  BY <1>1, <1>7, <1>10, <1>11

-----------------------------------------------------------------------------
(***************************************************************************)
(* The steps.                                                              *)
(***************************************************************************)

LEMMA Constants ==
  /\ MemSize \in Nat /\ MaxSize \in Nat /\ MaxWrites \in Nat
  /\ Word \in Nat \ {0} /\ Step \in Nat \ {0} /\ Block \in Nat \ {0}
  /\ \A a \in Starts \cup {0} : a \in Nat /\ a % Word = 0
  /\ \A l \in {"qmp", "libvirt"} : Line[l] \in Nat \ {0}
  BY ReadAssumption

LEMMA Initially == Init => IInv
<1> SUFFICES ASSUME Init PROVE IInv  OBVIOUS
<1> USE DEF Init, Junk
<1>1. TypeOK  BY Constants DEF TypeOK, Cells
<1>2. Places /\ Parts  BY DEF Places, Parts
<1>3. Answers /\ Stored  BY Constants DEF Answers, Stored
<1>4. Cached  BY DEF Cached, NoBlock
<1>5. Fresh  BY Constants DEF Fresh, Cells
<1> QED  BY <1>1, <1>2, <1>3, <1>4, <1>5 DEF IInv

LEMMA InBuffer == TypeOK => \A i \in 0..size - 1 : i \in 0..MaxSize + Word
<1>1. MaxSize \in Nat /\ Word \in Nat  BY Constants
<1> QED  BY <1>1 DEF TypeOK

LEMMA GuestStep == ASSUME IInv, GuestWrites PROVE IInv'
<1> USE DEF IInv
<1>1. PICK c \in Cells : mem' = [mem EXCEPT ![c] = @ + 1]  BY Zenon DEF GuestWrites
<1>2. mem \in [Cells -> Nat]  BY DEF TypeOK
<1>3. mem' \in [Cells -> Nat] /\ \A a \in Cells : mem[a] <= mem'[a]  BY <1>1, <1>2
<1>4. writes' \in 0..MaxWrites
  <2>1. MaxWrites \in Nat /\ writes \in 0..MaxWrites  BY Constants DEF TypeOK
  <2>2. writes < MaxWrites /\ writes' = writes + 1  BY DEF GuestWrites
  <2> QED  BY <2>1, <2>2
<1> USE DEF GuestWrites
<1>5. TypeOK'  BY <1>3, <1>4 DEF TypeOK
<1>6. Places' /\ Parts' /\ Stored'  BY DEF Places, Parts, Stored, Asked, InMemory
<1>7. Fresh'
  <2>1. \A a \in Cells : old[a] <= mem'[a]  BY <1>2, <1>3 DEF Fresh
  <2>2. ASSUME NEW i \in 0..size - 1, buf[i] # Junk PROVE buf[i] <= mem'[addr + i]
    <3>1. addr + i \in Cells /\ buf[i] <= mem[addr + i]  BY <2>2 DEF Fresh
    <3>2. buf[i] \in Nat  BY <2>2, InBuffer DEF TypeOK
    <3> QED  BY <1>2, <1>3, <3>1, <3>2
  <2> QED  BY <2>1, <2>2 DEF Fresh
<1>8. Cached'
  <2>1. ASSUME NEW a \in DOMAIN cache.val PROVE cache.val[a] <= mem'[a]
    <3>1. a \in Cells /\ cache.val[a] \in Nat /\ cache.val[a] <= mem[a]  BY DEF Cached
    <3> QED  BY <1>2, <1>3, <3>1
  <2> QED  BY <2>1 DEF Cached
<1>9. Answers'
  <2> SUFFICES ASSUME back # "file", NEW j \in 0..k - 1 PROVE ans[j] <= mem'[addr + done + j]
    BY DEF Answers
  <2>1. addr + done + j \in Cells /\ ans[j] <= mem[addr + done + j] /\ ans[j] \in Nat
    BY DEF Answers
  <2> QED  BY <1>2, <1>3, <2>1
<1> QED  BY <1>5, <1>6, <1>7, <1>8, <1>9

\* A read fits into the buffer the model gives every call.
LEMMA BufferHolds ==
  ASSUME NEW z \in Nat, z <= MaxSize
  PROVE  \A i \in 0..z - 1 : i \in 0..MaxSize + Word
BY ReadAssumption

LEMMA BeginStep == ASSUME IInv, readmem PROVE IInv'
<1> USE DEF IInv, readmem
<1>1. \A i \in 0..MaxSize + Word : buf'[i] = Junk  BY DEF TypeOK
<1>2. TypeOK'
  <2>1. buf' \in [0..MaxSize + Word -> Nat \cup {Junk}]  BY DEF TypeOK
  <2>2. MaxSize \in Nat /\ Step \in Nat  BY Constants
  <2>3. ret' \in -1..MaxSize /\ done' \in 0..size' /\ part' \in 0..Step /\ k' \in Nat  BY <2>2
  <2>4. pc' \in {"idle", "part", "ask", "answered", "fseek", "fread"}  OBVIOUS
  <2>5. ans' \in [DOMAIN ans' -> Nat]  OBVIOUS
  <2> QED  BY <2>1, <2>3, <2>4, <2>5 DEF TypeOK
<1>3. Places'  BY DEF Places, TypeOK
<1>4. Parts'  BY Constants DEF Parts
<1>5. Answers'  BY DEF Answers
<1>6. Stored'  BY <1>1, <1>2 DEF Stored, TypeOK
<1>7. Cached'  BY DEF Cached
<1>8. Fresh'
  <2>1. PICK z \in Nat : z = size' /\ z <= MaxSize  BY Constants
  <2>2. \A i \in 0..z - 1 : i \in 0..MaxSize + Word  BY <2>1, BufferHolds, Zenon
  <2> QED  BY <1>1, <2>1, <2>2 DEF Fresh, TypeOK
<1> QED  BY <1>2, <1>3, <1>4, <1>5, <1>6, <1>7, <1>8

\* A call that returns leaves everything but ret as it is.
LEMMA ReturnStep ==
  ASSUME IInv, NEW r \in -1..MaxSize, Return(r), cache' = cache,
         r = 0 => IF back = "file" THEN k = size \/ addr >= MemSize ELSE done = size
  PROVE  IInv'
<1> USE DEF IInv, Return
<1>1. TypeOK' /\ Places' /\ Parts'  BY DEF TypeOK, Places, Parts
<1>2. Answers' /\ Cached' /\ Fresh'  BY DEF Answers, Cached, Fresh
<1>3. Stored'  BY DEF Stored, InMemory
<1> QED  BY <1>1, <1>2, <1>3

LEMMA NextPartStep == ASSUME IInv, NextPart PROVE IInv'
<1> USE DEF IInv
<1>1. /\ pc = "part" /\ pc' = "ask" /\ k' = 0 /\ ans' = <<>> /\ k = 0
      /\ UNCHANGED <<mem, writes, back, ret, addr, size, done, buf, cache, old, oldblk>>
  BY DEF NextPart, Parts
<1>2. size \in Nat /\ done \in Nat /\ done <= size /\ Step \in Nat \ {0}  BY Constants DEF TypeOK
<1>3. /\ part' \in 1..Step /\ done + part' <= size /\ done % Step = 0
      /\ part' = Step \/ done + part' = size
  <2>1. PICK e \in Nat, r \in 0..(Step - 1) :
          e = size \div Step /\ r = size % Step /\ size = e * Step + r
    BY <1>2, DivMod, Zenon
  <2>2. e * Step \in Nat  BY <1>2
  <2>3. CASE done < e * Step /\ part' = Step
    <3>1. done % Step = 0  BY <1>1, <1>2, <2>1, <2>2, <2>3 DEF Parts
    <3>2. done + Step <= size  BY <1>2, <2>1, <2>3, <3>1, StepFits, Zenon
    <3> QED  BY <1>2, <2>3, <3>1, <3>2
  <2>4. CASE done = e * Step /\ r > 0 /\ part' = r
    <3>1. done % Step = 0  BY <1>2, <2>4, MultipleMod
    <3> QED  BY <1>2, <2>1, <2>2, <2>4, <3>1
  <2> QED  BY <2>1, <2>3, <2>4 DEF NextPart
<1>4. Asked' \in Nat /\ Asked' > 0
  <2>1. part' \in Nat /\ part' > 0  BY <1>2, <1>3
  <2>2. roundup(part', Word) \in Nat /\ roundup(part', Word) >= part'  BY <2>1, Constants, Roundup
  <2> QED  BY <2>1, <2>2 DEF Asked
<1>5. TypeOK'
  <2>1. part' \in 0..Step  BY <1>2, <1>3
  <2>2. ans' \in [DOMAIN ans' -> Nat]  BY <1>1
  <2> QED  BY <1>1, <2>1, <2>2 DEF TypeOK
<1>6. Places' /\ Stored' /\ Cached' /\ Fresh'  BY <1>1 DEF Places, Stored, Cached, Fresh, InMemory
<1>7. Parts'  BY <1>1, <1>3, <1>4 DEF Parts
<1>8. Answers'  BY <1>1 DEF Answers
<1> QED  BY <1>5, <1>6, <1>7, <1>8

\* Facts about the command under way.
LEMMA AskFacts ==
  ASSUME IInv, pc \in {"ask", "answered"}
  PROVE  /\ back \in {"qmp", "libvirt"} /\ addr \in Nat /\ done \in Nat /\ size \in Nat
         /\ k \in Nat /\ part \in Nat /\ part > 0 /\ done + part <= size /\ size <= MaxSize
         /\ Asked \in Nat /\ part <= Asked /\ k <= Asked
         /\ InMemory => addr + done + Asked <= MemSize
<1> USE DEF IInv
<1>1. back \in {"qmp", "libvirt"}  BY ReadAssumption DEF TypeOK, Places
<1>2. addr \in Nat /\ addr % Word = 0 /\ done \in Nat /\ size \in Nat /\ k \in Nat /\ size <= MaxSize
  BY Constants DEF TypeOK
<1>3. /\ part \in Nat /\ part > 0 /\ done + part <= size /\ k <= Asked /\ done % Step = 0
  BY Constants DEF Parts
<1>4. roundup(part, Word) \in Nat /\ roundup(part, Word) >= part  BY <1>3, Constants, Roundup, Zenon
<1>5. Asked \in Nat /\ part <= Asked  BY <1>3, <1>4 DEF Asked
<1>6. ASSUME InMemory PROVE addr + done + Asked <= MemSize
  <2>1. MemSize \in Nat  BY Constants
  <2>2. addr + done + part <= MemSize  BY <1>2, <1>3, <1>6, <2>1 DEF InMemory
  <2>3. addr + done + roundup(part, Word) <= MemSize  BY <1>2, <1>3, <2>2, WordsFit
  <2> QED  BY <2>2, <2>3 DEF Asked
<1> QED  BY <1>1, <1>2, <1>3, <1>5, <1>6

\* A line of the answer: n cells, from where the answer has got to.
LEMMA LineFacts ==
  ASSUME IInv, pc = "ask", NEW n, n = Least(Line[back], Asked - k)
  PROVE  n \in Nat \ {0} /\ k + n <= Asked
<1>1. PICK l \in Nat \ {0} : l = Line[back]  BY AskFacts, Constants
<1>2. k \in Nat /\ Asked \in Nat /\ k < Asked  BY AskFacts DEF IInv, Parts
<1> QED  BY <1>1, <1>2 DEF Least

LEMMA LineStep ==
  ASSUME IInv, xp, NEW n \in Nat \ {0}, n = Least(Line[back], Asked - k),
         addr + done + k + n <= MemSize
  PROVE  IInv'
<1> USE DEF IInv
<1>1. /\ pc = "ask" /\ k' = k + n
      /\ ans' = [j \in 0..k + n - 1 |-> IF j < k THEN ans[j] ELSE mem[addr + done + k + (j - k)]]
      /\ pc' = (IF k + n = Asked THEN "answered" ELSE "ask")
      /\ UNCHANGED <<mem, writes, back, ret, addr, size, done, part, buf, cache, old, oldblk>>
  BY DEF xp
<1>2. /\ back \in {"qmp", "libvirt"} /\ addr \in Nat /\ done \in Nat /\ k \in Nat /\ Asked \in Nat
      /\ MemSize \in Nat
  BY <1>1, AskFacts, Constants
<1>3. k + n <= Asked /\ Asked' = Asked  BY <1>1, LineFacts DEF Asked
<1>4. mem \in [Cells -> Nat] /\ old \in [Cells -> Nat] /\ \A a \in Cells : old[a] <= mem[a]
  BY DEF TypeOK, Fresh
<1>5. ASSUME NEW j \in 0..k + n - 1
      PROVE  /\ addr + done + j \in Cells /\ ans'[j] \in Nat
             /\ old[addr + done + j] <= ans'[j] /\ ans'[j] <= mem[addr + done + j]
  <2>1. CASE j < k
    <3>1. j \in 0..k - 1 /\ ans'[j] = ans[j]  BY <1>1, <1>2, <2>1
    <3> QED  BY <1>2, <3>1, Zenon DEF Answers
  <2>2. CASE ~ (j < k)
    <3>1. addr + done + k + (j - k) = addr + done + j /\ addr + done + j \in 0..(MemSize - 1)
      BY <1>2, <2>2
    <3>2. ans'[j] = mem[addr + done + j]  BY <1>1, <2>2, <3>1
    <3> QED  BY <1>4, <3>1, <3>2 DEF Cells
  <2> QED  BY <2>1, <2>2
<1>6. ans' \in [0..k' - 1 -> Nat]
  <2>1. k' - 1 = k + n - 1  BY <1>1, <1>2
  <2> QED  BY <1>1, <1>5, <2>1
<1>7. Answers'
  <2>1. k' - 1 = k + n - 1  BY <1>1, <1>2
  <2> QED  BY <1>1, <1>5, <1>6, <2>1 DEF Answers
<1>8. TypeOK'
  <2>1. k' \in Nat /\ ans' \in [DOMAIN ans' -> Nat]  BY <1>1, <1>2, <1>6
  <2> QED  BY <1>1, <2>1 DEF TypeOK
<1>9. Places' /\ Stored' /\ Cached' /\ Fresh'
  BY <1>1, <1>2, Zenon DEF Places, Stored, Cached, Fresh, InMemory
<1>10. Parts'
  <2>1. k' <= Asked' /\ (pc' = "ask" => k' < Asked') /\ (pc' = "answered" => k' = Asked')
    BY <1>1, <1>2, <1>3
  <2> QED  BY <1>1, <2>1 DEF Parts
<1> QED  BY <1>7, <1>8, <1>9, <1>10

LEMMA xpStep == ASSUME IInv, xp PROVE IInv'
<1>0. pc = "ask"  BY DEF xp
<1>1. PICK n \in Nat \ {0} : n = Least(Line[back], Asked - k) /\ k + n <= Asked
  BY <1>0, LineFacts
<1>2. CASE addr + done + k + n <= MemSize  BY <1>1, <1>2, LineStep
<1>3. CASE ~ (addr + done + k + n <= MemSize)
  <2> USE DEF IInv
  <2>1. /\ pc' = "answered"
        /\ UNCHANGED <<mem, writes, back, ret, addr, size, done, part, k, ans, buf, cache, old, oldblk>>
    BY <1>1, <1>3 DEF xp
  <2>2. ~ InMemory
    <3>1. /\ addr \in Nat /\ done \in Nat /\ k \in Nat /\ Asked \in Nat /\ MemSize \in Nat
          /\ InMemory => addr + done + Asked <= MemSize
      BY <1>0, AskFacts, Constants
    <3> QED  BY <1>1, <1>3, <3>1
  <2>3. TypeOK' /\ Places' /\ Answers' /\ Stored' /\ Cached' /\ Fresh'
    BY <1>0, <2>1 DEF TypeOK, Places, Answers, Stored, Cached, Fresh, InMemory
  <2>4. Parts'  BY <1>0, <2>1, <2>2 DEF Parts, Asked, InMemory
  <2> QED  BY <2>3, <2>4
<1> QED  BY <1>2, <1>3

\* The cells of the answer that belong to the part, and what readmem_part stores.
LEMMA CopyFacts ==
  ASSUME IInv, readmem_part, NEW m, m = Least(part, k)
  PROVE  /\ m \in Nat /\ m <= part /\ m <= k /\ (InMemory => m = part)
         /\ \A i \in 0..MaxSize + Word :
               buf'[i] = IF i \in done..done + m - 1 THEN ans[i - done] ELSE buf[i]
         /\ \A i \in done..done + m - 1 :
               /\ i \in 0..size - 1 /\ i - done \in 0..k - 1 /\ ans[i - done] \in Nat
               /\ addr + done + (i - done) = addr + i
<1>1. pc = "answered"  BY DEF readmem_part
<1>2. /\ addr \in Nat /\ done \in Nat /\ size \in Nat /\ k \in Nat /\ part \in Nat /\ Asked \in Nat
      /\ done + part <= size /\ part <= Asked /\ back # "file"
  BY <1>1, AskFacts
<1>3. m \in Nat /\ m <= part /\ m <= k  BY <1>2 DEF Least
<1>4. InMemory => m = part  BY <1>1, <1>2 DEF Least, IInv, Parts
<1>5. \A i \in 0..MaxSize + Word :
        buf'[i] = IF i \in done..done + m - 1 THEN ans[i - done] ELSE buf[i]
  BY DEF readmem_part, IInv, TypeOK
<1>6. ASSUME NEW i \in done..done + m - 1
      PROVE  /\ i \in 0..size - 1 /\ i - done \in 0..k - 1 /\ ans[i - done] \in Nat
             /\ addr + done + (i - done) = addr + i
  <2>1. i \in 0..size - 1 /\ i - done \in 0..k - 1 /\ addr + done + (i - done) = addr + i
    BY <1>2, <1>3
  <2> QED  BY <1>2, <2>1 DEF IInv, Answers
<1> QED  BY <1>3, <1>4, <1>5, <1>6

LEMMA CopyStep == ASSUME IInv, readmem_part PROVE IInv'
<1> USE DEF IInv
<1>1. /\ pc = "answered" /\ pc' = "part" /\ k' = 0 /\ ans' = <<>> /\ done' = done + part
      /\ UNCHANGED <<mem, writes, back, ret, addr, size, part, cache, old, oldblk>>
  BY DEF readmem_part
<1>2. /\ addr \in Nat /\ done \in Nat /\ size \in Nat /\ k \in Nat /\ part \in Nat
      /\ done + part <= size /\ size <= MaxSize /\ MaxSize \in Nat /\ Word \in Nat /\ back # "file"
  BY <1>1, AskFacts, Constants
<1>3. PICK m : m = Least(part, k)  OBVIOUS
<1>4. /\ m \in Nat /\ m <= part /\ m <= k /\ (InMemory => m = part)
      /\ \A i \in 0..MaxSize + Word :
            buf'[i] = IF i \in done..done + m - 1 THEN ans[i - done] ELSE buf[i]
      /\ \A i \in done..done + m - 1 :
            /\ i \in 0..size - 1 /\ i - done \in 0..k - 1 /\ ans[i - done] \in Nat
            /\ addr + done + (i - done) = addr + i
  BY <1>3, CopyFacts
<1>5. buf' \in [0..MaxSize + Word -> Nat \cup {Junk}]
  <2>1. DOMAIN buf = 0..MaxSize + Word  BY DEF TypeOK
  <2>2. \A i \in 0..MaxSize + Word : buf'[i] \in Nat \cup {Junk}  BY <1>4 DEF TypeOK
  <2>3. buf' = [i \in 0..MaxSize + Word |-> buf'[i]]  BY <2>1 DEF readmem_part
  <2> QED  BY <2>2, <2>3
<1>6. TypeOK'
  <2>1. done' \in 0..size /\ k' \in Nat /\ ans' \in [DOMAIN ans' -> Nat]  BY <1>1, <1>2
  <2> QED  BY <1>1, <1>5, <2>1 DEF TypeOK
<1>7. Places' /\ Answers' /\ Cached'  BY <1>1, <1>2 DEF Places, Answers, Cached
<1>8. Parts'
  <2>1. CASE part = Step
    <3>1. PICK q \in Nat : done = q * Step  BY <1>1, <1>2, Constants, Multiple, Zenon DEF Parts
    <3>2. done + Step = (q + 1) * Step  BY <3>1, Constants
    <3>3. ((q + 1) * Step) % Step = 0  BY Constants, MultipleMod
    <3> QED  BY <1>1, <2>1, <3>2, <3>3 DEF Parts
  <2>2. CASE done + part = size  BY <1>1, <2>2 DEF Parts
  <2> QED  BY <1>1, <2>1, <2>2 DEF Parts
<1>9. Stored'
  <2>1. ASSUME NEW i \in done + part..MaxSize + Word PROVE buf'[i] = Junk
    <3>1. i \in done..MaxSize + Word /\ i \in 0..MaxSize + Word /\ i \notin done..done + m - 1
      BY <1>2, <1>4
    <3> QED  BY <1>2, <1>4, <3>1 DEF Stored
  <2>2. ASSUME InMemory, NEW i \in 0..done + part - 1 PROVE buf'[i] # Junk
    <3>1. i \in 0..MaxSize + Word  BY <1>2
    <3>2. CASE i \in 0..done - 1
      <4>1. i \notin done..done + m - 1  BY <1>2, <3>2
      <4> QED  BY <1>2, <1>4, <2>2, <3>1, <3>2, <4>1 DEF Stored
    <3>3. CASE i \in done..done + m - 1
      <4>1. buf'[i] \in Nat  BY <1>4, <3>1, <3>3
      <4> QED  BY <4>1 DEF Junk
    <3> QED  BY <1>2, <1>4, <2>2, <3>2, <3>3
  <2> QED  BY <1>1, <1>2, <2>1, <2>2 DEF Stored, InMemory
<1>10. Fresh'
  <2>1. ASSUME NEW i \in 0..size - 1, buf'[i] # Junk
        PROVE  /\ addr + i \in Cells /\ buf'[i] <= mem[addr + i]
               /\ buf'[i] < old[addr + i] => (addr + i) \div Block = oldblk
    <3>1. i \in 0..MaxSize + Word  BY InBuffer
    <3>2. CASE i \in done..done + m - 1
      <4>1. /\ addr + i \in Cells /\ old[addr + i] <= ans[i - done]
            /\ ans[i - done] <= mem[addr + i] /\ ans[i - done] \in Nat
        BY <1>2, <1>4, <3>2 DEF Answers
      <4>2. old[addr + i] \in Nat  BY <4>1 DEF Fresh
      <4> QED  BY <1>4, <3>1, <3>2, <4>1, <4>2
    <3>3. CASE i \notin done..done + m - 1  BY <1>4, <2>1, <3>1, <3>3 DEF Fresh
    <3> QED  BY <3>2, <3>3
  <2> QED  BY <1>1, <2>1 DEF Fresh
<1> QED  BY <1>6, <1>7, <1>8, <1>9, <1>10

LEMMA SameBlock ==
  ASSUME NEW n \in Nat \ {0}, NEW x \in Nat, NEW y \in Nat, x <= y, y < ((x \div n) + 1) * n
  PROVE  y \div n = x \div n
<1>1. PICK b \in Nat : b = x \div n  BY DivMod
<1>2. PICK q \in Nat : q = y \div n  BY DivMod
<1>3. PICK r \in 0..(n - 1) : r = y % n  BY DivMod
<1>4. x >= b * n  BY <1>1, DivMod
<1>5. y = q * n + r  BY <1>2, <1>3, DivMod
<1>6. b * n \in Nat /\ q * n \in Nat /\ (b + 1) * n \in Nat  OBVIOUS
<1>7. ~ (q >= b + 1)
  <2> SUFFICES ASSUME q >= b + 1 PROVE FALSE  OBVIOUS
  <2>1. q * n >= (b + 1) * n  OBVIOUS
  <2> QED  BY <1>1, <1>5, <1>6, <2>1
<1>8. ~ (q + 1 <= b)
  <2> SUFFICES ASSUME q + 1 <= b PROVE FALSE  OBVIOUS
  <2>1. (q + 1) * n <= b * n  OBVIOUS
  <2>2. (q + 1) * n = q * n + n  OBVIOUS
  <2> QED  BY <1>4, <1>5, <1>6, <2>1, <2>2
<1> QED  BY <1>1, <1>2, <1>7, <1>8

\* The cells of block b, as the stdio buffer or the file has them.
LEMMA BlockFacts ==
  ASSUME IInv, NEW bb \in Nat, NEW from,
         from = IF cache.blk = bb THEN cache
                ELSE [blk |-> bb, val |-> [a \in {c \in Cells : c \div Block = bb} |-> mem[a]]]
  PROVE  \A a \in Cells : a \div Block = bb =>
            /\ from.val[a] \in Nat /\ from.val[a] <= mem[a]
            /\ from.val[a] < old[a] => bb = oldblk
<1> USE DEF IInv
<1>1. SUFFICES ASSUME NEW a \in Cells, a \div Block = bb
               PROVE  /\ from.val[a] \in Nat /\ from.val[a] <= mem[a]
                      /\ from.val[a] < old[a] => bb = oldblk
  OBVIOUS
<1>2. mem[a] \in Nat /\ old[a] \in Nat /\ old[a] <= mem[a]  BY DEF TypeOK, Fresh
<1>3. CASE cache.blk = bb
  <2>1. a \in DOMAIN cache.val  BY <1>1, <1>3 DEF Cached
  <2>2. /\ cache.val[a] \in Nat /\ cache.val[a] <= mem[a]
        /\ cache.blk # oldblk => old[a] <= cache.val[a]
    BY <2>1 DEF Cached
  <2>3. from = cache  BY <1>3
  <2> QED  BY <1>2, <1>3, <2>2, <2>3
<1>4. CASE cache.blk # bb
  <2>1. from.val = [c \in {c \in Cells : c \div Block = bb} |-> mem[c]]  BY <1>4
  <2>2. from.val[a] = mem[a]  BY <1>1, <2>1
  <2> QED  BY <1>2, <2>2
<1> QED  BY <1>3, <1>4

\* How far one turn of fread goes.
LEMMA TurnFacts ==
  ASSUME IInv, fread, NEW bb, bb = (addr + k) \div Block,
         NEW n, n = Least(size - k, Least((bb + 1) * Block, MemSize) - (addr + k))
  PROVE  /\ back = "file" /\ addr \in Nat /\ k \in Nat /\ size \in Nat /\ bb \in Nat
         /\ n \in Nat \ {0} /\ k + n <= size /\ addr + k + n <= MemSize
         /\ \A i \in k..k + n - 1 : addr + i \in Cells /\ (addr + i) \div Block = bb
<1>1. /\ back = "file" /\ addr \in Nat /\ k \in Nat /\ size \in Nat /\ MemSize \in Nat
      /\ k < size /\ addr + k < MemSize /\ Block \in Nat \ {0}
  BY Constants DEF fread, IInv, TypeOK, Places
<1>2. PICK at \in Nat : at = addr + k  BY <1>1
<1>3. bb \in Nat /\ at = bb * Block + (at % Block) /\ at % Block \in 0..(Block - 1)
  BY <1>1, <1>2, DivMod, Zenon
<1>4. PICK e \in Nat : e = (bb + 1) * Block  BY <1>1, <1>3
<1>5. at < e
  <2>1. (bb + 1) * Block = bb * Block + Block /\ bb * Block \in Nat  BY <1>1, <1>3
  <2>2. PICK x \in Nat : x = bb * Block  BY <2>1
  <2>3. PICK r \in 0..(Block - 1) : r = at % Block  BY <1>3
  <2>4. at = x + r /\ e = x + Block  BY <1>3, <1>4, <2>1, <2>2, <2>3
  <2> QED  BY <1>1, <2>4
<1>6. n \in Nat \ {0} /\ k + n <= size /\ at + n <= MemSize /\ at + n <= e
  BY <1>1, <1>2, <1>4, <1>5 DEF Least
<1>7. ASSUME NEW i \in k..k + n - 1 PROVE addr + i \in Cells /\ (addr + i) \div Block = bb
  <2>1. PICK y \in Nat : y = addr + i  BY <1>1
  <2>2. at <= y /\ y < e /\ y < MemSize  BY <1>1, <1>2, <1>6, <2>1
  <2>3. y \div Block = bb  BY <1>1, <1>2, <1>4, <2>2, SameBlock, Zenon
  <2> QED  BY <1>1, <2>1, <2>2, <2>3 DEF Cells
<1> QED  BY <1>1, <1>2, <1>3, <1>6, <1>7

LEMMA freadStep == ASSUME IInv, fread PROVE IInv'
<1> USE DEF IInv
<1>1. PICK bb : bb = (addr + k) \div Block  OBVIOUS
<1>2. PICK n : n = Least(size - k, Least((bb + 1) * Block, MemSize) - (addr + k))  OBVIOUS
<1>3. /\ back = "file" /\ addr \in Nat /\ k \in Nat /\ size \in Nat /\ bb \in Nat
      /\ n \in Nat \ {0} /\ k + n <= size /\ addr + k + n <= MemSize
      /\ \A i \in k..k + n - 1 : addr + i \in Cells /\ (addr + i) \div Block = bb
  BY <1>1, <1>2, TurnFacts
<1>4. PICK now : now = [blk |-> bb, val |-> [a \in {c \in Cells : c \div Block = bb} |-> mem[a]]]
  BY Zenon
<1>5. PICK from : from = IF cache.blk = bb THEN cache ELSE now  OBVIOUS
<1>6. \A a \in Cells : a \div Block = bb =>
         /\ from.val[a] \in Nat /\ from.val[a] <= mem[a]
         /\ from.val[a] < old[a] => bb = oldblk
  BY <1>3, <1>4, <1>5, BlockFacts, ZenonT(30)
<1>7. /\ pc = "fread" /\ k' = k + n
      /\ buf' = [i \in DOMAIN buf |-> IF i \in k..k + n - 1 THEN from.val[addr + i] ELSE buf[i]]
      /\ cache' \in {cache} \/ cache' \in {now, NoBlock}
      /\ UNCHANGED <<mem, writes, back, pc, ret, addr, size, done, part, ans, old, oldblk>>
  BY <1>1, <1>2, <1>4, <1>5 DEF fread
<1>k. /\ addr \in Nat /\ k \in Nat /\ size \in Nat /\ n \in Nat \ {0} /\ k' = k + n
      /\ k + n <= size /\ addr + k + n <= MemSize
  BY <1>3, <1>7
<1>m. /\ mem' = mem /\ old' = old /\ oldblk' = oldblk /\ addr' = addr /\ size' = size
      /\ back' = back /\ pc' = pc /\ done' = done /\ part' = part /\ ans' = ans /\ ret' = ret
  BY <1>7
<1>v. PICK v : v = [i \in k..k + n - 1 |-> from.val[addr + i]]  BY Zenon
<1>8. ASSUME NEW i \in k..k + n - 1
      PROVE  /\ v[i] \in Nat /\ v[i] <= mem[addr + i]
             /\ v[i] < old[addr + i] => bb = oldblk
  <2>1. PICK a \in Cells : a = addr + i /\ a \div Block = bb  BY <1>3, Zenon
  <2>2. v[i] = from.val[a]  BY <1>v, <2>1
  <2> QED  BY <1>6, <2>1, <2>2
<1>9. DOMAIN buf = 0..MaxSize + Word  BY DEF TypeOK
<1>a. /\ \A i \in 0..MaxSize + Word : i \in k..k + n - 1 => buf'[i] = v[i]
      /\ \A i \in 0..MaxSize + Word : i \notin k..k + n - 1 => buf'[i] = buf[i]
  BY <1>7, <1>9, <1>v
<1>10. buf' \in [0..MaxSize + Word -> Nat \cup {Junk}]
  <2>1. \A i \in 0..MaxSize + Word : buf'[i] \in Nat \cup {Junk}  BY <1>8, <1>a DEF TypeOK
  <2> QED  BY <1>7, <1>9, <2>1
<1>11. TypeOK'
  <2>1. k' \in Nat  BY <1>k
  <2> QED  BY <1>7, <1>10, <2>1 DEF TypeOK
<1>12. Places' /\ Parts' /\ Answers'  BY <1>3, <1>7 DEF Places, Parts, Answers
<1>13. Stored'
  <2>1. ASSUME NEW i \in 0..k' - 1 PROVE buf'[i] # Junk
    <3>1. i \in 0..MaxSize + Word
      <4>1. size \in 0..MaxSize /\ MaxSize \in Nat /\ Word \in Nat  BY Constants DEF TypeOK
      <4> QED  BY <1>k, <4>1
    <3>2. CASE i \in k..k + n - 1
      <4>1. buf'[i] \in Nat  BY <1>8, <1>a, <3>1, <3>2
      <4> QED  BY <4>1 DEF Junk
    <3>3. CASE i \notin k..k + n - 1
      <4>1. i \in 0..k - 1  BY <1>k, <3>3
      <4> QED  BY <1>3, <1>a, <3>1, <3>3, <4>1 DEF Stored
    <3> QED  BY <3>2, <3>3
  <2>2. ASSUME NEW i \in k'..MaxSize + Word PROVE buf'[i] = Junk
    <3>1. i \in 0..MaxSize + Word /\ i \in k..MaxSize + Word /\ i \notin k..k + n - 1
      <4>1. MaxSize + Word \in Nat  BY Constants
      <4> QED  BY <1>k, <4>1
    <3> QED  BY <1>3, <1>a, <3>1 DEF Stored
  <2>3. k' <= size /\ addr + k' <= MemSize
    <3>1. MemSize \in Nat  BY Constants
    <3> QED  BY <1>k, <3>1
  <2>4. back' = back /\ addr' = addr /\ size' = size /\ pc' # "idle"  BY <1>7
  <2> QED  BY <1>3, <2>1, <2>2, <2>3, <2>4 DEF Stored
<1>14. Cached'
  <2>1. CASE cache' = cache  BY <1>m, <2>1 DEF Cached
  <2>2. CASE cache' = NoBlock  BY <1>m, <2>2 DEF Cached, NoBlock
  <2>3. CASE cache' = now
    <3>1. cache'.blk = bb /\ cache'.val = [a \in {c \in Cells : c \div Block = bb} |-> mem[a]]
      BY <1>4, <2>3
    <3>2. \A a \in Cells : mem[a] \in Nat /\ old[a] <= mem[a]  BY DEF TypeOK, Fresh
    <3>3. /\ DOMAIN cache'.val = {c \in Cells : c \div Block = bb}
          /\ \A a \in DOMAIN cache'.val : a \in Cells /\ cache'.val[a] = mem[a]
      BY <3>1, Zenon
    <3>4. \A a \in DOMAIN cache'.val : /\ cache'.val[a] \in Nat /\ cache'.val[a] <= mem[a]
                                       /\ old[a] <= cache'.val[a]
      <4>1. \A a \in Cells : mem[a] <= mem[a]  BY <3>2
      <4> QED  BY <3>2, <3>3, <4>1, Zenon
    <3>5. bb \in Int  BY <1>3
    <3> QED  BY <1>m, <3>1, <3>3, <3>4, <3>5, Zenon DEF Cached
  <2> QED  BY <1>7, <2>1, <2>2, <2>3
<1>15. Fresh'
  <2>1. ASSUME NEW i \in 0..size - 1, buf'[i] # Junk
        PROVE  /\ addr + i \in Cells /\ buf'[i] <= mem[addr + i]
               /\ buf'[i] < old[addr + i] => (addr + i) \div Block = oldblk
    <3>1. i \in 0..MaxSize + Word  BY InBuffer
    <3>2. CASE i \in k..k + n - 1  BY <1>3, <1>8, <1>a, <3>1, <3>2
    <3>3. CASE i \notin k..k + n - 1  BY <1>a, <2>1, <3>1, <3>3 DEF Fresh
    <3> QED  BY <3>2, <3>3
  <2> QED  BY <1>m, <2>1 DEF Fresh
<1> QED  BY <1>11, <1>12, <1>13, <1>14, <1>15

LEMMA fseekStep == ASSUME IInv, fseek PROVE IInv'
<1>1. CASE Return(-1) /\ cache' = cache
  <2>1. -1 \in -1..MaxSize  BY Constants
  <2> QED  BY <1>1, <2>1, ReturnStep
<1>2. CASE ~ (Return(-1) /\ cache' = cache)
  <2> USE DEF IInv
  <2>1. /\ pc = "fseek" /\ pc' = "fread" /\ (cache' = cache \/ cache' = NoBlock)
        /\ UNCHANGED <<mem, writes, back, ret, addr, size, done, part, k, ans, buf, old, oldblk>>
    BY <1>2 DEF fseek
  <2>2. back = "file"  BY <2>1 DEF Places
  <2>3. TypeOK' /\ Places' /\ Parts' /\ Answers' /\ Stored' /\ Fresh'
    BY <2>1, <2>2 DEF TypeOK, Places, Parts, Answers, Stored, Fresh
  <2>4. Cached'  BY <2>1 DEF Cached, NoBlock
  <2> QED  BY <2>3, <2>4
<1> QED  BY <1>1, <1>2

LEMMA ReturnSteps ==
  ASSUME IInv, AllParts \/ PartFails \/ freadError \/ file_readmem PROVE IInv'
<1>1. MaxSize \in Nat  BY Constants
<1>2. CASE AllParts
  <2>1. 0 \in -1..MaxSize /\ back # "file"  BY <1>1, <1>2 DEF AllParts, IInv, Places
  <2> QED  BY <1>2, <2>1, ReturnStep DEF AllParts
<1>3. CASE PartFails \/ freadError
  <2>1. -1 \in -1..MaxSize  BY <1>1
  <2> QED  BY <1>3, <2>1, ReturnStep DEF PartFails, freadError
<1>4. CASE file_readmem
  <2>1. PICK r : r = IF k = size THEN 0 ELSE k  OBVIOUS
  <2>2. /\ back = "file" /\ k \in Nat /\ k <= size /\ size \in 0..MaxSize /\ addr \in Nat
    BY <1>4, Constants DEF file_readmem, IInv, TypeOK, Places, Stored
  <2>3. r \in -1..MaxSize /\ (r = 0 => k = size \/ addr >= MemSize)
    BY <1>1, <1>4, <2>1, <2>2 DEF file_readmem
  <2>4. Return(r) /\ cache' = cache  BY <1>4, <2>1 DEF file_readmem
  <2> QED  BY <2>2, <2>3, <2>4, ReturnStep
<1> QED  BY <1>2, <1>3, <1>4

LEMMA StutterStep == ASSUME IInv, UNCHANGED vars PROVE IInv'
  BY DEF IInv, vars, TypeOK, Places, Parts, Answers, Stored, Cached, Fresh, Asked, InMemory

LEMMA Inductive == IInv /\ [Next]_vars => IInv'
  BY GuestStep, BeginStep, NextPartStep, xpStep, CopyStep, fseekStep, freadStep, ReturnSteps,
     StutterStep DEF Next, Reader

LEMMA Invariant == Spec => []IInv
  BY Initially, Inductive, PTL DEF Spec

-----------------------------------------------------------------------------
(***************************************************************************)
(* The theorems about the program's own state.                             *)
(***************************************************************************)

\* In every read of every back end the counters of parts and cells keep their
\* ranges: the parts never add up to more than the read.
THEOREM TypeCorrect == Spec => []TypeOK
<1>1. IInv => TypeOK  BY DEF IInv
<1> QED  BY Invariant, <1>1, PTL

\* Neither the words libvirt_dump_phy_memory rounds up to nor a block of the memory
\* file spills over the caller's buffer.
THEOREM NoSpill == Spec => []OwnCellsOnly
<1>1. IInv => OwnCellsOnly
  <2> SUFFICES ASSUME IInv, NEW i \in DOMAIN buf, i >= size PROVE buf[i] = Junk
    BY DEF OwnCellsOnly
  <2>1. /\ i \in 0..MaxSize + Word /\ MaxSize + Word \in Nat /\ size \in Nat
        /\ done \in Nat /\ done <= size /\ k \in Nat
    BY Constants DEF IInv, TypeOK
  <2>2. CASE back = "file"
    <3>1. k <= size  BY <2>2 DEF IInv, Stored
    <3>2. i \in k..MaxSize + Word  BY <2>1, <3>1
    <3> QED  BY <2>2, <3>2 DEF IInv, Stored
  <2>3. CASE back # "file"
    <3>1. i \in done..MaxSize + Word  BY <2>1
    <3> QED  BY <2>3, <3>1 DEF IInv, Stored
  <2> QED  BY <2>2, <2>3
<1> QED  BY Invariant, <1>1, PTL

\* When readmem returns 0, all cells were stored, unless the read leaves the
\* memory (for a file: begins behind its end).
THEOREM WholeReads == Spec => []SuccessIsWhole
<1>1. IInv => SuccessIsWhole
  <2> SUFFICES ASSUME IInv, pc = "idle", ret = 0
               PROVE  \/ Fetched = 0..size - 1
                      \/ IF back = "file" THEN addr >= MemSize ELSE ~ InMemory
    BY DEF SuccessIsWhole
  <2>1. CASE back = "file"  BY <2>1 DEF IInv, Stored, Fetched
  <2>2. CASE back # "file"  BY <2>2 DEF IInv, Stored, Fetched
  <2> QED  BY <2>1, <2>2
<1> QED  BY Invariant, <1>1, PTL

\* No back end returns a cell older than its call, but for the block file_readmem
\* found in its stdio buffer.
THEOREM Staleness == Spec => []OneStaleBlock
<1>1. IInv => OneStaleBlock  BY DEF IInv, Fresh, OneStaleBlock, Fetched
<1> QED  BY Invariant, <1>1, PTL

-----------------------------------------------------------------------------
(***************************************************************************)
(* The monitor back ends implement MemoryRead.                             *)
(***************************************************************************)

New == {i \in 0..size - 1 : i - done \in 0..Least(part, k) - 1}

LEMMA Gotten == gotten = [i \in Fetched \cup New |-> IF i \in New THEN ans[i - done] ELSE buf[i]]
  BY DEF gotten, New

LEMMA SameGot == ASSUME UNCHANGED <<size, done, part, k, ans, buf>> PROVE gotten' = gotten
  BY DEF gotten, Fetched

LEMMA NothingNew == ASSUME k = 0, part \in Nat PROVE New = {} /\ gotten = [i \in Fetched |-> buf[i]]
<1>1. New = {}  BY DEF New, Least
<1> QED  BY <1>1, Gotten

LEMMA Sees == ASSUME Monitor, UNCHANGED back
              PROVE  /\ readAddr = addr /\ readSize = size /\ readGot = gotten
                     /\ Monitor' /\ readAddr' = addr' /\ readSize' = size' /\ readGot' = gotten'
  BY DEF Monitor, readAddr, readSize, readGot

LEMMA Blind == ASSUME ~ Monitor, UNCHANGED back
               PROVE  /\ readAddr = 0 /\ readSize = 0 /\ readGot = <<>>
                      /\ ~ Monitor' /\ readAddr' = 0 /\ readSize' = 0 /\ readGot' = <<>>
  BY DEF Monitor, readAddr, readSize, readGot

LEMMA AbstractInit == Init => R!ReadInit
<1> SUFFICES ASSUME Init PROVE R!ReadInit  OBVIOUS
<1>1. Fetched = {}  BY DEF Init, Fetched
<1>2. gotten = [i \in Fetched |-> buf[i]]  BY NothingNew, Zenon DEF Init
<1>3. gotten = <<>>  BY <1>1, <1>2
<1> QED  BY <1>3 DEF Init, R!ReadInit, R!Cells, Cells, readAddr, readSize, readGot

LEMMA AbstractGuest == ASSUME IInv, GuestWrites PROVE R!GuestWrites
<1>1. gotten' = gotten  BY SameGot DEF GuestWrites
<1>2. /\ readAddr' = readAddr /\ readSize' = readSize /\ readGot' = readGot
      /\ Monitor' = Monitor
  BY <1>1 DEF GuestWrites, readAddr, readSize, readGot, Monitor
<1> QED  BY <1>2, Zenon DEF GuestWrites, R!GuestWrites, R!Cells, Cells

LEMMA AbstractBegin == ASSUME IInv, Monitor, readmem PROVE R!Begin
<1>1. Fetched' = {}
  <2>1. MaxSize \in Nat /\ Word \in Nat  BY Constants
  <2>2. PICK z \in 0..MaxSize : z = size'  BY DEF readmem
  <2>5. \A i \in 0..z - 1 : i \in 0..MaxSize + Word  BY <2>1
  <2>3. DOMAIN buf = 0..MaxSize + Word  BY DEF IInv, TypeOK
  <2>4. buf' = [i \in 0..MaxSize + Word |-> Junk]  BY <2>3 DEF readmem
  <2> QED  BY <2>2, <2>4, <2>5, Zenon DEF Fetched
<1>2. New' = {}  BY DEF readmem, New, Least
<1>3. gotten' = [i \in Fetched' \cup New' |-> IF i \in New' THEN ans'[i - done'] ELSE buf'[i]]
  BY DEF gotten, New
<1>4. gotten' = <<>>  BY <1>1, <1>2, <1>3
<1>5. back' = back  BY DEF readmem
<1> QED  BY <1>4, <1>5, Sees DEF readmem, R!Begin, Monitor

LEMMA AbstractReturn == ASSUME IInv, Monitor, AllParts \/ PartFails PROVE R!Success \/ R!Failure
<1>1. gotten' = gotten  BY SameGot DEF AllParts, PartFails, Return
<1>4. back' = back  BY DEF AllParts, PartFails, Return
<1>2. CASE AllParts
  <2>1. k = 0 /\ part \in Nat /\ done = size /\ back # "file"
    BY <1>2, Constants DEF AllParts, IInv, Parts, TypeOK, Places
  <2>2. InMemory => Fetched = 0..size - 1  BY <2>1 DEF IInv, Stored, Fetched
  <2>3. InMemory => DOMAIN gotten = 0..size - 1  BY <2>1, <2>2, NothingNew
  <2> QED  BY <1>1, <1>2, <1>4, <2>3, Sees DEF AllParts, Return, R!Success, R!InMemory, InMemory
<1>3. CASE PartFails  BY <1>1, <1>3, <1>4, Sees DEF PartFails, Return, R!Failure
<1> QED  BY <1>2, <1>3

LEMMA AbstractNextPart == ASSUME IInv, Monitor, NextPart PROVE UNCHANGED R!rvars
<1>1. k = 0 /\ part \in Nat  BY Constants DEF NextPart, IInv, Parts, TypeOK
<1>2. gotten = [i \in Fetched |-> buf[i]]  BY <1>1, NothingNew
<1>3. Fetched' = Fetched  BY DEF NextPart, Fetched
<1>4. New' = {}
  <2>1. part' \in Nat
    <3>1. size \in Nat /\ Step \in Nat \ {0}  BY Constants DEF IInv, TypeOK
    <3>2. size % Step \in Nat  BY <3>1, DivMod
    <3> QED  BY <3>1, <3>2 DEF NextPart
  <2> QED  BY <2>1 DEF NextPart, New, Least
<1>5. gotten' = [i \in Fetched' \cup New' |-> IF i \in New' THEN ans'[i - done'] ELSE buf'[i]]
  BY DEF gotten, New
<1>6. gotten' = gotten  BY <1>2, <1>3, <1>4, <1>5 DEF NextPart
<1>7. back' = back  BY DEF NextPart
<1> QED  BY <1>6, <1>7, Sees DEF NextPart, R!rvars

\* A line of an answer fetches the cells of the part it covers.
LEMMA AbstractLine ==
  ASSUME IInv, Monitor, xp, NEW n \in Nat \ {0}, n = Least(Line[back], Asked - k),
         addr + done + k + n <= MemSize
  PROVE  R!Fetch
<1>1. /\ pc = "ask" /\ k' = k + n /\ pc' # "idle"
      /\ ans' = [j \in 0..k + n - 1 |-> IF j < k THEN ans[j] ELSE mem[addr + done + k + (j - k)]]
      /\ UNCHANGED <<mem, writes, back, ret, addr, size, done, part, buf, cache, old, oldblk>>
  BY DEF xp
<1>2. /\ addr \in Nat /\ done \in Nat /\ size \in Nat /\ k \in Nat /\ part \in Nat
      /\ done + part <= size /\ MemSize \in Nat
  BY <1>1, AskFacts, Constants, Zenon
<1>3. PICK S : S = {i \in New' : i - done >= k}  BY Zenon
<1>4. PICK m, m2 \in Nat : m = Least(part, k) /\ m2 = Least(part, k + n) /\ m <= k /\ m2 <= k + n /\ m <= m2
                         /\ m2 <= part /\ (m2 <= k => m2 = m) /\ (m2 > k => m = k)
  BY <1>2 DEF Least
<1>5. New = {i \in 0..size - 1 : i - done \in 0..m - 1} /\ New' = {i \in 0..size - 1 : i - done \in 0..m2 - 1}
  BY <1>1, <1>4 DEF New
<1>6. New' = New \cup S /\ \A i \in New : i \notin S
  BY <1>2, <1>3, <1>4, <1>5
<1>7. S \in SUBSET {i \in 0..size - 1 : addr + i \in R!Cells}
  <2> SUFFICES ASSUME NEW i \in S PROVE i \in 0..size - 1 /\ addr + i \in 0..(MemSize - 1)
    BY DEF R!Cells
  <2>1. i \in 0..size - 1 /\ i - done < k + n  BY <1>2, <1>3, <1>4, <1>5
  <2> QED  BY <1>2, <2>1
<1>8. \A i \in S : ans'[i - done] = mem[addr + i]
  <2> SUFFICES ASSUME NEW i \in S PROVE ans'[i - done] = mem[addr + i]  OBVIOUS
  <2>1. PICK j \in Int : j = i - done /\ j \in 0..k + n - 1 /\ ~ (j < k)
    BY <1>2, <1>3, <1>4, <1>5
  <2>2. addr + done + k + (j - k) = addr + i
    <3>1. i \in Int  BY <1>3, <1>5
    <3> QED  BY <1>2, <2>1, <3>1
  <2> QED  BY <1>1, <2>1, <2>2
<1>9. \A i \in New : ans'[i - done] = ans[i - done]
  <2> SUFFICES ASSUME NEW i \in New PROVE ans'[i - done] = ans[i - done]  OBVIOUS
  <2>1. PICK j \in Int : j = i - done /\ j \in 0..k + n - 1 /\ j < k  BY <1>2, <1>4, <1>5
  <2> QED  BY <1>1, <2>1
<1>10. Fetched' = Fetched  BY <1>1 DEF Fetched
<1>11. gotten' = [i \in Fetched' \cup New' |-> IF i \in New' THEN ans'[i - done'] ELSE buf'[i]]
  BY DEF gotten, New
<1>12. gotten' = [i \in DOMAIN gotten \cup S |-> IF i \in S THEN mem[addr + i] ELSE gotten[i]]
  <2>1. DOMAIN gotten = Fetched \cup New  BY Gotten
  <2>2. \A i \in Fetched \cup New : gotten[i] = IF i \in New THEN ans[i - done] ELSE buf[i]  BY Gotten
  <2>3. \A i \in Fetched \cup New \cup S :
          (IF i \in New \cup S THEN ans'[i - done] ELSE buf[i]) = IF i \in S THEN mem[addr + i] ELSE gotten[i]
    BY <1>6, <1>8, <1>9, <2>2
  <2>4. gotten' = [i \in Fetched \cup New \cup S |-> IF i \in New \cup S THEN ans'[i - done] ELSE buf[i]]
    BY <1>1, <1>6, <1>10, <1>11
  <2> QED  BY <2>1, <2>3, <2>4
<1>13. back' = back  BY <1>1
<1> QED  BY <1>1, <1>7, <1>12, <1>13, Sees DEF R!Fetch

LEMMA Abstractxp == ASSUME IInv, Monitor, xp PROVE R!Fetch \/ UNCHANGED R!rvars
<1>0. pc = "ask"  BY DEF xp
<1>1. PICK n \in Nat \ {0} : n = Least(Line[back], Asked - k)  BY <1>0, LineFacts
<1>2. CASE addr + done + k + n <= MemSize  BY <1>1, <1>2, AbstractLine
<1>3. CASE ~ (addr + done + k + n <= MemSize)
  <2>1. gotten' = gotten  BY <1>1, <1>3, SameGot DEF xp
  <2>2. back' = back  BY DEF xp
  <2> QED  BY <1>1, <1>3, <2>1, <2>2, Sees DEF xp, R!rvars
<1> QED  BY <1>2, <1>3

\* Parsing the answer into the buffer changes nothing the caller relies on.
LEMMA AbstractCopy == ASSUME IInv, Monitor, readmem_part PROVE UNCHANGED R!rvars
<1>1. /\ pc = "answered" /\ pc' = "part" /\ k' = 0 /\ done' = done + part
      /\ UNCHANGED <<mem, writes, back, ret, addr, size, part, cache, old, oldblk>>
  BY Zenon DEF readmem_part
<1>2. PICK m : m = Least(part, k)  OBVIOUS
<1>3. /\ m \in Nat /\ m <= part /\ m <= k
      /\ \A i \in 0..MaxSize + Word :
            buf'[i] = IF i \in done..done + m - 1 THEN ans[i - done] ELSE buf[i]
      /\ \A i \in done..done + m - 1 :
            /\ i \in 0..size - 1 /\ i - done \in 0..k - 1 /\ ans[i - done] \in Nat
            /\ addr + done + (i - done) = addr + i
  BY <1>2, CopyFacts
<1>4. done \in Nat /\ size \in Nat /\ part \in Nat  BY <1>1, AskFacts
<1>5. New = done..done + m - 1
  <2>1. New = {i \in 0..size - 1 : i - done \in 0..m - 1}  BY <1>2 DEF New
  <2> QED  BY <1>3, <1>4, <2>1
<1>6. \A i \in 0..size - 1 : i \in 0..MaxSize + Word  BY InBuffer DEF IInv
<1>7. \A i \in New : i \in 0..size - 1 /\ ans[i - done] \in Nat  BY <1>3, <1>5
<1>8. Fetched' = Fetched \cup New
  <2>1. \A i \in New : ans[i - done] # Junk  BY <1>7 DEF Junk
  <2>2. \A i \in 0..size - 1 : buf'[i] = IF i \in New THEN ans[i - done] ELSE buf[i]
    BY <1>3, <1>5, <1>6
  <2>3. Fetched' = {i \in 0..size - 1 : buf'[i] # Junk}  BY <1>1 DEF Fetched, Junk
  <2> QED  BY <1>7, <2>1, <2>2, <2>3 DEF Fetched
<1>9. New' = {}  BY <1>1, <1>4 DEF New, Least
<1>10. gotten' = [i \in Fetched' \cup New' |-> IF i \in New' THEN ans'[i - done'] ELSE buf'[i]]
  BY DEF gotten, New
<1>11. gotten' = [i \in Fetched \cup New |-> buf'[i]]  BY <1>8, <1>9, <1>10
<1>12. \A i \in Fetched \cup New : buf'[i] = IF i \in New THEN ans[i - done] ELSE buf[i]
  BY <1>3, <1>5, <1>6, <1>7 DEF Fetched
<1>13. gotten' = gotten  BY <1>11, <1>12, Gotten
<1>14. back' = back  BY <1>1
<1> QED  BY <1>1, <1>13, <1>14, Sees DEF R!rvars

\* qmp_readmem and libvirt_readmem, with all their parts, lines and failures,
\* are one read of memory in which each cell is fetched at some moment of the call.
THEOREM Refinement == Spec => ImplementsRead
<1>1. ASSUME IInv, [Next]_vars PROVE [R!ReadNext]_(R!rvars)
  <2>0. back' = back
    BY <1>1, Zenon
       DEF Next, Reader, GuestWrites, readmem, NextPart, AllParts, PartFails, xp, readmem_part,
           fseek, fread, freadError, file_readmem, Return, vars
  <2>1. CASE GuestWrites  BY <1>1, <2>1, AbstractGuest DEF R!ReadNext
  <2>2. CASE Monitor /\ ~ GuestWrites
    <3>1. pc \notin {"fseek", "fread"}  BY <1>1, <2>2 DEF IInv, Places, Monitor
    <3>2. CASE readmem  BY <1>1, <2>2, <3>2, AbstractBegin DEF R!ReadNext
    <3>3. CASE NextPart  BY <1>1, <2>2, <3>3, AbstractNextPart
    <3>4. CASE AllParts \/ PartFails  BY <1>1, <2>2, <3>4, AbstractReturn DEF R!ReadNext
    <3>5. CASE xp  BY <1>1, <2>2, <3>5, Abstractxp DEF R!ReadNext
    <3>6. CASE readmem_part  BY <1>1, <2>2, <3>6, AbstractCopy
    <3>7. CASE fseek \/ fread \/ freadError \/ file_readmem
      BY <3>1, <3>7 DEF fseek, fread, freadError, file_readmem
    <3>8. CASE UNCHANGED vars
      <4>1. gotten' = gotten  BY <3>8, SameGot DEF vars
      <4> QED  BY <2>0, <2>2, <3>8, <4>1, Sees DEF vars, R!rvars
    <3> QED  BY <1>1, <2>2, <3>2, <3>3, <3>4, <3>5, <3>6, <3>7, <3>8 DEF Next, Reader
  <2>3. CASE ~ Monitor /\ ~ GuestWrites
    <3>1. mem' = mem
      BY <1>1, <2>3, Zenon
         DEF Next, Reader, readmem, NextPart, AllParts, PartFails, xp, readmem_part,
             fseek, fread, freadError, file_readmem, Return, vars
    <3> QED  BY <2>0, <2>3, <3>1, Blind DEF R!rvars
  <2> QED  BY <2>1, <2>2, <2>3
<1> QED  BY <1>1, Invariant, AbstractInit, PTL DEF Spec, ImplementsRead, R!ReadSpec

=============================================================================

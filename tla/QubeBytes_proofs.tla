---------------------------- MODULE QubeBytes_proofs ----------------------------
(***************************************************************************)
(* Proofs about the arithmetic of requests, for every size of a block.     *)
(***************************************************************************)
EXTENDS QubeBytes, WellFoundedInduction, TLAPS

-----------------------------------------------------------------------------
(***************************************************************************)
(* Division.                                                               *)
(***************************************************************************)

\* Names for what is divided, so that a lemma about it can be cited.
Quot(x, d) == x \div d
Rem(x, d) == x % d

\* Quotient and remainder.
LEMMA DivMod ==
    ASSUME NEW x \in Nat, NEW d \in Nat \ {0}
    PROVE  /\ Quot(x, d) \in Nat
           /\ Rem(x, d) \in 0..d - 1
           /\ x = Quot(x, d) * d + Rem(x, d)
<1>1. Quot(x, d) \in Nat
  BY DEF Quot
<1>2. Rem(x, d) \in 0..d - 1
  BY DEF Rem
<1>3. Rem(x, d) = x - Quot(x, d) * d
  <2>1. x \in Int /\ d \in Int /\ d > 0
    OBVIOUS
  <2>2. x % d = x - (x \div d) * d
    BY <2>1, SMTT(60)
  <2> QED
    BY <2>2 DEF Quot, Rem
<1>4. Quot(x, d) * d \in Nat
  BY <1>1
<1> QED
  BY <1>1, <1>2, <1>3, <1>4

\* Multiplication is monotone.
LEMMA TimesMonotone ==
    ASSUME NEW p \in Nat, NEW q \in Nat, NEW d \in Nat, p <= q
    PROVE  p * d <= q * d /\ p * d \in Nat /\ q * d \in Nat
OBVIOUS

\* There is only one quotient and one remainder.
LEMMA DivUnique ==
    ASSUME NEW d \in Nat \ {0}, NEW q \in Nat, NEW r \in 0..d - 1
    PROVE  Quot(q * d + r, d) = q /\ Rem(q * d + r, d) = r
BY DEF Quot, Rem

\* Only a smaller factor gives a smaller product.
LEMMA TimesLess ==
    ASSUME NEW p \in Nat, NEW q \in Nat, NEW d \in Nat, p * d < q * d
    PROVE  p < q
<1>1. CASE q <= p
  <2>1. q * d <= p * d
    BY <1>1, TimesMonotone
  <2>2. p * d \in Nat /\ q * d \in Nat
    OBVIOUS
  <2> QED
    BY <2>1, <2>2
<1> QED
  BY <1>1

\* One factor more.
LEMMA TimesNext ==
    ASSUME NEW p \in Int, NEW d \in Int
    PROVE  (p + 1) * d = p * d + d /\ (p - 1) * d = p * d - d
OBVIOUS

\* The sizes of blocks and digests are positive.
LEMMA BlockSize == BLOCK_SIZE \in Nat \ {0} /\ HASH_SIZE \in Nat \ {0}
BY BytesAssumption

\* Dividing a multiple.
LEMMA DivMultiple ==
    ASSUME NEW d \in Nat \ {0}, NEW q \in Nat
    PROVE  Quot(q * d, d) = q /\ Rem(q * d, d) = 0
<1>1. 0 \in 0..d - 1 /\ q * d \in Nat
  OBVIOUS
<1>2. Quot(q * d + 0, d) = q /\ Rem(q * d + 0, d) = 0
  BY <1>1, DivUnique
<1>3. q * d + 0 = q * d
  BY <1>1
<1> QED
  BY <1>2, <1>3

\* The offset in the raw file, back in slots, is the number of the block.
LEMMA FirstSlotIs ==
    ASSUME NEW offset \in Nat
    PROVE  FirstSlot(offset) = Quot(offset, BLOCK_SIZE)
<1>1. Quot(offset, BLOCK_SIZE) \in Nat
  BY BlockSize, DivMod
<1>2. Quot(Quot(offset, BLOCK_SIZE) * HASH_SIZE, HASH_SIZE) = Quot(offset, BLOCK_SIZE)
  BY <1>1, BlockSize, DivMultiple
<1>3. FirstSlot(offset) = Quot(Quot(offset, BLOCK_SIZE) * HASH_SIZE, HASH_SIZE)
  BY Zenon DEF FirstSlot, Quot
<1> QED
  BY <1>2, <1>3

\* A buffer fits into its blocks, and needs the last of them.
LEMMA Buffers ==
    ASSUME NEW size \in Nat \ {0}
    PROVE  /\ NumBuffers(size) \in Nat \ {0}
           /\ size <= NumBuffers(size) * BLOCK_SIZE
           /\ (NumBuffers(size) - 1) * BLOCK_SIZE < size
<1> DEFINE q == Quot(size, BLOCK_SIZE)
           r == Rem(size, BLOCK_SIZE)
<1>1. q \in Nat /\ r \in 0..BLOCK_SIZE - 1 /\ size = q * BLOCK_SIZE + r
  BY BlockSize, DivMod
<1>2. NumBuffers(size) = q + (IF r > 0 THEN 1 ELSE 0)
  BY DEF NumBuffers, Quot, Rem
<1> HIDE DEF q, r
<1>3. q * BLOCK_SIZE \in Nat
  BY <1>1, BlockSize
<1>4. /\ (q + 1) * BLOCK_SIZE = q * BLOCK_SIZE + BLOCK_SIZE
      /\ (q - 1) * BLOCK_SIZE = q * BLOCK_SIZE - BLOCK_SIZE
  BY <1>1, BlockSize, TimesNext
<1>5. CASE r > 0
  <2>1. NumBuffers(size) = q + 1 /\ NumBuffers(size) - 1 = q
    BY <1>1, <1>2, <1>5
  <2> QED
    BY <2>1, <1>1, <1>3, <1>4, <1>5, BlockSize
<1>6. CASE r = 0
  <2>1. NumBuffers(size) = q
    BY <1>1, <1>2, <1>6
  <2>2. q # 0
    BY <1>1, <1>6, BlockSize
  <2> QED
    BY <2>1, <2>2, <1>1, <1>3, <1>4, <1>6, BlockSize
<1> QED
  BY <1>1, <1>5, <1>6

-----------------------------------------------------------------------------
(***************************************************************************)
(* The slots of a range of bytes.                                          *)
(***************************************************************************)

\* The place of byte i in its block.
PlaceOf(i) == ((i - 1) % BLOCK_SIZE) + 1

\* Slot s has the bytes from (s - 1) * BLOCK_SIZE + 1 to s * BLOCK_SIZE.
LEMMA SlotRange ==
    ASSUME NEW i \in Nat \ {0}
    PROVE  /\ SlotOf(i) \in Nat \ {0}
           /\ (SlotOf(i) - 1) * BLOCK_SIZE < i
           /\ i <= SlotOf(i) * BLOCK_SIZE
           /\ PlaceOf(i) \in 1..BLOCK_SIZE
           /\ i = (SlotOf(i) - 1) * BLOCK_SIZE + PlaceOf(i)
<1> DEFINE q == Quot(i - 1, BLOCK_SIZE)
           r == Rem(i - 1, BLOCK_SIZE)
<1>0. i - 1 \in Nat
  OBVIOUS
<1>1. q \in Nat /\ r \in 0..BLOCK_SIZE - 1 /\ i - 1 = q * BLOCK_SIZE + r
  BY <1>0, BlockSize, DivMod
<1>2. SlotOf(i) = q + 1 /\ PlaceOf(i) = r + 1
  BY DEF SlotOf, PlaceOf, Quot, Rem
<1> HIDE DEF q, r
<1>3. q * BLOCK_SIZE \in Nat
  BY <1>1, BlockSize
<1>4. (q + 1) * BLOCK_SIZE = q * BLOCK_SIZE + BLOCK_SIZE
  BY <1>1, BlockSize, TimesNext
<1>5. SlotOf(i) - 1 = q
  BY <1>1, <1>2
<1> QED
  BY <1>1, <1>2, <1>3, <1>4, <1>5, BlockSize

\* No other slot has byte i.
LEMMA SlotUnique ==
    ASSUME NEW s \in Nat \ {0}, NEW i \in Nat,
           (s - 1) * BLOCK_SIZE < i, i <= s * BLOCK_SIZE
    PROVE  SlotOf(i) = s /\ PlaceOf(i) = i - (s - 1) * BLOCK_SIZE
<1> DEFINE q == s - 1
           r == i - 1 - q * BLOCK_SIZE
<1>1. q \in Nat /\ q * BLOCK_SIZE \in Nat
  BY BlockSize
<1>2. (q + 1) * BLOCK_SIZE = q * BLOCK_SIZE + BLOCK_SIZE /\ q + 1 = s
  BY <1>1, BlockSize, TimesNext
<1>3. r \in 0..BLOCK_SIZE - 1
  BY <1>1, <1>2, BlockSize
<1>4. i - 1 = q * BLOCK_SIZE + r
  BY <1>1
<1>5. Quot(q * BLOCK_SIZE + r, BLOCK_SIZE) = q /\ Rem(q * BLOCK_SIZE + r, BLOCK_SIZE) = r
  <2> HIDE DEF q, r
  <2> QED
    BY <1>1, <1>3, BlockSize, DivUnique
<1>6. Quot(i - 1, BLOCK_SIZE) = q /\ Rem(i - 1, BLOCK_SIZE) = r
  BY <1>4, <1>5, Zenon
<1>7. SlotOf(i) = q + 1 /\ PlaceOf(i) = r + 1
  BY <1>6 DEF SlotOf, PlaceOf, Quot, Rem
<1> QED
  BY <1>1, <1>7

\* Slots follow each other as the bytes do.
LEMMA SlotMonotone ==
    ASSUME NEW i \in Nat \ {0}, NEW j \in Nat \ {0}, i <= j
    PROVE  SlotOf(i) <= SlotOf(j)
<1> DEFINE p == SlotOf(i) - 1
           q == SlotOf(j)
<1>1. p \in Nat /\ q \in Nat /\ p * BLOCK_SIZE < i /\ j <= q * BLOCK_SIZE
  BY SlotRange
<1>2. SlotOf(i) = p + 1
  BY SlotRange
<1> HIDE DEF p, q
<1>3. p * BLOCK_SIZE < q * BLOCK_SIZE
  BY <1>1, BlockSize
<1>4. p < q
  BY <1>1, <1>3, BlockSize, TimesLess
<1> QED
  BY <1>1, <1>2, <1>4 DEF q

\* Bytes moved by whole blocks move by as many slots, and keep their places.
LEMMA SlotShift ==
    ASSUME NEW at \in Nat, NEW j \in Nat \ {0}
    PROVE  /\ at * BLOCK_SIZE + j \in Nat
           /\ SlotOf(at * BLOCK_SIZE + j) = at + SlotOf(j)
           /\ PlaceOf(at * BLOCK_SIZE + j) = PlaceOf(j)
<1> DEFINE s == SlotOf(j)
           i == at * BLOCK_SIZE + j
<1>1. /\ s \in Nat \ {0} /\ (s - 1) * BLOCK_SIZE < j /\ j <= s * BLOCK_SIZE
      /\ PlaceOf(j) \in 1..BLOCK_SIZE /\ j = (s - 1) * BLOCK_SIZE + PlaceOf(j)
  BY SlotRange
<1> HIDE DEF s
<1>2. /\ at * BLOCK_SIZE \in Nat
      /\ ((at + s) - 1) * BLOCK_SIZE = at * BLOCK_SIZE + (s - 1) * BLOCK_SIZE
      /\ (at + s) * BLOCK_SIZE = at * BLOCK_SIZE + s * BLOCK_SIZE
      /\ (s - 1) * BLOCK_SIZE \in Nat /\ s * BLOCK_SIZE \in Nat
  BY <1>1, BlockSize
<1>3. i \in Nat /\ at + s \in Nat \ {0}
  BY <1>1, <1>2
<1>4. ((at + s) - 1) * BLOCK_SIZE < i /\ i <= (at + s) * BLOCK_SIZE
  BY <1>1, <1>2
<1>5. SlotOf(i) = at + s /\ PlaceOf(i) = i - ((at + s) - 1) * BLOCK_SIZE
  <2> HIDE DEF i
  <2> DEFINE t == at + s
  <2>1. t \in Nat \ {0} /\ (t - 1) * BLOCK_SIZE < i /\ i <= t * BLOCK_SIZE
    BY <1>1, <1>3, <1>4, Zenon
  <2> HIDE DEF t
  <2>2. SlotOf(i) = t /\ PlaceOf(i) = i - (t - 1) * BLOCK_SIZE
    BY <1>3, <2>1, SlotUnique
  <2> QED
    BY <2>2, Zenon DEF t
<1>6. i - ((at + s) - 1) * BLOCK_SIZE = PlaceOf(j)
  BY <1>1, <1>2, BlockSize
<1> QED
  BY <1>3, <1>5, <1>6 DEF s

\* Every slot that a buffer is stored at has one of the bytes of its request.
LEMMA Met ==
    ASSUME NEW first \in Nat, NEW size \in Nat \ {0},
           NEW s \in Quot(first, BLOCK_SIZE) + 1..Quot(first, BLOCK_SIZE) + NumBuffers(size)
    PROVE  \E j \in first + 1..first + size : SlotOf(j) = s
<1> DEFINE at == Quot(first, BLOCK_SIZE)
           r == Rem(first, BLOCK_SIZE)
           n == NumBuffers(size)
<1>1. at \in Nat /\ r \in 0..BLOCK_SIZE - 1 /\ first = at * BLOCK_SIZE + r
  BY BlockSize, DivMod
<1>2. n \in Nat \ {0} /\ (n - 1) * BLOCK_SIZE < size
  BY Buffers
<1>3. s \in at + 1..at + n
  OBVIOUS
<1> HIDE DEF at, r, n
<1>4. s \in Nat \ {0} /\ s - 1 \in Nat
  BY <1>1, <1>2, <1>3
<1>5. /\ at * BLOCK_SIZE \in Nat /\ (s - 1) * BLOCK_SIZE \in Nat
      /\ s * BLOCK_SIZE = (s - 1) * BLOCK_SIZE + BLOCK_SIZE
      /\ (at + 1) * BLOCK_SIZE = at * BLOCK_SIZE + BLOCK_SIZE
      /\ (at + (n - 1)) * BLOCK_SIZE = at * BLOCK_SIZE + (n - 1) * BLOCK_SIZE
      /\ (n - 1) * BLOCK_SIZE \in Nat
  BY <1>1, <1>2, <1>4, BlockSize
<1>6. CASE s = at + 1
  <2>1. s - 1 = at
    BY <1>1, <1>6
  <2>2. (s - 1) * BLOCK_SIZE < first + 1 /\ first + 1 <= s * BLOCK_SIZE
    BY <2>1, <1>1, <1>5, BlockSize
  <2>3. SlotOf(first + 1) = s
    <3> DEFINE j == first + 1
    <3>1. j \in Nat /\ (s - 1) * BLOCK_SIZE < j /\ j <= s * BLOCK_SIZE
      BY <2>2
    <3> HIDE DEF j
    <3>2. SlotOf(j) = s
      BY <3>1, <1>4, SlotUnique
    <3> QED
      BY <3>2 DEF j
  <2> QED
    BY <2>3
<1>7. CASE at + 1 < s
  <2> DEFINE j == (s - 1) * BLOCK_SIZE + 1
  <2>1. j \in Nat /\ (s - 1) * BLOCK_SIZE < j /\ j <= s * BLOCK_SIZE
    BY <1>5, BlockSize
  <2>2. (at + 1) * BLOCK_SIZE <= (s - 1) * BLOCK_SIZE
    <3>1. at + 1 \in Nat /\ at + 1 <= s - 1
      BY <1>1, <1>4, <1>7
    <3> QED
      BY <3>1, <1>4, BlockSize, TimesMonotone
  <2>3. (s - 1) * BLOCK_SIZE <= (at + (n - 1)) * BLOCK_SIZE
    <3>1. at + (n - 1) \in Nat /\ s - 1 <= at + (n - 1)
      BY <1>1, <1>2, <1>3, <1>4
    <3> QED
      BY <3>1, <1>4, BlockSize, TimesMonotone
  <2>4. j \in first + 1..first + size
    BY <2>1, <2>2, <2>3, <1>1, <1>2, <1>5, BlockSize
  <2> HIDE DEF j
  <2>5. SlotOf(j) = s
    BY <2>1, <1>4, SlotUnique
  <2> QED
    BY <2>4, <2>5
<1> QED
  BY <1>1, <1>2, <1>3, <1>6, <1>7

-----------------------------------------------------------------------------
(***************************************************************************)
(* The parts of a write.                                                   *)
(***************************************************************************)

\* What is cut out of memory are blocks.
LEMMA Blocks ==
    ASSUME NEW n \in Nat, NEW memory \in Seq(Bytes), Len(memory) = n * BLOCK_SIZE
    PROVE  /\ BlocksFrom(memory, n) \in [1..n -> Block]
           /\ \A i \in 1..n, k \in 1..BLOCK_SIZE :
                /\ (i - 1) * BLOCK_SIZE + k \in 1..n * BLOCK_SIZE
                /\ BlocksFrom(memory, n)[i][k] = memory[(i - 1) * BLOCK_SIZE + k]
<1>1. SUFFICES ASSUME NEW i \in 1..n
               PROVE  LET block == SubstrOfVect(memory, (i - 1) * BLOCK_SIZE, i * BLOCK_SIZE)
                      IN  /\ block \in Block
                          /\ \A k \in 1..BLOCK_SIZE :
                                /\ (i - 1) * BLOCK_SIZE + k \in 1..n * BLOCK_SIZE
                                /\ block[k] = memory[(i - 1) * BLOCK_SIZE + k]
  BY DEF BlocksFrom
<1> DEFINE from == (i - 1) * BLOCK_SIZE
           to == i * BLOCK_SIZE
<1>2. from \in Nat /\ to = from + BLOCK_SIZE
  BY BlockSize
<1>3. to <= n * BLOCK_SIZE
  BY BlockSize, TimesMonotone
<1>4. SubstrOfVect(memory, from, to) = SubSeq(memory, from + 1, to)
  BY DEF SubstrOfVect
<1>5. n * BLOCK_SIZE \in Nat
  BY BlockSize
<1> HIDE DEF from, to
<1>6. \A k \in 1..BLOCK_SIZE : from + k \in 1..Len(memory) /\ from + k \in 1..n * BLOCK_SIZE
  BY <1>2, <1>3, <1>5, BlockSize
<1>7. SubSeq(memory, from + 1, to) = [k \in 1..BLOCK_SIZE |-> memory[from + k]]
  BY <1>2, <1>3, <1>5, <1>6, BlockSize
<1>8. \A k \in 1..BLOCK_SIZE : memory[from + k] \in Bytes
  BY <1>6
<1> QED
  BY <1>4, <1>6, <1>7, <1>8 DEF Block, from, to

\* What is stored by a write at slot "at": the new blocks, the old ones
\* elsewhere, and holes up to them.
LEMMA Overlaid ==
    ASSUME TypeOK, NEW at \in Nat, NEW n \in Nat \ {0}, NEW new \in [1..n -> Block]
    PROVE  /\ Overlay(at, new) \in Seq(Block \cup {Hole})
           /\ \A s \in DOMAIN slots : s \in DOMAIN Overlay(at, new)
           /\ \A s \in DOMAIN Overlay(at, new) : s \in DOMAIN slots \/ s \in 1..at + n
           /\ \A s \in at + 1..at + n :
                /\ s \in DOMAIN Overlay(at, new)
                /\ s - at \in 1..n
                /\ Overlay(at, new)[s] = new[s - at]
           /\ \A s \in DOMAIN slots :
                s \notin at + 1..at + n => Overlay(at, new)[s] = slots[s]
<1> DEFINE len == IF at + n < Len(slots) THEN Len(slots) ELSE at + n
<1>1. Len(new) = n
  OBVIOUS
<1>2. Len(slots) \in Nat /\ DOMAIN slots = 1..Len(slots)
  BY DEF TypeOK
<1>3. len \in Nat /\ Len(slots) <= len /\ at + n <= len
  BY <1>2
<1>4. Overlay(at, new) = [s \in 1..len |->
            IF s \in at + 1..at + n THEN new[s - at]
            ELSE IF s \in DOMAIN slots THEN slots[s] ELSE Hole]
  BY <1>1 DEF Overlay
<1>5. len = Len(slots) \/ len = at + n
  OBVIOUS
<1> HIDE DEF len
<1>6. \A s \in at + 1..at + n : s \in 1..len /\ s - at \in 1..n /\ new[s - at] \in Block
  BY <1>3
<1>7. \A s \in DOMAIN slots : s \in 1..len /\ slots[s] \in Block \cup {Hole}
  BY <1>2, <1>3 DEF TypeOK
<1>8. Overlay(at, new) \in [1..len -> Block \cup {Hole}]
  BY <1>4, <1>6, <1>7
<1>9. Overlay(at, new) \in Seq(Block \cup {Hole}) /\ DOMAIN Overlay(at, new) = 1..len
  BY <1>3, <1>8
<1>10. \A s \in DOMAIN Overlay(at, new) : s \in DOMAIN slots \/ s \in 1..at + n
  BY <1>2, <1>5, <1>9
<1> QED
  BY <1>4, <1>6, <1>7, <1>9, <1>10

\* The blocks of a request that begins at byte "first" are stored, from the
\* slot of that byte on, and every byte of the buffer is at its place in
\* them.
Stored(first, buf, new) ==
    /\ new \in [1..NumBuffers(Len(buf)) -> Block]
    /\ slots' = Overlay(Quot(first, BLOCK_SIZE), new)
    /\ \A j \in 1..Len(buf) :
        /\ SlotOf(j) \in 1..NumBuffers(Len(buf))
        /\ new[SlotOf(j)][PlaceOf(j)] = buf[j]

\* What qfs_write does: nothing if the buffer begins with NUL, else its blocks
\* are stored from the slot of its first byte on.
LEMMA WriteIs ==
    ASSUME TypeOK, NEW append \in BOOLEAN, NEW offset \in Offsets, NEW size \in Sizes,
           NEW buf \in [1..size -> Bytes], Write(append, offset, buf)
    PROVE  /\ size \in Nat \ {0} /\ Len(buf) = size
           /\ \E first \in Nat :
                /\ SlotOf(first + size) <= MaxSlots
                /\ touched' = first + 1..first + size
                /\ Promise(first, buf, first % BLOCK_SIZE = 0 /\ buf[1] # 0)
                /\ IF buf[1] = 0 THEN slots' = slots
                   ELSE \E new : Stored(first, buf, new)
<1> DEFINE at == IF append THEN Len(slots) ELSE FirstSlot(offset)
           first == IF append THEN Len(slots) * BLOCK_SIZE ELSE offset
<1>1. size \in Nat \ {0} /\ Len(buf) = size /\ buf \in Seq(Bytes)
  BY BytesAssumption
<1>2. offset \in Nat /\ Len(slots) \in Nat
  BY BytesAssumption DEF TypeOK
<1>3. first \in Nat
  BY <1>2, BlockSize
<1>4. at = Quot(first, BLOCK_SIZE)
  <2>1. CASE append
    BY <2>1, <1>2, BlockSize, DivMultiple
  <2>2. CASE ~append
    BY <2>2, <1>2, FirstSlotIs
  <2> QED
    BY <2>1, <2>2
<1>5. /\ SlotOf(first + Len(buf)) <= MaxSlots
      /\ \E junk \in Junk(Len(buf)) :
            slots' = IF buf[1] = 0 THEN slots
                     ELSE Overlay(at, BlocksFrom(buf \o junk, NumBuffers(Len(buf))))
      /\ Promise(first, buf, first % BLOCK_SIZE = 0 /\ buf[1] # 0)
      /\ touched' = first + 1..first + Len(buf)
  BY Zenon DEF Write
<1> HIDE DEF at, first
<1>6. IF buf[1] = 0 THEN slots' = slots ELSE \E new : Stored(first, buf, new)
  <2>1. PICK junk \in Junk(Len(buf)) :
            slots' = IF buf[1] = 0 THEN slots
                     ELSE Overlay(at, BlocksFrom(buf \o junk, NumBuffers(Len(buf))))
    BY <1>5
  <2>2. CASE buf[1] # 0
    <3> DEFINE n == NumBuffers(size)
               memory == buf \o junk
               new == BlocksFrom(memory, n)
    <3>1. n \in Nat \ {0} /\ size <= n * BLOCK_SIZE /\ n * BLOCK_SIZE \in Nat
      BY <1>1, Buffers, BlockSize
    <3>2. junk \in Seq(Bytes) /\ Len(junk) = n * BLOCK_SIZE - size
      <4>1. junk \in [1..n * BLOCK_SIZE - size -> Bytes]
        BY <1>1 DEF Junk
      <4> HIDE DEF n
      <4>2. n * BLOCK_SIZE - size \in Nat
        BY <1>1, <3>1
      <4> QED
        BY <4>1, <4>2
    <3>3. /\ memory \in Seq(Bytes) /\ Len(memory) = n * BLOCK_SIZE
          /\ \A j \in 1..size : memory[j] = buf[j]
      <4> HIDE DEF n
      <4> QED
        BY <1>1, <3>1, <3>2
    <3>4. slots' = Overlay(at, new)
      BY <2>1, <2>2, <1>1
    <3> HIDE DEF n, memory
    <3>5. /\ new \in [1..n -> Block]
          /\ \A i \in 1..n, k \in 1..BLOCK_SIZE :
                new[i][k] = memory[(i - 1) * BLOCK_SIZE + k]
      BY <3>1, <3>3, Blocks
    <3> HIDE DEF new
    <3>6. ASSUME NEW j \in 1..size
          PROVE  SlotOf(j) \in 1..n /\ new[SlotOf(j)][PlaceOf(j)] = buf[j]
      <4>1. /\ SlotOf(j) \in Nat \ {0} /\ (SlotOf(j) - 1) * BLOCK_SIZE < j
            /\ PlaceOf(j) \in 1..BLOCK_SIZE
            /\ j = (SlotOf(j) - 1) * BLOCK_SIZE + PlaceOf(j)
        BY <1>1, SlotRange
      <4> DEFINE q == SlotOf(j) - 1
      <4>2. q \in Nat /\ q * BLOCK_SIZE < j
        BY <4>1
      <4> HIDE DEF q
      <4>3. q * BLOCK_SIZE < n * BLOCK_SIZE
        BY <4>2, <3>1, <1>1, BlockSize
      <4>4. q < n
        BY <4>2, <4>3, <3>1, BlockSize, TimesLess
      <4>5. SlotOf(j) \in 1..n
        BY <4>1, <4>2, <4>4, <3>1 DEF q
      <4> QED
        BY <4>1, <4>5, <3>3, <3>5
    <3>7. Stored(first, buf, new)
      BY <1>1, <1>4, <3>4, <3>5, <3>6 DEF Stored, n
    <3> QED
      BY <2>2, <3>7
  <2> QED
    BY <2>1, <2>2
<1> QED
  BY <1>1, <1>3, <1>5, <1>6

-----------------------------------------------------------------------------
(***************************************************************************)
(* Type correctness.                                                       *)
(***************************************************************************)

\* The bytes of a request that fits are positions of the file.
LEMMA RequestFits ==
    ASSUME NEW first \in Nat, NEW size \in Nat \ {0}, SlotOf(first + size) <= MaxSlots
    PROVE  first + 1..first + size \subseteq Positions
<1> DEFINE last == first + size
<1>1. last \in Nat \ {0}
  OBVIOUS
<1>2. SlotOf(last) \in Nat \ {0} /\ last <= SlotOf(last) * BLOCK_SIZE
  BY <1>1, SlotRange
<1>3. SlotOf(last) * BLOCK_SIZE <= MaxSlots * BLOCK_SIZE /\ MaxSlots * BLOCK_SIZE \in Nat
  BY <1>2, BytesAssumption, BlockSize, TimesMonotone
<1>4. last <= MaxSlots * BLOCK_SIZE
  <2> HIDE DEF last
  <2>1. SlotOf(last) * BLOCK_SIZE \in Nat
    BY <1>2, BlockSize
  <2> QED
    BY <1>1, <1>2, <1>3, <2>1
<1> QED
  BY <1>3, <1>4 DEF Positions

\* The positions are natural numbers from 1.
LEMMA PositionsAreNumbers == Positions \subseteq Nat \ {0}
<1>1. MaxSlots * BLOCK_SIZE \in Nat
  BY BytesAssumption, BlockSize
<1> QED
  BY <1>1 DEF Positions

\* A write keeps the types.
LEMMA TypeWrite ==
    ASSUME TypeOK, NEW append \in BOOLEAN, NEW offset \in Offsets, NEW size \in Sizes,
           NEW buf \in [1..size -> Bytes], Write(append, offset, buf)
    PROVE  TypeOK'
<1>1. size \in Nat \ {0} /\ Len(buf) = size
  BY WriteIs
<1>2. PICK first \in Nat :
        /\ SlotOf(first + size) <= MaxSlots
        /\ touched' = first + 1..first + size
        /\ Promise(first, buf, first % BLOCK_SIZE = 0 /\ buf[1] # 0)
        /\ IF buf[1] = 0 THEN slots' = slots ELSE \E new : Stored(first, buf, new)
  BY WriteIs
<1>3. slots' \in Seq(Block \cup {Hole})
  <2>1. CASE buf[1] = 0
    BY <2>1, <1>2 DEF TypeOK
  <2>2. CASE buf[1] # 0
    <3>1. PICK new : Stored(first, buf, new)
      BY <2>2, <1>2
    <3>2. Quot(first, BLOCK_SIZE) \in Nat /\ NumBuffers(Len(buf)) \in Nat \ {0}
      BY <1>1, BlockSize, DivMod, Buffers
    <3> QED
      BY <3>1, <3>2, Overlaid DEF Stored
  <2> QED
    BY <2>1, <2>2
<1>4. promised' \in [Positions -> Bytes \cup {Unsure}]
  <2>1. \A i \in first + 1..first + Len(buf) : buf[i - first] \in Bytes
    BY <1>1
  <2>2. \A i \in Positions : promised[i] \in Bytes \cup {Unsure}
    BY DEF TypeOK
  <2> QED
    BY <1>2, <2>1, <2>2 DEF Promise
<1>5. touched' \subseteq Positions
  BY <1>1, <1>2, RequestFits
<1> QED
  BY <1>3, <1>4, <1>5 DEF TypeOK

\* So does every step.
LEMMA TypeNext == ASSUME TypeOK, [Next]_vars PROVE TypeOK'
<1>1. CASE Next
  <2>1. CASE Truncate
    BY <2>1 DEF Truncate, TypeOK
  <2>2. CASE \E append \in BOOLEAN, offset \in Offsets, size \in Sizes :
                \E buf \in [1..size -> Bytes] : Write(append, offset, buf)
    BY <2>2, TypeWrite
  <2> QED
    BY <1>1, <2>1, <2>2 DEF Next
<1>2. CASE UNCHANGED vars
  BY <1>2 DEF vars, TypeOK
<1> QED
  BY <1>1, <1>2

\* qfs_write leaves whole blocks and holes in the raw file, cut from the
\* buffer and from what follows it in memory, at any offset, of any size, with
\* blocks and digests of any size; the bytes of a request are positions of the
\* file.
THEOREM BytesTypeCorrect == Spec => []TypeOK
<1>1. Init => TypeOK
  BY DEF Init, TypeOK
<1>2. TypeOK /\ [Next]_vars => TypeOK'
  BY TypeNext
<1> QED
  BY <1>1, <1>2, PTL DEF Spec

-----------------------------------------------------------------------------
(***************************************************************************)
(* What a write keeps.                                                     *)
(***************************************************************************)

\* A write keeps the bytes it was for, when it begins at a block, and those
\* of the blocks it does not meet.
LEMMA PromisesWrite ==
    ASSUME TypeOK, PromisesKept,
           NEW append \in BOOLEAN, NEW offset \in Offsets, NEW size \in Sizes,
           NEW buf \in [1..size -> Bytes], Write(append, offset, buf)
    PROVE  PromisesKept'
<1>1. size \in Nat \ {0} /\ Len(buf) = size
  BY WriteIs
<1>2. PICK first \in Nat :
        /\ SlotOf(first + size) <= MaxSlots
        /\ touched' = first + 1..first + size
        /\ Promise(first, buf, first % BLOCK_SIZE = 0 /\ buf[1] # 0)
        /\ IF buf[1] = 0 THEN slots' = slots ELSE \E new : Stored(first, buf, new)
  BY WriteIs
<1> DEFINE at == Quot(first, BLOCK_SIZE)
           n == NumBuffers(size)
           kept == first % BLOCK_SIZE = 0 /\ buf[1] # 0
<1>3. at \in Nat /\ n \in Nat \ {0}
  BY <1>1, BlockSize, DivMod, Buffers
<1>4. SUFFICES ASSUME NEW i \in Positions, promised'[i] # Unsure
               PROVE  /\ SlotOf(i) \in DOMAIN slots'
                      /\ slots'[SlotOf(i)] # Hole
                      /\ PlaceOf(i) \in DOMAIN slots'[SlotOf(i)]
                      /\ slots'[SlotOf(i)][PlaceOf(i)] = promised'[i]
  BY Zenon DEF PromisesKept, Holds, PlaceOf, SlotOf, Positions
<1>5. i \in Nat \ {0}
  BY PositionsAreNumbers
<1>6. promised'[i] =
        IF kept /\ i \in first + 1..first + size THEN buf[i - first]
        ELSE IF \E j \in first + 1..first + size : SlotOf(i) = SlotOf(j) THEN Unsure
        ELSE promised[i]
  BY <1>1, <1>2 DEF Promise
<1> HIDE DEF at, n, kept
<1>7. CASE kept /\ i \in first + 1..first + size
  <2>1. PICK new : Stored(first, buf, new)
    BY <1>2, <1>7 DEF kept
  <2>2. new \in [1..n -> Block] /\ slots' = Overlay(at, new)
    BY <2>1, <1>1 DEF Stored, at, n
  <2> DEFINE j == i - first
  <2>3. j \in 1..size /\ j \in Nat \ {0}
    BY <1>1, <1>5, <1>7
  <2>4. first = at * BLOCK_SIZE
    <3>1. first = at * BLOCK_SIZE + Rem(first, BLOCK_SIZE)
      BY BlockSize, DivMod DEF at
    <3>2. Rem(first, BLOCK_SIZE) = 0
      BY <1>7 DEF kept, Rem
    <3>3. at * BLOCK_SIZE \in Nat
      BY <1>3, BlockSize
    <3> QED
      BY <3>1, <3>2, <3>3
  <2>5. i = at * BLOCK_SIZE + j
    <3>1. i = first + j
      BY <1>5
    <3> HIDE DEF j
    <3> QED
      BY <3>1, <2>4
  <2> HIDE DEF j
  <2>6. SlotOf(i) = at + SlotOf(j) /\ PlaceOf(i) = PlaceOf(j)
    BY <2>3, <2>5, <1>3, SlotShift
  <2>7. SlotOf(j) \in 1..n /\ new[SlotOf(j)][PlaceOf(j)] = buf[j]
    BY <2>1, <2>3, <1>1 DEF Stored, n
  <2>8. SlotOf(i) \in at + 1..at + n /\ SlotOf(i) - at = SlotOf(j)
    BY <2>6, <2>7, <1>3
  <2>9. SlotOf(i) \in DOMAIN slots' /\ slots'[SlotOf(i)] = new[SlotOf(j)]
    <3>1. \A s \in at + 1..at + n : s \in DOMAIN slots' /\ slots'[s] = new[s - at]
      BY <2>2, <1>3, Overlaid
    <3> QED
      BY <3>1, <2>8
  <2>10. new[SlotOf(j)] \in Block /\ PlaceOf(j) \in 1..BLOCK_SIZE
    BY <2>2, <2>3, <2>7, SlotRange
  <2>11. slots'[SlotOf(i)] # Hole /\ DOMAIN slots'[SlotOf(i)] = 1..BLOCK_SIZE
    <3>1. \A block \in Block : block # Hole /\ DOMAIN block = 1..BLOCK_SIZE
      BY BytesAssumption DEF Block
    <3> QED
      BY <3>1, <2>9, <2>10, Zenon
  <2>12. promised'[i] = buf[j]
    BY <1>6, <1>7 DEF j
  <2> QED
    BY <2>6, <2>7, <2>9, <2>10, <2>11, <2>12
<1>8. CASE ~(kept /\ i \in first + 1..first + size)
  <2>1. /\ promised'[i] = promised[i]
        /\ ~\E j \in first + 1..first + size : SlotOf(i) = SlotOf(j)
    BY <1>4, <1>6, <1>8
  <2>2. /\ SlotOf(i) \in DOMAIN slots
        /\ slots[SlotOf(i)] # Hole
        /\ PlaceOf(i) \in DOMAIN slots[SlotOf(i)]
        /\ slots[SlotOf(i)][PlaceOf(i)] = promised[i]
    <3>1. promised[i] # Unsure
      BY <2>1, <1>4
    <3>2. Holds(i, promised[i])
      BY <3>1 DEF PromisesKept
    <3> QED
      BY <3>2, Zenon DEF Holds, PlaceOf
  <2>3. CASE slots' = slots
    BY <2>1, <2>2, <2>3
  <2>4. CASE \E new : Stored(first, buf, new)
    <3>1. PICK new : Stored(first, buf, new)
      BY <2>4
    <3>2. new \in [1..n -> Block] /\ slots' = Overlay(at, new)
      BY <3>1, <1>1 DEF Stored, at, n
    <3>3. SlotOf(i) \notin at + 1..at + n
      BY <2>1, <1>1, Met DEF at, n
    <3>4. SlotOf(i) \in DOMAIN slots' /\ slots'[SlotOf(i)] = slots[SlotOf(i)]
      BY <2>2, <3>2, <3>3, <1>3, Overlaid
    <3> QED
      BY <2>1, <2>2, <3>4
  <2> QED
    BY <1>2, <2>3, <2>4
<1> QED
  BY <1>7, <1>8

\* Truncation promises nothing.
LEMMA PromisesNext == ASSUME TypeOK, PromisesKept, [Next]_vars PROVE PromisesKept'
<1>1. CASE Next
  <2>1. CASE Truncate
    BY <2>1 DEF Truncate, PromisesKept
  <2>2. CASE \E append \in BOOLEAN, offset \in Offsets, size \in Sizes :
                \E buf \in [1..size -> Bytes] : Write(append, offset, buf)
    BY <2>2, PromisesWrite
  <2> QED
    BY <1>1, <2>1, <2>2 DEF Next
<1>2. CASE UNCHANGED vars
  BY <1>2 DEF vars, PromisesKept, Holds
<1> QED
  BY <1>1, <1>2

\* What a write at a block stored is what the block of each of its bytes
\* holds, through any sequence of later requests that do not meet the block:
\* the offsets and sizes that qfs_write computes never let one request
\* disturb the bytes of another, whatever the sizes of blocks and digests.
THEOREM PromisesAlwaysKept == Spec => []PromisesKept
<1>1. Init => PromisesKept
  BY DEF Init, PromisesKept
<1>2. TypeOK /\ PromisesKept /\ [Next]_vars => PromisesKept'
  BY PromisesNext
<1> QED
  BY <1>1, <1>2, BytesTypeCorrect, PTL DEF Spec

-----------------------------------------------------------------------------
(***************************************************************************)
(* How far a write reaches.                                                *)
(***************************************************************************)

\* A slot that a write changed, or added, is one of its blocks or lies in
\* the hole before them.
LEMMA RangeWrite ==
    ASSUME TypeOK, NEW append \in BOOLEAN, NEW offset \in Offsets, NEW size \in Sizes,
           NEW buf \in [1..size -> Bytes], Write(append, offset, buf),
           NEW s \in DOMAIN slots \cup DOMAIN slots'
    PROVE  \/ s \in DOMAIN slots /\ s \in DOMAIN slots' /\ slots'[s] = slots[s]
           \/ \E i \in touched' : s <= SlotOf(i) /\ (s \in DOMAIN slots => s = SlotOf(i))
<1>1. size \in Nat \ {0} /\ Len(buf) = size
  BY WriteIs
<1>2. PICK first \in Nat :
        /\ SlotOf(first + size) <= MaxSlots
        /\ touched' = first + 1..first + size
        /\ Promise(first, buf, first % BLOCK_SIZE = 0 /\ buf[1] # 0)
        /\ IF buf[1] = 0 THEN slots' = slots ELSE \E new : Stored(first, buf, new)
  BY WriteIs
<1> DEFINE at == Quot(first, BLOCK_SIZE)
           n == NumBuffers(size)
<1>3. at \in Nat /\ n \in Nat \ {0}
  BY <1>1, BlockSize, DivMod, Buffers
<1>4. CASE slots' = slots
  BY <1>4
<1>5. CASE \E new : Stored(first, buf, new)
  <2>1. PICK new : Stored(first, buf, new)
    BY <1>5
  <2>2. new \in [1..n -> Block] /\ slots' = Overlay(at, new)
    BY <2>1, <1>1 DEF Stored
  <2>3. \A t \in at + 1..at + n : \E j \in first + 1..first + size : SlotOf(j) = t
    BY <1>1, Met
  <2> HIDE DEF at, n
  <2>4. /\ \A t \in DOMAIN slots : t \in DOMAIN slots'
        /\ \A t \in DOMAIN slots' : t \in DOMAIN slots \/ t \in 1..at + n
        /\ \A t \in DOMAIN slots : t \notin at + 1..at + n => slots'[t] = slots[t]
    BY <2>2, <1>3, Overlaid
  <2>5. CASE s \in at + 1..at + n
    <3>1. PICK j \in first + 1..first + size : SlotOf(j) = s
      BY <2>3, <2>5
    <3>2. j \in touched' /\ s <= SlotOf(j)
      BY <3>1, <2>5, <1>2, <1>3
    <3> QED
      BY <3>1, <3>2
  <2>6. CASE s \in DOMAIN slots /\ s \notin at + 1..at + n
    BY <2>4, <2>6
  <2>7. CASE s \notin DOMAIN slots /\ s \notin at + 1..at + n
    <3>1. s \in Nat /\ s <= at + 1
      BY <2>4, <2>7, <1>3
    <3>2. at + 1 \in at + 1..at + n
      BY <1>3
    <3>3. PICK j \in first + 1..first + size : SlotOf(j) = at + 1
      BY <2>3, <3>2
    <3> QED
      BY <3>1, <3>3, <2>7, <1>2
  <2> QED
    BY <2>5, <2>6, <2>7
<1> QED
  BY <1>2, <1>4, <1>5

\* qfs_write changes the blocks that its bytes meet and no others, and makes
\* the raw file no longer than the block of its last byte: the size that it
\* computes for the raw file never reaches into another request's blocks.
THEOREM WritesStayInRange == Spec => WriteStaysInRange
<1> DEFINE InRange ==
        \A s \in DOMAIN slots \cup DOMAIN slots' :
            \/ s \in DOMAIN slots /\ s \in DOMAIN slots' /\ slots'[s] = slots[s]
            \/ \E i \in touched' : s <= SlotOf(i) /\ (s \in DOMAIN slots => s = SlotOf(i))
            \/ slots' = <<>>
<1>1. TypeOK /\ [Next]_vars => [InRange]_slots
  <2>1. ASSUME TypeOK, Next PROVE InRange
    <3>1. CASE Truncate
      BY <3>1 DEF Truncate
    <3>2. CASE \E append \in BOOLEAN, offset \in Offsets, size \in Sizes :
                  \E buf \in [1..size -> Bytes] : Write(append, offset, buf)
      BY <2>1, <3>2, RangeWrite
    <3> QED
      BY <2>1, <3>1, <3>2 DEF Next
  <2> QED
    BY <2>1 DEF vars
<1> QED
  BY <1>1, BytesTypeCorrect, PTL DEF Spec, WriteStaysInRange

-----------------------------------------------------------------------------
(***************************************************************************)
(* What a read puts together.  FlattenSeq appends piece after piece; what  *)
(* it has after m pieces is shown for every m by looking at the least m    *)
(* for which it would not hold.                                            *)
(***************************************************************************)

\* A set of numbers that is not empty has a least one.
LEMMA LeastNumber ==
    ASSUME NEW T, T \subseteq Nat, T # {}
    PROVE  \E m \in T : \A k \in T : m <= k
<1> DEFINE R == OpToRel(<, Nat)
<1>1. IsWellFoundedOn(R, Nat)
  BY NatLessThanWellFounded
<1>2. R = {pair \in Nat \X Nat : pair[1] < pair[2]}
  BY DEF OpToRel
<1> HIDE DEF R
<1>3. PICK m \in T : \A k \in T : <<k, m>> \notin R
  BY <1>1, WFMin
<1>4. \A k \in T : m \in Nat /\ k \in Nat /\ ~(k < m)
  BY <1>2, <1>3
<1>5. \A k \in T : m <= k
  BY <1>4
<1> QED
  BY <1>5

\* A set that has 0 and with each number the next one has them all.
LEMMA AllNumbers ==
    ASSUME NEW S, 0 \in S, \A m \in Nat : m \in S => m + 1 \in S
    PROVE  Nat \subseteq S
<1> DEFINE T == Nat \ S
<1>1. SUFFICES ASSUME T # {} PROVE FALSE
  OBVIOUS
<1>2. PICK m \in T : \A k \in T : m <= k
  <2>1. T \subseteq Nat
    OBVIOUS
  <2> HIDE DEF T
  <2> QED
    BY <1>1, <2>1, LeastNumber
<1>3. m \in Nat /\ m # 0
  BY <1>2
<1>4. m - 1 \in Nat /\ m - 1 \notin T /\ (m - 1) + 1 = m
  BY <1>2, <1>3
<1> QED
  BY <1>2, <1>4

\* The function that FlattenSeq computes, for the first n of the pieces.
Appends(f, pieces, n) ==
    f = [i \in 1..n |-> IF i = 1 THEN pieces[i] ELSE f[i - 1] \o pieces[i]]

\* There is such a function.
LEMMA AppendsExists ==
    ASSUME NEW pieces, NEW n \in Nat
    PROVE  \E f : Appends(f, pieces, n)
<1> DEFINE S == {m \in Nat : \E f : Appends(f, pieces, m)}
<1>1. 0 \in S
  <2> DEFINE f == [i \in 1..0 |-> 0]
  <2>1. Appends(f, pieces, 0)
    BY DEF Appends
  <2> QED
    BY <2>1, Zenon
<1>2. ASSUME NEW m \in Nat, m \in S PROVE m + 1 \in S
  <2>1. PICK g : Appends(g, pieces, m)
    BY <1>2
  <2> DEFINE last == IF m = 0 THEN pieces[m + 1] ELSE g[m] \o pieces[m + 1]
             f == [i \in 1..m + 1 |-> IF i <= m THEN g[i] ELSE last]
  <2>2. \A i \in 1..m : g[i] = IF i = 1 THEN pieces[i] ELSE g[i - 1] \o pieces[i]
    BY <2>1 DEF Appends
  <2> HIDE DEF last
  <2>3. ASSUME NEW i \in 1..m + 1
        PROVE  f[i] = IF i = 1 THEN pieces[i] ELSE f[i - 1] \o pieces[i]
    <3>1. CASE i <= m
      <4>1. f[i] = g[i] /\ i \in 1..m
        BY <3>1
      <4>2. i # 1 => f[i - 1] = g[i - 1]
        BY <3>1
      <4> HIDE DEF f
      <4> QED
        BY <4>1, <4>2, <2>2
    <3>2. CASE i = m + 1
      <4>1. f[i] = last
        BY <3>2
      <4>2. i # 1 => m # 0 /\ f[i - 1] = g[m]
        BY <3>2
      <4>3. i = 1 => m = 0
        BY <3>2
      <4> HIDE DEF f
      <4> QED
        BY <4>1, <4>2, <4>3, <3>2 DEF last
    <3> QED
      BY <3>1, <3>2
  <2>4. f = [i \in 1..m + 1 |-> f[i]]
    OBVIOUS
  <2> HIDE DEF f
  <2>5. Appends(f, pieces, m + 1)
    BY <2>3, <2>4 DEF Appends
  <2> QED
    BY <2>5
<1> HIDE DEF S
<1>3. n \in S
  BY <1>1, <1>2, AllNumbers
<1> QED
  BY <1>3 DEF S

\* FlattenSeq is its last value.
LEMMA Flattened ==
    ASSUME NEW pieces, NEW n \in Nat \ {0}, Len(pieces) = n
    PROVE  \E f : Appends(f, pieces, n) /\ FlattenSeq(pieces) = f[n]
<1> DEFINE f == CHOOSE g : Appends(g, pieces, n)
<1>1. Appends(f, pieces, n)
  BY AppendsExists, Zenon
<1>2. FlattenSeq(pieces) = f[n]
  BY DEF FlattenSeq, Appends
<1> QED
  BY <1>1, <1>2

\* As long as pieces have the size of a block, the contents that are put
\* together from m of them have each byte at the place of its block.
InOrder(contents, pieces, m) ==
    /\ contents \in Seq(Bytes)
    /\ \A c \in 1..m :
        (\A t \in 1..c : Len(pieces[t]) = BLOCK_SIZE) =>
            /\ c = m => Len(contents) = m * BLOCK_SIZE
            /\ \A t \in 1..c, k \in 1..BLOCK_SIZE :
                    /\ (t - 1) * BLOCK_SIZE + k \in 1..Len(contents)
                    /\ contents[(t - 1) * BLOCK_SIZE + k] = pieces[t][k]

\* The first piece is the contents.
LEMMA FirstInOrder ==
    ASSUME NEW pieces, pieces[1] \in Seq(Bytes)
    PROVE  InOrder(pieces[1], pieces, 1)
<1>1. ASSUME Len(pieces[1]) = BLOCK_SIZE, NEW k \in 1..BLOCK_SIZE
      PROVE  /\ (1 - 1) * BLOCK_SIZE + k \in 1..Len(pieces[1])
             /\ pieces[1][(1 - 1) * BLOCK_SIZE + k] = pieces[1][k]
  <2>1. (1 - 1) * BLOCK_SIZE + k = k
    BY BlockSize
  <2> QED
    BY <1>1, <2>1, BlockSize
<1>2. Len(pieces[1]) = BLOCK_SIZE => Len(pieces[1]) = 1 * BLOCK_SIZE
  BY BlockSize
<1> QED
  BY <1>1, <1>2 DEF InOrder

\* One more piece leaves the bytes before it where they are.
LEMMA NextInOrder ==
    ASSUME NEW pieces, NEW m \in Nat \ {0}, NEW contents,
           InOrder(contents, pieces, m), pieces[m + 1] \in Seq(Bytes)
    PROVE  InOrder(contents \o pieces[m + 1], pieces, m + 1)
<1> DEFINE new == contents \o pieces[m + 1]
<1>1. contents \in Seq(Bytes)
  BY DEF InOrder
<1>2. /\ new \in Seq(Bytes)
      /\ Len(new) = Len(contents) + Len(pieces[m + 1])
      /\ Len(contents) \in Nat /\ Len(pieces[m + 1]) \in Nat
      /\ \A i \in 1..Len(contents) : new[i] = contents[i]
      /\ \A i \in 1..Len(pieces[m + 1]) : new[Len(contents) + i] = pieces[m + 1][i]
  BY <1>1
<1> HIDE DEF new
<1>3. SUFFICES ASSUME NEW c \in 1..m + 1,
                      \A t \in 1..c : Len(pieces[t]) = BLOCK_SIZE
               PROVE  /\ c = m + 1 => Len(new) = (m + 1) * BLOCK_SIZE
                      /\ \A t \in 1..c, k \in 1..BLOCK_SIZE :
                            /\ (t - 1) * BLOCK_SIZE + k \in 1..Len(new)
                            /\ new[(t - 1) * BLOCK_SIZE + k] = pieces[t][k]
  BY <1>2 DEF InOrder, new
<1>4. ASSUME NEW d \in 1..m, d <= c, NEW t \in 1..d, NEW k \in 1..BLOCK_SIZE
      PROVE  /\ (t - 1) * BLOCK_SIZE + k \in 1..Len(new)
             /\ new[(t - 1) * BLOCK_SIZE + k] = pieces[t][k]
  <2>1. \A u \in 1..d : Len(pieces[u]) = BLOCK_SIZE
    BY <1>3, <1>4
  <2>2. /\ (t - 1) * BLOCK_SIZE + k \in 1..Len(contents)
        /\ contents[(t - 1) * BLOCK_SIZE + k] = pieces[t][k]
    BY <2>1 DEF InOrder
  <2> DEFINE at == (t - 1) * BLOCK_SIZE + k
  <2>3. at \in 1..Len(contents) /\ contents[at] = pieces[t][k]
    BY <2>2
  <2> HIDE DEF at
  <2>4. at \in 1..Len(new) /\ new[at] = pieces[t][k]
    BY <2>3, <1>2
  <2> QED
    BY <2>4 DEF at
<1>5. CASE c \in 1..m
  BY <1>4, <1>5
<1>6. CASE c = m + 1
  <2>1. m \in 1..m /\ m <= c /\ \A t \in 1..m : Len(pieces[t]) = BLOCK_SIZE
    BY <1>3, <1>6
  <2>2. Len(contents) = m * BLOCK_SIZE
    BY <2>1 DEF InOrder
  <2>3. Len(pieces[m + 1]) = BLOCK_SIZE
    BY <1>3, <1>6
  <2>4. (m + 1) * BLOCK_SIZE = m * BLOCK_SIZE + BLOCK_SIZE /\ m * BLOCK_SIZE \in Nat
    BY BlockSize
  <2>5. Len(new) = (m + 1) * BLOCK_SIZE
    BY <1>2, <2>2, <2>3, <2>4
  <2>6. ASSUME NEW t \in 1..c, NEW k \in 1..BLOCK_SIZE
        PROVE  /\ (t - 1) * BLOCK_SIZE + k \in 1..Len(new)
               /\ new[(t - 1) * BLOCK_SIZE + k] = pieces[t][k]
    <3>1. CASE t \in 1..m
      BY <3>1, <2>1, <1>4
    <3>2. CASE t = m + 1
      <4>1. (t - 1) * BLOCK_SIZE = Len(contents)
        <5>1. t - 1 = m
          BY <3>2
        <5> QED
          BY <5>1, <2>2
      <4>2. k \in 1..Len(pieces[m + 1]) /\ Len(contents) + k \in 1..Len(new)
        BY <1>2, <2>3, BlockSize
      <4> QED
        BY <4>1, <4>2, <1>2, <3>2
    <3> QED
      BY <3>1, <3>2, <1>6
  <2> QED
    BY <2>5, <2>6
<1> QED
  BY <1>5, <1>6

\* So FlattenSeq keeps the order, whatever the number of pieces.
LEMMA FlattenInOrder ==
    ASSUME NEW n \in Nat \ {0}, NEW pieces \in [1..n -> Seq(Bytes)]
    PROVE  InOrder(FlattenSeq(pieces), pieces, n)
<1>1. Len(pieces) = n
  OBVIOUS
<1>2. PICK f : Appends(f, pieces, n) /\ FlattenSeq(pieces) = f[n]
  BY <1>1, Flattened
<1>3. \A i \in 1..n : f[i] = IF i = 1 THEN pieces[i] ELSE f[i - 1] \o pieces[i]
  BY <1>2 DEF Appends
<1> DEFINE S == {m \in Nat : m \in 1..n => InOrder(f[m], pieces, m)}
<1>4. 0 \in S
  OBVIOUS
<1>5. ASSUME NEW m \in Nat, m \in S PROVE m + 1 \in S
  <2>1. SUFFICES ASSUME m + 1 \in 1..n PROVE InOrder(f[m + 1], pieces, m + 1)
    OBVIOUS
  <2>2. CASE m = 0
    <3>1. f[1] = pieces[1] /\ pieces[1] \in Seq(Bytes)
      BY <1>3
    <3>2. m + 1 = 1
      BY <2>2
    <3> QED
      BY <3>1, <3>2, FirstInOrder
  <2>3. CASE m # 0
    <3>1. m \in 1..n /\ m \in Nat \ {0} /\ m + 1 # 1 /\ (m + 1) - 1 = m
      BY <2>1, <2>3
    <3>2. InOrder(f[m], pieces, m)
      BY <1>5, <3>1
    <3>3. f[m + 1] = f[m] \o pieces[m + 1] /\ pieces[m + 1] \in Seq(Bytes)
      BY <2>1, <3>1, <1>3
    <3> QED
      BY <3>1, <3>2, <3>3, NextInOrder
  <2> QED
    BY <2>2, <2>3
<1>6. n \in S
  <2> HIDE DEF S
  <2> QED
    BY <1>4, <1>5, AllNumbers
<1> QED
  BY <1>2, <1>6

\* One lookup for every HASH_SIZE bytes is never too few: a block is at
\* least two digests long.
LEMMA EnoughHashes ==
    ASSUME NEW size \in Nat, size >= HASH_SIZE, NEW k \in 1..size
    PROVE  NumOfHashes(size) \in Nat \ {0} /\ SlotOf(k) \in 1..NumOfHashes(size)
<1> DEFINE n == Quot(size, HASH_SIZE)
           r == Rem(size, HASH_SIZE)
           q == SlotOf(k) - 1
<1>1. n \in Nat /\ r \in 0..HASH_SIZE - 1 /\ size = n * HASH_SIZE + r
  BY BlockSize, DivMod
<1>2. NumOfHashes(size) = n
  BY DEF NumOfHashes, Quot
<1>3. q \in Nat /\ SlotOf(k) = q + 1 /\ q * BLOCK_SIZE < k
  BY SlotRange
<1> HIDE DEF n, r, q
<1>4. n * HASH_SIZE \in Nat /\ q * HASH_SIZE \in Nat /\ q * BLOCK_SIZE \in Nat
  BY <1>1, <1>3, BlockSize
<1>5. n # 0
  <2>1. n = 0 => n * HASH_SIZE = 0
    BY BlockSize
  <2> QED
    BY <2>1, <1>1, BlockSize
<1>6. CASE n <= q
  <2>1. n * HASH_SIZE <= q * HASH_SIZE
    BY <1>1, <1>3, <1>6, BlockSize, TimesMonotone
  <2>2. HASH_SIZE <= q * HASH_SIZE
    <3>1. 1 * HASH_SIZE <= q * HASH_SIZE
      BY <1>1, <1>3, <1>5, <1>6, BlockSize, TimesMonotone
    <3> QED
      BY <3>1, BlockSize
  <2>3. q * HASH_SIZE + q * HASH_SIZE <= q * BLOCK_SIZE
    <3>1. (2 * HASH_SIZE) * q <= BLOCK_SIZE * q
      BY <1>3, BlockSize, BytesAssumption, TimesMonotone
    <3>2. (2 * HASH_SIZE) * q = q * HASH_SIZE + q * HASH_SIZE /\ BLOCK_SIZE * q = q * BLOCK_SIZE
      BY <1>3, BlockSize
    <3> QED
      BY <3>1, <3>2
  <2> QED
    BY <2>1, <2>2, <2>3, <1>1, <1>3, <1>4, BlockSize
<1>7. CASE q < n
  BY <1>1, <1>2, <1>3, <1>5, <1>7
<1> QED
  BY <1>1, <1>3, <1>6, <1>7

\* The contents have at least a digest's bytes for each of m pieces, and more
\* than for one further when one of them is a block.
AtLeast(contents, pieces, m) ==
    /\ contents \in Seq(Bytes)
    /\ Len(contents) >= m * HASH_SIZE
    /\ (\E t \in 1..m : Len(pieces[t]) = BLOCK_SIZE) => Len(contents) >= (m + 1) * HASH_SIZE

\* One more piece.
LEMMA NextAtLeast ==
    ASSUME NEW pieces, NEW m \in Nat, NEW contents, AtLeast(contents, pieces, m),
           pieces[m + 1] \in Seq(Bytes), Len(pieces[m + 1]) >= HASH_SIZE
    PROVE  AtLeast(contents \o pieces[m + 1], pieces, m + 1)
<1>1. contents \in Seq(Bytes) /\ Len(contents) >= m * HASH_SIZE
  BY DEF AtLeast
<1>2. /\ contents \o pieces[m + 1] \in Seq(Bytes)
      /\ Len(contents \o pieces[m + 1]) = Len(contents) + Len(pieces[m + 1])
      /\ Len(contents) \in Nat /\ Len(pieces[m + 1]) \in Nat
  BY <1>1
<1>3. /\ m * HASH_SIZE \in Nat
      /\ (m + 1) * HASH_SIZE = m * HASH_SIZE + HASH_SIZE
      /\ ((m + 1) + 1) * HASH_SIZE = m * HASH_SIZE + HASH_SIZE + HASH_SIZE
  BY BlockSize
<1>4. ASSUME NEW t \in 1..m + 1, Len(pieces[t]) = BLOCK_SIZE
      PROVE  Len(contents) + Len(pieces[m + 1]) >= ((m + 1) + 1) * HASH_SIZE
  <2>1. CASE t \in 1..m
    <3>1. Len(contents) >= (m + 1) * HASH_SIZE
      BY <1>4, <2>1 DEF AtLeast
    <3> QED
      BY <3>1, <1>2, <1>3, BlockSize
  <2>2. CASE t = m + 1
    BY <2>2, <1>1, <1>2, <1>3, <1>4, BlockSize, BytesAssumption
  <2> QED
    BY <2>1, <2>2
<1>5. Len(contents) + Len(pieces[m + 1]) >= (m + 1) * HASH_SIZE
  BY <1>1, <1>2, <1>3, BlockSize
<1> QED
  BY <1>2, <1>4, <1>5, Zenon DEF AtLeast

\* So FlattenSeq is no shorter, whatever the number of pieces.
LEMMA FlattenAtLeast ==
    ASSUME NEW n \in Nat \ {0}, NEW pieces \in [1..n -> Seq(Bytes)],
           \A t \in 1..n : Len(pieces[t]) >= HASH_SIZE
    PROVE  AtLeast(FlattenSeq(pieces), pieces, n)
<1>1. Len(pieces) = n
  OBVIOUS
<1>2. PICK f : Appends(f, pieces, n) /\ FlattenSeq(pieces) = f[n]
  BY <1>1, Flattened
<1>3. \A i \in 1..n : f[i] = IF i = 1 THEN pieces[i] ELSE f[i - 1] \o pieces[i]
  BY <1>2 DEF Appends
<1> DEFINE S == {m \in Nat : m \in 1..n => AtLeast(f[m], pieces, m)}
<1>4. 0 \in S
  OBVIOUS
<1>5. ASSUME NEW m \in Nat, m \in S PROVE m + 1 \in S
  <2>1. SUFFICES ASSUME m + 1 \in 1..n PROVE AtLeast(f[m + 1], pieces, m + 1)
    OBVIOUS
  <2>2. CASE m = 0
    <3>1. f[1] = pieces[1] /\ pieces[1] \in Seq(Bytes) /\ Len(pieces[1]) >= HASH_SIZE
      BY <1>3
    <3>2. Len(pieces[1]) \in Nat
      BY <3>1
    <3>3. Len(pieces[1]) = BLOCK_SIZE => Len(pieces[1]) >= (1 + 1) * HASH_SIZE
      BY BlockSize, BytesAssumption
    <3>4. 1 * HASH_SIZE = HASH_SIZE /\ \A t \in 1..1 : t = 1
      BY BlockSize
    <3>5. AtLeast(f[1], pieces, 1)
      BY <3>1, <3>3, <3>4, Zenon DEF AtLeast
    <3>6. m + 1 = 1
      BY <2>2
    <3> QED
      BY <3>5, <3>6
  <2>3. CASE m # 0
    <3>1. m \in 1..n /\ m + 1 # 1 /\ (m + 1) - 1 = m
      BY <2>1, <2>3
    <3>2. AtLeast(f[m], pieces, m)
      BY <1>5, <3>1
    <3>3. f[m + 1] = f[m] \o pieces[m + 1]
      BY <2>1, <3>1, <1>3
    <3>4. pieces[m + 1] \in Seq(Bytes) /\ Len(pieces[m + 1]) >= HASH_SIZE
      BY <2>1
    <3> QED
      BY <3>2, <3>3, <3>4, NextAtLeast
  <2> QED
    BY <2>2, <2>3
<1>6. n \in S
  <2> HIDE DEF S
  <2> QED
    BY <1>4, <1>5, AllNumbers
<1> QED
  BY <1>2, <1>6

\* What lookups return are bytes, and with a digest and a row for it a block.
LEMMA PiecesAre ==
    ASSUME TypeOK, NEW s
    PROVE  /\ Piece(s) \in Seq(Bytes) /\ Len(Piece(s)) >= HASH_SIZE
           /\ Piece(s) # Filler => s \in DOMAIN slots /\ Piece(s) = slots[s] /\ Len(Piece(s)) = BLOCK_SIZE
<1>1. CASE s \in DOMAIN slots /\ slots[s] # Hole
  <2>1. slots[s] \in Block
    BY <1>1 DEF TypeOK
  <2>2. \A block \in Block : block \in Seq(Bytes) /\ Len(block) = BLOCK_SIZE
    BY BlockSize DEF Block
  <2>3. Piece(s) = slots[s]
    BY <1>1 DEF Piece
  <2>4. BLOCK_SIZE >= HASH_SIZE
    BY BlockSize, BytesAssumption
  <2> QED
    BY <1>1, <2>1, <2>2, <2>3, <2>4
<1>2. CASE ~(s \in DOMAIN slots /\ slots[s] # Hole)
  BY <1>2, BytesAssumption DEF Piece
<1> QED
  BY <1>1, <1>2

\* In a state that keeps its promises the vector of a read has them.
LEMMA GathersPromises ==
    ASSUME TypeOK, PromisesKept, NEW offset \in Offsets, NEW size \in Sizes,
           offset % BLOCK_SIZE = 0, size >= HASH_SIZE,
           NEW k \in 1..size,
           offset + k \in Positions,
           promised[offset + k] # Unsure,
           \A s \in FirstSlot(offset) + 1..SlotOf(offset + k) : Piece(s) # Filler
    PROVE  /\ k \in DOMAIN ActualContents(offset, size)
           /\ ActualContents(offset, size)[k] = promised[offset + k]
<1> DEFINE at == FirstSlot(offset)
           n == NumOfHashes(size)
           pieces == [i \in 1..n |-> Piece(at + i)]
           c == SlotOf(k)
           contents == ActualContents(offset, size)
<1>2. offset \in Nat /\ size \in Nat /\ k \in Nat \ {0}
  BY BytesAssumption
<1>3. at \in Nat /\ offset = at * BLOCK_SIZE
  <2>1. at = Quot(offset, BLOCK_SIZE)
    BY <1>2, FirstSlotIs
  <2>2. Rem(offset, BLOCK_SIZE) = 0
    BY DEF Rem
  <2> DEFINE q == Quot(offset, BLOCK_SIZE)
             r == Rem(offset, BLOCK_SIZE)
  <2>3. q \in Nat /\ offset = q * BLOCK_SIZE + r
    BY <1>2, BlockSize, DivMod
  <2>4. at = q /\ r = 0
    BY <2>1, <2>2
  <2> HIDE DEF at, q, r
  <2>5. q * BLOCK_SIZE \in Nat
    BY <2>3, BlockSize
  <2> QED
    BY <2>3, <2>4, <2>5
<1>4. n \in Nat \ {0} /\ c \in 1..n
  BY <1>2, EnoughHashes
<1>5. contents = FlattenSeq(pieces)
  BY DEF ActualContents
<1>6. SlotOf(offset + k) = at + c /\ PlaceOf(offset + k) = PlaceOf(k)
  BY <1>2, <1>3, SlotShift
<1>7. PlaceOf(k) \in 1..BLOCK_SIZE /\ k = (c - 1) * BLOCK_SIZE + PlaceOf(k)
  BY <1>2, SlotRange
<1>8. \A i \in 1..n : pieces[i] = Piece(at + i) /\ pieces[i] \in Seq(Bytes)
  BY PiecesAre
<1>9. pieces \in [1..n -> Seq(Bytes)]
  BY <1>8
<1>10. \A t \in 1..c : Piece(at + t) # Filler
  <2>1. \A t \in 1..c : at + t \in at + 1..at + c
    BY <1>3, <1>4
  <2> QED
    BY <1>6, <2>1
<1> HIDE DEF at, n, pieces, c, contents
<1>11. InOrder(contents, pieces, n)
  BY <1>4, <1>5, <1>9, FlattenInOrder
<1>12. \A t \in 1..c : Len(pieces[t]) = BLOCK_SIZE
  BY <1>4, <1>8, <1>10, PiecesAre
<1>13. /\ k \in 1..Len(contents)
       /\ contents[k] = pieces[c][PlaceOf(k)]
  <2>1. c \in 1..c
    BY <1>4
  <2>2. /\ (c - 1) * BLOCK_SIZE + PlaceOf(k) \in 1..Len(contents)
        /\ contents[(c - 1) * BLOCK_SIZE + PlaceOf(k)] = pieces[c][PlaceOf(k)]
    BY <2>1, <1>4, <1>7, <1>11, <1>12 DEF InOrder
  <2> QED
    BY <2>2, <1>7
<1>14. pieces[c] = slots[at + c]
  <2>1. c \in 1..c
    BY <1>4
  <2> QED
    BY <2>1, <1>4, <1>8, <1>10, PiecesAre
<1>15. slots[at + c][PlaceOf(k)] = promised[offset + k]
  <2>1. Holds(offset + k, promised[offset + k])
    BY DEF PromisesKept
  <2>2. slots[SlotOf(offset + k)][PlaceOf(offset + k)] = promised[offset + k]
    BY <2>1, Zenon DEF Holds, PlaceOf
  <2> QED
    BY <2>2, <1>6
<1>16. contents \in Seq(Bytes)
  BY <1>11 DEF InOrder
<1> QED
  BY <1>13, <1>14, <1>15, <1>16 DEF contents

\* A vector with a block in it is longer than what was asked for.
LEMMA GathersTooMuch ==
    ASSUME TypeOK, NEW offset \in Offsets, NEW size \in Sizes,
           NEW i \in 1..NumOfHashes(size), Piece(FirstSlot(offset) + i) # Filler
    PROVE  Overrun(offset, size) > 0
<1> DEFINE at == FirstSlot(offset)
           n == NumOfHashes(size)
           q == Quot(size, HASH_SIZE)
           r == Rem(size, HASH_SIZE)
           pieces == [t \in 1..n |-> Piece(at + t)]
           contents == ActualContents(offset, size)
<1>1. size \in Nat
  BY BytesAssumption
<1>2. q \in Nat /\ r \in 0..HASH_SIZE - 1 /\ size = q * HASH_SIZE + r
  BY <1>1, BlockSize, DivMod
<1>3. n = q
  BY DEF NumOfHashes, Quot
<1>4. i \in 1..n /\ Piece(at + i) # Filler
  OBVIOUS
<1>5. contents = FlattenSeq(pieces)
  BY DEF ActualContents
<1>6. \A t \in 1..n : /\ pieces[t] = Piece(at + t) /\ pieces[t] \in Seq(Bytes)
                      /\ Len(pieces[t]) >= HASH_SIZE
  BY PiecesAre
<1>7. pieces \in [1..n -> Seq(Bytes)]
  BY <1>6
<1>8. Overrun(offset, size) = Len(contents) - size
  BY DEF Overrun
<1> HIDE DEF at, n, q, r, pieces, contents
<1>9. n \in Nat \ {0}
  BY <1>2, <1>3, <1>4
<1>10. AtLeast(contents, pieces, n)
  BY <1>5, <1>6, <1>7, <1>9, FlattenAtLeast
<1>11. Len(pieces[i]) = BLOCK_SIZE
  BY <1>4, <1>6, PiecesAre
<1>12. Len(contents) >= (n + 1) * HASH_SIZE /\ contents \in Seq(Bytes)
  BY <1>4, <1>10, <1>11 DEF AtLeast
<1>13. Len(contents) \in Nat
  BY <1>12
<1>14. (n + 1) * HASH_SIZE = q * HASH_SIZE + HASH_SIZE /\ q * HASH_SIZE \in Nat
  BY <1>2, <1>3, BlockSize
<1> QED
  BY <1>1, <1>2, <1>8, <1>12, <1>13, <1>14, BlockSize

\* qfs_read at a block, for at least HASH_SIZE bytes, has every byte that is
\* promised at its place in its vector, however many blocks are asked for, as
\* long as every lookup before it finds its block; and whenever a lookup finds
\* one, the vector that memcpy copies is longer than the buffer, whatever the
\* sizes of blocks and digests: a digest per HASH_SIZE bytes is never too few
\* and always too many.
THEOREM ReadsGatherTooMuch == Spec => []ReadGathersTooMuch
<1>1. ASSUME TypeOK, PromisesKept PROVE ReadGathersTooMuch
  <2>1. ASSUME NEW offset \in Offsets, NEW size \in Sizes, NEW k \in 1..size,
               /\ offset % BLOCK_SIZE = 0
               /\ size >= HASH_SIZE
               /\ offset + k \in Positions
               /\ promised[offset + k] # Unsure
               /\ \A s \in FirstSlot(offset) + 1..SlotOf(offset + k) : Piece(s) # Filler
        PROVE  /\ k \in DOMAIN ActualContents(offset, size)
               /\ ActualContents(offset, size)[k] = promised[offset + k]
    BY <1>1, <2>1, GathersPromises
  <2>2. ASSUME NEW offset \in Offsets, NEW size \in Sizes,
               \E i \in 1..NumOfHashes(size) : Piece(FirstSlot(offset) + i) # Filler
        PROVE  Overrun(offset, size) > 0
    BY <1>1, <2>2, GathersTooMuch
  <2> QED
    BY <2>1, <2>2, Zenon DEF ReadGathersTooMuch
<1> QED
  BY <1>1, BytesTypeCorrect, PromisesAlwaysKept, PTL
=============================================================================

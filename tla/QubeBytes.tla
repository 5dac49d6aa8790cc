------------------------------- MODULE QubeBytes -------------------------------
(***************************************************************************)
(* The arithmetic of qfs_write and qfs_read, byte by byte: how a buffer is *)
(* cut into blocks, at which digest of the raw file they go, and what a    *)
(* read puts together and copies to its buffer.  QubeIO takes this for     *)
(* granted, with whole blocks as values; here the database answers every   *)
(* lookup and digests do not collide, so that a slot of the raw file holds *)
(* the block itself.                                                       *)
(*                                                                         *)
(* "promised" says what the file system keeps: which bytes of the file are *)
(* known, and what they are.  A write that begins at a block and not with  *)
(* NUL keeps its bytes.  Other writes leave the blocks they meet open: a   *)
(* block is replaced as a whole, with what follows the buffer in memory.   *)
(***************************************************************************)
EXTENDS Integers, SequencesExt

CONSTANTS
    BLOCK_SIZE, HASH_SIZE,
    Bytes,       \* the values of a byte, with 0 for NUL
    Unsure,      \* a byte that nothing is promised of
    Hole,        \* a slot never written
    Filler,      \* the bytes that a lookup without an answer returns
    Offsets,     \* byte offsets of requests
    Sizes,       \* byte sizes of requests
    MaxSlots     \* bound: slots of the raw file

ASSUME BytesAssumption ==
    /\ BLOCK_SIZE \in Nat /\ HASH_SIZE \in Nat \ {0}
    /\ BLOCK_SIZE >= 2 * HASH_SIZE
    /\ 0 \in Bytes
    /\ Unsure \notin Bytes
    /\ Hole \notin [1..BLOCK_SIZE -> Bytes]
    /\ Filler \in Seq(Bytes) /\ Len(Filler) >= HASH_SIZE
    /\ Offsets \subseteq Nat
    /\ Sizes \subseteq Nat \ {0}
    /\ MaxSlots \in Nat

VARIABLES
    slots,     \* the blocks behind the digests of the raw file
    promised,  \* what is promised of each byte
    touched    \* the last write: the bytes it was for

vars == <<slots, promised, touched>>

Block == [1..BLOCK_SIZE -> Bytes]
Positions == 1..MaxSlots * BLOCK_SIZE

TypeOK ==
    /\ slots \in Seq(Block \cup {Hole})
    /\ promised \in [Positions -> Bytes \cup {Unsure}]
    /\ touched \subseteq Positions

Init ==
    /\ slots = <<>>
    /\ promised = [i \in Positions |-> Unsure]
    /\ touched = {}

\* The slot of the byte at position i, from 1.
SlotOf(i) == ((i - 1) \div BLOCK_SIZE) + 1
-----------------------------------------------------------------------------
\* Fault: the end of the loop of substr_of_char.
SubstrOfChar(buf, start, end) == SubSeq(buf, start + 1, end - start)

\* The bytes from start on, without the one at end.
SubstrOfVect(buf, start, end) == SubSeq(buf, start + 1, end)

\* Fault: a buffer that is not a multiple of the block loses its end.
WholeBuffers(size) == size \div BLOCK_SIZE

NumBuffers(size) ==
    (size \div BLOCK_SIZE) + (IF size % BLOCK_SIZE > 0 THEN 1 ELSE 0)

\* Fault: an offset inside a block is rounded up.
SlotAbove(offset) == (offset + BLOCK_SIZE - 1) \div BLOCK_SIZE

\* The slots before the first digest of a request: the offset becomes one of
\* the raw file, a multiple of HASH_SIZE.
FirstSlot(offset) == ((offset \div BLOCK_SIZE) * HASH_SIZE) \div HASH_SIZE

\* What memory holds after a buffer, where the last block is cut beyond it.
Junk(size) == [1..NumBuffers(size) * BLOCK_SIZE - size -> Bytes]

BlocksFrom(memory, n) ==
    [i \in 1..n |-> SubstrOfVect(memory, (i - 1) * BLOCK_SIZE, i * BLOCK_SIZE)]

Overlay(at, new) ==
    [i \in 1..(IF at + Len(new) < Len(slots) THEN Len(slots) ELSE at + Len(new)) |->
        IF i \in at + 1..at + Len(new) THEN new[i - at]
        ELSE IF i \in DOMAIN slots THEN slots[i] ELSE Hole]

\* Nothing is promised of the bytes that share a slot with the request, and,
\* when "kept", the bytes of the request are.
Promise(first, buf, kept) ==
    promised' = [i \in Positions |->
        IF kept /\ i \in first + 1..first + Len(buf) THEN buf[i - first]
        ELSE IF \E j \in first + 1..first + Len(buf) : SlotOf(i) = SlotOf(j) THEN Unsure
        ELSE promised[i]]

\* A write at an offset, or with O_APPEND at the end of the raw file,
\* whatever the offset.  One that begins with NUL writes nothing.
Write(append, offset, buf) ==
    LET at == IF append THEN Len(slots) ELSE FirstSlot(offset)
        first == IF append THEN Len(slots) * BLOCK_SIZE ELSE offset
    IN  /\ SlotOf(first + Len(buf)) <= MaxSlots
        /\ \E junk \in Junk(Len(buf)) :
            slots' = IF buf[1] = 0 THEN slots
                     ELSE Overlay(at, BlocksFrom(buf \o junk, NumBuffers(Len(buf))))
        /\ Promise(first, buf, first % BLOCK_SIZE = 0 /\ buf[1] # 0)
        /\ touched' = first + 1..first + Len(buf)

\* The raw file is opened with O_TRUNC.
Truncate ==
    /\ slots' = <<>>
    /\ promised' = [i \in Positions |-> Unsure]
    /\ touched' = {}

Next ==
    \/ \E append \in BOOLEAN, offset \in Offsets, size \in Sizes :
        \E buf \in [1..size -> Bytes] : Write(append, offset, buf)
    \/ Truncate

Spec == Init /\ [][Next]_vars
-----------------------------------------------------------------------------
(***************************************************************************)
(* qfs_read.  One digest is looked up for every HASH_SIZE bytes asked for. *)
(***************************************************************************)
\* Fault: one digest for every whole block asked for.
HashesOfBlocks(size) == size \div BLOCK_SIZE

NumOfHashes(size) == size \div HASH_SIZE

\* A hole, or what lies beyond the end, is no digest.
Piece(s) == IF s \in DOMAIN slots /\ slots[s] # Hole THEN slots[s] ELSE Filler

\* The vector that the loop fills.
ActualContents(offset, size) ==
    FlattenSeq([i \in 1..NumOfHashes(size) |-> Piece(FirstSlot(offset) + i)])

\* memcpy copies the whole vector to a buffer of "size" bytes, and its length
\* is the answer: what goes beyond the buffer, and beyond what was asked for.
Overrun(offset, size) == Len(ActualContents(offset, size)) - size
-----------------------------------------------------------------------------
(***************************************************************************)
(* Properties.                                                             *)
(***************************************************************************)
\* Byte i of the file is in the block that its slot refers to.
Holds(i, byte) ==
    LET s == SlotOf(i)
        k == ((i - 1) % BLOCK_SIZE) + 1
    IN  /\ s \in DOMAIN slots
        /\ slots[s] # Hole
        /\ k \in DOMAIN slots[s]
        /\ slots[s][k] = byte

\* What is promised of a byte is what its block holds, through any sequence
\* of writes: later ones, short, unaligned or appended, disturb it only when
\* they meet its block.
PromisesKept ==
    \A i \in Positions : promised[i] # Unsure => Holds(i, promised[i])

\* A write changes only blocks that its bytes meet, and the file grows no
\* further than the block of the last one.
WriteStaysInRange ==
    [][\A s \in DOMAIN slots \cup DOMAIN slots' :
        \/ s \in DOMAIN slots /\ s \in DOMAIN slots' /\ slots'[s] = slots[s]
        \/ \E i \in touched' : s <= SlotOf(i) /\ (s \in DOMAIN slots => s = SlotOf(i))
        \/ slots' = <<>>]_slots

\* The vector of a read at a block has the promised bytes at the places asked
\* for, as long as no hole comes before them: the digests it looks up are
\* never too few.  The caller does not get them so: whenever a lookup finds a
\* block the digests are too many, and qfs_read writes past the buffer and
\* answers with more than was asked for.
ReadGathersTooMuch ==
    \A offset \in Offsets, size \in Sizes :
        LET contents == ActualContents(offset, size)
        IN  /\ \A k \in 1..size :
                /\ offset % BLOCK_SIZE = 0
                /\ size >= HASH_SIZE
                /\ offset + k \in Positions
                /\ promised[offset + k] # Unsure
                /\ \A s \in FirstSlot(offset) + 1..SlotOf(offset + k) : Piece(s) # Filler
                => k \in DOMAIN contents /\ contents[k] = promised[offset + k]
            /\ (\E i \in 1..NumOfHashes(size) : Piece(FirstSlot(offset) + i) # Filler) =>
                Overrun(offset, size) > 0
=============================================================================

----------------------------- MODULE QubeIO_proofs -----------------------------
(***************************************************************************)
(* Proofs about the data path, for every instance of its constants.        *)
(***************************************************************************)
EXTENDS QubeIO, TLAPS, FiniteSetTheorems

\* What a handler has when it is about to store: a block, whose digest is the
\* last one of hash_buffer.
StoreReady ==
    pc = "store" =>
        /\ data_block \in Blocks
        /\ hash_buffer # <<>>
        /\ hash_buffer[Len(hash_buffer)] = HashOf[data_block]

TypeInv == TypeOK /\ StoreReady

-----------------------------------------------------------------------------
(***************************************************************************)
(* Lemmas about the operators.                                             *)
(***************************************************************************)

\* An UPDATE that succeeds leaves a table of the same rows: neither digests
\* nor blocks change, and no count passes the limit of its column.
LEMMA CountUpRows ==
    ASSUME PsqlTypeOK, NEW h, ~AtLimit(h)
    PROVE  /\ CountUp(h) \in Seq(Row)
           /\ DOMAIN CountUp(h) = DOMAIN hashes
           /\ \A i \in DOMAIN hashes :
                /\ CountUp(h)[i].hash = hashes[i].hash
                /\ CountUp(h)[i].block = hashes[i].block
<1>1. DOMAIN hashes = 1..Len(hashes) /\ Len(hashes) \in Nat
    BY DEF PsqlTypeOK
<1>2. ASSUME NEW i \in DOMAIN hashes
      PROVE  /\ CountUp(h)[i] \in Row
             /\ CountUp(h)[i].hash = hashes[i].hash
             /\ CountUp(h)[i].block = hashes[i].block
    <2>1. hashes[i] \in Row
        BY DEF PsqlTypeOK
    <2>2. CASE i \in RowsOf(h)
        <3>1. hashes[i].use_count # MaxUse
            BY <2>2 DEF AtLimit
        <3>2. hashes[i].use_count + 1 \in 1..MaxUse
            BY <2>1, <3>1, PsqlAssumption DEF Row
        <3>3. CountUp(h)[i] = [hashes[i] EXCEPT !.use_count = @ + 1]
            BY <2>2 DEF CountUp
        <3> QED BY <2>1, <3>2, <3>3 DEF Row
    <2>3. CASE i \notin RowsOf(h)
        BY <2>1, <2>3 DEF CountUp
    <2> QED BY <2>2, <2>3
<1>3. CountUp(h) \in [1..Len(hashes) -> Row]
    BY <1>1, <1>2 DEF CountUp
<1> QED BY <1>1, <1>2, <1>3 DEF CountUp

\* What pwrite leaves is a file again; a slot of it holds a digest that was
\* written, or what it held before, or nothing.
LEMMA OverlaySlots ==
    ASSUME NEW file \in Seq(Hashes \cup {Hole}), NEW at \in Nat, NEW s \in Seq(Hashes)
    PROVE  /\ Overlay(file, at, s) \in Seq(Hashes \cup {Hole})
           /\ \A i \in DOMAIN file :
                /\ i \in DOMAIN Overlay(file, at, s)
                /\ Overlay(file, at, s)[i] = file[i] \/ i \in at + 1..at + Len(s)
           /\ \A i \in DOMAIN Overlay(file, at, s) :
                \/ i - at \in DOMAIN s /\ Overlay(file, at, s)[i] = s[i - at]
                \/ i \in DOMAIN file /\ Overlay(file, at, s)[i] = file[i]
                \/ Overlay(file, at, s)[i] = Hole
<1> DEFINE n == IF s = <<>> \/ at + Len(s) < Len(file) THEN Len(file) ELSE at + Len(s)
<1>1. n \in Nat /\ n >= Len(file)
    OBVIOUS
<1>2. Overlay(file, at, s) =
        [i \in 1..n |-> IF i \in at + 1..at + Len(s) THEN s[i - at]
                        ELSE IF i \in DOMAIN file THEN file[i] ELSE Hole]
    BY DEF Overlay
<1>3. ASSUME NEW i \in 1..n
      PROVE  /\ Overlay(file, at, s)[i] \in Hashes \cup {Hole}
             /\ \/ i - at \in DOMAIN s /\ Overlay(file, at, s)[i] = s[i - at]
                \/ i \in DOMAIN file /\ Overlay(file, at, s)[i] = file[i]
                \/ Overlay(file, at, s)[i] = Hole
    <2>1. CASE i \in at + 1..at + Len(s)
        <3>1. i - at \in 1..Len(s)
            BY <2>1, <1>1
        <3> QED BY <1>2, <2>1, <3>1
    <2>2. CASE i \notin at + 1..at + Len(s)
        BY <1>2, <2>2
    <2> QED BY <2>1, <2>2
<1>4. Overlay(file, at, s) \in [1..n -> Hashes \cup {Hole}]
    BY <1>2, <1>3
<1>5. Overlay(file, at, s) \in Seq(Hashes \cup {Hole}) /\ Len(Overlay(file, at, s)) = n
    BY <1>1, <1>4
<1>6. ASSUME NEW i \in DOMAIN file
      PROVE  /\ i \in 1..n
             /\ Overlay(file, at, s)[i] = file[i] \/ i \in at + 1..at + Len(s)
    <2>1. i \in 1..n
        BY <1>1
    <2> QED BY <1>2, <2>1
<1> HIDE DEF n
<1> QED BY <1>3, <1>4, <1>5, <1>6

\* A lookup answers with a block of a row of that digest, or with the filler,
\* and changes nothing but rec_count.
LEMMA LookupAnswer ==
    ASSUME PsqlTypeOK, NEW h, NEW found, GetBlockFromHash(h, found)
    PROVE  /\ PsqlTypeOK'
           /\ found \in Pieces
           /\ UNCHANGED <<hashes, conn, last_res>>
           /\ found \in Blocks => \E i \in RowsOf(h) : hashes[i].block = found
<1>1. IsFiniteSet(RowsOf(h))
    <2>1. RowsOf(h) \subseteq 1..Len(hashes)
        BY DEF PsqlTypeOK, RowsOf
    <2>2. IsFiniteSet(1..Len(hashes))
        BY FS_Interval DEF PsqlTypeOK
    <2> QED BY <2>1, <2>2, FS_Subset
<1>2. rec_count' \in Nat
    BY <1>1, FS_CardinalityType DEF GetBlockFromHash, LookupHits, LookupMisses, PsqlTypeOK
<1>3. \A i \in DOMAIN hashes : hashes[i].block \in Blocks
    <2>1. ASSUME NEW i \in DOMAIN hashes PROVE hashes[i] \in Row
        BY DEF PsqlTypeOK
    <2> QED BY <2>1 DEF Row
<1>4. CASE LookupHits(h, found)
    BY <1>2, <1>3, <1>4 DEF LookupHits, GetBlockFromHash, RowsOf, Pieces, PsqlTypeOK, Row
<1>5. CASE LookupMisses(h, found)
    BY <1>2, <1>5, PsqlAssumption
        DEF LookupMisses, GetBlockFromHash, Pieces, PsqlTypeOK, Row
<1> QED BY <1>4, <1>5 DEF GetBlockFromHash

-----------------------------------------------------------------------------
(***************************************************************************)
(* Types.                                                                  *)
(***************************************************************************)

\* The initial state has the types.
LEMMA TypeInit == Init => TypeInv
BY IOAssumption, PsqlAssumption
    DEF Init, PsqlInit, IOInit, TypeInv, TypeOK, PsqlTypeOK, IOTypeOK, StoreReady,
        NoReq, Closed, Pieces, Row

\* A handler that ends, in whatever way, leaves its variables empty.
LEMMA ToIdleTypes ==
    ASSUME ToIdle
    PROVE  /\ pc' = "idle"
           /\ req' \in [op : {"none", "read", "write"}, fd : Fds \cup {NoFd}, slot : Nat,
                        data : Seq(Chunks), size : Nat, clean : BOOLEAN]
           /\ hash_buffer' \in Seq(Hashes)
           /\ data_block' \in Pieces
           /\ block_in_DB' \in Pieces
           /\ actual_contents' \in Seq(Pieces)
BY DEF ToIdle, NoReq, Pieces

\* Every step keeps the types, and a handler at work its process.
LEMMA TypeNext == TypeInv /\ [Next]_vars => TypeInv'
<1> SUFFICES ASSUME TypeInv, [Next]_vars PROVE TypeInv'
    OBVIOUS
<1> USE DEF TypeInv, TypeOK
<1>1. CASE Mount
    BY <1>1 DEF Mount, Connect, Alive, fileVars, handlerVars, PsqlTypeOK, IOTypeOK, StoreReady
<1>2. CASE Unmount
    BY <1>2 DEF Unmount, Disconnect, Idle, Alive, fileVars, handlerVars, PsqlTypeOK, IOTypeOK,
        StoreReady
<1>3. ASSUME Die PROVE TypeInv'
    BY <1>3, ToIdleTypes DEF Die, ProcessDies, Closed, PsqlTypeOK, IOTypeOK, StoreReady
<1>4. CASE Crash
    BY <1>3, <1>4 DEF Crash
<1>5. CASE SessionLost
    BY <1>5 DEF SessionLost, LoseConnection, Alive, fileVars, handlerVars, PsqlTypeOK, IOTypeOK,
        StoreReady
<1>6. CASE Open
    <2> PICK d \in Fds, f \in present, append \in BOOLEAN, trunc \in BOOLEAN :
            /\ fds' = [fds EXCEPT ![d] = [file |-> f, append |-> append]]
            /\ slots' = IF trunc THEN [slots EXCEPT ![f] = <<>>] ELSE slots
        BY <1>6 DEF Open
    <2>1. slots' \in [Files -> Seq(Hashes \cup {Hole})]
        BY DEF IOTypeOK
    <2>2. fds' \in [Fds -> [file : Files \cup {NoFile}, append : BOOLEAN]]
        BY DEF IOTypeOK
    <2> QED BY <1>6, <2>1, <2>2
        DEF Open, Idle, psqlVars, handlerVars, PsqlTypeOK, IOTypeOK, StoreReady
<1>7. CASE Create
    BY <1>7 DEF Create, Idle, psqlVars, handlerVars, PsqlTypeOK, IOTypeOK, StoreReady
<1>8. CASE Release
    BY <1>8 DEF Release, Idle, Closed, psqlVars, handlerVars, PsqlTypeOK, IOTypeOK, StoreReady
<1>9. CASE Unlink
    BY <1>9 DEF Unlink, Idle, psqlVars, handlerVars, PsqlTypeOK, IOTypeOK, StoreReady
<1>10. CASE WriteEnter
    <2> PICK d \in Fds, offset \in Offsets, data \in Buffers :
            /\ fds[d].file \in Files
            /\ req' = [NoReq EXCEPT !.op = "write", !.fd = d, !.slot = SlotAt(offset),
                                    !.data = data, !.clean = (rec_count = 0)]
        BY <1>10 DEF WriteEnter
    <2>1. SlotAt(offset) \in Nat
        BY IOAssumption DEF SlotAt, HashOffset
    <2>2. data \in Seq(Chunks)
        BY IOAssumption DEF Buffers
    <2>3. pc' \in {"lookup", "reply"}
        BY <1>10 DEF WriteEnter
    <2> QED BY <1>10, <2>1, <2>2, <2>3
        DEF WriteEnter, Idle, Alive, NoReq, psqlVars, fileVars, writeVars, PsqlTypeOK, IOTypeOK,
            StoreReady
<1>11. CASE WriteLookup
    <2> DEFINE k == Len(hash_buffer) + 1
    <2> PICK b \in BlocksOfSlice(k), found \in Pieces :
            /\ GetBlockFromHash(HashOf[b], found)
            /\ data_block' = b
            /\ block_in_DB' = found
            /\ hash_buffer' = Append(hash_buffer, HashOf[b])
        BY <1>11 DEF WriteLookup
    <2>1. k \in DOMAIN req.data
        BY <1>11 DEF WriteLookup, IOTypeOK
    <2>2. b \in Blocks
        <3>1. req.data[k] \in Chunks
            BY <2>1 DEF IOTypeOK
        <3> QED BY <3>1, IOAssumption DEF BlocksOfSlice
    <2>3. HashOf[b] \in Hashes
        BY <2>2, PsqlAssumption
    <2>4. /\ hash_buffer' \in Seq(Hashes)
          /\ hash_buffer' # <<>>
          /\ hash_buffer'[Len(hash_buffer')] = HashOf[data_block']
        BY <2>3 DEF IOTypeOK
    <2>5. PsqlTypeOK' /\ conn' = conn
        BY LookupAnswer
    <2> QED BY <1>11, <2>2, <2>4, <2>5
        DEF WriteLookup, Alive, fileVars, Pieces, IOTypeOK, StoreReady
<1>12. CASE StoreNew
    <2>1. hashes' \in Seq(Row)
        <3>1. NewRow(BlockHash, data_block) \in Row
            BY <1>12, PsqlAssumption DEF StoreNew, StoreReady, NewRow, BlockHash, Row
        <3> QED BY <1>12, <3>1 DEF StoreNew, InsertHash, Inserted, NotInserted, PsqlTypeOK
    <2>2. PsqlTypeOK' /\ Alive'
        BY <1>12, <2>1
            DEF StoreNew, InsertHash, Inserted, NotInserted, PsqlTypeOK, Alive
    <2> QED BY <1>12, <2>2
        DEF StoreNew, fileVars, writeVars, IOTypeOK, StoreReady
<1>13. CASE StoreCollision
    BY <1>13 DEF StoreCollision, Alive, psqlVars, fileVars, writeVars, PsqlTypeOK, IOTypeOK,
        StoreReady
<1>14. CASE StoreKnown
    <2>1. hashes' \in Seq(Row)
        BY <1>14, CountUpRows DEF StoreKnown, IncrHashCount, PsqlTypeOK
    <2> QED BY <1>14, <2>1
        DEF StoreKnown, IncrHashCount, Alive, fileVars, writeVars, PsqlTypeOK, IOTypeOK,
            StoreReady
<1>15. CASE WriteToFile
    <2>1. slots' \in [Files -> Seq(Hashes \cup {Hole})]
        <3> PICK n \in Written :
                slots' = [slots EXCEPT ![File] =
                    Overlay(@, WriteSlot(req.fd, req.slot), SubSeq(hash_buffer, 1, n))]
            BY <1>15 DEF WriteToFile
        <3>1. slots[File] \in Seq(Hashes \cup {Hole}) /\ File \in Files
            BY <1>15 DEF WriteToFile, IOTypeOK, File
        <3>2. WriteSlot(req.fd, req.slot) \in Nat
            BY <1>15, <3>1 DEF WriteSlot, WriteToFile, IOTypeOK, File
        <3>3. SubSeq(hash_buffer, 1, n) \in Seq(Hashes)
            BY DEF Written, IOTypeOK
        <3>4. Overlay(slots[File], WriteSlot(req.fd, req.slot), SubSeq(hash_buffer, 1, n))
                \in Seq(Hashes \cup {Hole})
            BY <3>1, <3>2, <3>3, OverlaySlots
        <3> QED BY <3>1, <3>4 DEF IOTypeOK
    <2> QED BY <1>15, <2>1
        DEF WriteToFile, Alive, psqlVars, writeVars, PsqlTypeOK, IOTypeOK, StoreReady
<1>16. CASE WriteReply
    BY <1>16, ToIdleTypes DEF WriteReply, psqlVars, fileVars, PsqlTypeOK, IOTypeOK, StoreReady
<1>17. CASE ReadEnter
    <2> PICK d \in Fds, offset \in Offsets, size \in ReadSizes :
            /\ fds[d].file \in Files
            /\ req' = [NoReq EXCEPT !.op = "read", !.fd = d, !.slot = SlotAt(offset),
                                    !.size = size]
        BY <1>17 DEF ReadEnter
    <2>1. SlotAt(offset) \in Nat /\ size \in Nat
        BY IOAssumption DEF SlotAt, HashOffset
    <2>2. req' = [op |-> "read", fd |-> d, slot |-> SlotAt(offset), data |-> <<>>,
                  size |-> size, clean |-> FALSE]
        BY DEF NoReq
    <2>4. <<>> \in Seq(Chunks)
        OBVIOUS
    <2>3. pc' = "read"
        BY <1>17 DEF ReadEnter
    <2> QED BY <1>17, <2>1, <2>2, <2>3, <2>4
        DEF ReadEnter, Idle, Alive, NoReq, psqlVars, fileVars, writeVars, PsqlTypeOK, IOTypeOK,
            StoreReady
<1>18. CASE ReadHash
    <2> PICK h \in ReadFromFile(req.slot + Len(actual_contents) + 1), found \in Pieces :
            /\ GetBlockFromHash(h, found)
            /\ actual_contents' = Append(actual_contents, found)
        BY <1>18 DEF ReadHash
    <2>1. PsqlTypeOK' /\ conn' = conn
        BY LookupAnswer
    <2>2. actual_contents' \in Seq(Pieces)
        BY DEF IOTypeOK
    <2> QED BY <1>18, <2>1, <2>2
        DEF ReadHash, Alive, fileVars, writeVars, IOTypeOK, StoreReady
<1>19. CASE ReadReply
    BY <1>19, ToIdleTypes DEF ReadReply, psqlVars, fileVars, PsqlTypeOK, IOTypeOK, StoreReady
<1>20. CASE ReadOverrun
    BY <1>3, <1>20 DEF ReadOverrun
<1>21. CASE UNCHANGED vars
    BY <1>21 DEF vars, psqlVars, fileVars, handlerVars, Alive, PsqlTypeOK, IOTypeOK, StoreReady
<1> QED
    BY <1>1, <1>2, <1>4, <1>5, <1>6, <1>7, <1>8, <1>9, <1>10, <1>11, <1>12, <1>13, <1>14, <1>15,
       <1>16, <1>17, <1>18, <1>19, <1>20, <1>21
    DEF Next, HandlerStep, Environment

\* In every instance the variables keep their types, and a handler only ever
\* runs in a live process on a descriptor that is open: nothing closes the
\* file of a request under it.
THEOREM TypeCorrect == Spec => []TypeOK
<1>1. TypeInv => TypeOK
    BY DEF TypeInv
<1> QED BY <1>1, TypeInit, TypeNext, PTL DEF Spec

-----------------------------------------------------------------------------
(***************************************************************************)
(* The table.                                                              *)
(***************************************************************************)

\* The table only changes when qfs_write stores a block: by a row at its end,
\* or by counting up the rows of a digest.
LEMMA TableSteps ==
    ASSUME [Next]_vars
    PROVE  \/ hashes' = hashes
           \/ StoreNew /\ hashes' = Append(hashes, NewRow(BlockHash, data_block))
           \/ StoreKnown /\ ~AtLimit(BlockHash) /\ hashes' = CountUp(BlockHash)
<1>1. CASE HandlerStep
    BY <1>1 DEF HandlerStep, WriteLookup, StoreNew, StoreCollision, StoreKnown, WriteToFile,
        WriteReply, ReadHash, ReadReply, ReadOverrun, Die, ProcessDies, GetBlockFromHash,
        InsertHash, Inserted, NotInserted, IncrHashCount, psqlVars
<1>2. CASE Environment
    BY <1>2 DEF Environment, Mount, Connect, Unmount, Disconnect, Crash, Die, ProcessDies,
        SessionLost, LoseConnection, Open, Create, Release, Unlink, WriteEnter, ReadEnter,
        psqlVars
<1> QED BY <1>1, <1>2 DEF Next, vars, psqlVars

\* A row keeps its place, its digest and its block for ever; a new row is the
\* block that the running handler is about to store, under its own digest.
LEMMA RowsStay ==
    ASSUME TypeInv, [Next]_vars
    PROVE  /\ \A i \in DOMAIN hashes :
                /\ i \in DOMAIN hashes'
                /\ hashes'[i].hash = hashes[i].hash
                /\ hashes'[i].block = hashes[i].block
           /\ \A i \in DOMAIN hashes' \ DOMAIN hashes :
                /\ StoreNew /\ i = Len(hashes) + 1
                /\ hashes'[i].hash = HashOf[data_block]
                /\ hashes'[i].block = data_block
<1>1. PsqlTypeOK
    BY DEF TypeInv, TypeOK
<1>2. DOMAIN hashes = 1..Len(hashes) /\ Len(hashes) \in Nat
    BY <1>1 DEF PsqlTypeOK
<1>3. CASE hashes' = hashes
    BY <1>3
<1>4. CASE StoreNew /\ hashes' = Append(hashes, NewRow(BlockHash, data_block))
    <2>1. /\ DOMAIN hashes' = 1..Len(hashes) + 1
          /\ \A i \in 1..Len(hashes) : hashes'[i] = hashes[i]
          /\ hashes'[Len(hashes) + 1] = NewRow(BlockHash, data_block)
        BY <1>1, <1>4 DEF PsqlTypeOK
    <2> QED BY <1>2, <1>4, <2>1 DEF NewRow, BlockHash
<1>5. CASE StoreKnown /\ ~AtLimit(BlockHash) /\ hashes' = CountUp(BlockHash)
    BY <1>1, <1>5, CountUpRows
<1> QED BY <1>3, <1>4, <1>5, TableSteps

\* Once a digest has a row it always has one.
LEMMA StoredForEver ==
    ASSUME TypeInv, [Next]_vars, NEW h, Stored(h)
    PROVE  \E j \in DOMAIN hashes' : hashes'[j].hash = h
BY RowsStay DEF Stored, RowsOf

\* A row comes with the digest of its block, and stays as it is.
LEMMA RowsAddressedNext == TypeInv /\ RowsAddressed /\ [Next]_vars => RowsAddressed'
<1> SUFFICES ASSUME TypeInv, RowsAddressed, [Next]_vars, NEW i \in DOMAIN hashes'
             PROVE  hashes'[i].hash = HashOf[hashes'[i].block]
    BY DEF RowsAddressed
<1>1. CASE i \in DOMAIN hashes
    BY <1>1, RowsStay DEF RowsAddressed
<1>2. CASE i \notin DOMAIN hashes
    BY <1>2, RowsStay
<1> QED BY <1>1, <1>2

\* The table stays content-addressed through every failure, crash and
\* collision: a block can only be found under its own digest.
THEOREM RowsAddressedAlways == Spec => []RowsAddressed
<1>1. Init => RowsAddressed
    BY DEF Init, PsqlInit, RowsAddressed
<1> QED BY <1>1, TypeInit, TypeNext, RowsAddressedNext, PTL DEF Spec

-----------------------------------------------------------------------------
(***************************************************************************)
(* One row for each digest.  The strengthening says what rec_count tells   *)
(* the handler that is about to store: when it is 0 and the session works, *)
(* there is no row of the digest yet.                                      *)
(***************************************************************************)
CountTells ==
    (pc = "store" /\ rec_count = 0 /\ conn = "ok" /\ "select" \notin DbFaults) =>
        RowsOf(BlockHash) = {}

\* A lookup that hits leaves rec_count above 0.
LEMMA LookupCounts ==
    ASSUME PsqlTypeOK, NEW h, NEW found, LookupHits(h, found)
    PROVE  rec_count' # 0
<1>1. RowsOf(h) # {}
    BY DEF LookupHits
<1>2. RowsOf(h) \subseteq 1..Len(hashes) /\ IsFiniteSet(1..Len(hashes))
    BY FS_Interval DEF PsqlTypeOK, RowsOf
<1>3. IsFiniteSet(RowsOf(h))
    BY <1>2, FS_Subset
<1> QED BY <1>1, <1>3, FS_EmptySet DEF LookupHits

\* The only way to a handler that is about to store is a lookup.
LEMMA StoreSteps ==
    ASSUME TypeInv, [Next]_vars, pc' = "store"
    PROVE  WriteLookup \/ SessionLost \/ UNCHANGED vars
<1>1. CASE HandlerStep
    BY <1>1 DEF HandlerStep, StoreNew, StoreCollision, StoreKnown, WriteToFile, WriteReply,
        ReadHash, ReadReply, ReadOverrun, Die, ToIdle
<1>2. CASE Environment
    BY <1>2 DEF Environment, Mount, Connect, Unmount, Crash, Die, ToIdle, Open, Create, Release,
        Unlink, WriteEnter, ReadEnter, Idle, handlerVars, TypeInv, TypeOK
<1> QED BY <1>1, <1>2 DEF Next

\* A count of 0 on a working session keeps telling that there is no row.
LEMMA CountTellsNext == TypeInv /\ CountTells /\ [Next]_vars => CountTells'
<1> SUFFICES ASSUME TypeInv, CountTells, [Next]_vars, pc' = "store", rec_count' = 0,
                    conn' = "ok", "select" \notin DbFaults
             PROVE  RowsOf(BlockHash)' = {}
    BY DEF CountTells
<1>1. CASE WriteLookup
    <2> PICK b, found :
            /\ GetBlockFromHash(HashOf[b], found)
            /\ data_block' = b
        BY <1>1 DEF WriteLookup
    <2>1. LookupMisses(HashOf[b], found) /\ UNCHANGED <<hashes, conn>>
        BY LookupCounts DEF GetBlockFromHash, TypeInv, TypeOK
    <2>2. RowsOf(HashOf[b]) = {}
        BY <2>1 DEF LookupMisses
    <2> QED BY <2>1, <2>2 DEF RowsOf, BlockHash
<1>2. CASE SessionLost
    BY <1>2 DEF SessionLost, LoseConnection
<1>3. CASE UNCHANGED vars
    BY <1>3 DEF vars, psqlVars, handlerVars, CountTells, RowsOf, BlockHash
<1> QED BY <1>1, <1>2, <1>3, StoreSteps

\* A digest is inserted only after a lookup that found no row.
LEMMA OneRowNext ==
    TypeInv /\ CountTells /\ OneRowPerHash /\ [Next]_vars => OneRowPerHash'
<1> SUFFICES ASSUME TypeInv, CountTells, OneRowPerHash, [Next]_vars, "select" \notin DbFaults,
                    NEW i \in DOMAIN hashes', NEW j \in DOMAIN hashes',
                    hashes'[i].hash = hashes'[j].hash
             PROVE  i = j
    BY DEF OneRowPerHash
<1>1. CASE i \in DOMAIN hashes /\ j \in DOMAIN hashes
    BY <1>1, RowsStay DEF OneRowPerHash
<1>2. CASE i \notin DOMAIN hashes /\ j \notin DOMAIN hashes
    BY <1>2, RowsStay
<1>3. ASSUME NEW k \in DOMAIN hashes, NEW l \in DOMAIN hashes' \ DOMAIN hashes,
             hashes'[k].hash = hashes'[l].hash
      PROVE  FALSE
    <2>1. StoreNew /\ hashes' # hashes /\ hashes[k].hash = BlockHash
        BY <1>3, RowsStay DEF BlockHash
    <2>2. conn = "ok"
        BY <2>1 DEF StoreNew, InsertHash, Inserted, NotInserted
    <2>3. RowsOf(BlockHash) = {}
        BY <2>1, <2>2 DEF CountTells, StoreNew
    <2> QED BY <2>1, <2>3 DEF RowsOf
<1> QED BY <1>1, <1>2, <1>3

\* As long as lookups do not fail on a session that works, qfs_write never
\* inserts a digest twice, though the table has no key to stop it: neither a
\* stale count, nor a collision, nor an answer lost with the session, nor a
\* restart makes it do so.
THEOREM OneRowPerHashAlways == Spec => []OneRowPerHash
<1>1. Init => CountTells /\ OneRowPerHash
    BY DEF Init, PsqlInit, IOInit, CountTells, OneRowPerHash
<1> QED BY <1>1, TypeInit, TypeNext, CountTellsNext, OneRowNext, PTL DEF Spec

-----------------------------------------------------------------------------
(***************************************************************************)
(* What a handler starts with.                                             *)
(***************************************************************************)
FreshBuffers ==
    /\ pc \in {"idle", "read"} => hash_buffer = <<>>
    /\ pc # "read" => actual_contents = <<>>

\* Buffers are empty when a handler starts.
LEMMA FreshBuffersNext == TypeInv /\ FreshBuffers /\ [Next]_vars => FreshBuffers'
<1> SUFFICES ASSUME TypeInv, FreshBuffers, [Next]_vars PROVE FreshBuffers'
    OBVIOUS
<1> USE DEF FreshBuffers
<1>1. CASE HandlerStep
    <2>1. CASE WriteLookup \/ StoreNew \/ StoreCollision \/ StoreKnown \/ WriteToFile
        BY <2>1 DEF WriteLookup, StoreNew, StoreCollision, StoreKnown, WriteToFile, writeVars
    <2>2. CASE WriteReply \/ ReadReply \/ ReadOverrun
        BY <2>2 DEF WriteReply, ReadReply, ReadOverrun, Die, ToIdle
    <2>3. CASE ReadHash
        BY <2>3 DEF ReadHash, writeVars
    <2> QED BY <1>1, <2>1, <2>2, <2>3 DEF HandlerStep
<1>2. CASE Environment
    BY <1>2 DEF Environment, Mount, Unmount, Crash, Die, ToIdle, SessionLost, Open, Create,
        Release, Unlink, WriteEnter, ReadEnter, Idle, handlerVars, writeVars
<1>3. CASE UNCHANGED vars
    BY <1>3 DEF vars, handlerVars
<1> QED BY <1>1, <1>2, <1>3 DEF Next

\* While a read runs, the file it reads and the request stay as they are.
LEMMA ReadSteps ==
    ASSUME TypeInv, [Next]_vars, pc' = "read"
    PROVE  \/ ReadEnter
           \/ ReadHash
           \/ pc = "read" /\ UNCHANGED <<fileVars, handlerVars>>
<1>1. CASE HandlerStep
    BY <1>1 DEF HandlerStep, WriteLookup, StoreNew, StoreCollision, StoreKnown, WriteToFile,
        WriteReply, ReadReply, ReadOverrun, Die, ToIdle
<1>2. CASE Environment
    BY <1>2 DEF Environment, Mount, Connect, Unmount, Crash, Die, ToIdle, SessionLost, Open,
        Create, Release, Unlink, WriteEnter, Idle, handlerVars, TypeInv, TypeOK
<1>3. CASE UNCHANGED vars
    BY <1>3 DEF vars, handlerVars
<1> QED BY <1>1, <1>2, <1>3 DEF Next

\* What a read adds to its answer is the block of the next digest.
LEMMA ServedNext ==
    TypeInv /\ RowsAddressed /\ FreshBuffers /\ ServedBlocksMatch /\ [Next]_vars
        => ServedBlocksMatch'
<1> SUFFICES ASSUME TypeInv, RowsAddressed, FreshBuffers, ServedBlocksMatch, [Next]_vars,
                    pc' = "read"
             PROVE  ServedBlocksMatch'
    BY DEF ServedBlocksMatch
<1>1. CASE ReadEnter
    BY <1>1 DEF ReadEnter, Idle, FreshBuffers, ServedBlocksMatch
<1>2. CASE ReadHash
    <2> DEFINE k == Len(actual_contents) + 1
    <2>1. PsqlTypeOK /\ actual_contents \in Seq(Pieces) /\ req.slot \in Nat
        BY DEF TypeInv, TypeOK, IOTypeOK
    <2>2. req.slot + Len(actual_contents) + 1 = req.slot + k
        BY <2>1
    <2> PICK h \in ReadFromFile(req.slot + k), found \in Pieces :
            /\ GetBlockFromHash(h, found)
            /\ actual_contents' = Append(actual_contents, found)
        BY <1>2, <2>2 DEF ReadHash
    <2>3. pc = "read" /\ UNCHANGED <<slots, fds, req>>
        BY <1>2 DEF ReadHash, fileVars
    <2>4. ASSUME found \in Blocks
          PROVE  req.slot + k \in DOMAIN slots[File] /\ slots[File][req.slot + k] = HashOf[found]
        <3> PICK i \in RowsOf(h) : hashes[i].block = found
            BY <2>1, <2>4, LookupAnswer
        <3>1. i \in DOMAIN hashes /\ hashes[i].hash = h
            BY DEF RowsOf
        <3>2. hashes[i] \in Row
            BY <2>1, <3>1 DEF PsqlTypeOK
        <3>3. h = HashOf[found] /\ h # Hole
            BY <3>1, <3>2, IOAssumption DEF RowsAddressed, Row
        <3> QED BY <3>3 DEF ReadFromFile
    <2>5. /\ DOMAIN actual_contents' = 1..k
          /\ actual_contents'[k] = found
          /\ \A i \in 1..Len(actual_contents) : actual_contents'[i] = actual_contents[i]
        BY <2>1
    <2>6. ASSUME NEW i \in 1..k, actual_contents'[i] \in Blocks
          PROVE  /\ req.slot + i \in DOMAIN slots[File]
                 /\ slots[File][req.slot + i] = HashOf[actual_contents'[i]]
        <3>1. CASE i = k
            BY <2>4, <2>5, <2>6, <3>1
        <3>2. CASE i \in DOMAIN actual_contents
            <4>1. actual_contents'[i] = actual_contents[i]
                BY <2>1, <2>5, <3>2
            <4> QED BY <2>3, <2>6, <3>2, <4>1 DEF ServedBlocksMatch
        <3> QED BY <2>1, <2>6, <3>1, <3>2
    <2> HIDE DEF k
    <2> QED BY <2>3, <2>5, <2>6 DEF ServedBlocksMatch, File
<1>3. CASE pc = "read" /\ UNCHANGED <<fileVars, handlerVars>>
    BY <1>3 DEF ServedBlocksMatch, File, fileVars, handlerVars
<1> QED BY <1>1, <1>2, <1>3, ReadSteps

\* Whatever fails, and whatever collides, a block that a read returns has the
\* digest that the file holds at that place.
THEOREM ServedBlocksMatchAlways == Spec => []ServedBlocksMatch
<1>1. Init => RowsAddressed /\ FreshBuffers /\ ServedBlocksMatch
    BY DEF Init, PsqlInit, IOInit, RowsAddressed, FreshBuffers, ServedBlocksMatch
<1> QED BY <1>1, TypeInit, TypeNext, RowsAddressedNext, FreshBuffersNext, ServedNext, PTL
        DEF Spec

-----------------------------------------------------------------------------
(***************************************************************************)
(* A write that starts with rec_count at 0.  Before each iteration the     *)
(* count is 0 and all digests so far are stored; between lookup and store  *)
(* a count that is not 0 is that of this lookup, so that the block of the  *)
(* answer is the block of the iteration, collisions aside.                 *)
(***************************************************************************)
LookupsTellTruth == CollisionFree /\ DbFaults \cap {"select", "insert"} = {}

AllStored(n) == \A i \in 1..n : Stored(hash_buffer[i])

CleanInv ==
    (req.clean /\ conn = "ok" /\ LookupsTellTruth) =>
        /\ pc \in {"lookup", "reply"} => rec_count = 0 /\ AllStored(Len(hash_buffer))
        /\ pc = "store" =>
            /\ AllStored(Len(hash_buffer) - 1)
            /\ rec_count # 0 => data_block = block_in_DB /\ Stored(BlockHash)

\* The steps of a write whose session works.
LEMMA WriteSteps ==
    ASSUME TypeInv, [Next]_vars, pc' \in {"lookup", "reply"}, conn' = "ok"
    PROVE  \/ WriteEnter
           \/ StoreNew
           \/ StoreCollision
           \/ StoreKnown
           \/ WriteToFile
           \/ UNCHANGED vars
<1>1. CASE HandlerStep
    BY <1>1 DEF HandlerStep, WriteLookup, WriteReply, ReadHash, ReadReply, ReadOverrun, Die,
        ToIdle
<1>2. CASE Environment
    BY <1>2 DEF Environment, Mount, Connect, Unmount, Crash, Die, ToIdle, SessionLost,
        LoseConnection, Open, Create, Release, Unlink, ReadEnter, Idle, handlerVars, TypeInv,
        TypeOK
<1> QED BY <1>1, <1>2 DEF Next

\* A write that began with a count of 0 goes on with one, and stores each
\* block that has no row.
LEMMA CleanNext ==
    TypeInv /\ RowsAddressed /\ FreshBuffers /\ CountTells /\ CleanInv /\ [Next]_vars => CleanInv'
<1> SUFFICES ASSUME TypeInv, RowsAddressed, FreshBuffers, CountTells, CleanInv, [Next]_vars,
                    req'.clean, conn' = "ok", LookupsTellTruth
             PROVE  /\ pc' \in {"lookup", "reply"} =>
                            rec_count' = 0 /\ AllStored(Len(hash_buffer))'
                    /\ pc' = "store" =>
                        /\ AllStored(Len(hash_buffer) - 1)'
                        /\ rec_count' # 0 => data_block' = block_in_DB' /\ Stored(BlockHash)'
    BY DEF CleanInv
<1>1. hash_buffer \in Seq(Hashes) /\ PsqlTypeOK
    BY DEF TypeInv, TypeOK, IOTypeOK
<1>2. ASSUME pc' \in {"lookup", "reply"}
      PROVE  rec_count' = 0 /\ AllStored(Len(hash_buffer))'
    <2>1. CASE WriteEnter
        <3>1. hash_buffer' = <<>>
            BY <2>1 DEF WriteEnter, Idle, writeVars, FreshBuffers
        <3>2. rec_count' = 0
            BY <2>1 DEF WriteEnter, NoReq, psqlVars
        <3> QED BY <3>1, <3>2 DEF AllStored
    <2>2. ASSUME pc = "store", UNCHANGED <<req, hash_buffer, data_block>>, conn = "ok",
                 rec_count' = 0, Stored(BlockHash)'
          PROVE  rec_count' = 0 /\ AllStored(Len(hash_buffer))'
        <3>1. AllStored(Len(hash_buffer) - 1)
            BY <2>2 DEF CleanInv
        <3>2. hash_buffer[Len(hash_buffer)] = BlockHash /\ BlockHash' = BlockHash
            BY <2>2 DEF TypeInv, StoreReady, BlockHash
        <3>3. \A i \in 1..Len(hash_buffer) : Stored(hash_buffer[i])'
            <4> TAKE i \in 1..Len(hash_buffer)
            <4>1. CASE i = Len(hash_buffer)
                BY <2>2, <3>2, <4>1 DEF Stored, RowsOf
            <4>2. CASE i # Len(hash_buffer)
                <5>1. Stored(hash_buffer[i])
                    BY <1>1, <3>1, <4>2 DEF AllStored
                <5>2. hash_buffer'[i] = hash_buffer[i]
                    BY <2>2
                <5> QED BY <5>1, <5>2, RowsStay DEF Stored, RowsOf
            <4> QED BY <4>1, <4>2
        <3> QED BY <2>2, <3>3 DEF AllStored
    <2>3. CASE StoreNew
        <3>1. Inserted(BlockHash, data_block)
            BY <2>3 DEF StoreNew, InsertHash, NotInserted, LookupsTellTruth
        <3>2. conn = "ok" /\ rec_count' = 0
            BY <2>3, <3>1 DEF Inserted, StoreNew, InsertHash
        <3>3. Stored(BlockHash)'
            <4>1. /\ Len(hashes) + 1 \in DOMAIN hashes'
                  /\ hashes'[Len(hashes) + 1].hash = BlockHash
                BY <1>1, <3>1 DEF Inserted, NewRow, PsqlTypeOK
            <4>2. BlockHash' = BlockHash
                BY <2>3 DEF StoreNew, writeVars, BlockHash
            <4> QED BY <4>1, <4>2 DEF Stored, RowsOf
        <3> QED BY <2>2, <2>3, <3>2, <3>3 DEF StoreNew, writeVars
    <2>4. CASE StoreCollision
        BY <2>4 DEF StoreCollision, CleanInv, psqlVars
    <2>5. CASE StoreKnown
        <3>1. conn = "ok" /\ rec_count' = 0 /\ req' = req
            BY <2>5 DEF StoreKnown, IncrHashCount
        <3>2. Stored(BlockHash)
            BY <2>5, <3>1 DEF StoreKnown, CleanInv
        <3>3. BlockHash' = BlockHash
            BY <2>5 DEF StoreKnown, writeVars, BlockHash
        <3>4. Stored(BlockHash)'
            BY <3>2, <3>3, RowsStay DEF Stored, RowsOf
        <3> QED BY <2>2, <2>5, <3>1, <3>4 DEF StoreKnown, writeVars
    <2>6. CASE WriteToFile
        BY <2>6 DEF WriteToFile, psqlVars, writeVars, CleanInv, AllStored, Stored, RowsOf
    <2>7. CASE UNCHANGED vars
        BY <1>2, <2>7 DEF vars, psqlVars, handlerVars, CleanInv, AllStored, Stored, RowsOf
    <2> QED BY <1>2, <2>1, <2>3, <2>4, <2>5, <2>6, <2>7, WriteSteps
<1>3. ASSUME pc' = "store"
      PROVE  /\ AllStored(Len(hash_buffer) - 1)'
             /\ rec_count' # 0 => data_block' = block_in_DB' /\ Stored(BlockHash)'
    <2>1. CASE WriteLookup
        <3> PICK b \in BlocksOfSlice(Len(hash_buffer) + 1), found \in Pieces :
                /\ GetBlockFromHash(HashOf[b], found)
                /\ data_block' = b
                /\ block_in_DB' = found
                /\ hash_buffer' = Append(hash_buffer, HashOf[b])
            BY <2>1 DEF WriteLookup
        <3>1. pc = "lookup" /\ req' = req /\ UNCHANGED <<hashes, conn>>
            BY <2>1 DEF WriteLookup, GetBlockFromHash
        <3>2. rec_count = 0 /\ AllStored(Len(hash_buffer))
            BY <3>1 DEF CleanInv
        <3>3. AllStored(Len(hash_buffer) - 1)'
            <4>1. Len(hash_buffer)' - 1 = Len(hash_buffer)
                BY <1>1
            <4>2. \A i \in 1..Len(hash_buffer) : hash_buffer'[i] = hash_buffer[i]
                BY <1>1
            <4> QED BY <3>1, <3>2, <4>1, <4>2 DEF AllStored, Stored, RowsOf
        <3>4. ASSUME rec_count' # 0
              PROVE  data_block' = block_in_DB' /\ Stored(BlockHash)'
            <4>1. LookupHits(HashOf[b], found)
                BY <3>2, <3>4 DEF GetBlockFromHash, LookupMisses
            <4>2. PICK i \in RowsOf(HashOf[b]) : found = hashes[i].block
                BY <4>1 DEF LookupHits
            <4>3. HashOf[found] = HashOf[b] /\ found \in Blocks
                <5>1. i \in DOMAIN hashes /\ hashes[i].hash = HashOf[b]
                    BY DEF RowsOf
                <5>2. hashes[i] \in Row
                    BY <1>1, <5>1 DEF PsqlTypeOK
                <5> QED BY <4>2, <5>1, <5>2 DEF RowsAddressed, Row
            <4>4. b \in Blocks
                BY <2>1, TypeNext DEF TypeInv, StoreReady, WriteLookup
            <4>5. found = b
                BY <4>3, <4>4 DEF LookupsTellTruth, CollisionFree
            <4>6. RowsOf(BlockHash)' = RowsOf(HashOf[b])
                BY <3>1 DEF BlockHash, RowsOf
            <4> QED BY <4>2, <4>5, <4>6 DEF Stored
        <3> QED BY <3>3, <3>4
    <2>2. CASE SessionLost
        BY <2>2 DEF SessionLost, LoseConnection
    <2>3. CASE UNCHANGED vars
        BY <1>3, <2>3
            DEF vars, psqlVars, handlerVars, CleanInv, AllStored, Stored, RowsOf, BlockHash
    <2> QED BY <1>3, <2>1, <2>2, <2>3, StoreSteps
<1> QED BY <1>2, <1>3

CleanAll == TypeInv /\ RowsAddressed /\ FreshBuffers /\ CountTells /\ CleanInv

\* The initial state satisfies all the invariants of a clean write.
LEMMA CleanAllInit == Init => CleanAll
BY TypeInit DEF Init, PsqlInit, IOInit, NoReq, CleanAll, RowsAddressed, FreshBuffers, CountTells,
    CleanInv

\* Every step keeps all of them.
LEMMA CleanAllNext == CleanAll /\ [Next]_vars => CleanAll'
BY TypeNext, RowsAddressedNext, FreshBuffersNext, CountTellsNext, CleanNext DEF CleanAll

\* In every instance without collisions, in which neither a lookup nor an
\* insert fails on a session that works, a write that came in with rec_count at 0
\* has stored every block it names by the time it answers, and hands rec_count
\* on at 0: writes alone never lose a block.
THEOREM CleanWriteStoresAlways == Spec => []CleanWriteStores
<1>1. CleanAll => CleanWriteStores
    <2> SUFFICES ASSUME CleanAll, pc = "reply", req.clean, conn = "ok", LookupsTellTruth
                 PROVE  /\ rec_count = 0
                        /\ \A i \in DOMAIN hash_buffer : Stored(hash_buffer[i])
        BY DEF CleanWriteStores, LookupsTellTruth
    <2>1. rec_count = 0 /\ AllStored(Len(hash_buffer))
        BY DEF CleanAll, CleanInv
    <2>2. DOMAIN hash_buffer = 1..Len(hash_buffer)
        BY DEF CleanAll, TypeInv, TypeOK, IOTypeOK
    <2> QED BY <2>1, <2>2 DEF AllStored
<1> QED BY <1>1, CleanAllInit, CleanAllNext, PTL DEF Spec

-----------------------------------------------------------------------------
(***************************************************************************)
(* The raw files.                                                          *)
(***************************************************************************)

\* A raw file changes when qfs_write puts digests in it, or between handlers
\* when it is emptied.
LEMMA SlotSteps ==
    ASSUME TypeInv, [Next]_vars
    PROVE  \/ slots' = slots
           \/ WriteToFile
           \/ pc = "idle" /\ \E f \in Files : slots' = [slots EXCEPT ![f] = <<>>]
<1>1. CASE HandlerStep
    BY <1>1 DEF HandlerStep, WriteLookup, StoreNew, StoreCollision, StoreKnown, WriteReply,
        ReadHash, ReadReply, ReadOverrun, Die, fileVars
<1>2. CASE Open \/ Unlink
    <2>1. present \subseteq Files /\ pc = "idle"
        BY <1>2 DEF Open, Unlink, Idle, TypeInv, TypeOK, IOTypeOK
    <2>2. CASE Open
        BY <2>1, <2>2 DEF Open
    <2>3. CASE Unlink
        BY <2>1, <2>3 DEF Unlink
    <2> QED BY <1>2, <2>2, <2>3
<1>3. CASE Environment /\ ~Open /\ ~Unlink
    BY <1>3 DEF Environment, Mount, Unmount, Crash, Die, SessionLost, Create, Release,
        WriteEnter, ReadEnter, fileVars
<1>4. CASE UNCHANGED vars
    BY <1>4 DEF vars, fileVars
<1> QED BY <1>1, <1>2, <1>3, <1>4 DEF Next

\* What a write's step to the raw file does, in the terms of OverlaySlots.
LEMMA WriteToFileOverlays ==
    ASSUME TypeInv, WriteToFile
    PROVE  \E n \in 0..Len(hash_buffer) :
             LET at == WriteSlot(req.fd, req.slot)
                 s  == SubSeq(hash_buffer, 1, n)
             IN  /\ File \in Files
                 /\ slots[File] \in Seq(Hashes \cup {Hole})
                 /\ at \in Nat
                 /\ s \in Seq(Hashes)
                 /\ Len(s) = n
                 /\ "pwrite" \notin IoFaults => n = Len(hash_buffer)
                 /\ \A i \in 1..n : s[i] = hash_buffer[i]
                 /\ slots' = [slots EXCEPT ![File] = Overlay(slots[File], at, s)]
<1>1. PICK n \in Written :
        slots' = [slots EXCEPT ![File] =
                    Overlay(@, WriteSlot(req.fd, req.slot), SubSeq(hash_buffer, 1, n))]
    BY DEF WriteToFile
<1>2. hash_buffer \in Seq(Hashes)
    BY DEF TypeInv, TypeOK, IOTypeOK
<1>3. n \in 0..Len(hash_buffer) /\ ("pwrite" \notin IoFaults => n = Len(hash_buffer))
    BY <1>2 DEF Written
<1>4. /\ SubSeq(hash_buffer, 1, n) \in Seq(Hashes)
      /\ Len(SubSeq(hash_buffer, 1, n)) = n
      /\ \A i \in 1..n : SubSeq(hash_buffer, 1, n)[i] = hash_buffer[i]
    BY <1>2, <1>3
<1>5. File \in Files /\ slots[File] \in Seq(Hashes \cup {Hole})
    BY DEF WriteToFile, TypeInv, TypeOK, IOTypeOK, File
<1>6. WriteSlot(req.fd, req.slot) \in Nat
    BY <1>5 DEF WriteToFile, TypeInv, TypeOK, IOTypeOK, File, WriteSlot
<1> QED BY <1>1, <1>3, <1>4, <1>5, <1>6

\* No step of a write touches a slot outside its window.
LEMMA WindowStep ==
    TypeInv /\ [Next]_vars => [(pc \in {"lookup", "store", "reply"}) => WriteKeepsTheRest]_vars
<1> SUFFICES ASSUME TypeInv, [Next]_vars, pc \in {"lookup", "store", "reply"},
                    NEW f \in Files, NEW i \in DOMAIN slots[f]
             PROVE  /\ i \in DOMAIN slots'[f]
                    /\ \/ slots'[f][i] = slots[f][i]
                       \/ /\ f = File /\ ~fds[req.fd].append
                          /\ i \in req.slot + 1..req.slot + Len(req.data)
    BY DEF WriteKeepsTheRest
<1>1. CASE slots' = slots
    BY <1>1
<1>2. CASE WriteToFile
    <2> DEFINE at == WriteSlot(req.fd, req.slot)
    <2>1. PICK n \in 0..Len(hash_buffer) :
            LET s == SubSeq(hash_buffer, 1, n)
            IN  /\ File \in Files
                /\ slots[File] \in Seq(Hashes \cup {Hole})
                /\ at \in Nat
                /\ s \in Seq(Hashes)
                /\ Len(s) = n
                /\ slots' = [slots EXCEPT ![File] = Overlay(slots[File], at, s)]
        BY <1>2, WriteToFileOverlays
    <2> DEFINE s == SubSeq(hash_buffer, 1, n)
    <2>2. slots \in [Files -> Seq(Hashes \cup {Hole})]
        BY DEF TypeInv, TypeOK, IOTypeOK
    <2>3. CASE f # File
        BY <2>1, <2>2, <2>3
    <2>4. CASE f = File
        <3>1. slots'[f] = Overlay(slots[f], at, s)
            BY <2>1, <2>2, <2>4
        <3>2. /\ i \in DOMAIN Overlay(slots[f], at, s)
              /\ Overlay(slots[f], at, s)[i] = slots[f][i] \/ i \in at + 1..at + n
            <4>1. slots[f] \in Seq(Hashes \cup {Hole}) /\ at \in Nat /\ s \in Seq(Hashes)
                BY <2>1, <2>4
            <4>2. Len(s) = n
                BY <2>1
            <4> HIDE DEF at, s
            <4> QED BY <4>1, <4>2, OverlaySlots
        <3>3. n <= Len(req.data) /\ Len(req.data) \in Nat /\ req.slot \in Nat
            BY <1>2, <2>1 DEF WriteToFile, TypeInv, TypeOK, IOTypeOK
        <3>4. CASE fds[req.fd].append
            <4>1. at = Len(slots[f]) /\ i \in 1..Len(slots[f])
                BY <2>1, <2>4, <3>4 DEF WriteSlot, File
            <4>2. i \notin at + 1..at + n
                BY <2>1, <4>1
            <4> QED BY <3>1, <3>2, <4>2
        <3>5. CASE ~fds[req.fd].append
            <4>1. at = req.slot
                BY <3>5 DEF WriteSlot
            <4>2. i \in at + 1..at + n => i \in req.slot + 1..req.slot + Len(req.data)
                BY <3>3, <4>1
            <4> QED BY <2>4, <3>1, <3>2, <3>5, <4>2
        <3> QED BY <3>4, <3>5
    <2> QED BY <2>3, <2>4
<1> QED BY <1>1, <1>2, SlotSteps

\* In every instance a write leaves alone what lies outside of its window, an
\* append all there was, and no write makes a file shorter.
THEOREM WritesStayInWindowAlways == Spec => WritesStayInWindow
BY TypeInit, TypeNext, WindowStep, PTL DEF Spec, WritesStayInWindow

-----------------------------------------------------------------------------
(***************************************************************************)
(* An acknowledged write is in the file.                                   *)
(***************************************************************************)

\* pwrite puts what it takes where it is told to, and at the end of a file it
\* adds no more than that.
LEMMA OverlayPuts ==
    ASSUME NEW file \in Seq(Hashes \cup {Hole}), NEW at \in Nat, NEW s \in Seq(Hashes)
    PROVE  /\ \A i \in 1..Len(s) :
                /\ at + i \in DOMAIN Overlay(file, at, s)
                /\ Overlay(file, at, s)[at + i] = s[i]
           /\ at = Len(file) => Len(Overlay(file, at, s)) = at + Len(s)
<1> DEFINE n == IF s = <<>> \/ at + Len(s) < Len(file) THEN Len(file) ELSE at + Len(s)
<1>1. n \in Nat /\ (Len(s) > 0 => n >= at + Len(s)) /\ (at = Len(file) => n = at + Len(s))
    OBVIOUS
<1>2. Overlay(file, at, s) =
        [i \in 1..n |-> IF i \in at + 1..at + Len(s) THEN s[i - at]
                        ELSE IF i \in DOMAIN file THEN file[i] ELSE Hole]
    BY DEF Overlay
<1>3. Len(Overlay(file, at, s)) = n
    <2>1. Overlay(file, at, s) \in Seq(Hashes \cup {Hole})
        BY OverlaySlots
    <2> HIDE DEF n
    <2> QED BY <1>1, <1>2, <2>1
<1>4. ASSUME NEW i \in 1..Len(s)
      PROVE  /\ at + i \in DOMAIN Overlay(file, at, s)
             /\ Overlay(file, at, s)[at + i] = s[i]
    <2>1. at + i \in 1..n /\ at + i \in at + 1..at + Len(s) /\ (at + i) - at = i
        BY <1>1
    <2> HIDE DEF n
    <2> QED BY <1>2, <2>1
<1> QED BY <1>1, <1>3, <1>4

\* The steps of a write, and what may come between them.
LEMMA StepsOfWrite ==
    ASSUME TypeInv, [Next]_vars, pc' \in {"lookup", "store", "reply"}
    PROVE  \/ WriteEnter
           \/ WriteLookup
           \/ StoreNew \/ StoreCollision \/ StoreKnown
           \/ WriteToFile
           \/ UNCHANGED <<fileVars, handlerVars>>
<1>1. CASE HandlerStep
    BY <1>1 DEF HandlerStep, WriteReply, ReadHash, ReadReply, ReadOverrun, Die, ToIdle
<1>2. CASE Environment
    BY <1>2 DEF Environment, Mount, Unmount, Crash, Die, ToIdle, SessionLost, Open, Create,
        Release, Unlink, ReadEnter, Idle, handlerVars
<1>3. CASE UNCHANGED vars
    BY <1>3 DEF vars
<1> QED BY <1>1, <1>2, <1>3 DEF Next

\* The digests collected so far are those of the slices of the buffer, each
\* in its place.
DigestsOfBuffer ==
    pc \in {"lookup", "store"} =>
        /\ Len(hash_buffer) <= Len(req.data)
        /\ \A i \in 1..Len(hash_buffer) : hash_buffer[i] \in {HashOf[b] : b \in BlocksOfSlice(i)}

LandInv == DigestsOfBuffer /\ AckedWriteLands

\* Each step of a write keeps them in their places.
LEMMA DigestsNext ==
    ASSUME TypeInv, FreshBuffers, DigestsOfBuffer, [Next]_vars
    PROVE  DigestsOfBuffer'
<1> SUFFICES ASSUME pc' \in {"lookup", "store"} PROVE DigestsOfBuffer'
    BY DEF DigestsOfBuffer
<1>1. hash_buffer \in Seq(Hashes) /\ req.data \in Seq(Chunks)
    BY DEF TypeInv, TypeOK, IOTypeOK
<1>2. CASE WriteEnter
    <2>1. hash_buffer = <<>> /\ hash_buffer' = <<>>
        BY <1>2 DEF WriteEnter, Idle, FreshBuffers, writeVars
    <2>2. PICK d \in Fds, offset \in Offsets, data \in Buffers :
            req' = [NoReq EXCEPT !.op = "write", !.fd = d, !.slot = SlotAt(offset),
                                 !.data = data, !.clean = (rec_count = 0)]
        BY <1>2 DEF WriteEnter
    <2>3. PICK n \in 1..MaxBlocks : data \in [1..n -> Chunks]
        BY DEF Buffers
    <2>4. Len(req'.data) \in Nat
        BY <2>2, <2>3, IOAssumption DEF NoReq
    <2> QED BY <2>1, <2>4 DEF DigestsOfBuffer
<1>3. CASE WriteLookup
    <2> DEFINE n == Len(hash_buffer)
    <2>1. PICK b \in BlocksOfSlice(n + 1) : hash_buffer' = Append(hash_buffer, HashOf[b])
        BY <1>3 DEF WriteLookup
    <2>2. n \in Nat /\ n < Len(req.data) /\ Len(req.data) \in Nat /\ req' = req /\ pc = "lookup"
        BY <1>1, <1>3 DEF WriteLookup
    <2>3. /\ Len(hash_buffer') = n + 1
          /\ \A i \in 1..n : hash_buffer'[i] = hash_buffer[i]
          /\ hash_buffer'[n + 1] = HashOf[b]
        BY <1>1, <2>1
    <2>4. \A i \in 1..n : hash_buffer[i] \in {HashOf[c] : c \in BlocksOfSlice(i)}
        BY <2>2 DEF DigestsOfBuffer
    <2>5. ASSUME NEW i \in 1..n + 1
          PROVE  hash_buffer'[i] \in {HashOf[c] : c \in BlocksOfSlice(i)'}
        <3>1. BlocksOfSlice(i)' = BlocksOfSlice(i)
            BY <2>2 DEF BlocksOfSlice
        <3>2. CASE i \in 1..n
            BY <2>3, <2>4, <3>1, <3>2
        <3>3. CASE i = n + 1
            BY <2>1, <2>3, <3>1, <3>3
        <3> QED BY <2>2, <3>2, <3>3
    <2>6. Len(hash_buffer') <= Len(req'.data)
        BY <2>2, <2>3
    <2> QED BY <2>3, <2>5, <2>6 DEF DigestsOfBuffer
<1>4. CASE StoreNew \/ StoreCollision \/ StoreKnown \/ UNCHANGED <<fileVars, handlerVars>>
    <2>1. hash_buffer' = hash_buffer /\ req' = req /\ pc \in {"lookup", "store"}
        BY <1>4 DEF StoreNew, StoreCollision, StoreKnown, writeVars, handlerVars
    <2> QED BY <2>1 DEF DigestsOfBuffer, BlocksOfSlice
<1>5. CASE WriteToFile
    BY <1>5 DEF WriteToFile
<1> QED BY <1>2, <1>3, <1>4, <1>5, StepsOfWrite

\* When the digests have gone to the file, they are there.
LEMMA LandedByWrite ==
    ASSUME TypeInv, DigestsOfBuffer, WriteToFile, "pwrite" \notin IoFaults
    PROVE  AckedWriteLands'
<1> DEFINE at == WriteSlot(req.fd, req.slot)
           s  == SubSeq(hash_buffer, 1, Len(hash_buffer))
           n  == Len(req.data)
<1>1. /\ File \in Files
      /\ slots[File] \in Seq(Hashes \cup {Hole})
      /\ at \in Nat
      /\ s \in Seq(Hashes)
      /\ Len(s) = Len(hash_buffer)
      /\ \A i \in 1..Len(hash_buffer) : s[i] = hash_buffer[i]
      /\ slots' = [slots EXCEPT ![File] = Overlay(slots[File], at, s)]
    BY WriteToFileOverlays
<1>2. /\ Len(hash_buffer) = n
      /\ \A i \in 1..n : hash_buffer[i] \in {HashOf[b] : b \in BlocksOfSlice(i)}
    BY DEF WriteToFile, DigestsOfBuffer
<1>3. fds' = fds /\ req' = req /\ File' = File
    BY DEF WriteToFile, File
<1>4. slots'[File] = Overlay(slots[File], at, s)
    BY <1>1 DEF TypeInv, TypeOK, IOTypeOK
<1>5. /\ \A i \in 1..n : /\ at + i \in DOMAIN slots'[File]
                         /\ slots'[File][at + i] = s[i]
      /\ at = Len(slots[File]) => Len(slots'[File]) = at + n
    <2>1. Len(s) = n
        BY <1>1, <1>2
    <2>2. /\ \A i \in 1..Len(s) : /\ at + i \in DOMAIN Overlay(slots[File], at, s)
                                  /\ Overlay(slots[File], at, s)[at + i] = s[i]
          /\ at = Len(slots[File]) => Len(Overlay(slots[File], at, s)) = at + Len(s)
        <3>1. slots[File] \in Seq(Hashes \cup {Hole}) /\ at \in Nat /\ s \in Seq(Hashes)
            BY <1>1
        <3> HIDE DEF at, s, n
        <3> QED BY <3>1, OverlayPuts
    <2> HIDE DEF at, s, n
    <2> QED BY <1>4, <2>1, <2>2
<1>6. at = IF fds[req.fd].append THEN Len(slots'[File]) - n ELSE req.slot
    <2>1. n \in Nat
        BY DEF TypeInv, TypeOK, IOTypeOK
    <2>2. CASE fds[req.fd].append
        <3>1. at = Len(slots[File])
            BY <2>2 DEF WriteSlot, File
        <3>2. Len(slots'[File]) = at + n
            BY <1>5, <3>1
        <3> HIDE DEF at, n
        <3> QED BY <1>1, <2>1, <2>2, <3>2
    <2>3. CASE ~fds[req.fd].append
        BY <2>3 DEF WriteSlot
    <2> QED BY <2>2, <2>3
<1>7. ASSUME NEW i \in 1..n
      PROVE  /\ at + i \in DOMAIN slots'[File]
             /\ slots'[File][at + i] \in {HashOf[b] : b \in BlocksOfSlice(i)}
    BY <1>1, <1>2, <1>5
<1> HIDE DEF at, s
<1> QED BY <1>3, <1>6, <1>7 DEF AckedWriteLands, BlocksOfSlice

\* Only a buffer that begins with NUL is acknowledged without being written.
LEMMA LandNext ==
    ASSUME ZeroLed = {}
    PROVE  TypeInv /\ FreshBuffers /\ LandInv /\ [Next]_vars => LandInv'
<1> SUFFICES ASSUME TypeInv, FreshBuffers, LandInv, [Next]_vars PROVE AckedWriteLands'
    BY DigestsNext DEF LandInv
<1> SUFFICES ASSUME pc' = "reply", "pwrite" \notin IoFaults PROVE AckedWriteLands'
    BY DEF AckedWriteLands
<1>1. CASE WriteToFile
    BY <1>1, LandedByWrite DEF LandInv
<1>2. CASE UNCHANGED <<fileVars, handlerVars>>
    BY <1>2 DEF LandInv, AckedWriteLands, fileVars, handlerVars, File, BlocksOfSlice
<1>3. CASE WriteEnter \/ WriteLookup \/ StoreNew \/ StoreCollision \/ StoreKnown
    BY <1>3 DEF WriteEnter, WriteLookup, StoreNew, StoreCollision, StoreKnown
<1> QED BY <1>1, <1>2, <1>3, StepsOfWrite

\* As long as pwrite takes what it is given and no buffer begins with NUL, what
\* a client was told is written is in the raw file, at its place or at its end.
THEOREM AckedWriteLandsAlways ==
    ASSUME ZeroLed = {}
    PROVE  Spec => []AckedWriteLands
<1>1. Init => FreshBuffers /\ LandInv
    BY DEF Init, IOInit, FreshBuffers, LandInv, DigestsOfBuffer, AckedWriteLands
<1>2. TypeInv /\ FreshBuffers /\ LandInv /\ [Next]_vars => LandInv'
    BY LandNext
<1>3. LandInv => AckedWriteLands
    BY DEF LandInv
<1> QED BY <1>1, <1>2, <1>3, TypeInit, TypeNext, FreshBuffersNext, PTL DEF Spec

-----------------------------------------------------------------------------
(***************************************************************************)
(* The ingest of a backup: no reads, no collisions, a database that does   *)
(* not fail lookups, inserts or the session.  Updates and pwrites may      *)
(* still fail, and the process may be killed at any point.                 *)
(***************************************************************************)
WritesOnly ==
    /\ ReadSizes = {}
    /\ CollisionFree
    /\ DbFaults \cap {"select", "insert", "conn"} = {}

IngestInv ==
    /\ conn # "bad"
    /\ pc # "read"
    /\ pc \in {"lookup", "store", "reply"} => req.clean
    /\ Alive /\ pc # "store" => rec_count = 0
    /\ EveryReferenceResolves

\* Where there are writes only, the count is 0 between requests, and a
\* reference has its row.
LEMMA IngestNext ==
    ASSUME WritesOnly
    PROVE  CleanAll /\ IngestInv /\ [Next]_vars => IngestInv'
<1> SUFFICES ASSUME CleanAll, IngestInv, [Next]_vars PROVE IngestInv'
    OBVIOUS
<1>1. TypeInv /\ CleanAll' /\ LookupsTellTruth
    BY CleanAllNext DEF CleanAll, LookupsTellTruth, WritesOnly
<1>2. /\ conn' # "bad"
      /\ pc' # "read"
      /\ pc' \in {"lookup", "store", "reply"} => req'.clean
      /\ Alive' /\ pc' # "store" => rec_count' = 0
    <2>1. CASE WriteLookup
        BY <2>1 DEF WriteLookup, GetBlockFromHash, IngestInv
    <2>2. CASE StoreNew \/ StoreCollision \/ StoreKnown
        <3>1. pc' = "lookup" /\ req'.clean /\ pc = "store"
            BY <2>2 DEF StoreNew, StoreCollision, StoreKnown, IngestInv
        <3>2. conn' # "bad" /\ Alive'
            BY <2>2, <1>1 DEF StoreNew, StoreCollision, StoreKnown, InsertHash, Inserted,
                NotInserted, IncrHashCount, psqlVars, IngestInv, WritesOnly, TypeInv, TypeOK, Alive
        <3>3. conn' = "ok"
            BY <3>2 DEF Alive
        <3>4. rec_count' = 0
            BY <1>1, <3>1, <3>3 DEF CleanAll, CleanInv
        <3> QED BY <3>1, <3>2, <3>4
    <2>3. CASE WriteToFile
        BY <2>3 DEF WriteToFile, IngestInv, psqlVars, Alive
    <2>4. CASE WriteReply \/ ReadReply
        BY <2>4 DEF WriteReply, ReadReply, ReadDone, ToIdle, IngestInv, psqlVars, Alive
    <2>5. CASE ReadHash \/ ReadOverrun
        BY <2>5 DEF ReadHash, ReadOverrun, ReadDone, IngestInv
    <2>6. CASE Environment
        <3>1. CASE Mount
            BY <1>1, <3>1 DEF Mount, Connect, handlerVars, IngestInv, TypeInv, TypeOK
        <3>2. CASE Crash
            BY <3>2 DEF Crash, Die, ToIdle, ProcessDies, Alive
        <3>3. CASE Unmount
            BY <3>3 DEF Unmount, Disconnect, Idle, Alive, handlerVars
        <3>4. CASE Open \/ Create \/ Release \/ Unlink
            BY <3>4 DEF Open, Create, Release, Unlink, psqlVars, handlerVars, IngestInv, Alive
        <3>5. CASE WriteEnter
            BY <3>5 DEF WriteEnter, NoReq, Idle, Alive, psqlVars, IngestInv
        <3>6. CASE SessionLost \/ ReadEnter
            BY <3>6 DEF SessionLost, LoseConnection, ReadEnter, WritesOnly
        <3> QED BY <2>6, <3>1, <3>2, <3>3, <3>4, <3>5, <3>6 DEF Environment
    <2>7. CASE UNCHANGED vars
        BY <2>7 DEF vars, psqlVars, handlerVars, IngestInv, Alive
    <2> QED BY <2>1, <2>2, <2>3, <2>4, <2>5, <2>6, <2>7 DEF Next, HandlerStep
<1>3. ASSUME NEW f \in Files, NEW i \in DOMAIN slots'[f], slots'[f][i] # Hole
      PROVE  \E j \in DOMAIN hashes' : hashes'[j].hash = slots'[f][i]
    <2>1. slots \in [Files -> Seq(Hashes \cup {Hole})]
        BY <1>1 DEF TypeInv, TypeOK, IOTypeOK
    <2>2. ASSUME i \in DOMAIN slots[f], slots'[f][i] = slots[f][i]
          PROVE  \E j \in DOMAIN hashes' : hashes'[j].hash = slots'[f][i]
        <3>1. Stored(slots[f][i])
            BY <1>3, <2>2 DEF IngestInv, EveryReferenceResolves
        <3> QED BY <1>1, <2>2, <3>1, StoredForEver
    <2>3. CASE slots' = slots
        BY <1>3, <2>2, <2>3
    <2>4. CASE pc = "idle" /\ \E g \in Files : slots' = [slots EXCEPT ![g] = <<>>]
        BY <1>3, <2>1, <2>2, <2>4
    <2>5. CASE WriteToFile
        <3> DEFINE at == WriteSlot(req.fd, req.slot)
        <3>1. PICK n \in 0..Len(hash_buffer) :
                LET s == SubSeq(hash_buffer, 1, n)
                IN  /\ File \in Files
                    /\ slots[File] \in Seq(Hashes \cup {Hole})
                    /\ at \in Nat
                    /\ s \in Seq(Hashes)
                    /\ Len(s) = n
                    /\ \A j \in 1..n : s[j] = hash_buffer[j]
                    /\ slots' = [slots EXCEPT ![File] = Overlay(slots[File], at, s)]
            BY <1>1, <2>5, WriteToFileOverlays
        <3> DEFINE s == SubSeq(hash_buffer, 1, n)
        <3>2. CASE f # File
            BY <1>3, <2>1, <2>2, <3>1, <3>2
        <3>3. CASE f = File
            <4>1. slots'[f] = Overlay(slots[f], at, s)
                BY <2>1, <3>1, <3>3
            <4>2. \/ i - at \in DOMAIN s /\ slots'[f][i] = s[i - at]
                  \/ i \in DOMAIN slots[f] /\ slots'[f][i] = slots[f][i]
                  \/ slots'[f][i] = Hole
                <5>1. slots[f] \in Seq(Hashes \cup {Hole}) /\ at \in Nat /\ s \in Seq(Hashes)
                    BY <3>1, <3>3
                <5>2. i \in DOMAIN Overlay(slots[f], at, s)
                    BY <1>3, <4>1
                <5> HIDE DEF at, s
                <5>3. \A k \in DOMAIN Overlay(slots[f], at, s) :
                        \/ k - at \in DOMAIN s /\ Overlay(slots[f], at, s)[k] = s[k - at]
                        \/ k \in DOMAIN slots[f] /\ Overlay(slots[f], at, s)[k] = slots[f][k]
                        \/ Overlay(slots[f], at, s)[k] = Hole
                    BY <5>1, OverlaySlots
                <5> QED BY <4>1, <5>2, <5>3
            <4>3. ASSUME i - at \in DOMAIN s, slots'[f][i] = s[i - at]
                  PROVE  \E j \in DOMAIN hashes' : hashes'[j].hash = slots'[f][i]
                <5>1. /\ i - at \in 1..n
                      /\ n \in 0..Len(hash_buffer)
                      /\ slots'[f][i] = hash_buffer[i - at]
                    <6>1. s \in Seq(Hashes) /\ Len(s) = n /\ \A j \in 1..n : s[j] = hash_buffer[j]
                        BY <3>1
                    <6> HIDE DEF at, s
                    <6> QED BY <4>3, <6>1
                <5>2. pc = "lookup" /\ req.clean /\ conn = "ok"
                    BY <1>1, <2>5 DEF WriteToFile, IngestInv, TypeInv, TypeOK, Alive
                <5>3. AllStored(Len(hash_buffer))
                    BY <1>1, <5>2 DEF CleanAll, CleanInv
                <5>4. Len(hash_buffer) \in Nat
                    BY <1>1 DEF TypeInv, TypeOK, IOTypeOK
                <5>5. Stored(hash_buffer[i - at])
                    BY <5>1, <5>3, <5>4 DEF AllStored
                <5> QED BY <1>1, <5>1, <5>5, StoredForEver
            <4> QED BY <1>3, <2>2, <4>2, <4>3
        <3> QED BY <3>2, <3>3
    <2> QED BY <1>1, <2>3, <2>4, <2>5, SlotSteps
<1> QED BY <1>2, <1>3 DEF IngestInv, EveryReferenceResolves, Stored, RowsOf

\* A file system that only takes backups in never loses a block: however
\* often it is killed and started again, and whatever updates and pwrites fail,
\* each digest in each raw file has its row.
THEOREM IngestLosesNothing ==
    ASSUME WritesOnly
    PROVE  Spec => []EveryReferenceResolves
<1>1. Init => IngestInv
    BY DEF Init, PsqlInit, IOInit, IngestInv, EveryReferenceResolves, Alive
<1>2. CleanAll /\ IngestInv /\ [Next]_vars => IngestInv'
    BY IngestNext
<1>3. IngestInv => EveryReferenceResolves
    BY DEF IngestInv
<1> QED BY <1>1, <1>2, <1>3, CleanAllInit, CleanAllNext, PTL DEF Spec
=============================================================================

-------------------------- MODULE QubeIORefines_proofs --------------------------
(***************************************************************************)
(* QubeIO implements QubeBackup, for every instance of the constants: the  *)
(* initial states map to initial states, and each step of a handler, of    *)
(* the kernel or of the database server to a step of the block store or to *)
(* none at all.                                                            *)
(***************************************************************************)
EXTENDS QubeIORefines, QubeIO_proofs

\* What the two promises of QubeBackup take.  Blocks are only known by their
\* digests if these do not collide; nothing is lost if there are writes only,
\* none of them skipped or cut short.
Promises ==
    /\ CollisionFree
    /\ Lossless => WritesOnly /\ ZeroLed = {} /\ "pwrite" \notin IoFaults

RefineInv == CleanAll /\ DigestsOfBuffer /\ (Lossless => IngestInv)

-----------------------------------------------------------------------------
(***************************************************************************)
(* The mapping.                                                            *)
(***************************************************************************)

\* The block of a digest is the one it was computed from.
LEMMA BlockOfDigest ==
    ASSUME CollisionFree, NEW b \in Blocks
    PROVE  BlockOf(HashOf[b]) = b
<1>1. HashOf[b] # Hole
    BY IOAssumption, PsqlAssumption
<1>2. \A c \in Blocks : HashOf[c] = HashOf[b] => c = b
    BY DEF CollisionFree
<1>3. (CHOOSE c \in Blocks : HashOf[c] = HashOf[b]) = b
    BY <1>2
<1> QED BY <1>1, <1>3 DEF BlockOf

\* A file of blocks is as long as its raw file is in digests.
LEMMA BlocksOfRaw ==
    ASSUME NEW raw \in Seq(Hashes \cup {Hole}),
           NEW g, g = [i \in DOMAIN raw |-> BlockOf(raw[i])]
    PROVE  Len(g) = Len(raw) /\ DOMAIN g = DOMAIN raw
<1> DEFINE B == {BlockOf(h) : h \in Hashes \cup {Hole}}
<1>1. DOMAIN raw = 1..Len(raw) /\ Len(raw) \in Nat
    OBVIOUS
<1>2. \A i \in DOMAIN raw : BlockOf(raw[i]) \in B
    OBVIOUS
<1> HIDE DEF B
<1>3. g \in [1..Len(raw) -> B]
    BY <1>1, <1>2
<1>4. g \in Seq(B)
    BY <1>1, <1>3
<1>5. Len(g) = Len(raw)
    BY <1>1, <1>4
<1> QED BY <1>5

\* A row keeps the block of its digest.
LEMMA RowsAreKept ==
    ASSUME TypeInv, RowsAddressed, CollisionFree, NEW i \in DOMAIN hashes
    PROVE  /\ hashes[i].block \in KeptBar \cap Blocks
           /\ hashes[i].hash \in Hashes
           /\ BlockOf(hashes[i].hash) = hashes[i].block
<1>1. hashes[i] \in Row
    BY DEF TypeInv, TypeOK, PsqlTypeOK
<1>2. hashes[i].block \in Blocks /\ hashes[i].hash \in Hashes
    BY <1>1 DEF Row
<1> QED BY <1>2, BlockOfDigest DEF KeptBar, RowsAddressed

\* What pwrite leaves, slot by slot.
LEMMA OverlayIs ==
    ASSUME NEW file \in Seq(Hashes \cup {Hole}), NEW at \in Nat, NEW s \in Seq(Hashes)
    PROVE  /\ Len(Overlay(file, at, s)) =
                IF Len(s) = 0 \/ at + Len(s) < Len(file) THEN Len(file) ELSE at + Len(s)
           /\ \A i \in DOMAIN Overlay(file, at, s) :
                Overlay(file, at, s)[i] =
                    IF i \in at + 1..at + Len(s) THEN s[i - at]
                    ELSE IF i \in DOMAIN file THEN file[i] ELSE Hole
<1> DEFINE n == IF s = <<>> \/ at + Len(s) < Len(file) THEN Len(file) ELSE at + Len(s)
<1>1. n = IF Len(s) = 0 \/ at + Len(s) < Len(file) THEN Len(file) ELSE at + Len(s)
    OBVIOUS
<1>2. n \in Nat
    OBVIOUS
<1>3. Overlay(file, at, s) =
        [i \in 1..n |-> IF i \in at + 1..at + Len(s) THEN s[i - at]
                        ELSE IF i \in DOMAIN file THEN file[i] ELSE Hole]
    BY DEF Overlay
<1>4. Overlay(file, at, s) \in Seq(Hashes \cup {Hole})
    BY OverlaySlots
<1> HIDE DEF n
<1>5. Len(Overlay(file, at, s)) = n
    BY <1>2, <1>3, <1>4
<1> QED BY <1>1, <1>3, <1>5

-----------------------------------------------------------------------------
(***************************************************************************)
(* The steps.                                                              *)
(***************************************************************************)

\* The initial states.
LEMMA RefineInit == Init => Backup!Init
BY DEF Init, PsqlInit, IOInit, Backup!Init, Backup!NoCall, Alive, ImageBar, KeptBar, CallBar

\* A step that leaves the session, the files and the rows alone, and stays
\* within a write, is none of the block store's.
LEMMA StutterInWrite ==
    ASSUME Alive' = Alive, KeptBar' = KeptBar, UNCHANGED <<fileVars, req, actual_contents>>,
           pc \in {"lookup", "store"}, pc' \in {"lookup", "store"}
    PROVE  UNCHANGED Backup!backupVars
<1>1. ImageBar' = ImageBar
    BY DEF ImageBar, fileVars
<1>2. CallBar' = CallBar
    <2>1. WriteSlot(req.fd, req.slot)' = WriteSlot(req.fd, req.slot)
        BY DEF WriteSlot, fileVars
    <2> QED BY <2>1 DEF CallBar, Call, File, fileVars
<1> QED BY <1>1, <1>2 DEF Backup!backupVars

\* What comes between requests.
LEMMA RefineBetween ==
    ASSUME RefineInv, pc = "idle",
           Mount \/ Unmount \/ SessionLost \/ Open \/ Create \/ Release \/ Unlink
    PROVE  [Backup!Next]_Backup!backupVars
<1>1. pc' = "idle" /\ CallBar = Backup!NoCall /\ CallBar' = Backup!NoCall
    <2>1. pc' = "idle"
        BY DEF Mount, Unmount, SessionLost, Open, Create, Release, Unlink, handlerVars
    <2> QED BY <2>1 DEF CallBar, Backup!NoCall
<1>2. actual_contents' = actual_contents /\ hashes' = hashes /\ KeptBar' = KeptBar
    BY DEF Mount, Connect, Unmount, Disconnect, SessionLost, LoseConnection, Open, Create, Release,
        Unlink, handlerVars, psqlVars, KeptBar
<1>3. actual_contents = <<>>
    BY DEF RefineInv, CleanAll, FreshBuffers
<1>4. slots' = slots => ImageBar' = ImageBar
    BY DEF ImageBar
<1>5. CASE Mount
    <2>1. ~Alive /\ Alive' /\ slots' = slots
        BY <1>5 DEF Mount, Connect, Alive, fileVars
    <2> QED BY <1>1, <1>2, <1>4, <2>1 DEF Backup!Next, Backup!Start
<1>6. CASE Unmount
    <2>1. Alive /\ ~Alive' /\ slots' = slots
        BY <1>6 DEF Unmount, Idle, Disconnect, Alive, fileVars
    <2> QED BY <1>1, <1>2, <1>3, <1>4, <2>1 DEF Backup!Next, Backup!Stop
<1>7. ASSUME Alive' = Alive, slots' = slots PROVE UNCHANGED Backup!backupVars
    BY <1>1, <1>2, <1>4, <1>7 DEF Backup!backupVars
<1>8. CASE SessionLost \/ Create \/ Release
    BY <1>7, <1>8 DEF SessionLost, LoseConnection, Create, Release, fileVars, psqlVars, Alive
<1>9. ASSUME Alive, Alive' = Alive, NEW f \in Files, slots' = [slots EXCEPT ![f] = <<>>]
      PROVE  Backup!Next
    <2>1. ImageBar' = [ImageBar EXCEPT ![f] = <<>>]
        <3>1. slots \in [Files -> Seq(Hashes \cup {Hole})]
            BY DEF RefineInv, CleanAll, TypeInv, TypeOK, IOTypeOK
        <3>2. [i \in DOMAIN slots'[f] |-> BlockOf(slots'[f][i])] = <<>>
            BY <1>9, <3>1
        <3> QED BY <1>9, <3>1, <3>2 DEF ImageBar
    <2> QED BY <1>1, <1>2, <1>9, <2>1 DEF Backup!Next, Backup!Erase
<1>10. present \subseteq Files
    BY DEF RefineInv, CleanAll, TypeInv, TypeOK, IOTypeOK
<1>11. CASE Open
    <2> PICK f \in present, trunc \in BOOLEAN :
            slots' = IF trunc THEN [slots EXCEPT ![f] = <<>>] ELSE slots
        BY <1>11 DEF Open
    <2>1. Alive /\ Alive' = Alive
        BY <1>11 DEF Open, Idle, Alive, psqlVars
    <2> QED BY <1>7, <1>9, <1>10, <2>1
<1>12. CASE Unlink
    <2>1. Alive /\ Alive' = Alive
        BY <1>12 DEF Unlink, Idle, Alive, psqlVars
    <2> QED BY <1>9, <1>10, <1>12, <2>1 DEF Unlink
<1> QED BY <1>5, <1>6, <1>8, <1>11, <1>12

\* A request that comes in.
LEMMA RefineEnter ==
    ASSUME Promises, RefineInv, WriteEnter \/ ReadEnter
    PROVE  Backup!Request
<1>1. TypeInv /\ slots \in [Files -> Seq(Hashes \cup {Hole})]
    BY DEF RefineInv, CleanAll, TypeInv, TypeOK, IOTypeOK
<1>2. /\ Alive /\ Alive' = Alive /\ KeptBar' = KeptBar
      /\ slots' = slots /\ fds' = fds /\ actual_contents' = actual_contents
    BY DEF WriteEnter, ReadEnter, Idle, Alive, psqlVars, fileVars, KeptBar
<1>3. ImageBar' = ImageBar
    BY <1>2 DEF ImageBar
<1>4. CallBar = Backup!NoCall
    BY DEF WriteEnter, ReadEnter, Idle, CallBar, Backup!NoCall
<1>5. CallBar' \in [op : {"put", "get"}, file : Files, at : Nat, data : Seq(Chunks),
                    done : IF Lossless THEN {FALSE} ELSE BOOLEAN]
    <2>1. CASE WriteEnter
        <3> PICK d \in Fds, offset \in Offsets, data \in Buffers :
                /\ fds[d].file \in Files
                /\ req' = [NoReq EXCEPT !.op = "write", !.fd = d, !.slot = SlotAt(offset),
                                        !.data = data, !.clean = (rec_count = 0)]
                /\ pc' = IF data[1] \in ZeroLed THEN "reply" ELSE "lookup"
            BY <2>1 DEF WriteEnter
        <3>1. SlotAt(offset) \in Nat
            BY IOAssumption DEF SlotAt, HashOffset
        <3>2. data \in Seq(Chunks) /\ <<>> \in Seq(Chunks)
            BY IOAssumption DEF Buffers
        <3>3. req'.fd = d /\ req'.slot = SlotAt(offset) /\ req'.data = data
            BY DEF NoReq
        <3>4. File' \in Files /\ WriteSlot(req.fd, req.slot)' \in Nat
            BY <1>1, <1>2, <3>1, <3>3 DEF File, WriteSlot
        <3>5. CASE pc' = "lookup"
            <4>1. CallBar' = Call("put", WriteSlot(req.fd, req.slot), req.data, FALSE)'
                BY <3>5 DEF CallBar
            <4> QED BY <3>2, <3>3, <3>4, <4>1 DEF Call
        <3>6. CASE pc' = "reply"
            <4>1. CallBar' = Call("put", 0, <<>>, TRUE)'
                BY <3>6 DEF CallBar
            <4>2. ~Lossless
                BY <3>6 DEF Promises
            <4> QED BY <3>2, <3>4, <4>1, <4>2 DEF Call
        <3> QED BY <3>5, <3>6
    <2>2. CASE ReadEnter
        <3> PICK d \in Fds, offset \in Offsets, size \in ReadSizes :
                /\ fds[d].file \in Files
                /\ req' = [NoReq EXCEPT !.op = "read", !.fd = d, !.slot = SlotAt(offset),
                                        !.size = size]
            BY <2>2 DEF ReadEnter
        <3>1. SlotAt(offset) \in Nat
            BY IOAssumption DEF SlotAt, HashOffset
        <3>2. req'.fd = d /\ req'.slot = SlotAt(offset)
            BY DEF NoReq
        <3>3. File' \in Files
            BY <1>2, <3>2 DEF File
        <3>4. CallBar' = Call("get", req.slot, <<>>, FALSE)'
            BY <2>2 DEF ReadEnter, CallBar
        <3>5. <<>> \in Seq(Chunks)
            OBVIOUS
        <3> QED BY <3>1, <3>2, <3>3, <3>4, <3>5 DEF Call
    <2> QED BY <2>1, <2>2
<1> QED BY <1>2, <1>3, <1>4, <1>5 DEF Backup!Request

\* A handler that ends, well or not.
LEMMA RefineEnd ==
    ASSUME RefineInv, pc # "idle", ToIdle, UNCHANGED <<slots, hashes>>,
           (pc \in {"reply", "read"} /\ Alive') \/ ~Alive'
    PROVE  Backup!Next
<1>1. /\ CallBar' = Backup!NoCall
      /\ actual_contents' = <<>>
      /\ ImageBar' = ImageBar
      /\ KeptBar' = KeptBar
    BY DEF ToIdle, CallBar, Backup!NoCall, ImageBar, KeptBar
<1>2. Alive
    BY DEF RefineInv, CleanAll, TypeInv, TypeOK
<1>3. CASE ~Alive'
    BY <1>1, <1>2, <1>3 DEF Backup!Next, Backup!Stop
<1>4. CASE pc \in {"reply", "read"} /\ Alive'
    <2>1. CallBar # Backup!NoCall /\ (CallBar.op = "put" => CallBar.done)
        <3>1. CallBar.op # "none" /\ (CallBar.op = "put" => CallBar.done)
            BY <1>4 DEF CallBar, Call
        <3> QED BY <3>1 DEF Backup!NoCall
    <2> QED BY <1>1, <1>2, <1>4, <2>1 DEF Backup!Next, Backup!Return
<1> QED BY <1>3, <1>4

\* An iteration of a write keeps a block of the request, or leaves no trace.
LEMMA RefineStore ==
    ASSUME Promises, RefineInv, WriteLookup \/ StoreNew \/ StoreCollision \/ StoreKnown
    PROVE  [Backup!Next]_Backup!backupVars
<1>1. TypeInv /\ PsqlTypeOK /\ Alive
    BY DEF RefineInv, CleanAll, TypeInv, TypeOK, WriteLookup, StoreNew, StoreCollision, StoreKnown
<1>2. Alive'
    <2>1. TypeInv' /\ pc' # "idle"
        BY <1>1, TypeNext DEF Next, HandlerStep, WriteLookup, StoreNew, StoreCollision, StoreKnown
    <2> QED BY <2>1 DEF TypeInv, TypeOK
<1>3. /\ UNCHANGED <<fileVars, req, actual_contents>>
      /\ pc \in {"lookup", "store"} /\ pc' \in {"lookup", "store"}
    BY DEF WriteLookup, StoreNew, StoreCollision, StoreKnown
<1>4. CASE KeptBar' = KeptBar
    BY <1>1, <1>2, <1>3, <1>4, StutterInWrite
<1>5. CASE WriteLookup \/ StoreCollision
    BY <1>4, <1>5 DEF WriteLookup, GetBlockFromHash, StoreCollision, psqlVars, KeptBar
<1>6. CASE StoreKnown
    <2>1. CASE hashes' = hashes
        BY <1>4, <2>1 DEF KeptBar
    <2>2. CASE ~AtLimit(BlockHash) /\ hashes' = CountUp(BlockHash)
        BY <1>1, <1>4, <2>2, CountUpRows DEF KeptBar
    <2> QED BY <1>6, <2>1, <2>2 DEF StoreKnown, IncrHashCount
<1>7. CASE StoreNew
    <2>1. CASE hashes' = hashes
        BY <1>4, <2>1 DEF KeptBar
    <2>2. CASE hashes' = Append(hashes, NewRow(BlockHash, data_block))
        <3> DEFINE n == Len(hash_buffer)
        <3>1. KeptBar' = KeptBar \cup {data_block}
            <4>1. /\ DOMAIN hashes = 1..Len(hashes) /\ Len(hashes) \in Nat
                  /\ DOMAIN hashes' = 1..Len(hashes) + 1
                  /\ \A i \in 1..Len(hashes) : hashes'[i] = hashes[i]
                  /\ hashes'[Len(hashes) + 1].block = data_block
                BY <1>1, <2>2 DEF PsqlTypeOK, NewRow
            <4> QED BY <4>1 DEF KeptBar
        <3>2. n \in DOMAIN req.data /\ req.data[n] \in Chunks
            BY <1>1, <1>7
                DEF StoreNew, RefineInv, DigestsOfBuffer, TypeInv, TypeOK, StoreReady, IOTypeOK
        <3>3. data_block \in Padded[req.data[n]]
            <4>1. data_block \in Blocks /\ hash_buffer[n] = HashOf[data_block] /\ n \in 1..n
                BY <1>1, <1>7 DEF StoreNew, TypeInv, TypeOK, StoreReady, IOTypeOK
            <4>2. PICK b \in BlocksOfSlice(n) : HashOf[b] = HashOf[data_block]
                BY <1>7, <4>1 DEF StoreNew, RefineInv, DigestsOfBuffer
            <4>3. b \in Blocks
                BY <3>2, IOAssumption DEF BlocksOfSlice
            <4> QED BY <4>1, <4>2, <4>3 DEF Promises, CollisionFree, BlocksOfSlice
        <3>4. CallBar = Call("put", WriteSlot(req.fd, req.slot), req.data, FALSE)
            BY <1>7 DEF StoreNew, CallBar
        <3>5. CallBar.op = "put" /\ ~CallBar.done /\ CallBar.data = req.data
            BY <3>4 DEF Call
        <3>6. ImageBar' = ImageBar /\ CallBar' = CallBar
            <4>1. slots' = slots /\ fds' = fds /\ req' = req
                BY <1>3 DEF fileVars
            <4>2. CallBar' = Call("put", WriteSlot(req.fd, req.slot), req.data, FALSE)'
                BY <1>7 DEF StoreNew, CallBar
            <4> QED BY <3>4, <4>1, <4>2 DEF ImageBar, Call, WriteSlot, File
        <3> HIDE DEF n
        <3>7. \E i \in DOMAIN CallBar.data : \E b \in Padded[CallBar.data[i]] :
                KeptBar' = KeptBar \cup {b}
            BY <3>1, <3>2, <3>3, <3>5
        <3>8. Alive' = Alive /\ actual_contents' = actual_contents
            BY <1>1, <1>2, <1>3
        <3>9. Backup!Keep
            BY <3>5, <3>6, <3>7, <3>8 DEF Backup!Keep
        <3> QED BY <3>9 DEF Backup!Next
    <2> QED BY <1>7, <2>1, <2>2 DEF StoreNew, InsertHash, Inserted, NotInserted
<1> QED BY <1>5, <1>6, <1>7

\* The next piece of a read.
LEMMA RefineServe ==
    ASSUME Promises, RefineInv, ReadHash
    PROVE  Backup!Serve
<1> DEFINE k == req.slot + Len(actual_contents) + 1
<1>1. TypeInv /\ PsqlTypeOK /\ RowsAddressed
    BY DEF RefineInv, CleanAll, TypeInv, TypeOK
<1>2. PICK h \in ReadFromFile(k), found \in Pieces :
        /\ GetBlockFromHash(h, found)
        /\ actual_contents' = Append(actual_contents, found)
    BY DEF ReadHash
<1>3. /\ UNCHANGED <<hashes, conn>>
      /\ found \in Blocks => \E i \in RowsOf(h) : hashes[i].block = found
    BY <1>1, <1>2, LookupAnswer
<1>4. pc = "read" /\ pc' = "read" /\ UNCHANGED <<slots, fds, req>>
    BY DEF ReadHash, fileVars
<1>5. File \in Files /\ slots[File] \in Seq(Hashes \cup {Hole})
    BY <1>1, <1>4 DEF TypeInv, TypeOK, IOTypeOK, File
<1>6. CallBar = Call("get", req.slot, <<>>, FALSE)
    BY <1>4 DEF CallBar
<1>7. CallBar' = CallBar
    <2>1. CallBar' = Call("get", req.slot, <<>>, FALSE)'
        BY <1>4 DEF CallBar
    <2> QED BY <1>4, <1>6, <2>1 DEF Call, File
<1>8. CallBar.op = "get" /\ CallBar.file = File /\ CallBar.at = req.slot
    BY <1>6 DEF Call
<1>9. found \in (KeptBar \cap {ImageBar[File][i] : i \in DOMAIN ImageBar[File] \cap {k}})
                \cup {NoRecords}
    <2>1. CASE found \in Blocks
        <3>1. PICK i \in RowsOf(h) : hashes[i].block = found
            BY <1>3, <2>1
        <3>2. i \in DOMAIN hashes /\ hashes[i].hash = h
            BY DEF RowsOf
        <3>3. found \in KeptBar /\ h \in Hashes /\ BlockOf(h) = found
            BY <1>1, <3>1, <3>2, RowsAreKept DEF Promises
        <3>4. k \in DOMAIN slots[File] /\ slots[File][k] = h
            BY <1>2, <3>3, IOAssumption DEF ReadFromFile
        <3>5. k \in DOMAIN ImageBar[File] /\ ImageBar[File][k] = found
            BY <1>5, <3>3, <3>4 DEF ImageBar
        <3> QED BY <3>3, <3>5
    <2>2. CASE found = NoRecords
        BY <2>2
    <2> QED BY <2>1, <2>2 DEF Pieces
<1>10. Alive' = Alive /\ ImageBar' = ImageBar /\ KeptBar' = KeptBar
    BY <1>3, <1>4 DEF Alive, ImageBar, KeptBar
<1> QED BY <1>2, <1>7, <1>8, <1>9, <1>10 DEF Backup!Serve

\* The digests that go to the file are blocks of the request, each put in its
\* place; with Lossless all of them, and every one of them is kept.
LEMMA RefinePut ==
    ASSUME Promises, RefineInv, WriteToFile
    PROVE  Backup!Put
<1> DEFINE at == WriteSlot(req.fd, req.slot)
<1>1. /\ TypeInv /\ RowsAddressed /\ pc = "lookup" /\ pc' = "reply"
      /\ UNCHANGED <<hashes, conn, fds, req, actual_contents>>
    BY DEF RefineInv, CleanAll, WriteToFile, psqlVars
<1>2. PICK n \in 0..Len(hash_buffer) :
        LET s == SubSeq(hash_buffer, 1, n)
        IN  /\ File \in Files
            /\ slots[File] \in Seq(Hashes \cup {Hole})
            /\ at \in Nat
            /\ s \in Seq(Hashes)
            /\ Len(s) = n
            /\ "pwrite" \notin IoFaults => n = Len(hash_buffer)
            /\ \A i \in 1..n : s[i] = hash_buffer[i]
            /\ slots' = [slots EXCEPT ![File] = Overlay(slots[File], at, s)]
    BY <1>1, WriteToFileOverlays
<1> DEFINE s == SubSeq(hash_buffer, 1, n)
           last == at + n
<1>3. slots \in [Files -> Seq(Hashes \cup {Hole})] /\ slots' \in [Files -> Seq(Hashes \cup {Hole})]
    <2>1. TypeInv'
        BY <1>1, TypeNext DEF Next, HandlerStep
    <2> QED BY <1>1, <2>1 DEF TypeInv, TypeOK, IOTypeOK
<1>4. /\ n \in Nat
      /\ Len(slots'[File]) =
            IF n = 0 \/ last < Len(slots[File]) THEN Len(slots[File]) ELSE last
      /\ \A i \in DOMAIN slots'[File] :
            slots'[File][i] =
                IF i \in at + 1..last THEN s[i - at]
                ELSE IF i \in DOMAIN slots[File] THEN slots[File][i] ELSE Hole
    <2> DEFINE file == slots[File]
    <2>1. slots'[File] = Overlay(file, at, s)
        BY <1>2, <1>3
    <2>2. file \in Seq(Hashes \cup {Hole}) /\ at \in Nat /\ s \in Seq(Hashes) /\ Len(s) = n
        BY <1>2
    <2>3. n \in Nat
        BY <2>2
    <2> HIDE DEF at, s, last, file
    <2>4. /\ Len(Overlay(file, at, s)) =
                IF Len(s) = 0 \/ at + Len(s) < Len(file) THEN Len(file) ELSE at + Len(s)
          /\ \A i \in DOMAIN Overlay(file, at, s) :
                Overlay(file, at, s)[i] =
                    IF i \in at + 1..at + Len(s) THEN s[i - at]
                    ELSE IF i \in DOMAIN file THEN file[i] ELSE Hole
        BY <2>2, OverlayIs
    <2> QED BY <2>1, <2>2, <2>3, <2>4 DEF last, file
\* The blocks of the digests written.
<1>5. ASSUME NEW i \in 1..n
      PROVE  /\ i \in DOMAIN req.data
             /\ BlockOf(s[i]) \in Padded[req.data[i]]
             /\ Lossless => BlockOf(s[i]) \in KeptBar
    <2>1. s[i] = hash_buffer[i] /\ i \in 1..Len(hash_buffer) /\ i \in DOMAIN req.data
        BY <1>1, <1>2 DEF WriteToFile, TypeInv, TypeOK, IOTypeOK
    <2>2. PICK b \in Padded[req.data[i]] : hash_buffer[i] = HashOf[b]
        BY <1>1, <2>1 DEF RefineInv, DigestsOfBuffer, BlocksOfSlice
    <2>3. b \in Blocks
        BY <1>1, <2>1, IOAssumption DEF TypeInv, TypeOK, IOTypeOK
    <2>4. BlockOf(s[i]) = b
        BY <2>1, <2>2, <2>3, BlockOfDigest DEF Promises
    <2>5. ASSUME Lossless PROVE b \in KeptBar
        <3>1. AllStored(Len(hash_buffer))
            <4>1. req.clean /\ conn = "ok"
                BY <1>1, <2>5 DEF RefineInv, IngestInv, TypeInv, TypeOK, Alive
            <4> QED BY <1>1, <2>5, <4>1
                DEF RefineInv, CleanAll, CleanInv, Promises, LookupsTellTruth, WritesOnly
        <3>2. PICK j \in DOMAIN hashes : hashes[j].hash = HashOf[b]
            BY <2>1, <2>2, <3>1 DEF AllStored, Stored, RowsOf
        <3>3. hashes[j].block \in KeptBar /\ BlockOf(HashOf[b]) = hashes[j].block
            BY <1>1, <3>2, RowsAreKept DEF Promises
        <3> QED BY <2>1, <2>2, <2>4, <3>3
    <2> QED BY <2>1, <2>2, <2>4, <2>5
<1> HIDE DEF s
\* The same in terms of the block store.
<1>6. /\ Len(ImageBar[File]) = Len(slots[File])
      /\ DOMAIN ImageBar[File] = DOMAIN slots[File]
      /\ \A i \in DOMAIN slots[File] : ImageBar[File][i] = BlockOf(slots[File][i])
    <2>1. ImageBar[File] = [i \in DOMAIN slots[File] |-> BlockOf(slots[File][i])]
        BY <1>2 DEF ImageBar
    <2> QED BY <1>2, <2>1, BlocksOfRaw
<1>7. /\ Len(ImageBar'[File]) = Len(slots'[File])
      /\ DOMAIN ImageBar'[File] = DOMAIN slots'[File]
      /\ \A i \in DOMAIN slots'[File] : ImageBar'[File][i] = BlockOf(slots'[File][i])
    <2>1. ImageBar'[File] = [i \in DOMAIN slots'[File] |-> BlockOf(slots'[File][i])]
        BY <1>2 DEF ImageBar
    <2>2. slots'[File] \in Seq(Hashes \cup {Hole})
        BY <1>2, <1>3
    <2> QED BY <2>1, <2>2, BlocksOfRaw
<1>8. ASSUME NEW i \in DOMAIN ImageBar'[File]
      PROVE  /\ i \in at + 1..last =>
                /\ i - at \in 1..n
                /\ ImageBar'[File][i] \in Padded[req.data[i - at]]
                /\ Lossless => ImageBar'[File][i] \in KeptBar
             /\ i \notin at + 1..last =>
                ImageBar'[File][i] =
                    IF i \in DOMAIN ImageBar[File] THEN ImageBar[File][i] ELSE Hole
    <2>1. i \in DOMAIN slots'[File] /\ ImageBar'[File][i] = BlockOf(slots'[File][i])
        BY <1>7, <1>8
    <2>2. CASE i \in at + 1..last
        <3>1. i - at \in 1..n
            BY <1>2, <2>2
        <3>2. slots'[File][i] = s[i - at]
            BY <1>4, <2>1, <2>2
        <3> QED BY <1>5, <2>1, <2>2, <3>1, <3>2
    <2>3. CASE i \notin at + 1..last
        <3>1. slots'[File][i] = IF i \in DOMAIN slots[File] THEN slots[File][i] ELSE Hole
            BY <1>4, <2>1, <2>3
        <3>2. BlockOf(Hole) = Hole
            BY DEF BlockOf
        <3> QED BY <1>6, <2>1, <2>3, <3>1, <3>2
    <2> QED BY <2>2, <2>3
<1>9. \A g \in Files \ {File} : ImageBar'[g] = ImageBar[g]
    <2>1. \A g \in Files \ {File} : slots'[g] = slots[g]
        BY <1>2, <1>3
    <2> QED BY <2>1 DEF ImageBar
<1>10. /\ CallBar.op = "put" /\ ~CallBar.done /\ CallBar.file = File
       /\ CallBar.at = at /\ CallBar.data = req.data
       /\ CallBar' = [op |-> "put", file |-> CallBar.file, at |-> 0, data |-> <<>>, done |-> TRUE]
    <2>1. CallBar = Call("put", at, req.data, FALSE)
        BY <1>1 DEF CallBar
    <2>2. CallBar' = Call("put", 0, <<>>, TRUE)'
        BY <1>1 DEF CallBar
    <2>3. CallBar' = Call("put", 0, <<>>, TRUE)
        BY <1>1, <2>2 DEF Call, File
    <2>4. /\ CallBar.op = "put" /\ ~CallBar.done /\ CallBar.file = File
          /\ CallBar.at = at /\ CallBar.data = req.data
        BY <2>1 DEF Call
    <2> HIDE DEF at
    <2> QED BY <2>3, <2>4 DEF Call
<1>11. KeptBar' = KeptBar /\ Alive' = Alive
    BY <1>1 DEF KeptBar, Alive
<1>12. n \in 0..Len(req.data) /\ (Lossless => n = Len(req.data))
    BY <1>1, <1>2 DEF Promises, WriteToFile
<1> HIDE DEF at
<1>13. Backup!PutBlocks(n)
    <2>1. \A i \in DOMAIN ImageBar'[File] :
            ImageBar'[File][i] \in
                IF i \in at + 1..last THEN Padded[req.data[i - at]]
                ELSE IF i \in DOMAIN ImageBar[File] THEN {ImageBar[File][i]} ELSE {Hole}
        BY <1>8
    <2> QED BY <1>4, <1>6, <1>7, <1>9, <1>10, <2>1 DEF Backup!PutBlocks
<1>14. Lossless => \A i \in at + 1..last : ImageBar'[File][i] \in KeptBar
    <2>1. \A i \in at + 1..last : i \in DOMAIN ImageBar'[File]
        <3>1. DOMAIN slots'[File] = 1..Len(slots'[File])
            BY <1>2, <1>3
        <3> QED BY <1>2, <1>4, <1>7, <3>1
    <2> QED BY <1>8, <2>1
<1> QED BY <1>1, <1>10, <1>11, <1>12, <1>13, <1>14 DEF Backup!Put

-----------------------------------------------------------------------------
(***************************************************************************)
(* The refinement.                                                         *)
(***************************************************************************)

\* The invariant of the mapping: what rec_count tells a handler, the digests of
\* the buffer in their places and, with Lossless, that nothing is lost.
LEMMA RefineInvInit == Init => RefineInv
<1>1. Init => IngestInv
    BY DEF Init, PsqlInit, IOInit, IngestInv, EveryReferenceResolves, Alive
<1>2. Init => DigestsOfBuffer
    BY DEF Init, IOInit, DigestsOfBuffer
<1> QED BY <1>1, <1>2, CleanAllInit DEF RefineInv

\* Every step keeps what the mapping needs.
LEMMA RefineInvNext ==
    ASSUME Promises
    PROVE  RefineInv /\ [Next]_vars => RefineInv'
<1> SUFFICES ASSUME RefineInv, [Next]_vars PROVE RefineInv'
    OBVIOUS
<1>1. CleanAll'
    BY CleanAllNext DEF RefineInv
<1>2. DigestsOfBuffer'
    BY DigestsNext DEF RefineInv, CleanAll
<1>3. Lossless => IngestInv'
    BY IngestNext DEF RefineInv, Promises
<1> QED BY <1>1, <1>2, <1>3 DEF RefineInv

\* Every step of the data path is one of the block store, or none.
LEMMA RefineNext ==
    ASSUME Promises
    PROVE  RefineInv /\ [Next]_vars => [Backup!Next]_Backup!backupVars
<1> SUFFICES ASSUME RefineInv, [Next]_vars PROVE [Backup!Next]_Backup!backupVars
    OBVIOUS
<1>1. TypeInv
    BY DEF RefineInv, CleanAll
<1>2. CASE WriteLookup \/ StoreNew \/ StoreCollision \/ StoreKnown
    BY <1>2, RefineStore
<1>3. CASE WriteToFile
    BY <1>3, RefinePut DEF Backup!Next
<1>4. CASE ReadHash
    BY <1>4, RefineServe DEF Backup!Next
<1>5. CASE WriteReply \/ ReadReply
    <2>1. /\ pc \in {"reply", "read"} /\ ToIdle
          /\ UNCHANGED <<slots, hashes>> /\ Alive' = Alive
        BY <1>5 DEF WriteReply, ReadReply, ReadDone, psqlVars, fileVars, Alive
    <2>2. Alive
        BY <1>1, <2>1 DEF TypeInv, TypeOK
    <2> QED BY <2>1, <2>2, RefineEnd
<1>6. ASSUME Die PROVE [Backup!Next]_Backup!backupVars
    <2>1. Alive /\ ~Alive' /\ ToIdle /\ UNCHANGED <<slots, hashes>>
        BY <1>6 DEF Die, ProcessDies, Alive
    <2>2. CASE pc = "idle"
        <3>1. CallBar' = Backup!NoCall /\ actual_contents' = <<>>
            BY <2>1 DEF ToIdle, CallBar, Backup!NoCall
        <3>2. ImageBar' = ImageBar /\ KeptBar' = KeptBar
            BY <2>1 DEF ImageBar, KeptBar
        <3> QED BY <2>1, <3>1, <3>2 DEF Backup!Next, Backup!Stop
    <2>3. CASE pc # "idle"
        BY <2>1, <2>3, RefineEnd
    <2> QED BY <2>2, <2>3
<1>7. CASE ReadOverrun \/ Crash
    BY <1>6, <1>7 DEF ReadOverrun, Crash
<1>8. CASE Mount \/ Unmount \/ Open \/ Create \/ Release \/ Unlink
    <2>1. pc = "idle"
        <3>1. CASE Mount
            BY <1>1, <3>1 DEF Mount, Connect, TypeInv, TypeOK
        <3> QED BY <1>8, <3>1 DEF Unmount, Open, Create, Release, Unlink, Idle
    <2> QED BY <1>8, <2>1, RefineBetween
<1>9. ASSUME Alive' = Alive, UNCHANGED <<fileVars, handlerVars, hashes>>
      PROVE  UNCHANGED Backup!backupVars
    <2>1. UNCHANGED <<slots, fds, pc, req, actual_contents>>
        BY <1>9 DEF fileVars, handlerVars
    <2>2. ImageBar' = ImageBar /\ KeptBar' = KeptBar
        BY <1>9, <2>1 DEF ImageBar, KeptBar
    <2>3. CallBar' = CallBar
        <3>1. File' = File /\ WriteSlot(req.fd, req.slot)' = WriteSlot(req.fd, req.slot)
            BY <2>1 DEF File, WriteSlot
        <3> QED BY <2>1, <3>1 DEF CallBar, Call
    <2> QED BY <1>9, <2>1, <2>2, <2>3 DEF Backup!backupVars
<1>10. CASE SessionLost
    BY <1>9, <1>10 DEF SessionLost, LoseConnection, Alive
<1>11. CASE WriteEnter \/ ReadEnter
    BY <1>11, RefineEnter DEF Backup!Next
<1>12. CASE UNCHANGED vars
    BY <1>9, <1>12 DEF vars, psqlVars, Alive
<1> QED BY <1>2, <1>3, <1>4, <1>5, <1>7, <1>8, <1>10, <1>11, <1>12
        DEF Next, HandlerStep, Environment

\* The theorem for both promises at once.
LEMMA Refinement ==
    ASSUME Promises
    PROVE  Spec => ImplementsBackup
<1>1. RefineInv /\ [Next]_vars => RefineInv'
    BY RefineInvNext
<1>2. RefineInv /\ [Next]_vars => [Backup!Next]_Backup!backupVars
    BY RefineNext
<1> QED BY <1>1, <1>2, RefineInit, RefineInvInit, PTL DEF Spec, ImplementsBackup, Backup!Spec

\* Whatever fails, the data path is a block store that may forget, but that
\* neither writes outside of a request nor serves a block from another place:
\* lookups, inserts, updates, pwrites and reads may fail, the session may
\* break, the process may die, and a buffer may be skipped.
THEOREM WhateverFails ==
    ASSUME CollisionFree, ~Lossless
    PROVE  Spec => ImplementsBackup
BY Refinement DEF Promises

\* Writes only, on a database that finds and inserts and on a disk that takes
\* what it is given, are writes to a store that keeps every block it refers
\* to, across crashes and updates that fail.
THEOREM BackupsAreKept ==
    ASSUME WritesOnly, Lossless, ZeroLed = {}, "pwrite" \notin IoFaults
    PROVE  Spec => ImplementsBackup
BY Refinement DEF Promises, WritesOnly
=============================================================================

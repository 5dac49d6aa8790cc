-------------------------- MODULE QubeIOCounts_proofs --------------------------
(***************************************************************************)
(* Proof that use counts cover the slots that refer to a row, as long as   *)
(* there are writes only and no statement fails on a working session.      *)
(***************************************************************************)
EXTENDS QubeIO_proofs

\* Backups are taken in, and the database carries its statements out.
CountsKept == WritesOnly /\ "update" \notin DbFaults

\* The digests of the running write that have been counted, though no file
\* refers to them yet.
Counted ==
    CASE pc = "lookup" -> Len(hash_buffer)
      [] pc = "store" -> Len(hash_buffer) - 1
      [] OTHER -> 0

DueSet(h) == {k \in 1..Counted : hash_buffer[k] = h}

SlotsOf(h) ==
    {r \in Files \X (1..MaxSlots) : r[2] \in DOMAIN slots[r[1]] /\ slots[r[1]][r[2]] = h}

\* A row counts the slots that refer to it, and what the write that runs has
\* counted ahead of the file.
UseInv ==
    \A i \in DOMAIN hashes :
        \/ hashes[i].use_count = MaxUse
        \/ hashes[i].use_count >=
            Cardinality(SlotsOf(hashes[i].hash)) + Cardinality(DueSet(hashes[i].hash))

-----------------------------------------------------------------------------
(***************************************************************************)
(* Cardinalities.                                                          *)
(***************************************************************************)

\* A part of a finite set has no more elements than the set.
LEMMA PartIsSmaller ==
    ASSUME NEW S, IsFiniteSet(S), NEW T, T \subseteq S
    PROVE  /\ IsFiniteSet(T)
           /\ Cardinality(S) \in Nat
           /\ Cardinality(T) \in Nat
           /\ Cardinality(T) <= Cardinality(S)
<1>1. IsFiniteSet(T) /\ Cardinality(T) <= Cardinality(S)
    BY FS_Subset
<1> QED BY <1>1, FS_CardinalityType

\* The slots that refer to a digest, and the digests counted ahead, are finitely
\* many.
LEMMA FiniteCounts ==
    ASSUME TypeInv, StoreReady, NEW h
    PROVE  /\ IsFiniteSet(SlotsOf(h)) /\ Cardinality(SlotsOf(h)) \in Nat
           /\ IsFiniteSet(DueSet(h)) /\ Cardinality(DueSet(h)) \in Nat
           /\ Counted \in Nat
<1>1. IsFiniteSet(Files) /\ IsFiniteSet(1..MaxSlots)
    BY FS_Interval, IOAssumption
<1>2. IsFiniteSet(Files \X (1..MaxSlots))
    BY <1>1, FS_Product
<1>3. SlotsOf(h) \subseteq Files \X (1..MaxSlots)
    BY DEF SlotsOf
<1>4. hash_buffer \in Seq(Hashes) /\ (pc = "store" => hash_buffer # <<>>)
    BY DEF TypeInv, TypeOK, IOTypeOK, StoreReady
<1>5. Counted \in Nat
    BY <1>4 DEF Counted
<1>6. IsFiniteSet(1..Counted) /\ DueSet(h) \subseteq 1..Counted
    BY <1>5, FS_Interval DEF DueSet
<1> QED BY <1>2, <1>3, <1>5, <1>6, PartIsSmaller

\* What is put in a file adds at most as many references to a digest as there
\* are positions at which the digest is written.
LEMMA PutsAreCounted ==
    ASSUME NEW f, NEW at, NEW K, IsFiniteSet(K), NEW S, IsFiniteSet(S),
           NEW T, \A x \in T : x \in S \/ \E k \in K : x = <<f, at + k>>
    PROVE  /\ IsFiniteSet(T)
           /\ Cardinality(T) \in Nat
           /\ Cardinality(T) <= Cardinality(S) + Cardinality(K)
<1> DEFINE P == {<<f, at + k>> : k \in K}
           g == [k \in K |-> <<f, at + k>>]
<1>1. g \in Surjection(K, P)
    BY DEF Surjection
<1>2. IsFiniteSet(P) /\ Cardinality(P) <= Cardinality(K)
    BY <1>1, FS_Surjection
<1> HIDE DEF P, g
<1>3. /\ IsFiniteSet(S \cup P)
      /\ Cardinality(S \cup P) = Cardinality(S) + Cardinality(P) - Cardinality(S \cap P)
    BY <1>2, FS_Union
<1>4. IsFiniteSet(S \cap P)
    BY FS_Intersection
<1>5. /\ Cardinality(S) \in Nat /\ Cardinality(P) \in Nat /\ Cardinality(K) \in Nat
      /\ Cardinality(S \cap P) \in Nat
    BY <1>2, <1>4, FS_CardinalityType
<1>6. T \subseteq S \cup P
    BY DEF P
<1>7. IsFiniteSet(T) /\ Cardinality(T) \in Nat /\ Cardinality(T) <= Cardinality(S \cup P)
    BY <1>3, <1>6, PartIsSmaller
<1>8. Cardinality(S \cup P) \in Nat
    BY <1>3, FS_CardinalityType
<1> QED BY <1>2, <1>3, <1>5, <1>7, <1>8

-----------------------------------------------------------------------------
(***************************************************************************)
(* The steps.                                                              *)
(***************************************************************************)

\* Only a store adds to what is counted ahead of the file.
LEMMA DueSteps ==
    ASSUME TypeInv, FreshBuffers, [Next]_vars, ~StoreNew, ~StoreCollision, ~StoreKnown, NEW h
    PROVE  DueSet(h)' \subseteq DueSet(h)
<1>1. hash_buffer \in Seq(Hashes) /\ (pc = "store" => hash_buffer # <<>>)
    BY DEF TypeInv, TypeOK, IOTypeOK, StoreReady
<1>2. CASE pc' \notin {"lookup", "store"}
    <2>1. Counted' = 0
        BY <1>2 DEF Counted
    <2> QED BY <2>1 DEF DueSet
<1>3. CASE WriteEnter
    <2>1. hash_buffer' = <<>> /\ pc' # "store"
        BY <1>3 DEF WriteEnter, Idle, writeVars, FreshBuffers
    <2>2. Counted' = 0
        BY <2>1 DEF Counted
    <2> QED BY <2>2 DEF DueSet
<1>4. CASE WriteLookup
    <2> PICK b : hash_buffer' = Append(hash_buffer, HashOf[b])
        BY <1>4 DEF WriteLookup
    <2>1. /\ Len(hash_buffer') = Len(hash_buffer) + 1
          /\ \A k \in 1..Len(hash_buffer) : hash_buffer'[k] = hash_buffer[k]
        BY <1>1
    <2>2. pc = "lookup" /\ pc' = "store"
        BY <1>4 DEF WriteLookup
    <2>3. Counted = Len(hash_buffer) /\ Counted' = Len(hash_buffer)
        BY <1>1, <2>1, <2>2 DEF Counted
    <2> QED BY <2>1, <2>3 DEF DueSet
<1>5. CASE UNCHANGED <<fileVars, handlerVars>>
    BY <1>5 DEF handlerVars, DueSet, Counted
<1>6. CASE WriteToFile
    BY <1>2, <1>6 DEF WriteToFile
<1> QED BY <1>2, <1>3, <1>4, <1>5, <1>6, StepsOfWrite

\* Rows that stay as they are still count enough, when no more refers to them.
LEMMA UseShrinks ==
    ASSUME TypeInv, UseInv, hashes' = hashes,
           \A h : /\ Cardinality(SlotsOf(h))' \in Nat /\ Cardinality(DueSet(h))' \in Nat
                  /\ Cardinality(SlotsOf(h))' + Cardinality(DueSet(h))'
                        <= Cardinality(SlotsOf(h)) + Cardinality(DueSet(h))
    PROVE  UseInv'
<1> SUFFICES ASSUME NEW i \in DOMAIN hashes, hashes[i].use_count # MaxUse
             PROVE  hashes[i].use_count >=
                        Cardinality(SlotsOf(hashes[i].hash))'
                            + Cardinality(DueSet(hashes[i].hash))'
    BY DEF UseInv
<1> DEFINE h == hashes[i].hash
<1>1. hashes[i].use_count >= Cardinality(SlotsOf(h)) + Cardinality(DueSet(h))
    BY DEF UseInv
<1>2. hashes[i].use_count \in Nat
    <2>1. hashes[i] \in Row
        BY DEF TypeInv, TypeOK, PsqlTypeOK
    <2> QED BY <2>1, PsqlAssumption DEF Row
<1>3. Cardinality(SlotsOf(h)) \in Nat /\ Cardinality(DueSet(h)) \in Nat
    BY FiniteCounts DEF TypeInv
<1> QED BY <1>1, <1>2, <1>3

\* Between the requests, and when a file is emptied.
LEMMA UseElsewhere ==
    ASSUME TypeInv, FreshBuffers, UseInv, [Next]_vars,
           ~StoreNew, ~StoreCollision, ~StoreKnown, ~WriteToFile
    PROVE  UseInv'
<1>1. hashes' = hashes
    BY TableSteps
<1>2. \A h : SlotsOf(h)' \subseteq SlotsOf(h)
    <2>1. slots \in [Files -> Seq(Hashes \cup {Hole})]
        BY DEF TypeInv, TypeOK, IOTypeOK
    <2>2. slots' = slots \/ \E f \in Files : slots' = [slots EXCEPT ![f] = <<>>]
        BY SlotSteps
    <2>3. CASE slots' = slots
        BY <2>3 DEF SlotsOf
    <2>4. ASSUME NEW f \in Files, slots' = [slots EXCEPT ![f] = <<>>], NEW h
          PROVE  SlotsOf(h)' \subseteq SlotsOf(h)
        <3>1. \A g \in Files : slots'[g] = IF g = f THEN <<>> ELSE slots[g]
            BY <2>1, <2>4
        <3> QED BY <3>1 DEF SlotsOf
    <2> QED BY <2>2, <2>3, <2>4
<1>3. \A h : DueSet(h)' \subseteq DueSet(h)
    BY DueSteps
<1>4. ASSUME NEW h
      PROVE  /\ Cardinality(SlotsOf(h))' \in Nat /\ Cardinality(DueSet(h))' \in Nat
             /\ Cardinality(SlotsOf(h))' + Cardinality(DueSet(h))'
                    <= Cardinality(SlotsOf(h)) + Cardinality(DueSet(h))
    <2>1. IsFiniteSet(SlotsOf(h)) /\ IsFiniteSet(DueSet(h))
        BY FiniteCounts DEF TypeInv
    <2>2. /\ Cardinality(SlotsOf(h)) \in Nat /\ Cardinality(SlotsOf(h))' \in Nat
          /\ Cardinality(SlotsOf(h))' <= Cardinality(SlotsOf(h))
        BY <1>2, <2>1, PartIsSmaller
    <2>3. /\ Cardinality(DueSet(h)) \in Nat /\ Cardinality(DueSet(h))' \in Nat
          /\ Cardinality(DueSet(h))' <= Cardinality(DueSet(h))
        BY <1>3, <2>1, PartIsSmaller
    <2> QED BY <2>2, <2>3
<1> QED BY <1>1, <1>4, UseShrinks

\* pwrite turns digests counted ahead into references, never more than there
\* are: those it overwrites, and those it does not take, only lower the sum.
LEMMA UseWritten ==
    ASSUME TypeInv, UseInv, WriteToFile
    PROVE  UseInv'
<1> DEFINE at == WriteSlot(req.fd, req.slot)
<1>1. hashes' = hashes /\ pc = "lookup" /\ pc' = "reply"
    BY DEF WriteToFile, psqlVars
<1>2. PICK n \in 0..Len(hash_buffer) :
        LET s == SubSeq(hash_buffer, 1, n)
        IN  /\ File \in Files
            /\ slots[File] \in Seq(Hashes \cup {Hole})
            /\ at \in Nat
            /\ s \in Seq(Hashes)
            /\ Len(s) = n
            /\ \A i \in 1..n : s[i] = hash_buffer[i]
            /\ slots' = [slots EXCEPT ![File] = Overlay(slots[File], at, s)]
    BY WriteToFileOverlays
<1> DEFINE s == SubSeq(hash_buffer, 1, n)
<1>3. slots \in [Files -> Seq(Hashes \cup {Hole})] /\ hash_buffer \in Seq(Hashes)
    BY DEF TypeInv, TypeOK, IOTypeOK
<1>4. ASSUME NEW i \in DOMAIN slots'[File]
      PROVE  \/ i - at \in 1..n /\ slots'[File][i] = hash_buffer[i - at]
             \/ i \in DOMAIN slots[File] /\ slots'[File][i] = slots[File][i]
             \/ slots'[File][i] = Hole
    <2>1. slots'[File] = Overlay(slots[File], at, s)
        BY <1>2, <1>3
    <2>2. /\ slots[File] \in Seq(Hashes \cup {Hole}) /\ at \in Nat /\ s \in Seq(Hashes)
          /\ DOMAIN s = 1..n /\ \A k \in 1..n : s[k] = hash_buffer[k]
        BY <1>2
    <2>3. i \in DOMAIN Overlay(slots[File], at, s)
        BY <1>4, <2>1
    <2> HIDE DEF at, s
    <2>4. \A k \in DOMAIN Overlay(slots[File], at, s) :
            \/ k - at \in DOMAIN s /\ Overlay(slots[File], at, s)[k] = s[k - at]
            \/ k \in DOMAIN slots[File] /\ Overlay(slots[File], at, s)[k] = slots[File][k]
            \/ Overlay(slots[File], at, s)[k] = Hole
        BY <2>2, OverlaySlots
    <2> QED BY <2>1, <2>2, <2>3, <2>4
<1>5. ASSUME NEW h, h # Hole
      PROVE  \A x \in SlotsOf(h)' : x \in SlotsOf(h) \/ \E k \in DueSet(h) : x = <<File, at + k>>
    <2> SUFFICES ASSUME NEW f \in Files, NEW i \in 1..MaxSlots, i \in DOMAIN slots'[f],
                        slots'[f][i] = h, <<f, i>> \notin SlotsOf(h)
                 PROVE  \E k \in DueSet(h) : f = File /\ i = at + k
        BY DEF SlotsOf
    <2>1. ~(i \in DOMAIN slots[f] /\ slots[f][i] = h)
        BY DEF SlotsOf
    <2>2. f = File
        BY <1>2, <1>3, <2>1
    <2>3. i - at \in 1..n /\ hash_buffer[i - at] = h
        BY <1>4, <1>5, <2>1, <2>2
    <2>4. Counted = Len(hash_buffer) /\ Len(hash_buffer) \in Nat
        BY <1>1, <1>3 DEF Counted
    <2>5. at \in Nat /\ i = at + (i - at)
        BY <1>2
    <2>6. i - at \in 1..Counted
        BY <2>3, <2>4
    <2>7. i - at \in DueSet(h)
        BY <2>3, <2>6 DEF DueSet
    <2> HIDE DEF at
    <2> QED BY <2>2, <2>5, <2>7
<1>6. \A h : DueSet(h)' = {}
    <2>1. Counted' = 0
        BY <1>1 DEF Counted
    <2> QED BY <2>1 DEF DueSet
<1>7. ASSUME NEW h, h # Hole
      PROVE  /\ Cardinality(SlotsOf(h))' \in Nat
             /\ Cardinality(SlotsOf(h))' <= Cardinality(SlotsOf(h)) + Cardinality(DueSet(h))
    <2>1. IsFiniteSet(SlotsOf(h)) /\ IsFiniteSet(DueSet(h))
        BY FiniteCounts DEF TypeInv
    <2> DEFINE K == DueSet(h)
               S == SlotsOf(h)
               T == SlotsOf(h)'
               file == File
    <2>2. IsFiniteSet(S) /\ IsFiniteSet(K) /\ \A x \in T : x \in S \/ \E k \in K : x = <<file, at + k>>
        BY <1>5, <1>7, <2>1
    <2> HIDE DEF at, K, S, T, file
    <2>3. Cardinality(T) \in Nat /\ Cardinality(T) <= Cardinality(S) + Cardinality(K)
        BY <2>2, PutsAreCounted
    <2> QED BY <2>3 DEF K, S, T
<1> SUFFICES ASSUME NEW i \in DOMAIN hashes, hashes[i].use_count # MaxUse
             PROVE  hashes[i].use_count >=
                        Cardinality(SlotsOf(hashes[i].hash))'
                            + Cardinality(DueSet(hashes[i].hash))'
    BY <1>1 DEF UseInv
<1> DEFINE h == hashes[i].hash
<1>8. h \in Hashes /\ hashes[i].use_count \in Nat
    <2>1. hashes[i] \in Row
        BY DEF TypeInv, TypeOK, PsqlTypeOK
    <2> QED BY <2>1, PsqlAssumption DEF Row
<1>9. hashes[i].use_count >= Cardinality(SlotsOf(h)) + Cardinality(DueSet(h))
    BY DEF UseInv
<1>10. h # Hole
    BY <1>8, IOAssumption
<1>11. Cardinality(DueSet(h)') = 0
    BY <1>6, FS_EmptySet
<1>12. Cardinality(SlotsOf(h)) \in Nat /\ Cardinality(DueSet(h)) \in Nat
    BY FiniteCounts DEF TypeInv
<1> QED BY <1>1, <1>7, <1>8, <1>9, <1>10, <1>11, <1>12

\* A store counts one more digest ahead of the file, that of its block.
LEMMA StoreCountsOne ==
    ASSUME TypeInv, pc = "store", pc' = "lookup", UNCHANGED hash_buffer
    PROVE  /\ BlockHash \in Hashes
           /\ \A h : h # BlockHash => DueSet(h)' \subseteq DueSet(h)
           /\ DueSet(BlockHash) \cup {Len(hash_buffer)}
                = {k \in 1..Len(hash_buffer) : hash_buffer[k] = BlockHash}
           /\ \A h : DueSet(h)' = {k \in 1..Len(hash_buffer) : hash_buffer[k] = h}
           /\ Counted = Len(hash_buffer) - 1 /\ Len(hash_buffer) \in Nat \ {0}
<1>1. /\ hash_buffer \in Seq(Hashes) /\ hash_buffer # <<>> /\ data_block \in Blocks
      /\ hash_buffer[Len(hash_buffer)] = BlockHash
    BY DEF TypeInv, TypeOK, IOTypeOK, StoreReady, BlockHash
<1>2. BlockHash \in Hashes
    BY <1>1, PsqlAssumption DEF BlockHash
<1>3. Len(hash_buffer) \in Nat \ {0}
    BY <1>1
<1>4. Counted = Len(hash_buffer) - 1
    BY DEF Counted
<1>5. Counted' = Len(hash_buffer)
    BY DEF Counted
<1>6. \A k \in 1..Len(hash_buffer) : k \in 1..Counted \/ k = Len(hash_buffer)
    BY <1>3, <1>4
<1>7. 1..Counted \subseteq 1..Len(hash_buffer) /\ Len(hash_buffer) \in 1..Len(hash_buffer)
    BY <1>3, <1>4
<1>8. \A h : DueSet(h)' = {k \in 1..Len(hash_buffer) : hash_buffer[k] = h}
    BY <1>5 DEF DueSet
<1>9. \A h : h # BlockHash => DueSet(h)' \subseteq DueSet(h)
    BY <1>1, <1>6, <1>8 DEF DueSet
<1>10. DueSet(BlockHash) \cup {Len(hash_buffer)}
            = {k \in 1..Len(hash_buffer) : hash_buffer[k] = BlockHash}
    BY <1>1, <1>6, <1>7 DEF DueSet
<1> QED BY <1>2, <1>3, <1>4, <1>8, <1>9, <1>10

\* Of other digests it counts no more than there was.
LEMMA StoreSparesOthers ==
    ASSUME TypeInv, pc = "store", pc' = "lookup", UNCHANGED <<slots, hash_buffer>>,
           NEW h, h # BlockHash
    PROVE  /\ Cardinality(SlotsOf(h)) \in Nat /\ Cardinality(DueSet(h)) \in Nat
           /\ Cardinality(DueSet(h))' \in Nat
           /\ Cardinality(SlotsOf(h))' = Cardinality(SlotsOf(h))
           /\ Cardinality(DueSet(h))' <= Cardinality(DueSet(h))
<1>1. SlotsOf(h)' = SlotsOf(h)
    BY DEF SlotsOf
<1>2. DueSet(h)' \subseteq DueSet(h)
    BY StoreCountsOne
<1>3. IsFiniteSet(DueSet(h)) /\ Cardinality(SlotsOf(h)) \in Nat
    BY FiniteCounts DEF TypeInv
<1> QED BY <1>1, <1>2, <1>3, PartIsSmaller

\* A new row counts its one reference to come: no file refers to the digest
\* yet, nor did the write meet it before.
LEMMA UseNew ==
    ASSUME CountsKept, CleanAll, IngestInv, UseInv, StoreNew
    PROVE  UseInv'
<1>1. /\ TypeInv /\ pc = "store" /\ pc' = "lookup" /\ rec_count = 0
      /\ UNCHANGED <<slots, hash_buffer, data_block>>
    BY DEF CleanAll, StoreNew, fileVars, writeVars
<1>2. conn = "ok" /\ req.clean
    BY <1>1 DEF TypeInv, TypeOK, Alive, IngestInv
<1>3. hashes' = Append(hashes, NewRow(BlockHash, data_block))
    BY <1>2 DEF StoreNew, InsertHash, Inserted, NotInserted, CountsKept, WritesOnly
<1>4. RowsOf(BlockHash) = {}
    BY <1>1, <1>2 DEF CleanAll, CountTells, CountsKept, WritesOnly
<1>5. AllStored(Len(hash_buffer) - 1)
    BY <1>1, <1>2 DEF CleanAll, CleanInv, LookupsTellTruth, CountsKept, WritesOnly
<1>6. hashes \in Seq(Row)
    BY <1>1 DEF TypeInv, TypeOK, PsqlTypeOK
<1>7. /\ Len(hashes) \in Nat
      /\ DOMAIN hashes = 1..Len(hashes)
      /\ DOMAIN hashes' = 1..Len(hashes) + 1
      /\ \A i \in 1..Len(hashes) : hashes'[i] = hashes[i]
      /\ hashes'[Len(hashes) + 1] = NewRow(BlockHash, data_block)
    BY <1>3, <1>6
<1> SUFFICES ASSUME NEW i \in DOMAIN hashes', hashes'[i].use_count # MaxUse
             PROVE  \A h : h = hashes'[i].hash =>
                        hashes'[i].use_count >= Cardinality(SlotsOf(h))' + Cardinality(DueSet(h))'
    BY DEF UseInv
<1> TAKE h
<1> HAVE h = hashes'[i].hash
<1>8. CASE i \in DOMAIN hashes
    <2>1. hashes'[i] = hashes[i] /\ h # BlockHash
        BY <1>4, <1>7, <1>8 DEF RowsOf
    <2>2. hashes[i].use_count >= Cardinality(SlotsOf(h)) + Cardinality(DueSet(h))
        BY <1>8, <2>1 DEF UseInv
    <2>3. hashes[i].use_count \in Nat
        <3>1. hashes[i] \in Row
            BY <1>6, <1>8
        <3> QED BY <3>1, PsqlAssumption DEF Row
    <2> QED BY <1>1, <2>1, <2>2, <2>3, StoreSparesOthers
<1>9. CASE i \notin DOMAIN hashes
    <2>1. hashes'[i] = NewRow(BlockHash, data_block)
        BY <1>7, <1>9
    <2>2. hashes'[i].use_count = 1 /\ h = BlockHash
        BY <2>1 DEF NewRow
    <2>3. SlotsOf(h)' = {}
        <3>1. BlockHash # Hole
            BY <1>1, StoreCountsOne, IOAssumption
        <3>2. \A f \in Files : \A j \in DOMAIN slots[f] : slots[f][j] # BlockHash
            BY <1>4, <3>1 DEF IngestInv, EveryReferenceResolves, Stored
        <3> QED BY <1>1, <2>2, <3>2 DEF SlotsOf
    <2>4. DueSet(h)' \subseteq {Len(hash_buffer)}
        <3>1. \A k \in 1..Len(hash_buffer) - 1 : hash_buffer[k] # BlockHash
            BY <1>4, <1>5 DEF AllStored, Stored
        <3>2. DueSet(h)' = {k \in 1..Len(hash_buffer) : hash_buffer[k] = h}
            BY <1>1, StoreCountsOne
        <3>3. Len(hash_buffer) \in Nat
            BY <1>1 DEF TypeInv, TypeOK, IOTypeOK
        <3> QED BY <2>2, <3>1, <3>2, <3>3
    <2>5. Cardinality(SlotsOf(h)') = 0
        BY <2>3, FS_EmptySet
    <2>6. Cardinality(DueSet(h)') \in Nat /\ Cardinality(DueSet(h)') <= 1
        <3> DEFINE S == {Len(hash_buffer)}
        <3>1. IsFiniteSet(S) /\ Cardinality(S) = 1
            BY FS_Singleton
        <3> HIDE DEF S
        <3>2. DueSet(h)' \subseteq S
            BY <2>4 DEF S
        <3> QED BY <3>1, <3>2, PartIsSmaller
    <2> QED BY <2>2, <2>5, <2>6
<1> QED BY <1>8, <1>9

\* An iteration that finds its digest counts its row up, unless the row is at
\* the limit of the column; the digest has no second row.
LEMMA UseKnown ==
    ASSUME CountsKept, CleanAll, IngestInv, OneRowPerHash, UseInv, StoreKnown
    PROVE  UseInv'
<1>1. /\ TypeInv /\ PsqlTypeOK /\ pc = "store" /\ pc' = "lookup"
      /\ UNCHANGED <<slots, hash_buffer, data_block>>
    BY DEF CleanAll, TypeInv, TypeOK, StoreKnown, fileVars, writeVars
<1>2. conn = "ok"
    BY <1>1 DEF TypeInv, TypeOK, Alive, IngestInv
<1>3. \/ ~AtLimit(BlockHash) /\ hashes' = CountUp(BlockHash)
      \/ AtLimit(BlockHash) /\ hashes' = hashes
    BY <1>2 DEF StoreKnown, IncrHashCount, CountsKept
<1>4. /\ DOMAIN hashes' = DOMAIN hashes
      /\ \A i \in DOMAIN hashes : hashes'[i].hash = hashes[i].hash
    BY <1>1, <1>3, CountUpRows
<1>5. \A i, j \in DOMAIN hashes : hashes[i].hash = hashes[j].hash => i = j
    BY DEF OneRowPerHash, CountsKept, WritesOnly
<1>6. ASSUME NEW i \in DOMAIN hashes
      PROVE  hashes[i] \in Row /\ hashes[i].use_count \in Nat
    <2>1. hashes[i] \in Row
        BY <1>1 DEF PsqlTypeOK
    <2> QED BY <2>1, PsqlAssumption DEF Row
<1> SUFFICES ASSUME NEW i \in DOMAIN hashes, hashes'[i].use_count # MaxUse
             PROVE  \A h : h = hashes[i].hash =>
                        hashes'[i].use_count >= Cardinality(SlotsOf(h))' + Cardinality(DueSet(h))'
    BY <1>4 DEF UseInv
<1> TAKE h
<1> HAVE h = hashes[i].hash
<1>7. CASE h # BlockHash
    <2>1. hashes'[i] = hashes[i]
        BY <1>3, <1>7 DEF CountUp, RowsOf
    <2>2. hashes[i].use_count >= Cardinality(SlotsOf(h)) + Cardinality(DueSet(h))
        BY <2>1 DEF UseInv
    <2> QED BY <1>1, <1>6, <1>7, <2>1, <2>2, StoreSparesOthers
<1>8. CASE h = BlockHash
    <2>1. ~AtLimit(BlockHash)
        <3> SUFFICES ASSUME AtLimit(BlockHash) PROVE FALSE
            OBVIOUS
        <3>1. PICK j \in RowsOf(BlockHash) : hashes[j].use_count = MaxUse
            BY DEF AtLimit
        <3>2. j = i
            BY <1>5, <1>8, <3>1 DEF RowsOf
        <3> QED BY <1>3, <3>1, <3>2
    <2>2. hashes'[i] = [hashes[i] EXCEPT !.use_count = @ + 1]
        BY <1>3, <1>8, <2>1 DEF CountUp, RowsOf
    <2>3. hashes'[i].use_count = hashes[i].use_count + 1 /\ hashes[i].use_count # MaxUse
        <3>1. hashes[i].use_count # MaxUse
            BY <1>8, <2>1 DEF AtLimit, RowsOf
        <3> QED BY <1>6, <2>2, <3>1 DEF Row
    <2>4. hashes[i].use_count >= Cardinality(SlotsOf(h)) + Cardinality(DueSet(h))
        BY <2>3 DEF UseInv
    <2>5. SlotsOf(h)' = SlotsOf(h)
        BY <1>1 DEF SlotsOf
    <2>6. DueSet(h)' = DueSet(h) \cup {Len(hash_buffer)}
        BY <1>1, <1>8, StoreCountsOne
    <2>7. /\ IsFiniteSet(DueSet(h)) /\ Cardinality(DueSet(h)) \in Nat
          /\ Cardinality(SlotsOf(h)) \in Nat
        BY <1>1, FiniteCounts DEF TypeInv
    <2>8. /\ Cardinality(DueSet(h)') \in Nat
          /\ Cardinality(DueSet(h)') <= Cardinality(DueSet(h)) + 1
        <3> DEFINE S == DueSet(h)
                   last == Len(hash_buffer)
        <3>1. IsFiniteSet(S) /\ Cardinality(S) \in Nat
            BY <2>7
        <3> HIDE DEF S, last
        <3>2. /\ Cardinality(S \cup {last}) =
                    IF last \in S THEN Cardinality(S) ELSE Cardinality(S) + 1
              /\ IsFiniteSet(S \cup {last})
            BY <3>1, FS_AddElement
        <3>3. DueSet(h)' = S \cup {last}
            BY <2>6 DEF S, last
        <3>4. Cardinality(S \cup {last}) \in Nat /\ Cardinality(S \cup {last}) <= Cardinality(S) + 1
            BY <3>1, <3>2
        <3> QED BY <3>3, <3>4 DEF S
    <2> QED BY <1>6, <2>3, <2>4, <2>5, <2>7, <2>8
<1> QED BY <1>7, <1>8

\* Every step keeps the counts above the references and what was counted
\* ahead.
LEMMA UseNext ==
    ASSUME CountsKept
    PROVE  CleanAll /\ IngestInv /\ OneRowPerHash /\ UseInv /\ [Next]_vars => UseInv'
<1> SUFFICES ASSUME CleanAll, IngestInv, OneRowPerHash, UseInv, [Next]_vars PROVE UseInv'
    OBVIOUS
<1>1. TypeInv /\ FreshBuffers
    BY DEF CleanAll
<1>2. CASE StoreNew
    BY <1>2, UseNew
<1>3. CASE StoreKnown
    BY <1>3, UseKnown
<1>4. CASE WriteToFile
    BY <1>1, <1>4, UseWritten
<1>5. ~StoreCollision
    <2> SUFFICES ASSUME StoreCollision PROVE FALSE
        OBVIOUS
    <2>1. pc = "store" /\ rec_count # 0 /\ data_block # block_in_DB
        BY DEF StoreCollision
    <2>2. conn = "ok" /\ req.clean
        BY <1>1, <2>1 DEF TypeInv, TypeOK, Alive, IngestInv
    <2> QED BY <2>1, <2>2 DEF CleanAll, CleanInv, LookupsTellTruth, CountsKept, WritesOnly
<1>6. CASE ~StoreNew /\ ~StoreKnown /\ ~WriteToFile
    BY <1>1, <1>5, <1>6, UseElsewhere
<1> QED BY <1>2, <1>3, <1>4, <1>6

\* The use counts can be trusted, for all the column can hold: a row that is
\* not at its limit counts at least the slots of raw files that refer to it,
\* however often the process is killed between the count and the pwrite.
THEOREM UseCountsCover ==
    ASSUME CountsKept
    PROVE  Spec => []UseCountCoversReferences
<1> DEFINE IInv == CleanAll /\ IngestInv /\ OneRowPerHash /\ UseInv
<1>1. Init => IInv
    <2>1. Init => IngestInv
        BY DEF Init, PsqlInit, IOInit, IngestInv, EveryReferenceResolves, Alive
    <2>2. Init => OneRowPerHash /\ UseInv
        BY DEF Init, PsqlInit, OneRowPerHash, UseInv
    <2> QED BY <2>1, <2>2, CleanAllInit
<1>2. IInv /\ [Next]_vars => IInv'
    <2>1. CleanAll /\ [Next]_vars => CleanAll'
        BY CleanAllNext
    <2>2. CleanAll /\ IngestInv /\ [Next]_vars => IngestInv'
        BY IngestNext DEF CountsKept
    <2>3. CleanAll /\ OneRowPerHash /\ [Next]_vars => OneRowPerHash'
        BY OneRowNext DEF CleanAll
    <2> QED BY <2>1, <2>2, <2>3, UseNext
<1>3. IInv => UseCountCoversReferences
    <2> SUFFICES ASSUME IInv, NEW i \in DOMAIN hashes, hashes[i].use_count # MaxUse
                 PROVE  hashes[i].use_count >= References(hashes[i].hash)
        BY DEF UseCountCoversReferences
    <2> DEFINE h == hashes[i].hash
    <2>1. hashes[i].use_count >= Cardinality(SlotsOf(h)) + Cardinality(DueSet(h))
        BY DEF UseInv
    <2>2. Cardinality(SlotsOf(h)) \in Nat /\ Cardinality(DueSet(h)) \in Nat
        BY FiniteCounts DEF CleanAll, TypeInv
    <2>3. hashes[i].use_count \in Nat
        <3>1. hashes[i] \in Row
            BY DEF CleanAll, TypeInv, TypeOK, PsqlTypeOK
        <3> QED BY <3>1, PsqlAssumption DEF Row
    <2>4. References(h) = Cardinality(SlotsOf(h))
        BY DEF References, SlotsOf
    <2> QED BY <2>1, <2>2, <2>3, <2>4
<1> QED BY <1>1, <1>2, <1>3, PTL DEF Spec
=============================================================================

-------------------------- MODULE QubeClients_proofs --------------------------
(***************************************************************************)
(* Proofs about several mounts over one table, for any number of mounts,   *)
(* blocks and slots.                                                       *)
(***************************************************************************)
EXTENDS QubeClients, FiniteSetTheorems, TLAPS

-----------------------------------------------------------------------------
(***************************************************************************)
(* Types.                                                                  *)
(***************************************************************************)

\* Counting up keeps the rows of a digest as many as they are.
LEMMA CountUpRows ==
    ASSUME TypeOK, NEW c \in Clients, data_block[c] \in Blocks
    PROVE  /\ CountUp(c) \in Seq(0..MaxUse)
           /\ Len(CountUp(c)) = Len(hashes[data_block[c]])
<1> DEFINE uses == hashes[data_block[c]]
<1>1. uses \in Seq(0..MaxUse)
    BY DEF TypeOK
<1>2. MaxUse \in Nat
    BY ClientsAssumption
<1>3. CountUp(c) = IF \E i \in DOMAIN uses : uses[i] = MaxUse THEN uses
                   ELSE [i \in DOMAIN uses |-> uses[i] + 1]
    BY DEF CountUp
<1> HIDE DEF uses
<1>4. CASE \E i \in DOMAIN uses : uses[i] = MaxUse
    BY <1>1, <1>3, <1>4 DEF uses
<1>5. CASE ~ \E i \in DOMAIN uses : uses[i] = MaxUse
    <2>1. CountUp(c) = [i \in 1..Len(uses) |-> uses[i] + 1]
        BY <1>1, <1>3, <1>5
    <2>2. ASSUME NEW i \in 1..Len(uses) PROVE uses[i] + 1 \in 0..MaxUse
        BY <1>1, <1>2, <1>5
    <2>3. CountUp(c) \in Seq(0..MaxUse) /\ Len(CountUp(c)) = Len(uses)
        BY <1>1, <2>1, <2>2
    <2> QED BY <2>3 DEF uses
<1> QED BY <1>4, <1>5

\* A lookup leaves natural numbers.
LEMMA CountAfterType ==
    ASSUME TypeOK, NEW c \in Clients, NEW b \in Blocks
    PROVE  CountAfterLookup(c, b) \in [Clients -> Nat]
<1>1. hashes[b] \in Seq(0..MaxUse) /\ Len(hashes[b]) \in Nat
    BY DEF TypeOK
<1> QED BY <1>1 DEF TypeOK, CountAfterLookup, ProcessOf

\* Every step keeps the types.
LEMMA TypeStep == TypeOK /\ [Next]_vars => TypeOK'
<1> SUFFICES ASSUME TypeOK, [Next]_vars PROVE TypeOK'
    OBVIOUS
<1>1. CASE UNCHANGED vars
    BY <1>1 DEF vars, TypeOK
<1>2. ASSUME NEW c \in Clients, Step(c) PROVE TypeOK'
    <2>1. pc[c] # "idle" => data_block[c] \in Blocks
        BY DEF TypeOK
    <2>2. CASE Enter(c)
        BY <2>2 DEF Enter, Goto, TypeOK
    <2>3. CASE Read(c)
        <3>1. PICK s \in Slots : slots[c][s] # Hole /\ rec_count' = CountAfterLookup(c, slots[c][s])
            BY <2>3 DEF Read
        <3>2. slots[c][s] \in Blocks
            BY <3>1 DEF TypeOK
        <3>3. rec_count' \in [Clients -> Nat]
            BY <3>1, <3>2, CountAfterType
        <3> QED BY <2>3, <3>3 DEF Read, TypeOK
    <2>4. CASE Lookup(c)
        <3>1. data_block[c] \in Blocks
            BY <2>1, <2>4 DEF Lookup
        <3>2. rec_count' \in [Clients -> Nat]
            BY <2>4, <3>1, CountAfterType DEF Lookup
        <3> QED BY <2>4, <3>1, <3>2 DEF Lookup, Goto, TypeOK
    <2>5. CASE StoreNew(c)
        <3>1. data_block[c] \in Blocks
            BY <2>1, <2>5 DEF StoreNew
        <3>2. 1 \in 0..MaxUse
            BY ClientsAssumption
        <3>3. Append(hashes[data_block[c]], 1) \in Seq(0..MaxUse)
            BY <3>1, <3>2 DEF TypeOK
        <3> QED BY <2>5, <3>1, <3>3 DEF StoreNew, Goto, TypeOK
    <2>6. CASE StoreCollision(c)
        BY <2>6 DEF StoreCollision, Goto, TypeOK
    <2>7. CASE StoreKnown(c)
        <3>1. data_block[c] \in Blocks
            BY <2>1, <2>7 DEF StoreKnown
        <3>2. CountUp(c) \in Seq(0..MaxUse)
            BY <3>1, CountUpRows
        <3> QED BY <2>7, <3>1, <3>2 DEF StoreKnown, Goto, ProcessOf, TypeOK
    <2>8. CASE WriteToFile(c)
        <3>1. data_block[c] \in Blocks
            BY <2>1, <2>8 DEF WriteToFile
        <3>2. PICK s \in Slots : slots' = [slots EXCEPT ![c][s] = data_block[c]]
            BY <2>8 DEF WriteToFile
        <3>3. slots' \in [Clients -> [Slots -> Blocks \cup {Hole}]]
            BY <3>1, <3>2 DEF TypeOK
        <3> QED BY <2>8, <3>3 DEF WriteToFile, Goto, Forget, TypeOK
    <2>9. CASE Restart(c)
        BY <2>9 DEF Restart, Goto, Forget, ProcessOf, TypeOK
    <2> QED BY <1>2, <2>2, <2>3, <2>4, <2>5, <2>6, <2>7, <2>8, <2>9 DEF Step
<1> QED BY <1>1, <1>2 DEF Next

\* The types hold at the start.
LEMMA TypeInit == Init => TypeOK
BY DEF Init, TypeOK

\* The variables keep their types, use counts within the limit of the column.
THEOREM ClientsTypeCorrect == Spec => []TypeOK
BY TypeInit, TypeStep, PTL DEF Spec

\* What a step of one client leaves of the others, and of a row: it stays.
LEMMA StepFrame ==
    ASSUME TypeOK, NEW c \in Clients, Step(c)
    PROVE  /\ \A d \in Clients \ {c} :
                /\ pc'[d] = pc[d] /\ rec_count'[d] = rec_count[d]
                /\ data_block'[d] = data_block[d] /\ block_in_DB'[d] = block_in_DB[d]
                /\ slots'[d] = slots[d]
           /\ \A b \in Blocks : hashes[b] # <<>> => hashes'[b] # <<>>
<1>1. \A d \in Clients \ {c} :
        /\ pc'[d] = pc[d] /\ rec_count'[d] = rec_count[d]
        /\ data_block'[d] = data_block[d] /\ block_in_DB'[d] = block_in_DB[d]
        /\ slots'[d] = slots[d]
    BY DEF TypeOK, Step, Enter, Read, Lookup, StoreNew, StoreCollision, StoreKnown,
           WriteToFile, Restart, Goto, Forget, CountAfterLookup, ProcessOf
<1>2. ASSUME NEW b \in Blocks, hashes[b] # <<>> PROVE hashes'[b] # <<>>
    <2>1. pc[c] # "idle" => data_block[c] \in Blocks
        BY DEF TypeOK
    <2>2. hashes[b] \in Seq(0..MaxUse)
        BY DEF TypeOK
    <2>3. CASE StoreNew(c)
        BY <1>2, <2>1, <2>2, <2>3 DEF StoreNew, TypeOK
    <2>4. CASE StoreKnown(c)
        <3>1. data_block[c] \in Blocks
            BY <2>1, <2>4 DEF StoreKnown
        <3>2. CountUp(c) \in Seq(0..MaxUse) /\ Len(CountUp(c)) = Len(hashes[data_block[c]])
            BY <3>1, CountUpRows
        <3>3. Len(hashes[b]) # 0
            BY <1>2, <2>2
        <3>4. hashes'[b] = IF b = data_block[c] THEN CountUp(c) ELSE hashes[b]
            BY <2>4 DEF StoreKnown, TypeOK
        <3> QED BY <1>2, <3>2, <3>3, <3>4
    <2>5. CASE hashes' = hashes
        BY <1>2, <2>5
    <2> QED BY <2>3, <2>4, <2>5
            DEF Step, Enter, Read, Lookup, StoreCollision, WriteToFile, Restart
<1> QED BY <1>1, <1>2

-----------------------------------------------------------------------------
(***************************************************************************)
(* References resolve.                                                     *)
(***************************************************************************)

\* A client that does not read begins each request with rec_count 0, and
\* believes in a row only when there is one.
ClientResolves(c) ==
    /\ pc[c] \in {"idle", "lookup", "write"} => rec_count[c] = 0
    /\ (pc[c] = "store" /\ rec_count[c] # 0) =>
            block_in_DB[c] = data_block[c] /\ hashes[data_block[c]] # <<>>
    /\ pc[c] = "write" => hashes[data_block[c]] # <<>>
    /\ \A s \in Slots : slots[c][s] # Hole => hashes[slots[c][s]] # <<>>

ResolveInv == \A c \in Clients \ Readers : ClientResolves(c)

\* Every step keeps what holds of the clients that do not read.
LEMMA ResolveStep == TypeOK /\ ResolveInv /\ [Next]_vars => ResolveInv'
<1> SUFFICES ASSUME TypeOK, ResolveInv, [Next]_vars, NEW d \in Clients \ Readers
             PROVE  ClientResolves(d)'
    BY DEF ResolveInv
<1>1. ClientResolves(d)
    BY DEF ResolveInv
<1>2. CASE UNCHANGED vars
    BY <1>1, <1>2 DEF vars, ClientResolves
<1>3. ASSUME NEW c \in Clients, Step(c) PROVE ClientResolves(d)'
    <2>1. \A b \in Blocks : hashes[b] # <<>> => hashes'[b] # <<>>
        BY <1>3, StepFrame
    <2>2. pc[d] # "idle" => data_block[d] \in Blocks
        BY DEF TypeOK
    <2>3. \A s \in Slots : slots[d][s] # Hole => slots[d][s] \in Blocks
        BY DEF TypeOK
    <2>4. CASE c # d
        <3>1. /\ pc'[d] = pc[d] /\ rec_count'[d] = rec_count[d]
              /\ data_block'[d] = data_block[d] /\ block_in_DB'[d] = block_in_DB[d]
              /\ slots'[d] = slots[d]
            BY <1>3, <2>4, StepFrame
        <3> QED BY <1>1, <2>1, <2>2, <2>3, <3>1 DEF ClientResolves
    <2>5. CASE c = d
        <3>1. CASE Enter(d)
            BY <1>1, <3>1 DEF Enter, Goto, TypeOK, ClientResolves
        <3>2. CASE Read(d)
            BY <3>2 DEF Read
        <3>3. CASE Lookup(d)
            <4>1. rec_count[d] = 0 /\ data_block[d] \in Blocks /\ pc'[d] = "store"
                BY <1>1, <2>2, <3>3 DEF Lookup, Goto, TypeOK, ClientResolves
            <4>2. rec_count'[d] =
                    IF hashes[data_block[d]] = <<>> THEN 0 ELSE Len(hashes[data_block[d]])
                BY <3>3, <4>1 DEF Lookup, CountAfterLookup, ProcessOf, TypeOK
            <4>3. hashes' = hashes /\ data_block' = data_block /\ slots' = slots
                BY <3>3 DEF Lookup
            <4>4. block_in_DB'[d] =
                    IF hashes[data_block[d]] = <<>> THEN NoRecords ELSE data_block[d]
                BY <3>3 DEF Lookup, TypeOK
            <4> QED BY <1>1, <4>1, <4>2, <4>3, <4>4 DEF ClientResolves
        <3>4. CASE StoreNew(d)
            <4>1. data_block[d] \in Blocks /\ rec_count[d] = 0 /\ pc'[d] = "write"
                BY <2>2, <3>4 DEF StoreNew, Goto, Count, ProcessOf, TypeOK
            <4>2. hashes'[data_block[d]] = Append(hashes[data_block[d]], 1)
                BY <3>4, <4>1 DEF StoreNew, TypeOK
            <4>3. hashes[data_block[d]] \in Seq(0..MaxUse)
                BY <4>1 DEF TypeOK
            <4>4. hashes'[data_block[d]] # <<>>
                BY <4>2, <4>3
            <4>5. rec_count' = rec_count /\ data_block' = data_block /\ slots' = slots
                BY <3>4 DEF StoreNew
            <4> QED BY <1>1, <2>1, <2>3, <4>1, <4>4, <4>5 DEF ClientResolves
        <3>5. CASE StoreCollision(d)
            BY <1>1, <3>5 DEF StoreCollision, Count, ProcessOf, ClientResolves
        <3>6. CASE StoreKnown(d)
            <4>1. data_block[d] \in Blocks /\ hashes[data_block[d]] # <<>>
                BY <1>1, <2>2, <3>6 DEF StoreKnown, Count, ProcessOf, ClientResolves
            <4>2. rec_count'[d] = 0 /\ pc'[d] = "write" /\ data_block' = data_block
                  /\ slots' = slots
                BY <3>6 DEF StoreKnown, Goto, ProcessOf, TypeOK
            <4> QED BY <1>1, <2>1, <2>3, <4>1, <4>2 DEF ClientResolves
        <3>7. CASE WriteToFile(d)
            <4>1. data_block[d] \in Blocks /\ hashes[data_block[d]] # <<>> /\ rec_count[d] = 0
                BY <1>1, <2>2, <3>7 DEF WriteToFile, ClientResolves
            <4>2. pc'[d] = "idle" /\ rec_count' = rec_count /\ hashes' = hashes
                BY <3>7 DEF WriteToFile, Goto, TypeOK
            <4>3. \A s \in Slots : slots'[d][s] \in {slots[d][s], data_block[d]}
                BY <3>7 DEF WriteToFile, TypeOK
            <4> QED BY <1>1, <4>1, <4>2, <4>3 DEF ClientResolves
        <3>8. CASE Restart(d)
            BY <1>1, <3>8 DEF Restart, Goto, ProcessOf, TypeOK, ClientResolves
        <3> QED BY <1>3, <2>5, <3>1, <3>2, <3>3, <3>4, <3>5, <3>6, <3>7, <3>8 DEF Step
    <2> QED BY <2>4, <2>5
<1> QED BY <1>2, <1>3 DEF Next

\* However many mounts write at once and restart, each digest that one which
\* does not read has in its raw directory has its row.
THEOREM EveryReferenceResolvesAlways == Spec => []EveryReferenceResolves
<1>1. Init => TypeOK /\ ResolveInv
    <2>1. Init => ResolveInv
        BY DEF Init, ResolveInv, ClientResolves
    <2> QED BY <2>1, TypeInit
<1>2. ResolveInv => EveryReferenceResolves
    BY DEF ResolveInv, ClientResolves, EveryReferenceResolves
<1> QED BY <1>1, <1>2, TypeStep, ResolveStep, PTL DEF Spec

-----------------------------------------------------------------------------
(***************************************************************************)
(* Rows are bounded.                                                       *)
(***************************************************************************)

\* The clients that found b missing and have not inserted it yet.
Pending(b) ==
    {c \in Clients : pc[c] = "store" /\ data_block[c] = b /\ block_in_DB[c] = NoRecords}

\* A row that is there stands for a client that is not going to insert one.
RowInv ==
    /\ \A b \in Blocks : Len(hashes[b]) + Cardinality(Pending(b)) <= Cardinality(Clients)
    /\ \A c \in Clients :
        (pc[c] = "store" /\ rec_count[c] = 0) => block_in_DB[c] = NoRecords

\* There are no more of them than there are clients.
LEMMA PendingFinite ==
    ASSUME NEW b
    PROVE  /\ IsFiniteSet(Pending(b)) /\ IsFiniteSet(Clients)
           /\ Cardinality(Pending(b)) \in Nat /\ Cardinality(Clients) \in Nat
           /\ Cardinality(Pending(b)) <= Cardinality(Clients)
<1>1. Pending(b) \in SUBSET Clients /\ IsFiniteSet(Clients)
    BY ClientsAssumption DEF Pending
<1> QED BY <1>1, FS_Subset, FS_CardinalityType

\* A lookup that finds a row sets rec_count, and nothing resets it before the
\* block is stored.
LEMMA CountsStep == TypeOK /\ RowInv /\ [Next]_vars =>
    \A c \in Clients : (pc'[c] = "store" /\ rec_count'[c] = 0) => block_in_DB'[c] = NoRecords
<1> SUFFICES ASSUME TypeOK, RowInv, [Next]_vars, NEW d \in Clients,
                    pc'[d] = "store", rec_count'[d] = 0
             PROVE  block_in_DB'[d] = NoRecords
    OBVIOUS
<1>1. CASE UNCHANGED vars
    BY <1>1 DEF vars, RowInv
<1>2. ASSUME NEW c \in Clients, Step(c) PROVE block_in_DB'[d] = NoRecords
    <2>1. CASE c # d
        BY <1>2, <2>1, StepFrame DEF RowInv
    <2>2. CASE c = d
        <3>1. pc'[d] = "store" => Lookup(d) \/ (pc[d] = "store" /\ Read(d))
            BY <1>2, <2>2 DEF Step, Enter, Read, StoreNew, StoreCollision, StoreKnown,
                    WriteToFile, Restart, Goto, TypeOK
        <3>2. Lookup(d) /\ data_block[d] \in Blocks
            BY <3>1 DEF Read, Lookup, TypeOK
        <3>3. hashes[data_block[d]] \in Seq(0..MaxUse)
            BY <3>2 DEF TypeOK
        <3>4. hashes[data_block[d]] # <<>> => rec_count'[d] = Len(hashes[data_block[d]])
            BY <3>2 DEF Lookup, CountAfterLookup, ProcessOf, TypeOK
        <3>5. hashes[data_block[d]] = <<>>
            BY <3>3, <3>4
        <3> QED BY <3>2, <3>5 DEF Lookup, TypeOK
    <2> QED BY <2>1, <2>2
<1> QED BY <1>1, <1>2 DEF Next

\* Nobody joins those who found b missing, and no row of b is added.
LEMMA RowsKept ==
    ASSUME NEW b \in Blocks, TypeOK, RowInv, Len(hashes'[b]) = Len(hashes[b]),
           Pending(b)' \subseteq Pending(b)
    PROVE  Len(hashes'[b]) + Cardinality(Pending(b)') <= Cardinality(Clients)
<1>1. Cardinality(Pending(b)') \in Nat /\ Cardinality(Pending(b)') <= Cardinality(Pending(b))
    BY PendingFinite, FS_Subset, FS_CardinalityType
<1>2. Len(hashes[b]) \in Nat
    BY DEF TypeOK
<1>3. Len(hashes[b]) + Cardinality(Pending(b)) <= Cardinality(Clients)
    BY DEF RowInv
<1>4. Cardinality(Pending(b)) \in Nat /\ Cardinality(Clients) \in Nat
    BY PendingFinite
<1> QED BY <1>1, <1>2, <1>3, <1>4

\* Every step keeps the sum of rows and clients that are about to insert one.
LEMMA RowStep == TypeOK /\ RowInv /\ [Next]_vars => RowInv'
<1> SUFFICES ASSUME TypeOK, RowInv, [Next]_vars, NEW b \in Blocks
             PROVE  Len(hashes'[b]) + Cardinality(Pending(b)') <= Cardinality(Clients)
    BY CountsStep DEF RowInv
<1>1. CASE UNCHANGED vars
    BY <1>1, RowsKept DEF vars, Pending
<1>2. ASSUME NEW c \in Clients, Step(c)
      PROVE  Len(hashes'[b]) + Cardinality(Pending(b)') <= Cardinality(Clients)
    <2>1. \A d \in Clients \ {c} : d \in Pending(b)' => d \in Pending(b)
        BY <1>2, StepFrame DEF Pending
    <2>2. pc[c] # "idle" => data_block[c] \in Blocks
        BY DEF TypeOK
    <2>3. Pending(b)' \subseteq Clients /\ Pending(b) \subseteq Clients
        BY DEF Pending
    <2>4. CASE pc'[c] # "store" /\ hashes' = hashes
        <3>1. c \notin Pending(b)'
            BY <2>4 DEF Pending
        <3> QED BY <2>1, <2>3, <2>4, <3>1, RowsKept
    <2>5. CASE Enter(c) \/ StoreCollision(c) \/ WriteToFile(c) \/ Restart(c)
        BY <2>4, <2>5 DEF Enter, StoreCollision, WriteToFile, Restart, Goto, TypeOK
    <2>6. CASE Read(c)
        BY <2>4, <2>6 DEF Read
    <2>7. CASE Lookup(c)
        <3>1. hashes' = hashes /\ data_block' = data_block
            BY <2>7 DEF Lookup
        <3>2. CASE hashes[b] = <<>>
            <4>1. Cardinality(Pending(b)') <= Cardinality(Clients)
                  /\ Cardinality(Pending(b)') \in Nat
                BY <2>3, PendingFinite, FS_Subset, FS_CardinalityType
            <4> QED BY <3>1, <3>2, <4>1
        <3>3. CASE hashes[b] # <<>>
            <4>1. data_block[c] \in Blocks
                BY <2>2, <2>7 DEF Lookup
            <4>2. block_in_DB'[c] =
                    IF hashes[data_block[c]] = <<>> THEN NoRecords ELSE data_block[c]
                BY <2>7 DEF Lookup, TypeOK
            <4>3. NoRecords \notin Blocks
                BY ClientsAssumption
            <4>4. c \notin Pending(b)'
                BY <3>1, <3>3, <4>1, <4>2, <4>3 DEF Pending
            <4> QED BY <2>1, <2>3, <3>1, <4>4, RowsKept
        <3> QED BY <3>2, <3>3
    <2>8. CASE StoreNew(c)
        <3>1. c \notin Pending(b)'
            BY <2>8 DEF StoreNew, Goto, TypeOK, Pending
        <3>2. Pending(b)' \subseteq Pending(b)
            BY <2>1, <2>3, <3>1
        <3>3. CASE b # data_block[c]
            <4>1. hashes'[b] = hashes[b]
                BY <2>8, <3>3 DEF StoreNew, TypeOK
            <4> QED BY <3>2, <4>1, RowsKept
        <3>4. CASE b = data_block[c]
            <4>1. c \in Pending(b)
                BY <2>8, <3>4 DEF StoreNew, Count, ProcessOf, RowInv, Pending
            <4>2. hashes[b] \in Seq(0..MaxUse) /\ hashes'[b] = Append(hashes[b], 1)
                BY <2>8, <3>4 DEF StoreNew, TypeOK
            <4>3. Len(hashes'[b]) = Len(hashes[b]) + 1 /\ Len(hashes[b]) \in Nat
                BY <4>2
            <4>4. IsFiniteSet(Pending(b) \ {c})
                  /\ Cardinality(Pending(b) \ {c}) = Cardinality(Pending(b)) - 1
                BY <4>1, PendingFinite, FS_RemoveElement
            <4>5. Cardinality(Pending(b)') <= Cardinality(Pending(b)) - 1
                  /\ Cardinality(Pending(b)') \in Nat
                <5>1. Pending(b)' \in SUBSET (Pending(b) \ {c})
                    BY <3>1, <3>2
                <5> QED BY <4>4, <5>1, FS_Subset, FS_CardinalityType
            <4>6. Len(hashes[b]) + Cardinality(Pending(b)) <= Cardinality(Clients)
                BY DEF RowInv
            <4>7. Cardinality(Pending(b)) \in Nat /\ Cardinality(Clients) \in Nat
                BY PendingFinite
            <4> QED BY <4>3, <4>5, <4>6, <4>7
        <3> QED BY <3>3, <3>4
    <2>9. CASE StoreKnown(c)
        <3>1. c \notin Pending(b)'
            BY <2>9 DEF StoreKnown, Goto, TypeOK, Pending
        <3>2. data_block[c] \in Blocks
            BY <2>2, <2>9 DEF StoreKnown
        <3>3. hashes'[b] = IF b = data_block[c] THEN CountUp(c) ELSE hashes[b]
            BY <2>9 DEF StoreKnown, TypeOK
        <3>4. Len(hashes'[b]) = Len(hashes[b])
            BY <3>2, <3>3, CountUpRows
        <3> QED BY <2>1, <2>3, <3>1, <3>4, RowsKept
    <2> QED BY <1>2, <2>5, <2>6, <2>7, <2>8, <2>9 DEF Step
<1> QED BY <1>1, <1>2 DEF Next

\* The table never has more rows of a digest than there are mounts, whatever
\* they write, in any order.
THEOREM RowsBoundedAlways == Spec => []RowsBounded
<1>1. Init => TypeOK /\ RowInv
    <2>1. ASSUME Init PROVE RowInv
        <3>1. ASSUME NEW b \in Blocks
              PROVE  Len(hashes[b]) + Cardinality(Pending(b)) <= Cardinality(Clients)
            <4>1. Len(hashes[b]) = 0
                BY <2>1 DEF Init
            <4> QED BY <4>1, PendingFinite
        <3> QED BY <2>1, <3>1 DEF Init, RowInv
    <2> QED BY <2>1, TypeInit
<1>2. TypeOK /\ RowInv => RowsBounded
    <2>1. ASSUME TypeOK, RowInv, NEW b \in Blocks
          PROVE  Len(hashes[b]) <= Cardinality(Clients)
        <3>1. Len(hashes[b]) \in Nat
            BY <2>1 DEF TypeOK
        <3>2. Len(hashes[b]) + Cardinality(Pending(b)) <= Cardinality(Clients)
            BY <2>1 DEF RowInv
        <3> QED BY <3>1, <3>2, PendingFinite
    <2> QED BY <2>1 DEF RowsBounded
<1> QED BY <1>1, <1>2, TypeStep, RowStep, PTL DEF Spec

-----------------------------------------------------------------------------
(***************************************************************************)
(* Counts cover references.                                                *)
(***************************************************************************)

\* The clients that have counted b and not put its digest in their file yet.
Writers(b) == {c \in Clients \ Readers : pc[c] = "write" /\ data_block[c] = b}

\* The rows of a digest count what refers to it and what is going to.
CoverInv ==
    \A b \in Blocks :
        AtLimit(b)
            \/ Cardinality(Uses(b)) >= Cardinality(References(b)) + Cardinality(Writers(b))

\* A part of a finite set has no more elements than the set.
LEMMA PartIsSmaller ==
    ASSUME NEW S, IsFiniteSet(S), NEW T, T \subseteq S
    PROVE  /\ IsFiniteSet(T)
           /\ Cardinality(S) \in Nat
           /\ Cardinality(T) \in Nat
           /\ Cardinality(T) <= Cardinality(S)
<1>1. IsFiniteSet(T) /\ Cardinality(T) <= Cardinality(S)
    BY FS_Subset
<1> QED BY <1>1, FS_CardinalityType

\* A set with one more element.
LEMMA OneMore ==
    ASSUME NEW S, IsFiniteSet(S), NEW x, NEW T, T \subseteq S \cup {x}
    PROVE  /\ IsFiniteSet(T)
           /\ Cardinality(S) \in Nat
           /\ Cardinality(T) \in Nat
           /\ Cardinality(T) <= Cardinality(S) + 1
<1>1. IsFiniteSet(S \cup {x}) /\ Cardinality(S) \in Nat
    BY FS_AddElement, FS_CardinalityType
<1>2. Cardinality(S \cup {x}) <= Cardinality(S) + 1
    BY <1>1, FS_AddElement
<1>3. IsFiniteSet(T) /\ Cardinality(T) \in Nat /\ Cardinality(T) <= Cardinality(S \cup {x})
    BY <1>1, PartIsSmaller
<1>4. Cardinality(S \cup {x}) \in Nat
    BY <1>1, FS_CardinalityType
<1> QED BY <1>1, <1>2, <1>3, <1>4

\* The rows of a digest count finitely many uses.
LEMMA UsesFinite ==
    ASSUME NEW uses \in Seq(0..MaxUse), NEW S, S \subseteq (DOMAIN uses) \X (1..MaxUse)
    PROVE  IsFiniteSet(S) /\ Cardinality(S) \in Nat
<1>1. IsFiniteSet(DOMAIN uses) /\ IsFiniteSet(1..MaxUse)
    <2>1. DOMAIN uses = 1..Len(uses) /\ Len(uses) \in Nat /\ MaxUse \in Nat
        BY ClientsAssumption
    <2> QED BY <2>1, FS_Interval
<1>2. IsFiniteSet((DOMAIN uses) \X (1..MaxUse))
    BY <1>1, FS_Product
<1> QED BY <1>2, PartIsSmaller

\* What is counted and what refers are finitely many.
LEMMA CoverFinite ==
    ASSUME TypeOK, NEW b \in Blocks
    PROVE  /\ IsFiniteSet(Uses(b)) /\ Cardinality(Uses(b)) \in Nat
           /\ IsFiniteSet(References(b)) /\ Cardinality(References(b)) \in Nat
           /\ IsFiniteSet(Writers(b)) /\ Cardinality(Writers(b)) \in Nat
<1>1. hashes[b] \in Seq(0..MaxUse)
    BY DEF TypeOK
<1>2. Uses(b) \subseteq (DOMAIN hashes[b]) \X (1..MaxUse)
    BY DEF Uses
<1>3. IsFiniteSet(Uses(b)) /\ Cardinality(Uses(b)) \in Nat
    BY <1>1, <1>2, UsesFinite
<1>5. IsFiniteSet(Clients) /\ IsFiniteSet(Slots)
    BY ClientsAssumption
<1>6. IsFiniteSet(Clients \ Readers)
    BY <1>5, FS_Difference
<1>7. IsFiniteSet((Clients \ Readers) \X Slots)
    BY <1>5, <1>6, FS_Product
<1>8. References(b) \subseteq (Clients \ Readers) \X Slots /\ Writers(b) \subseteq Clients \ Readers
    BY DEF References, Writers
<1> QED BY <1>3, <1>6, <1>7, <1>8, PartIsSmaller

\* Rows and their counts only grow, and a row at its limit stays there.
LEMMA UsesGrow ==
    ASSUME TypeOK, NEW c \in Clients, Step(c), NEW b \in Blocks
    PROVE  /\ Uses(b) \subseteq Uses(b)'
           /\ AtLimit(b) => AtLimit(b)'
<1>1. hashes[b] \in Seq(0..MaxUse) /\ MaxUse \in Nat
    BY ClientsAssumption DEF TypeOK
<1>2. ASSUME \A i \in DOMAIN hashes[b] :
                /\ i \in DOMAIN hashes'[b]
                /\ hashes'[b][i] \in Int /\ hashes'[b][i] >= hashes[b][i]
                /\ hashes[b][i] = MaxUse => hashes'[b][i] = MaxUse
      PROVE  /\ Uses(b) \subseteq Uses(b)'
             /\ AtLimit(b) => AtLimit(b)'
    <2>1. \A i \in DOMAIN hashes[b] : hashes[b][i] \in Int
        BY <1>1
    <2>2. Uses(b) \subseteq Uses(b)'
        BY <1>1, <1>2, <2>1 DEF Uses
    <2> QED BY <1>2, <2>2 DEF AtLimit
<1>3. pc[c] # "idle" => data_block[c] \in Blocks
    BY DEF TypeOK
<1>4. CASE hashes'[b] = hashes[b]
    BY <1>1, <1>2, <1>4
<1>5. CASE StoreNew(c) /\ b = data_block[c]
    <2>1. hashes'[b] = Append(hashes[b], 1)
        BY <1>5 DEF StoreNew, TypeOK
    <2>2. \A i \in DOMAIN hashes[b] : i \in DOMAIN hashes'[b] /\ hashes'[b][i] = hashes[b][i]
        BY <1>1, <2>1
    <2> QED BY <1>1, <1>2, <2>2
<1>6. CASE StoreKnown(c) /\ b = data_block[c]
    <2>1. hashes'[b] = CountUp(c)
        BY <1>6 DEF StoreKnown, TypeOK
    <2>2. CASE AtLimit(b)
        BY <1>4, <1>6, <2>1, <2>2 DEF CountUp, AtLimit
    <2>3. CASE ~AtLimit(b)
        <3>1. hashes'[b] = [i \in DOMAIN hashes[b] |-> hashes[b][i] + 1]
            BY <1>6, <2>1, <2>3 DEF CountUp, AtLimit
        <3>2. \A i \in DOMAIN hashes[b] :
                /\ i \in DOMAIN hashes'[b] /\ hashes'[b][i] = hashes[b][i] + 1
                /\ hashes[b][i] # MaxUse
            BY <2>3, <3>1 DEF AtLimit
        <3> QED BY <1>1, <1>2, <3>2
    <2> QED BY <2>2, <2>3
<1>7. hashes'[b] = hashes[b] \/ ((StoreNew(c) \/ StoreKnown(c)) /\ b = data_block[c])
    BY DEF Step, Enter, Read, Lookup, StoreNew, StoreCollision, StoreKnown, WriteToFile, Restart,
           TypeOK
<1> QED BY <1>4, <1>5, <1>6, <1>7

\* A client that only writes has counted its block once more when it has
\* stored it, as a row of its own or in the rows that are there.
LEMMA StoreCounts ==
    ASSUME TypeOK, ResolveInv, NEW c \in Clients \ Readers, StoreNew(c) \/ StoreKnown(c),
           NEW b \in Blocks, b = data_block[c], ~AtLimit(b)
    PROVE  \E u : u \notin Uses(b) /\ u \in Uses(b)'
<1>1. hashes[b] \in Seq(0..MaxUse) /\ MaxUse \in Nat \ {0}
    BY ClientsAssumption DEF TypeOK
<1>2. CASE StoreNew(c)
    <2> DEFINE n == Len(hashes[b]) + 1
    <2>1. hashes'[b] = Append(hashes[b], 1)
        BY <1>2 DEF StoreNew, TypeOK
    <2>2. n \in DOMAIN hashes'[b] /\ n \notin DOMAIN hashes[b] /\ hashes'[b][n] = 1
        BY <1>1, <2>1
    <2>3. <<n, 1>> \notin Uses(b) /\ <<n, 1>> \in Uses(b)'
        BY <1>1, <2>2 DEF Uses
    <2> QED BY <2>3
<1>3. CASE StoreKnown(c)
    <2> DEFINE m == hashes[b][1] + 1
    <2>1. hashes[b] # <<>>
        BY <1>3 DEF ResolveInv, ClientResolves, StoreKnown, Count, ProcessOf
    <2>2. 1 \in DOMAIN hashes[b] /\ hashes[b][1] \in 0..MaxUse /\ hashes[b][1] # MaxUse
        BY <1>1, <2>1 DEF AtLimit
    <2>3. hashes'[b] = [i \in DOMAIN hashes[b] |-> hashes[b][i] + 1]
        BY <1>3 DEF StoreKnown, CountUp, AtLimit, TypeOK
    <2>4. 1 \in DOMAIN hashes'[b] /\ hashes'[b][1] = m /\ m \in 1..MaxUse
        BY <1>1, <2>2, <2>3
    <2>5. ~(m <= hashes[b][1])
        BY <2>2
    <2>6. <<1, m>> \notin Uses(b) /\ <<1, m>> \in Uses(b)'
        BY <2>4, <2>5 DEF Uses
    <2> QED BY <2>6
<1> QED BY <1>2, <1>3

\* What a step adds to the references of a digest and to those who are about to
\* add one.
LEMMA ReferenceSteps ==
    ASSUME TypeOK, ResolveInv, NEW c \in Clients, Step(c), NEW b \in Blocks
    PROVE  \/ References(b)' \subseteq References(b) /\ Writers(b)' \subseteq Writers(b)
           \/ /\ c \notin Readers /\ (StoreNew(c) \/ StoreKnown(c))
              /\ b = data_block[c]
              /\ References(b)' = References(b)
              /\ Writers(b)' \subseteq Writers(b) \cup {c}
           \/ /\ c \in Writers(b)
              /\ Writers(b)' \subseteq Writers(b) \ {c}
              /\ \E s : References(b)' \subseteq References(b) \cup {<<c, s>>}
<1>1. \A d \in Clients \ {c} :
        /\ pc'[d] = pc[d] /\ data_block'[d] = data_block[d] /\ slots'[d] = slots[d]
    BY StepFrame
<1>2. Writers(b)' \subseteq Writers(b) \cup {c}
    BY <1>1 DEF Writers
<1>3. slots' = slots => References(b)' = References(b)
    BY DEF References
<1>4. (c \in Readers \/ pc'[c] # "write" \/ data_block'[c] # b) => Writers(b)' \subseteq Writers(b)
    BY <1>1 DEF Writers
<1>5. CASE Enter(c) \/ Read(c) \/ Lookup(c) \/ Restart(c)
    <2>1. slots' = slots /\ (pc'[c] # "write" \/ Read(c))
        BY <1>5 DEF Enter, Read, Lookup, Restart, Goto, TypeOK
    <2> QED BY <1>3, <1>4, <1>5, <2>1 DEF Read
<1>6. CASE StoreCollision(c)
    <2>1. c \in Readers
        BY <1>6 DEF StoreCollision, ResolveInv, ClientResolves, Count, ProcessOf
    <2> QED BY <1>3, <1>4, <1>6, <2>1 DEF StoreCollision
<1>7. CASE StoreNew(c) \/ StoreKnown(c)
    <2>1. slots' = slots /\ data_block' = data_block
        BY <1>7 DEF StoreNew, StoreKnown
    <2> QED BY <1>2, <1>3, <1>4, <1>7, <2>1
<1>8. CASE WriteToFile(c)
    <2>1. PICK s \in Slots : slots' = [slots EXCEPT ![c][s] = data_block[c]]
        BY <1>8 DEF WriteToFile
    <2>2. pc'[c] = "idle" /\ pc[c] = "write"
        BY <1>8 DEF WriteToFile, Goto, TypeOK
    <2>3. /\ \A t \in Slots \ {s} : slots'[c][t] = slots[c][t]
          /\ slots'[c][s] = data_block[c]
        BY <2>1 DEF TypeOK
    <2>4. CASE c \in Readers \/ data_block[c] # b
        <3>1. References(b)' \subseteq References(b)
            BY <1>1, <2>3, <2>4 DEF References
        <3> QED BY <1>4, <2>2, <3>1
    <2>5. CASE c \notin Readers /\ data_block[c] = b
        <3>1. c \in Writers(b) /\ Writers(b)' \subseteq Writers(b) \ {c}
            BY <1>4, <2>2, <2>5 DEF Writers
        <3>2. References(b)' \subseteq References(b) \cup {<<c, s>>}
            BY <1>1, <2>3 DEF References
        <3> QED BY <3>1, <3>2
    <2> QED BY <2>4, <2>5
<1> QED BY <1>5, <1>6, <1>7, <1>8 DEF Step

\* Every step keeps references, and those to come, below what is counted.
LEMMA CoverStep == TypeOK /\ ResolveInv /\ CoverInv /\ [Next]_vars => CoverInv'
<1> SUFFICES ASSUME TypeOK, ResolveInv, CoverInv, [Next]_vars, NEW b \in Blocks, ~AtLimit(b)'
             PROVE  Cardinality(Uses(b))' >= Cardinality(References(b))' + Cardinality(Writers(b))'
    BY DEF CoverInv
<1>1. CASE UNCHANGED vars
    BY <1>1 DEF vars, CoverInv, AtLimit, Uses, References, Writers
<1>2. ASSUME NEW c \in Clients, Step(c)
      PROVE  Cardinality(Uses(b))' >= Cardinality(References(b))' + Cardinality(Writers(b))'
    <2> DEFINE U == Uses(b)
               R == References(b)
               W == Writers(b)
               U1 == Uses(b)'
               R1 == References(b)'
               W1 == Writers(b)'
    <2>1. U \subseteq U1 /\ ~AtLimit(b)
        BY <1>2, UsesGrow
    <2>2. Cardinality(U) >= Cardinality(R) + Cardinality(W)
        BY <2>1 DEF CoverInv
    <2>3. /\ IsFiniteSet(U) /\ IsFiniteSet(R) /\ IsFiniteSet(W)
          /\ Cardinality(U) \in Nat /\ Cardinality(R) \in Nat /\ Cardinality(W) \in Nat
        BY CoverFinite
    <2>4. IsFiniteSet(U1) /\ Cardinality(U1) \in Nat
        <3>1. TypeOK'
            BY TypeStep
        <3>2. hashes'[b] \in Seq(0..MaxUse)
            BY <3>1 DEF TypeOK
        <3>3. U1 \subseteq (DOMAIN hashes'[b]) \X (1..MaxUse)
            BY DEF Uses
        <3> HIDE DEF U1
        <3> QED BY <3>2, <3>3, UsesFinite
    <2>5. CASE R1 \subseteq R /\ W1 \subseteq W
        <3> HIDE DEF U, R, W, U1, R1, W1
        <3>1. Cardinality(U) <= Cardinality(U1)
            BY <2>1, <2>4, PartIsSmaller
        <3>2. /\ Cardinality(R1) \in Nat /\ Cardinality(R1) <= Cardinality(R)
              /\ Cardinality(W1) \in Nat /\ Cardinality(W1) <= Cardinality(W)
            BY <2>3, <2>5, PartIsSmaller
        <3>3. Cardinality(U1) >= Cardinality(R1) + Cardinality(W1)
            BY <2>2, <2>3, <2>4, <3>1, <3>2
        <3> QED BY <3>3 DEF U1, R1, W1
    <2>6. CASE /\ c \notin Readers /\ (StoreNew(c) \/ StoreKnown(c))
               /\ b = data_block[c]
               /\ R1 = R /\ W1 \subseteq W \cup {c}
        <3>1. PICK u : u \notin U /\ u \in U1
            BY <2>1, <2>6, StoreCounts
        <3> HIDE DEF U, R, W, U1, R1, W1
        <3>2. U \cup {u} \subseteq U1
            BY <2>1, <3>1
        <3>3. Cardinality(U \cup {u}) = Cardinality(U) + 1
            BY <2>3, <3>1, FS_AddElement
        <3>4. Cardinality(U \cup {u}) <= Cardinality(U1)
            BY <2>4, <3>2, PartIsSmaller
        <3>5. Cardinality(W1) \in Nat /\ Cardinality(W1) <= Cardinality(W) + 1
            BY <2>3, <2>6, OneMore
        <3>6. Cardinality(U1) >= Cardinality(R1) + Cardinality(W1)
            BY <2>2, <2>3, <2>4, <2>6, <3>3, <3>4, <3>5
        <3> QED BY <3>6 DEF U1, R1, W1
    <2>7. CASE /\ c \in W /\ W1 \subseteq W \ {c}
               /\ \E s : R1 \subseteq R \cup {<<c, s>>}
        <3> HIDE DEF U, R, W, U1, R1, W1
        <3>1. Cardinality(U) <= Cardinality(U1)
            BY <2>1, <2>4, PartIsSmaller
        <3>2. IsFiniteSet(W \ {c}) /\ Cardinality(W \ {c}) = Cardinality(W) - 1
            BY <2>3, <2>7, FS_RemoveElement
        <3>3. Cardinality(W1) \in Nat /\ Cardinality(W1) <= Cardinality(W) - 1
            BY <2>7, <3>2, PartIsSmaller
        <3>4. Cardinality(R1) \in Nat /\ Cardinality(R1) <= Cardinality(R) + 1
            BY <2>3, <2>7, OneMore
        <3>5. Cardinality(U1) >= Cardinality(R1) + Cardinality(W1)
            BY <2>2, <2>3, <2>4, <3>1, <3>3, <3>4
        <3> QED BY <3>5 DEF U1, R1, W1
    <2> QED BY <1>2, <2>5, <2>6, <2>7, ReferenceSteps
<1> QED BY <1>1, <1>2 DEF Next

\* Though mounts race to insert a digest and each counts what it finds, the rows
\* of a digest together count at least the slots that refer to it, in the raw
\* directories of all mounts that do not read, unless a row is at its limit.
THEOREM UseCountsCoverReferencesAlways == Spec => []UseCountsCoverReferences
<1>1. Init => TypeOK /\ ResolveInv /\ CoverInv
    <2>1. Init => ResolveInv
        BY DEF Init, ResolveInv, ClientResolves
    <2>2. ASSUME Init, NEW b \in Blocks
          PROVE  Cardinality(Uses(b)) >= Cardinality(References(b)) + Cardinality(Writers(b))
        <3>1. References(b) = {} /\ Writers(b) = {}
            BY <2>2, ClientsAssumption DEF Init, References, Writers
        <3>2. Cardinality(References(b)) = 0 /\ Cardinality(Writers(b)) = 0
            BY <3>1, FS_EmptySet
        <3>3. Cardinality(Uses(b)) \in Nat
            BY <2>2, TypeInit, CoverFinite
        <3> QED BY <3>2, <3>3
    <2> QED BY <2>1, <2>2, TypeInit DEF CoverInv
<1>2. TypeOK /\ CoverInv => UseCountsCoverReferences
    <2>1. ASSUME TypeOK, CoverInv, NEW b \in Blocks, ~AtLimit(b)
          PROVE  Cardinality(Uses(b)) >= Cardinality(References(b))
        <3>1. Cardinality(Uses(b)) >= Cardinality(References(b)) + Cardinality(Writers(b))
            BY <2>1 DEF CoverInv
        <3> QED BY <2>1, <3>1, CoverFinite
    <2> QED BY <2>1 DEF UseCountsCoverReferences
<1> QED BY <1>1, <1>2, TypeStep, ResolveStep, CoverStep, PTL DEF Spec
===============================================================================

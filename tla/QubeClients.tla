------------------------------ MODULE QubeClients ------------------------------
(***************************************************************************)
(* Several mounts over one database.  The host of the database is fixed in *)
(* qube.hpp, so every machine that runs qubeFS shares the table "hashes",  *)
(* and each keeps its own raw directory.  Nothing locks the table: between *)
(* the SELECT and the INSERT or UPDATE of one qfs_write come those of the  *)
(* others.                                                                 *)
(*                                                                         *)
(* A client is the one thread of a mount, which runs with -s, and a        *)
(* request writes one block; QubeIO has the iterations of a handler, reads *)
(* and failures.  Digests do not collide here, so that a block stands for  *)
(* its digest as well.                                                     *)
(***************************************************************************)
EXTENDS Integers, Sequences, FiniteSets

CONSTANTS
    Clients,    \* the mounts
    Readers,    \* those that serve reads as well as writes
    Blocks,     \* data blocks, and their digests
    NoRecords,  \* the filler that a lookup without an answer returns
    Hole,       \* a slot never written
    Slots,      \* slots of the raw directory of a client
    MaxUse,     \* the largest value of the column use_count
    MaxRows     \* bound: rows of one digest; more than there are clients

ASSUME ClientsAssumption ==
    /\ IsFiniteSet(Clients)
    /\ IsFiniteSet(Slots)
    /\ Readers \subseteq Clients
    /\ NoRecords \notin Blocks
    /\ Hole \notin Blocks
    /\ MaxUse \in Nat \ {0}
    /\ MaxRows \in Nat /\ MaxRows > Cardinality(Clients)

VARIABLES
    hashes,       \* the table: the use counts of the rows of each digest
    rec_count,    \* q_psql::rec_count of each process
    pc,           \* where the handler of each client is
    data_block,   \* the block it writes
    block_in_DB,  \* what its lookup returned
    slots         \* the digests in each raw directory

vars == <<hashes, rec_count, pc, data_block, block_in_DB, slots>>

TypeOK ==
    /\ hashes \in [Blocks -> Seq(0..MaxUse)]
    /\ rec_count \in [Clients -> Nat]
    /\ pc \in [Clients -> {"idle", "lookup", "store", "write"}]
    /\ data_block \in [Clients -> Blocks \cup {NoRecords}]
    /\ block_in_DB \in [Clients -> Blocks \cup {NoRecords}]
    /\ slots \in [Clients -> [Slots -> Blocks \cup {Hole}]]
    /\ \A c \in Clients : pc[c] # "idle" => data_block[c] \in Blocks

Init ==
    /\ hashes = [b \in Blocks |-> <<>>]
    /\ rec_count = [c \in Clients |-> 0]
    /\ pc = [c \in Clients |-> "idle"]
    /\ data_block = [c \in Clients |-> NoRecords]
    /\ block_in_DB = [c \in Clients |-> NoRecords]
    /\ slots = [c \in Clients |-> [s \in Slots |-> Hole]]

\* Fault: the clients are threads of one process, as without -s.
OneProcess(c) == CHOOSE d \in Readers : TRUE

\* The process whose statics the client uses.
ProcessOf(c) == c

Count(c) == rec_count[ProcessOf(c)]

\* A hit sets rec_count; a miss leaves it.
CountAfterLookup(c, b) ==
    [rec_count EXCEPT ![ProcessOf(c)] = IF hashes[b] = <<>> THEN @ ELSE Len(hashes[b])]

Goto(c, label) == pc' = [pc EXCEPT ![c] = label]

\* The locals of a handler go with it.
Forget(c) ==
    /\ data_block' = [data_block EXCEPT ![c] = NoRecords]
    /\ block_in_DB' = [block_in_DB EXCEPT ![c] = NoRecords]
-----------------------------------------------------------------------------
Enter(c) ==
    /\ pc[c] = "idle"
    /\ \E b \in Blocks : data_block' = [data_block EXCEPT ![c] = b]
    /\ Goto(c, "lookup")
    /\ UNCHANGED <<hashes, rec_count, block_in_DB, slots>>

\* A read looks a digest up and uses no count, but leaves one.
Read(c) ==
    /\ c \in Readers
    /\ pc[c] = "idle"
    /\ \E s \in Slots :
        /\ slots[c][s] # Hole
        /\ rec_count' = CountAfterLookup(c, slots[c][s])
    /\ UNCHANGED <<hashes, pc, data_block, block_in_DB, slots>>

\* Fault: a lookup that does not count what it found.
LookupUncounted(c) ==
    /\ pc[c] = "lookup"
    /\ block_in_DB' =
        [block_in_DB EXCEPT ![c] =
            IF hashes[data_block[c]] = <<>> THEN NoRecords ELSE data_block[c]]
    /\ Goto(c, "store")
    /\ UNCHANGED <<hashes, rec_count, data_block, slots>>

Lookup(c) ==
    /\ pc[c] = "lookup"
    /\ block_in_DB' =
        [block_in_DB EXCEPT ![c] =
            IF hashes[data_block[c]] = <<>> THEN NoRecords ELSE data_block[c]]
    /\ rec_count' = CountAfterLookup(c, data_block[c])
    /\ Goto(c, "store")
    /\ UNCHANGED <<hashes, data_block, slots>>

\* The row goes in whether others have inserted it meanwhile or not.
StoreNew(c) ==
    /\ pc[c] = "store"
    /\ Count(c) = 0
    /\ Len(hashes[data_block[c]]) < MaxRows
    /\ hashes' = [hashes EXCEPT ![data_block[c]] = Append(@, 1)]
    /\ Goto(c, "write")
    /\ UNCHANGED <<rec_count, data_block, block_in_DB, slots>>

\* What the program takes for a collision.
StoreCollision(c) ==
    /\ pc[c] = "store"
    /\ Count(c) # 0
    /\ block_in_DB[c] # data_block[c]
    /\ Goto(c, "write")
    /\ UNCHANGED <<hashes, rec_count, data_block, block_in_DB, slots>>

\* Fault: the limit of the column is forgotten.
CountUpUnlimited(c) ==
    [i \in DOMAIN hashes[data_block[c]] |-> hashes[data_block[c]][i] + 1]

\* Fault: the statement of qpsql_decr_hash_count in its place.
CountDown(c) ==
    [i \in DOMAIN hashes[data_block[c]] |-> hashes[data_block[c]][i] - 1]

\* The server adds one to each row of the digest, those that other clients
\* have inserted meanwhile too.  The UPDATE fails as a whole when one of them
\* is at the limit of the column.
CountUp(c) ==
    LET uses == hashes[data_block[c]]
    IN  IF \E i \in DOMAIN uses : uses[i] = MaxUse THEN uses
        ELSE [i \in DOMAIN uses |-> uses[i] + 1]

StoreKnown(c) ==
    /\ pc[c] = "store"
    /\ Count(c) # 0
    /\ block_in_DB[c] = data_block[c]
    /\ hashes' = [hashes EXCEPT ![data_block[c]] = CountUp(c)]
    /\ rec_count' = [rec_count EXCEPT ![ProcessOf(c)] = 0]
    /\ Goto(c, "write")
    /\ UNCHANGED <<data_block, block_in_DB, slots>>

\* The pwrite of the digest, and the answer.
WriteToFile(c) ==
    /\ pc[c] = "write"
    /\ \E s \in Slots : slots' = [slots EXCEPT ![c][s] = data_block[c]]
    /\ Goto(c, "idle")
    /\ Forget(c)
    /\ UNCHANGED <<hashes, rec_count>>

\* The process of a mount dies and another takes its place.
Restart(c) ==
    /\ Goto(c, "idle")
    /\ rec_count' = [rec_count EXCEPT ![ProcessOf(c)] = 0]
    /\ Forget(c)
    /\ UNCHANGED <<hashes, slots>>

Step(c) ==
    \/ Enter(c)
    \/ Read(c)
    \/ Lookup(c)
    \/ StoreNew(c)
    \/ StoreCollision(c)
    \/ StoreKnown(c)
    \/ WriteToFile(c)
    \/ Restart(c)

Next == \E c \in Clients : Step(c)

Spec == Init /\ [][Next]_vars
-----------------------------------------------------------------------------
(***************************************************************************)
(* Properties.  A read leaves a count behind that can keep the next block  *)
(* of the same process from being stored (QubeIO, run StaleCount).         *)
(***************************************************************************)
\* Every digest in the raw directory of a client that does not read has its
\* row: it found one or inserted one, whichever client was first, and the
\* counts that the readers leave behind do it no harm.
EveryReferenceResolves ==
    \A c \in Clients \ Readers, s \in Slots :
        slots[c][s] # Hole => hashes[slots[c][s]] # <<>>

\* The table has no key and two clients may both find a digest missing: it
\* then has several rows, but never more than there are clients, however
\* often they write the block and restart.
RowsBounded == \A b \in Blocks : Len(hashes[b]) <= Cardinality(Clients)

\* A use for each that a row of b counts.
Uses(b) == {u \in (DOMAIN hashes[b]) \X (1..MaxUse) : u[2] <= hashes[b][u[1]]}

\* The slots of the clients that do not read that refer to b.
References(b) == {r \in (Clients \ Readers) \X Slots : slots[r[1]][r[2]] = b}

AtLimit(b) == \E i \in DOMAIN hashes[b] : hashes[b][i] = MaxUse

\* No row by itself covers the references of all clients, but the rows of a
\* digest together do, unless one is at the limit of the column.
UseCountsCoverReferences ==
    \A b \in Blocks : AtLimit(b) \/ Cardinality(Uses(b)) >= Cardinality(References(b))
=============================================================================

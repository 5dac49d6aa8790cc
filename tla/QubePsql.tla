------------------------------- MODULE QubePsql -------------------------------
(***************************************************************************)
(* q_psql: the one PostgreSQL session of the filesystem and the table      *)
(* "hashes" behind it.  A row keeps a data block under the SHA-512 digest  *)
(* of its contents, with a use count.                                      *)
(*                                                                         *)
(* Every member of q_psql is static, so the variables below are what one   *)
(* process has.  The server is external: its table outlives the process,   *)
(* a statement either takes effect whole or not at all, and it may fail    *)
(* for the reasons DbFaults lists.                                         *)
(***************************************************************************)
EXTENDS Integers, Sequences, FiniteSets

CONSTANTS
    Blocks,     \* the 4096-byte data blocks
    Hashes,     \* their digests, in hexadecimal
    HashOf,     \* the digest of each block; two blocks may collide
    NoRecords,  \* the filler that a lookup without an answer returns
    MaxUse,     \* the largest value of the column use_count
    DbFaults    \* what may go wrong: a subset of DbFaultKinds

DbFaultKinds == {"select", "insert", "update", "conn"}

ASSUME PsqlAssumption ==
    /\ HashOf \in [Blocks -> Hashes]
    /\ NoRecords \notin Blocks
    /\ MaxUse \in Nat \ {0}
    /\ DbFaults \subseteq DbFaultKinds

VARIABLES
    hashes,     \* the rows of the table, in the order they were inserted
    rec_count,  \* q_psql::rec_count, what the last lookups left behind
    conn,       \* the session, and after it ended, how it ended
    last_res    \* q_psql::last_res: null, or a result freed already

psqlVars == <<hashes, rec_count, conn, last_res>>

Row == [hash : Hashes, block : Blocks, use_count : 1..MaxUse]

PsqlTypeOK ==
    /\ hashes \in Seq(Row)
    /\ rec_count \in Nat
    /\ conn \in {"none", "ok", "bad", "aborted", "killed"}
    /\ last_res \in {"null", "dangling"}

Alive == conn \in {"ok", "bad"}

RowsOf(h) == {i \in DOMAIN hashes : hashes[i].hash = h}

-----------------------------------------------------------------------------
(***************************************************************************)
(* The life of the session.  A process connects once, in the constructor;  *)
(* nothing resets a session that broke.                                    *)
(***************************************************************************)
PsqlInit ==
    /\ hashes = <<>>
    /\ rec_count = 0
    /\ conn = "none"
    /\ last_res = "null"

\* A new process: the statics have their initial values.  A connection
\* that fails ends the process at once, which changes nothing.
Connect ==
    /\ ~Alive
    /\ conn' = "ok"
    /\ rec_count' = 0
    /\ last_res' = "null"
    /\ UNCHANGED hashes

\* The destructor clears last_res before it finishes the connection.  When
\* last_res is a result that qpsql_insert_hash freed, the allocator may
\* detect the double free and abort the process.
Disconnect ==
    /\ Alive
    /\ conn' \in {"none"} \cup (IF last_res = "dangling" THEN {"aborted"} ELSE {})
    /\ UNCHANGED <<hashes, rec_count, last_res>>

LoseConnection ==
    /\ "conn" \in DbFaults
    /\ conn = "ok"
    /\ conn' = "bad"
    /\ UNCHANGED <<hashes, rec_count, last_res>>

ProcessDies ==
    /\ Alive
    /\ conn' = "killed"
    /\ UNCHANGED <<hashes, rec_count, last_res>>

-----------------------------------------------------------------------------
(***************************************************************************)
(* qpsql_get_block_from_hash.  A lookup that finds rows sets rec_count and *)
(* returns the block of the first row of the answer, which may be any of   *)
(* them.  One that finds none, or fails, returns the filler and leaves     *)
(* rec_count as an earlier call left it.                                   *)
(***************************************************************************)
\* Fault: a lookup that does not count what it found.
LookupHitsUncounted(h, block) ==
    /\ conn = "ok"
    /\ \E i \in RowsOf(h) : block = hashes[i].block
    /\ rec_count' = rec_count

LookupHits(h, block) ==
    /\ conn = "ok"
    /\ \E i \in RowsOf(h) : block = hashes[i].block
    /\ rec_count' = Cardinality(RowsOf(h))

LookupMisses(h, block) ==
    /\ RowsOf(h) = {} \/ conn = "bad" \/ "select" \in DbFaults
    /\ block = NoRecords
    /\ rec_count' = rec_count

GetBlockFromHash(h, block) ==
    /\ LookupHits(h, block) \/ LookupMisses(h, block)
    /\ UNCHANGED <<hashes, conn, last_res>>

(***************************************************************************)
(* qpsql_insert_hash.  On success last_res keeps the result that is freed  *)
(* on the way out.  A connection that breaks while the answer is under way *)
(* leaves the row inserted and the caller told otherwise.                  *)
(***************************************************************************)
NewRow(h, block) == [hash |-> h, block |-> block, use_count |-> 1]

Inserted(h, block) ==
    /\ conn = "ok"
    /\ hashes' = Append(hashes, NewRow(h, block))
    /\ \/ last_res' = "dangling" /\ UNCHANGED conn
       \/ "conn" \in DbFaults /\ conn' = "bad" /\ UNCHANGED last_res

NotInserted ==
    /\ conn = "bad" \/ "insert" \in DbFaults
    /\ UNCHANGED <<hashes, conn, last_res>>

InsertHash(h, block) ==
    /\ Inserted(h, block) \/ NotInserted
    /\ UNCHANGED rec_count

(***************************************************************************)
(* qpsql_incr_hash_count.  The UPDATE touches every row of the digest, or  *)
(* none when it fails or one of them is at the limit of the column.        *)
(* qpsql_execQuery sets rec_count to -1 either way, because an UPDATE      *)
(* returns no tuples, and the caller then sets it to 0: a failure looks    *)
(* like a success.                                                         *)
(***************************************************************************)
\* Fault: the statement of qpsql_decr_hash_count in its place.
CountDown(h) ==
    [i \in DOMAIN hashes |->
        IF i \in RowsOf(h)
        THEN [hashes[i] EXCEPT !.use_count = @ - 1] ELSE hashes[i]]

CountUp(h) ==
    [i \in DOMAIN hashes |->
        IF i \in RowsOf(h)
        THEN [hashes[i] EXCEPT !.use_count = @ + 1] ELSE hashes[i]]

AtLimit(h) == \E i \in RowsOf(h) : hashes[i].use_count = MaxUse

\* Fault: rec_count stays as qpsql_execQuery set it.
IncrHashCountUnreset(h) ==
    /\ \/ conn = "ok" /\ ~AtLimit(h) /\ hashes' = CountUp(h)
       \/ /\ conn = "bad" \/ "update" \in DbFaults \/ AtLimit(h)
          /\ UNCHANGED hashes
    /\ rec_count' = -1
    /\ UNCHANGED <<conn, last_res>>

IncrHashCount(h) ==
    /\ \/ conn = "ok" /\ ~AtLimit(h) /\ hashes' = CountUp(h)
       \/ /\ conn = "bad" \/ "update" \in DbFaults \/ AtLimit(h)
          /\ UNCHANGED hashes
    /\ rec_count' = 0
    /\ UNCHANGED <<conn, last_res>>
=============================================================================

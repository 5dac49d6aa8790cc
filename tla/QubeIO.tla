-------------------------------- MODULE QubeIO --------------------------------
(***************************************************************************)
(* The data path of qubeFS: q_fuse's handlers for open, create, read,      *)
(* write, release and unlink, the file access of q_FS and the digest of    *)
(* q_dedupe, over the session of QubePsql.                                 *)
(*                                                                         *)
(* A file of the mount is backed by a file of the raw directory that holds *)
(* one digest of HASH_SIZE characters for each block of BLOCK_SIZE bytes.  *)
(* A handler is a sequence of steps, one for each call it makes to the     *)
(* database or to the raw file, so that the process or the session may     *)
(* fail between any two.  The file system runs with -s: one handler at a   *)
(* time.                                                                   *)
(***************************************************************************)
EXTENDS QubePsql

CONSTANTS
    Files,       \* files of the raw directory
    NoFile,      \* not a file
    Fds,         \* open files of the kernel, with their descriptors
    NoFd,        \* not a descriptor
    Hole,        \* what a slot never written reads as
    Chunks,      \* slices of BLOCK_SIZE bytes, or less, of a write buffer
    Short,       \* the slices that are shorter than a block
    ZeroLed,     \* the slices whose first byte is NUL
    Padded,      \* the blocks that a slice may be hashed as
    BLOCK_SIZE, HASH_SIZE,
    FILLER_SIZE, \* bytes of NoRecords
    Offsets,     \* byte offsets of requests
    ReadSizes,   \* byte sizes of read requests
    IoFaults,    \* what may go wrong: a subset of IoFaultKinds
    MaxBlocks,   \* bound: blocks of a write request
    MaxSlots,    \* bound: slots of a raw file
    MaxRows      \* bound: rows of the table

IoFaultKinds == {"pwrite", "read", "crash"}

(***************************************************************************)
(* get_a_block_from_buffer copies BLOCK_SIZE bytes whatever is left of the *)
(* buffer, so what follows a short slice is whatever memory holds: the     *)
(* slice becomes any block of a set.  A whole slice becomes itself.        *)
(***************************************************************************)
ASSUME IOAssumption ==
    /\ IsFiniteSet(Files)
    /\ NoFile \notin Files
    /\ NoFd \notin Fds
    /\ Hole \notin Hashes
    /\ Short \subseteq Chunks
    /\ ZeroLed \subseteq Chunks
    /\ Padded \in [Chunks -> (SUBSET Blocks) \ {{}}]
    /\ \A c \in Chunks \ Short : \E b \in Blocks : Padded[c] = {b}
    /\ BLOCK_SIZE \in Nat \ {0}
    /\ HASH_SIZE \in Nat \ {0}
    /\ FILLER_SIZE \in Nat
    /\ Offsets \subseteq Nat
    /\ ReadSizes \subseteq Nat
    /\ IoFaults \subseteq IoFaultKinds
    /\ MaxBlocks \in Nat
    /\ MaxSlots \in Nat
    /\ MaxRows \in Nat

VARIABLES
    present,         \* the files that exist
    slots,           \* the digests that each raw file holds
    fds,             \* what each descriptor is open on
    pc,              \* where the running handler is
    req,             \* the request it serves
    hash_buffer,     \* qfs_write: the digests of the blocks so far
    data_block,      \* qfs_write: the block of this iteration
    block_in_DB,     \* qfs_write: the answer of this iteration's lookup
    actual_contents  \* qfs_read: the pieces read so far

fileVars == <<present, slots, fds>>
writeVars == <<hash_buffer, data_block, block_in_DB>>
handlerVars == <<pc, req, hash_buffer, data_block, block_in_DB, actual_contents>>
vars == <<psqlVars, fileVars, handlerVars>>

Closed == [file |-> NoFile, append |-> FALSE]

\* "clean" records whether rec_count was 0 when the request came in.
NoReq == [op |-> "none", fd |-> NoFd, slot |-> 0, data |-> <<>>, size |-> 0,
          clean |-> FALSE]

Pieces == Blocks \cup {NoRecords}

IOTypeOK ==
    /\ present \subseteq Files
    /\ slots \in [Files -> Seq(Hashes \cup {Hole})]
    /\ fds \in [Fds -> [file : Files \cup {NoFile}, append : BOOLEAN]]
    /\ pc \in {"idle", "lookup", "store", "reply", "read"}
    /\ req \in [op : {"none", "read", "write"}, fd : Fds \cup {NoFd}, slot : Nat,
                data : Seq(Chunks), size : Nat, clean : BOOLEAN]
    /\ hash_buffer \in Seq(Hashes)
    /\ data_block \in Pieces
    /\ block_in_DB \in Pieces
    /\ actual_contents \in Seq(Pieces)

\* The types of all variables, and what a handler that runs has: a live
\* process and a descriptor open on a file.
TypeOK ==
    /\ PsqlTypeOK
    /\ IOTypeOK
    /\ pc # "idle" => Alive /\ req.fd \in Fds /\ fds[req.fd].file \in Files

Idle == Alive /\ pc = "idle"

\* The file that the running handler works on.
File == fds[req.fd].file

ToIdle ==
    /\ pc' = "idle"
    /\ req' = NoReq
    /\ hash_buffer' = <<>>
    /\ data_block' = NoRecords
    /\ block_in_DB' = NoRecords
    /\ actual_contents' = <<>>

IOInit ==
    /\ present = {}
    /\ slots = [f \in Files |-> <<>>]
    /\ fds = [d \in Fds |-> Closed]
    /\ pc = "idle"
    /\ req = NoReq
    /\ hash_buffer = <<>>
    /\ data_block = NoRecords
    /\ block_in_DB = NoRecords
    /\ actual_contents = <<>>

Init == PsqlInit /\ IOInit
-----------------------------------------------------------------------------
(***************************************************************************)
(* The process.  The raw directory and the table outlive it; the           *)
(* descriptors and the statics do not.                                     *)
(***************************************************************************)
Mount == Connect /\ UNCHANGED <<fileVars, handlerVars>>

Unmount ==
    /\ Idle
    /\ \A d \in Fds : fds[d] = Closed
    /\ Disconnect
    /\ UNCHANGED <<fileVars, handlerVars>>

Die == ProcessDies /\ ToIdle /\ fds' = [d \in Fds |-> Closed] /\ UNCHANGED <<present, slots>>

Crash == "crash" \in IoFaults /\ Die

SessionLost == LoseConnection /\ UNCHANGED <<fileVars, handlerVars>>
-----------------------------------------------------------------------------
(***************************************************************************)
(* Names and descriptors.  The flags of open go to the raw file as they    *)
(* come, so O_TRUNC empties it and O_APPEND holds for every later pwrite.  *)
(***************************************************************************)
Open ==
    /\ Idle
    /\ \E d \in Fds, f \in present, append \in BOOLEAN, trunc \in BOOLEAN :
        /\ fds[d] = Closed
        /\ fds' = [fds EXCEPT ![d] = [file |-> f, append |-> append]]
        /\ slots' = IF trunc THEN [slots EXCEPT ![f] = <<>>] ELSE slots
    /\ UNCHANGED <<psqlVars, present, handlerVars>>

Create ==
    /\ Idle
    /\ \E d \in Fds, f \in Files \ present, append \in BOOLEAN :
        /\ fds[d] = Closed
        /\ fds' = [fds EXCEPT ![d] = [file |-> f, append |-> append]]
        /\ present' = present \cup {f}
    /\ UNCHANGED <<psqlVars, slots, handlerVars>>

\* Fault: a descriptor is closed under the handler that uses it.
ReleaseAnytime ==
    /\ Alive
    /\ \E d \in Fds :
        /\ fds[d] # Closed
        /\ fds' = [fds EXCEPT ![d] = Closed]
    /\ UNCHANGED <<psqlVars, present, slots, handlerVars>>

Release ==
    /\ Idle
    /\ \E d \in Fds :
        /\ fds[d] # Closed
        /\ fds' = [fds EXCEPT ![d] = Closed]
    /\ UNCHANGED <<psqlVars, present, slots, handlerVars>>

\* The library hands an unlink to the program only when nobody has the file
\* open.  The rows that the file refers to stay, and so do their counts.
Unlink ==
    /\ Idle
    /\ \E f \in present :
        /\ \A d \in Fds : fds[d].file # f
        /\ present' = present \ {f}
        /\ slots' = [slots EXCEPT ![f] = <<>>]
    /\ UNCHANGED <<psqlVars, fds, handlerVars>>
-----------------------------------------------------------------------------
(***************************************************************************)
(* qfs_write.  Offsets of the mount become offsets of the raw file, which  *)
(* are multiples of HASH_SIZE: slot 0 is the first digest.                 *)
(***************************************************************************)
HashOffset(offset) == (offset \div BLOCK_SIZE) * HASH_SIZE

SlotAt(offset) == HashOffset(offset) \div HASH_SIZE

\* The buffers of a write: only the last slice may be short.
Buffers ==
    UNION {{data \in [1..n -> Chunks] : \A i \in 1..n-1 : data[i] \notin Short}
            : n \in 1..MaxBlocks}

\* Fault: pwrite goes to the offset of the request, append or not.
WriteSlotPlain(d, slot) == slot

\* Where pwrite puts the digests: at the offset, or at the end of the file
\* when it is open for append.
WriteSlot(d, slot) == IF fds[d].append THEN Len(slots[fds[d].file]) ELSE slot

\* A buffer that begins with NUL is taken for an empty one.
WriteEnter ==
    /\ Idle
    /\ \E d \in Fds, offset \in Offsets, data \in Buffers :
        /\ fds[d].file \in Files
        /\ WriteSlot(d, SlotAt(offset)) + Len(data) <= MaxSlots
        /\ Len(hashes) + Len(data) <= MaxRows
        /\ req' = [NoReq EXCEPT !.op = "write", !.fd = d, !.slot = SlotAt(offset),
                                !.data = data, !.clean = (rec_count = 0)]
        /\ pc' = IF data[1] \in ZeroLed THEN "reply" ELSE "lookup"
    /\ UNCHANGED <<psqlVars, fileVars, writeVars, actual_contents>>

\* get_a_block_from_buffer: the blocks that the slice at i may be cut as.
BlocksOfSlice(i) == Padded[req.data[i]]

\* One iteration's block is cut and hashed, and its digest is looked up.
WriteLookup ==
    /\ pc = "lookup"
    /\ Len(hash_buffer) < Len(req.data)
    /\ \E b \in BlocksOfSlice(Len(hash_buffer) + 1), found \in Pieces :
        /\ GetBlockFromHash(HashOf[b], found)
        /\ data_block' = b
        /\ block_in_DB' = found
        /\ hash_buffer' = Append(hash_buffer, HashOf[b])
    /\ pc' = "store"
    /\ UNCHANGED <<fileVars, req, actual_contents>>

\* Fault: the first digest of the buffer, whatever the iteration.
FirstHash == hash_buffer[1]

BlockHash == HashOf[data_block]

\* rec_count alone decides whether the digest is new.
StoreNew ==
    /\ pc = "store"
    /\ rec_count = 0
    /\ InsertHash(BlockHash, data_block)
    /\ pc' = "lookup"
    /\ UNCHANGED <<fileVars, req, writeVars, actual_contents>>

\* handle_a_collision logs the collision and saves nothing.
StoreCollision ==
    /\ pc = "store"
    /\ rec_count # 0
    /\ data_block # block_in_DB
    /\ pc' = "lookup"
    /\ UNCHANGED <<psqlVars, fileVars, req, writeVars, actual_contents>>

StoreKnown ==
    /\ pc = "store"
    /\ rec_count # 0
    /\ data_block = block_in_DB
    /\ IncrHashCount(BlockHash)
    /\ pc' = "lookup"
    /\ UNCHANGED <<fileVars, req, writeVars, actual_contents>>

\* Fault: one slot too far.
OverlayShifted(file, at, s) ==
    [i \in 1..(IF s = <<>> \/ at + 1 + Len(s) < Len(file)
               THEN Len(file) ELSE at + 1 + Len(s)) |->
        IF i \in at + 2..at + 1 + Len(s) THEN s[i - at - 1]
        ELSE IF i \in DOMAIN file THEN file[i] ELSE Hole]

\* Fault: the file ends where the write does.
OverlayTruncating(file, at, s) ==
    [i \in 1..at + Len(s) |->
        IF i \in at + 1..at + Len(s) THEN s[i - at]
        ELSE IF i \in DOMAIN file THEN file[i] ELSE Hole]

\* pwrite of s over a file, from slot "at": what lies between the end of the
\* file and there becomes holes; writing nothing leaves the file alone.
Overlay(file, at, s) ==
    [i \in 1..(IF s = <<>> \/ at + Len(s) < Len(file) THEN Len(file) ELSE at + Len(s)) |->
        IF i \in at + 1..at + Len(s) THEN s[i - at]
        ELSE IF i \in DOMAIN file THEN file[i] ELSE Hole]

\* pwrite may take only some of the digests, or none: its result is looked
\* at by nobody.
Written == IF "pwrite" \in IoFaults THEN 0..Len(hash_buffer) ELSE {Len(hash_buffer)}

\* Fault: the digests go to the file before the last block is stored.
WriteToFileEarly ==
    /\ pc \in {"lookup", "store"}
    /\ Len(hash_buffer) = Len(req.data)
    /\ \E n \in Written :
        slots' = [slots EXCEPT ![File] =
                    Overlay(@, WriteSlot(req.fd, req.slot), SubSeq(hash_buffer, 1, n))]
    /\ pc' = "reply"
    /\ UNCHANGED <<psqlVars, present, fds, req, writeVars, actual_contents>>

WriteToFile ==
    /\ pc = "lookup"
    /\ Len(hash_buffer) = Len(req.data)
    /\ \E n \in Written :
        slots' = [slots EXCEPT ![File] =
                    Overlay(@, WriteSlot(req.fd, req.slot), SubSeq(hash_buffer, 1, n))]
    /\ pc' = "reply"
    /\ UNCHANGED <<psqlVars, present, fds, req, writeVars, actual_contents>>

\* The answer is the size of the request, whatever happened.
WriteReply ==
    /\ pc = "reply"
    /\ ToIdle
    /\ UNCHANGED <<psqlVars, fileVars>>
-----------------------------------------------------------------------------
(***************************************************************************)
(* qfs_read.  The number of digests to read is the size of the request     *)
(* over HASH_SIZE.                                                         *)
(***************************************************************************)
NumOfHashes == req.size \div HASH_SIZE

ReadEnter ==
    /\ Idle
    /\ \E d \in Fds, offset \in Offsets, size \in ReadSizes :
        /\ fds[d].file \in Files
        /\ req' = [NoReq EXCEPT !.op = "read", !.fd = d, !.slot = SlotAt(offset),
                                !.size = size]
    /\ pc' = "read"
    /\ UNCHANGED <<psqlVars, fileVars, writeVars, actual_contents>>

\* Fault: the slot after the one asked for.
ReadFromNext(slot) ==
    IF slot + 1 \in DOMAIN slots[File] THEN {slots[File][slot + 1]} ELSE {Hole}

\* qfs_read_from_file: past the end of the file, in a hole and after an error
\* the digest is the empty string, under which the table has no row.
ReadFromFile(slot) ==
    (IF slot \in DOMAIN slots[File] THEN {slots[File][slot]} ELSE {Hole})
        \cup (IF "read" \in IoFaults THEN {Hole} ELSE {})

\* Fault: a lookup without an answer is tried again.
ReadHashRetries ==
    /\ pc = "read"
    /\ Len(actual_contents) < NumOfHashes
    /\ \E h \in ReadFromFile(req.slot + Len(actual_contents) + 1), found \in Pieces :
        /\ GetBlockFromHash(h, found)
        /\ actual_contents' = IF found = NoRecords THEN actual_contents
                                ELSE Append(actual_contents, found)
    /\ UNCHANGED <<fileVars, pc, req, writeVars>>

ReadHash ==
    /\ pc = "read"
    /\ Len(actual_contents) < NumOfHashes
    /\ \E h \in ReadFromFile(req.slot + Len(actual_contents) + 1), found \in Pieces :
        /\ GetBlockFromHash(h, found)
        /\ actual_contents' = Append(actual_contents, found)
    /\ UNCHANGED <<fileVars, pc, req, writeVars>>

ReadDone == pc = "read" /\ Len(actual_contents) = NumOfHashes

\* The bytes that memcpy moves to a buffer of req.size bytes.
ReturnedBytes ==
    LET blocks == {i \in DOMAIN actual_contents : actual_contents[i] \in Blocks}
    IN  Cardinality(blocks) * BLOCK_SIZE
            + (Len(actual_contents) - Cardinality(blocks)) * FILLER_SIZE

ReadReply ==
    /\ ReadDone
    /\ ToIdle
    /\ UNCHANGED <<psqlVars, fileVars>>

\* memcpy past the end of the buffer may kill the process.
ReadOverrun ==
    /\ ReadDone
    /\ ReturnedBytes > req.size
    /\ Die
-----------------------------------------------------------------------------
HandlerStep ==
    \/ WriteLookup
    \/ StoreNew
    \/ StoreCollision
    \/ StoreKnown
    \/ WriteToFile
    \/ WriteReply
    \/ ReadHash
    \/ ReadReply
    \/ ReadOverrun

\* What the kernel, the operator and the database server do.
Environment ==
    \/ Mount
    \/ Unmount
    \/ Crash
    \/ SessionLost
    \/ Open
    \/ Create
    \/ Release
    \/ Unlink
    \/ WriteEnter
    \/ ReadEnter

Next == HandlerStep \/ Environment

Spec == Init /\ [][Next]_vars

(***************************************************************************)
(* The one thread keeps running its handler.  Nothing obliges the kernel   *)
(* to send requests or the operator to unmount.                            *)
(***************************************************************************)
FairSpec == Spec /\ WF_vars(HandlerStep)
-----------------------------------------------------------------------------
(***************************************************************************)
(* Properties.                                                             *)
(***************************************************************************)
Stored(h) == RowsOf(h) # {}

CollisionFree == \A b, c \in Blocks : HashOf[b] = HashOf[c] => b = c

\* Every row holds its block under the block's own digest: the hash that
\* qfs_write looked up, the block it inserts and the buffer it cut belong to
\* the same iteration, whatever failed in between.
RowsAddressed == \A i \in DOMAIN hashes : hashes[i].hash = HashOf[hashes[i].block]

\* The table has no key, so that a digest has one row only because qfs_write
\* looks before it inserts.  It takes a lookup that fails to break this.
OneRowPerHash ==
    "select" \notin DbFaults =>
        \A i, j \in DOMAIN hashes : hashes[i].hash = hashes[j].hash => i = j

\* A block that a read returns is one whose digest the file holds at that
\* place: blocks never come from another slot, nor from another lookup.
ServedBlocksMatch ==
    pc = "read" =>
        \A i \in DOMAIN actual_contents :
            actual_contents[i] \in Blocks =>
                /\ req.slot + i \in DOMAIN slots[File]
                /\ slots[File][req.slot + i] = HashOf[actual_contents[i]]

\* A write that came in when rec_count was 0 has a row for each digest it
\* puts in the file, and leaves rec_count at 0 for the next one: what the
\* handlers rely on and only a lookup outside of qfs_write breaks.
CleanWriteStores ==
    (/\ pc = "reply" /\ req.clean /\ conn = "ok"
     /\ CollisionFree /\ DbFaults \cap {"select", "insert"} = {}) =>
        /\ rec_count = 0
        /\ \A i \in DOMAIN hash_buffer : Stored(hash_buffer[i])

\* No dangling references: every digest in a raw file has its row.
EveryReferenceResolves ==
    \A f \in Files : \A i \in DOMAIN slots[f] :
        slots[f][i] # Hole => Stored(slots[f][i])

\* The use count of a row is at least the number of slots that refer to it,
\* or has reached the limit of the column.
References(h) ==
    Cardinality({r \in Files \X (1..MaxSlots) :
                    r[2] \in DOMAIN slots[r[1]] /\ slots[r[1]][r[2]] = h})

UseCountCoversReferences ==
    \A i \in DOMAIN hashes :
        \/ hashes[i].use_count = MaxUse
        \/ hashes[i].use_count >= References(hashes[i].hash)

\* A write that is about to be acknowledged in full is in the raw file: the
\* slots from its offset on, or the last ones after an append, hold the
\* digests of the blocks of its buffer.
AckedWriteLands ==
    (pc = "reply" /\ "pwrite" \notin IoFaults) =>
        LET n  == Len(req.data)
            at == IF fds[req.fd].append THEN Len(slots[File]) - n ELSE req.slot
        IN  \A i \in 1..n :
                /\ at + i \in DOMAIN slots[File]
                /\ slots[File][at + i] \in {HashOf[b] : b \in BlocksOfSlice(i)}

\* A write changes nothing but the slots of its own window, and nothing that
\* was there before when the file is open for append; files never shrink.
WriteKeepsTheRest ==
    \A f \in Files : \A i \in DOMAIN slots[f] :
        /\ i \in DOMAIN slots'[f]
        /\ \/ slots'[f][i] = slots[f][i]
           \/ /\ f = File /\ ~fds[req.fd].append
              /\ i \in req.slot + 1..req.slot + Len(req.data)

WritesStayInWindow ==
    [][(pc \in {"lookup", "store", "reply"}) => WriteKeepsTheRest]_vars

\* Every request is answered, or its process is gone.
HandlerReturns == pc # "idle" ~> pc = "idle"
-----------------------------------------------------------------------------
(***************************************************************************)
(* Properties that the documentation states and the code does not have.    *)
(***************************************************************************)
\* The disconnection at shutdown is graceful.
ShutdownIsGraceful == conn # "aborted"

\* A read of whole blocks within the file returns the blocks stored there,
\* one for each block asked for.
ReadReturnsStoredData ==
    (/\ ReadDone
     /\ \A i \in DOMAIN slots[File] : slots[File][i] # Hole
     /\ req.size % BLOCK_SIZE = 0
     /\ req.slot + req.size \div BLOCK_SIZE <= Len(slots[File])) =>
        /\ Len(actual_contents) = req.size \div BLOCK_SIZE
        /\ \A i \in DOMAIN actual_contents : actual_contents[i] \in Blocks
=============================================================================

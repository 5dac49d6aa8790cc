------------------------------ MODULE QubeBackup ------------------------------
(***************************************************************************)
(* What a deduplicating backup store promises to its user, with no table,  *)
(* no digests and no handler: files are sequences of blocks, a block is    *)
(* kept once, and nobody is told how.  It is the specification that the    *)
(* data path of QubeIO implements.                                         *)
(*                                                                         *)
(* With Lossless, a file refers only to blocks that are kept already, and  *)
(* a write that returns has taken effect whole.  Without, the store may    *)
(* lose what it did not keep, but it still never writes outside the window *)
(* of a request and never serves a block from another place.               *)
(***************************************************************************)
EXTENDS Integers, Sequences

CONSTANTS Files, Chunks, Blocks, Hole, NoRecords, Padded, Lossless

VARIABLES
    up,     \* is the store in service?
    image,  \* the blocks of each file
    kept,   \* the blocks in the store
    call,   \* the request under way
    out     \* what it has answered so far

backupVars == <<up, image, kept, call, out>>

NoCall == [op |-> "none", file |-> {}, at |-> 0, data |-> <<>>, done |-> FALSE]

Init ==
    /\ up = FALSE
    /\ image = [f \in Files |-> <<>>]
    /\ kept = {}
    /\ call = NoCall
    /\ out = <<>>

\* The store starts, or it stops, and what it was doing is gone with it.
Start ==
    /\ ~up /\ up'
    /\ UNCHANGED <<image, kept, call, out>>

Stop ==
    /\ up /\ ~up'
    /\ call' = NoCall
    /\ out' = <<>>
    /\ UNCHANGED <<image, kept>>

\* A file is emptied or removed between requests; its blocks stay.
Erase ==
    /\ up /\ call = NoCall
    /\ \E f \in Files : image' = [image EXCEPT ![f] = <<>>]
    /\ UNCHANGED <<up, kept, call, out>>

\* A store that may lose data may answer a put without doing anything.
Request ==
    /\ up /\ call = NoCall
    /\ call' \in [op : {"put", "get"}, file : Files, at : Nat, data : Seq(Chunks),
                  done : IF Lossless THEN {FALSE} ELSE BOOLEAN]
    /\ UNCHANGED <<up, image, kept, out>>

\* Only blocks of the request are taken in.
Keep ==
    /\ call.op = "put" /\ ~call.done
    /\ \E i \in DOMAIN call.data : \E b \in Padded[call.data[i]] : kept' = kept \cup {b}
    /\ UNCHANGED <<up, image, call, out>>

\* The file after n blocks of the request are put at their place.
PutBlocks(n) ==
    LET f == call.file
        last == call.at + n
    IN  /\ \A g \in Files \ {f} : image'[g] = image[g]
        /\ Len(image'[f]) =
            IF n = 0 \/ last < Len(image[f]) THEN Len(image[f]) ELSE last
        /\ \A i \in DOMAIN image'[f] :
            image'[f][i] \in
                IF i \in call.at + 1..last THEN Padded[call.data[i - call.at]]
                ELSE IF i \in DOMAIN image[f] THEN {image[f][i]} ELSE {Hole}

Put ==
    /\ call.op = "put" /\ ~call.done
    /\ \E n \in 0..Len(call.data) :
        /\ PutBlocks(n)
        /\ Lossless =>
            /\ n = Len(call.data)
            /\ \A i \in call.at + 1..call.at + n : image'[call.file][i] \in kept
    /\ call' = [op |-> "put", file |-> call.file, at |-> 0, data |-> <<>>, done |-> TRUE]
    /\ UNCHANGED <<up, kept, out>>

\* The next piece of a read is the block at its place, or the filler.
Serve ==
    /\ call.op = "get"
    /\ \E piece \in (kept \cap {image[call.file][i] :
                            i \in DOMAIN image[call.file] \cap {call.at + Len(out) + 1}})
                    \cup {NoRecords} :
        out' = Append(out, piece)
    /\ UNCHANGED <<up, image, kept, call>>

Return ==
    /\ call # NoCall
    /\ (Lossless /\ call.op = "put") => call.done
    /\ call' = NoCall
    /\ out' = <<>>
    /\ UNCHANGED <<up, image, kept>>

Next == Start \/ Stop \/ Erase \/ Request \/ Keep \/ Put \/ Serve \/ Return

Spec == Init /\ [][Next]_backupVars
=============================================================================

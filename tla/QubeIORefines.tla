----------------------------- MODULE QubeIORefines -----------------------------
(***************************************************************************)
(* QubeIO implements QubeBackup: the digests of a raw file stand for the   *)
(* blocks of the user's file, the rows of the table for the blocks that    *)
(* are kept.  The mapping needs digests that do not collide.               *)
(***************************************************************************)
EXTENDS QubeIO

CONSTANT Lossless  \* which of the two promises of QubeBackup is meant

BlockOf(h) == IF h = Hole THEN Hole ELSE CHOOSE b \in Blocks : HashOf[b] = h

ImageBar == [f \in Files |-> [i \in DOMAIN slots[f] |-> BlockOf(slots[f][i])]]

KeptBar == {hashes[i].block : i \in DOMAIN hashes}

Call(op, at, data, done) ==
    [op |-> op, file |-> File, at |-> at, data |-> data, done |-> done]

CallBar ==
    CASE pc = "idle" -> [op |-> "none", file |-> {}, at |-> 0, data |-> <<>>, done |-> FALSE]
      [] pc = "read" -> Call("get", req.slot, <<>>, FALSE)
      [] pc = "reply" -> Call("put", 0, <<>>, TRUE)
      [] OTHER -> Call("put", WriteSlot(req.fd, req.slot), req.data, FALSE)

Backup == INSTANCE QubeBackup
    WITH up <- Alive, image <- ImageBar, kept <- KeptBar, call <- CallBar,
         out <- actual_contents

\* Every behaviour of the data path is one of the block store: writes land
\* where they were sent and refer to what is kept, reads serve what is there.
ImplementsBackup == Backup!Spec
=============================================================================

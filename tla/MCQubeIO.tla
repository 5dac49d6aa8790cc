------------------------------- MODULE MCQubeIO -------------------------------
(***************************************************************************)
(* Instances of the data path for TLC.  Blocks a and b are whole slices of *)
(* a buffer; p and q are what the short slice may be hashed as; a buffer   *)
(* that begins with cz begins with NUL.                                    *)
(***************************************************************************)
EXTENDS QubeIORefines, TLC

CONSTANTS a, b, p, q, ha, hb, hp, hq, ca, cb, ct, cz

DistinctHashes ==
    [x \in Blocks |->
        CASE x = a -> ha [] x = b -> hb [] x = p -> hp [] x = q -> hq]

CollidingHashes == [x \in Blocks |-> IF x \in {a, b} THEN ha ELSE hp]

BlocksOfChunk ==
    [x \in Chunks |->
        CASE x = ca -> {a} [] x = cb -> {b} [] x = ct -> {p, q} \cap Blocks [] x = cz -> {b}]

\* The files are interchangeable, and the descriptors are; the properties of a
\* run with it are about states and single steps.
Symmetry == Permutations(Files) \cup Permutations(Fds)
=============================================================================

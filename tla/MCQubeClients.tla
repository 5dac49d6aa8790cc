----------------------------- MODULE MCQubeClients -----------------------------
\* Symmetry of the instances of QubeClients: the mounts that do not read are
\* alike, and so are the blocks.
EXTENDS QubeClients, TLC

Symmetry == Permutations(Clients \ Readers) \cup Permutations(Blocks)
================================================================================

--------------------------- MODULE ScanManagerMC ---------------------------
(* Small instances of ScanManager for TLC.                                 *)
EXTENDS ScanManager, TLC

CONSTANTS a1, a2

\* Block 1 and the last block hold a transaction of every account, and a
\* block between them none.
MCRelevant == Address \X {1, MaxHeight}

\* Readers and calls are interchangeable.  Addresses too: Relevant and the
\* properties treat them alike.
Symmetry ==
    Permutations(Conn) \cup Permutations(Client) \cup Permutations(Address)
=============================================================================

---------------------------- MODULE AccountHeadMC ----------------------------
(***************************************************************************)
(* The instance of AccountHead for TLC.                                    *)
(***************************************************************************)
EXTENDS AccountHead, TLC

\* Every response with all its blocks, or without any.
MCResponse ==
    {m \in [from : Height, to : Height, blocks : SUBSET Height] :
        m.from <= m.to /\ m.blocks \in {m.from .. m.to, {}}}

\* Clients, and the scanner's tasks, are interchangeable.
Symmetry == Permutations(Call) \cup Permutations(Submission)
=============================================================================

--------------------------- MODULE AccountServerMC ---------------------------
(***************************************************************************)
(* The instance of AccountServer for TLC.                                  *)
(***************************************************************************)
EXTENDS AccountServer

\* What a scan may have found: blocks that fill one chunk of Limit = 2, two
\* chunks, or two chunks of which the second is not full.
MCResponse ==
    {[from |-> 1, to |-> 4, blocks |-> found] :
        found \in {{2, 3}, {1, 2, 4}, {1, 2, 3, 4}}}
=============================================================================

------------------------------ MODULE FramingMC ------------------------------
(***************************************************************************)
(* The instance of Framing for TLC.                                        *)
(***************************************************************************)
EXTENDS Framing

\* Frames of 3, 5 and 2 bytes with their newlines: while the second one is
\* looked through, the cursor comes to stand behind the end of the third.
MCEnd == [n \in 0 .. 3 |-> <<0, 3, 8, 10>>[n + 1]]
=============================================================================

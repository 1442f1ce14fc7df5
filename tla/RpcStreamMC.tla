---------------------------- MODULE RpcStreamMC ----------------------------
(***************************************************************************)
(* The instance of RpcStream for TLC.                                      *)
(***************************************************************************)
EXTENDS RpcStream

\* Items of 1, 3, 1 and 2 bytes, each with its form feed.
MCEnd == [n \in 0 .. 4 |-> <<0, 2, 6, 8, 11>>[n + 1]]
=============================================================================

---------------------------- MODULE WorkerPoolMC ----------------------------
(***************************************************************************)
(* Instances of WorkerPool for TLC.                                        *)
(***************************************************************************)
EXTENDS WorkerPool, TLC

CONSTANTS w1, w2, c1, c2, p1, p2

\* One connection for each worker.
OneEach == (c1 :> w1) @@ (c2 :> w2)
\* One worker that connects twice.
Alone == (c1 :> w1) @@ (c2 :> w1)

Symmetry == Permutations({p1, p2})
=============================================================================

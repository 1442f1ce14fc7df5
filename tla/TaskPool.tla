------------------------------ MODULE TaskPool ------------------------------
(***************************************************************************)
(* What the scanner expects of its workers, whatever connections, queues   *)
(* and locks are in between: a task that is handed over is answered at     *)
(* most once, in any order, or it is lost and never answered.              *)
(* ScanManager assumes this of its Dispatch, Receive and Lose steps.       *)
(***************************************************************************)
CONSTANT Task
VARIABLES pending, answered

Init == pending = {} /\ answered = {}

\* Only a task that was never handed over before.
HandOver(t) ==
    /\ t \notin pending \cup answered
    /\ pending' = pending \cup {t}
    /\ answered' = answered

Answer(t) ==
    /\ t \in pending
    /\ pending' = pending \ {t}
    /\ answered' = answered \cup {t}

Lose(ts) ==
    /\ ts # {} /\ ts \subseteq pending
    /\ pending' = pending \ ts
    /\ answered' = answered

Next ==
    \/ \E t \in Task : HandOver(t) \/ Answer(t)
    \/ \E ts \in SUBSET pending : Lose(ts)

Spec == Init /\ [][Next]_<<pending, answered>>
=============================================================================

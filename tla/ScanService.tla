---------------------------- MODULE ScanService ----------------------------
(***************************************************************************)
(* What the server expects of the scanner, whatever queues, rounds, tasks  *)
(* and workers are in between: a request is answered by a scan of its      *)
(* account, and every scan ends with one result that is submitted or given *)
(* up.  A request that meets another scan of the account may be left to    *)
(* it; two requests that meet nobody may still be two scans.               *)
(* AccountServer takes its scanner to be like this, and ScanManager        *)
(* implements it.                                                          *)
(***************************************************************************)
EXTENDS Integers

CONSTANT Address
VARIABLES
    owed,       \* scans that are asked for and have not ended, per account
    results     \* results that are being submitted, per account

Init ==
    /\ owed = [a \in Address |-> 0]
    /\ results = [a \in Address |-> 0]

\* A request is accepted.
Take(a) == owed' = [owed EXCEPT ![a] = @ + 1] /\ UNCHANGED results

\* It is left to another scan of the account.
Merge(a) == owed[a] > 1 /\ owed' = [owed EXCEPT ![a] = @ - 1] /\ UNCHANGED results

\* A scan ends with a result.
Finish(a) ==
    /\ owed[a] > 0
    /\ owed' = [owed EXCEPT ![a] = @ - 1]
    /\ results' = [results EXCEPT ![a] = @ + 1]

\* The result is submitted, or given up.
Settle(a) ==
    /\ results[a] > 0
    /\ results' = [results EXCEPT ![a] = @ - 1]
    /\ UNCHANGED owed

Next == \E a \in Address : Take(a) \/ Merge(a) \/ Finish(a) \/ Settle(a)

Spec == Init /\ [][Next]_<<owed, results>>
=============================================================================

----------------------------- MODULE AccountHead -----------------------------
(***************************************************************************)
(* AccountServer with the head that the node keeps of an account, the      *)
(* blocks in which the account's transactions were looked for, and the     *)
(* chain, which grows meanwhile.  The handlers read heights in one call    *)
(* and use them in a later one, and so does the scanner.  Every step is a  *)
(* step of AccountServer or leaves its variables alone.                    *)
(*                                                                         *)
(* An account is imported with height 1 as its birth.                      *)
(***************************************************************************)
EXTENDS AccountServer

CONSTANTS
    Lag,            \* 1000: an account that lags no further is left to the node
    Word            \* heights are unsigned, below Word

ASSUME HeadAssumption ==
    Lag \in Nat /\ Word \in Nat /\ 1 <= MaxHeight /\ MaxHeight < Word

VARIABLES
    chain,      \* height of the latest block
    head,       \* the node's head of each account
    seen,       \* blocks the node or the scanner has looked at for each account
    missed,     \* history: blocks below a head that a scan had passed over
    local,      \* heights in the local variables of each handler
    request,    \* the requests for the scans owed, each with its head, and
                \* whether that was fresh (history)
    fresh,      \* history: handlers whose head was read since the account was
                \* reset
    astray      \* history: accounts whose head was set by what was not fresh

headVars == <<chain, head, seen, missed, local, request, fresh, astray>>
allVars == <<vars, headVars>>

NoLocal == [latest |-> 0, head |-> 0]

HeadInit ==
    /\ Init
    /\ chain = 1
    /\ head = [a \in Address |-> 1] /\ seen = [a \in Address |-> {1}]
    /\ missed = [a \in Address |-> {}]
    /\ local = [h \in Handler |-> NoLocal]
    /\ request = [a \in Address |-> {}]
    /\ fresh = {} /\ astray = {}

\* Whether the step of h has been carried out at the node.
Outcome(h) == IF failures' = failures THEN {Exists(h)} ELSE {FALSE, Exists(h)}

\* The new locals, and what is fresh; both end with their handler.
Locals(new, read) ==
    LET over == {h \in Handler : handler'[h].todo = <<>>}
    IN  /\ local' = [h \in Handler |-> IF h \in over THEN NoLocal ELSE new[h]]
        /\ fresh' = read \ over

Of(a) == {h \in Handler : Account(h) = a}
Stale(requests) == {[r EXCEPT !.fresh = FALSE] : r \in requests}

----------------------------------------------------------------------------
(* The calls that read or set heights.                                     *)

\* The account starts again at its birth.  What others have read of it is
\* not fresh any more; and an import resets the account after it has read the
\* head, which the node may have moved.
ImportResets(h) == handler[h].todo = <<"reset", "submit">>
Restart(a, h) ==
    /\ head' = [head EXCEPT ![a] = 1] /\ seen' = [seen EXCEPT ![a] = {1}]
    /\ missed' = [missed EXCEPT ![a] = {}]
    /\ Locals(local, fresh \ (Of(a) \ IF ImportResets(h) THEN {} ELSE {h}))
    /\ request' = [request EXCEPT ![a] = Stale(@)]
    /\ astray' = astray \ {a}

Unmoved == Locals(local, fresh) /\ UNCHANGED <<head, seen, missed, request, astray>>

HeadImport(h) ==
    /\ ImportAccount(h)
    /\ IF Account(h) \in node'.accounts \ node.accounts THEN Restart(Account(h), h)
       ELSE Unmoved
    /\ UNCHANGED chain

HeadReset(h) ==
    /\ ResetAccount(h)
    /\ \E done \in Outcome(h) : IF done THEN Restart(Account(h), h) ELSE Unmoved
    /\ UNCHANGED chain

ReadLatest(h) ==
    /\ GetLatestBlock(h)
    /\ Locals([local EXCEPT ![h].latest = chain], fresh)
    /\ UNCHANGED <<chain, head, seen, missed, request, astray>>

\* u64, in a release build: below 0 is far above Lag.
IsFar(latest, h) == (latest - h) % Word > Lag

\* A rescan goes on in any case.
ReadHead(h) ==
    /\ GetAccountStatus(h)
    /\ LET a == Account(h)
           r == handler[h]
       IN  /\ Len(r.todo) > 1 /\ r.todo[2] = "pause" /\ failures' = failures /\ Exists(h)
                => (handler'[h].todo = Tail(r.todo)) = IsFar(local[h].latest, head[a])
           /\ Locals([local EXCEPT ![h].head = head[a]], fresh \cup {h})
    /\ UNCHANGED <<chain, head, seen, missed, request, astray>>

\* set_account_head: the node takes the blocks from start to end for known, and
\* end for the new head.  A scan that was overtaken (ScanManager) may have
\* counted a block that no answer has looked at: any that is not in the response.
\* Each call chooses them anew, also when a response is submitted again.
HeadSet(h) ==
    /\ SetAccountHead(h)
    /\ LET a == Account(h)
           r == HeadRequest(handler[h])
       IN  \E done \in Outcome(h) :
             IF done
               THEN /\ head' = [head EXCEPT ![a] = r.end]
                    /\ \E passed \in SUBSET (((r.start .. r.end) \ r.blocks) \ seen[a]) :
                          /\ seen' = [seen EXCEPT ![a] = @ \cup ((r.start .. r.end) \ passed)]
                          /\ missed' = [missed EXCEPT ![a] =
                                           (@ \ (r.start .. r.end)) \cup passed]
                    /\ astray' = IF h \in fresh \/ r.start = 1 THEN astray
                                 ELSE astray \cup {a}
               ELSE UNCHANGED <<head, seen, missed, astray>>
    /\ Locals(local, fresh)
    /\ UNCHANGED <<chain, request>>

\* The request is taken or skipped.
HeadSubmit(h) ==
    /\ SubmitScanRequest(h)
    /\ LET a == Account(h)
           new == [by |-> h, head |-> local[h].head, fresh |-> h \in fresh]
       IN  request' = IF scans' = scans THEN request
                      ELSE [request EXCEPT ![a] = @ \cup {new}]
    /\ Locals(local, fresh)
    /\ UNCHANGED <<chain, head, seen, missed, astray>>

\* A round ends at some height of the chain, REORG_DEPTH below its latest
\* block, and a head above it is cut.
HeadFinish(s, a, m) ==
    /\ m.to <= chain
    /\ FinishScan(s, a, m)
    /\ \E r \in request[a] :
          /\ m.from = IF r.head >= m.to THEN m.to ELSE r.head
          /\ request' = [request EXCEPT ![a] = @ \ {r}]
          /\ Locals(local, IF r.fresh THEN fresh \cup {s} ELSE fresh)
    /\ UNCHANGED <<chain, head, seen, missed, astray>>

HeadMerge(a) ==
    /\ MergeScans(a)
    /\ \E r \in request[a] : request' = [request EXCEPT ![a] = @ \ {r}]
    /\ UNCHANGED <<chain, head, seen, missed, local, fresh, astray>>

HeadSubmitAgain(s, other) ==
    /\ SubmitAgain(s, other)
    /\ Locals(local, IF s \in fresh THEN fresh \cup {other} ELSE fresh)
    /\ UNCHANGED <<chain, head, seen, missed, request, astray>>

----------------------------------------------------------------------------
(* The steps that do not.                                                  *)

HeadOther(h) ==
    /\ \/ Authorize(h) \/ Find(h) \/ Insert(h) \/ Delete(h) \/ Mark(h) \/ Unmark(h)
       \/ RemoveAccount(h) \/ PauseScanning(h) \/ ResumeScanning(h)
    /\ Unmoved
    /\ UNCHANGED chain

HeadReceive(c, a) == Receive(c, a) /\ UNCHANGED headVars

HeadServerCrash ==
    /\ ServerCrash
    /\ Unmoved
    /\ UNCHANGED chain

HeadScannerCrash ==
    /\ ScannerCrash
    /\ request' = [a \in Address |-> {}]
    /\ Locals(local, fresh)
    /\ UNCHANGED <<chain, head, seen, missed, astray>>

\* The node, as long as it scans the account, follows the chain.
NodeScans(a) ==
    /\ a \in node.scanning /\ head[a] < chain
    /\ head' = [head EXCEPT ![a] = @ + 1]
    /\ seen' = [seen EXCEPT ![a] = @ \cup {head[a] + 1}]
    /\ UNCHANGED <<vars, chain, missed, local, request, fresh, astray>>

Grow ==
    /\ chain < MaxHeight /\ chain' = chain + 1
    /\ UNCHANGED <<vars, head, seen, missed, local, request, fresh, astray>>

HeadStep(h) ==
    \/ HeadImport(h) \/ HeadReset(h) \/ ReadLatest(h) \/ ReadHead(h) \/ HeadSet(h)
    \/ HeadSubmit(h) \/ HeadOther(h)

HeadNext ==
    \/ \E c \in Call, a \in Address : HeadReceive(c, a)
    \/ \E h \in Handler : HeadStep(h)
    \/ \E s \in Submission, a \in Address, m \in Response : HeadFinish(s, a, m)
    \/ \E a \in Address : HeadMerge(a)
    \/ \E s, other \in Submission : HeadSubmitAgain(s, other)
    \/ \E a \in Address : NodeScans(a)
    \/ HeadServerCrash \/ HeadScannerCrash \/ Grow

HeadSpec == HeadInit /\ [][HeadNext]_allVars

----------------------------------------------------------------------------
(* Properties.                                                             *)

\* No height is above the chain; the scanner's requests have a head, which it
\* unwraps, also those of the handlers that are about to submit.
HeadTypeOK ==
    /\ chain \in Height
    /\ \A a \in Address : /\ head[a] \in seen[a] \cup missed[a]
                           /\ seen[a] \cup missed[a] \subseteq 1 .. chain
    /\ \A h \in Handler : {local[h].latest, local[h].head} \subseteq 0 .. chain
    /\ \A h \in Handler : At(h, "submit") => local[h].head # 0
    /\ \A a \in Address : /\ Cardinality(request[a]) = scans[a]
                           /\ \A r \in request[a] : r.head \in 1 .. chain
    /\ fresh \subseteq Handler /\ astray \subseteq Address

\* Nothing that the server, the node and the clients do leaves a block below an
\* account's head that was not looked at, so that its transactions are never
\* found: not rescans during a scan, resets between two chunks of a response,
\* failing calls and submissions that start again, crashes, or accounts that
\* are removed and imported.  Two exceptions: a block that the scan of the
\* response itself passed over, and the accounts whose head was set from what
\* was read before a reset.
HeadIsCovered ==
    \A a \in node.accounts \ astray : 1 .. head[a] \subseteq seen[a] \cup missed[a]
=============================================================================

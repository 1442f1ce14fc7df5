---------------------------- MODULE AccountServer ----------------------------
(***************************************************************************)
(* The account handlers of the server: importAccount, removeAccount,       *)
(* rescanAccount and updateScan.  A handler is a list of calls to the      *)
(* database, to the Ironfish node and to the scanner, which ends at the    *)
(* first one that fails; handlers of several clients interleave between    *)
(* the calls.  The node is external here.  The scanner is ScanService with *)
(* scans as what is owed, which ScanManager implements; how it scans is    *)
(* left out.                                                               *)
(*                                                                         *)
(* An account has the same name in the database and at the node.  The      *)
(* hash of a block is its height.  What is answered to a client is left    *)
(* out.                                                                    *)
(***************************************************************************)
EXTENDS Integers, FiniteSets, Sequences

CONSTANTS
    Address,
    Call,           \* requests of clients, each is made once
    Submission,     \* the scanner's tasks that submit a response
    MaxHeight,
    Response,       \* what the scanner may submit: [from, to, blocks]
    Limit,          \* SET_ACCOUNT_LIMIT
    MaxFailures,    \* bound on failing calls and crashes
    NoAddress

ASSUME ServerAssumption ==
    /\ Call \cap Submission = {}
    /\ MaxHeight \in Nat /\ Limit \in Nat \ {0} /\ MaxFailures \in Nat
    /\ Response \subseteq [from : 1 .. MaxHeight, to : 1 .. MaxHeight,
                          blocks : SUBSET (1 .. MaxHeight)]
    /\ \A m \in Response : m.from <= m.to /\ m.blocks \subseteq m.from .. m.to
    /\ NoAddress \notin Address

Height == 1 .. MaxHeight
Handler == Call \cup Submission

VARIABLES
    db,         \* wallet.account: the rows, and those with need_scan
    node,       \* the node's accounts, and those it scans by itself
    scans,      \* the number of scans of each account the scanner owes
    handler,    \* what each handler has left to do
    failures

vars == <<db, node, scans, handler, failures>>

----------------------------------------------------------------------------
(* The order of the calls in each handler.                                 *)

ImportNodeFirst ==                                  \* fault variant
    <<"find", "import", "insert", "latest", "status", "pause", "reset", "submit">>
ImportSubmitFirst ==                                \* fault variant
    <<"find", "insert", "import", "latest", "status", "submit", "pause", "reset">>
Import == <<"find", "insert", "import", "latest", "status", "pause", "reset",
            "submit">>

\* The routes of these two start with the authentication.
RemoveRowFirst ==                                   \* fault variant
    <<"auth", "find", "delete", "remove">>
Remove == <<"auth", "find", "remove", "delete">>

RescanMarkLast ==                                   \* fault variant
    <<"auth", "find", "pause", "reset", "status", "submit", "mark">>
RescanReadFirst ==                                  \* fault variant
    <<"auth", "find", "pause", "status", "reset", "mark", "submit">>
RescanBlind ==                                      \* fault variant
    <<"auth", "find", "pause", "reset", "mark", "submit">>
Rescan == <<"auth", "find", "pause", "reset", "mark", "status", "submit">>

UpdateHeadOnly == <<"find", "setHead", "unmark">>   \* fault variant
\* With scan_complete, which the scanner always sets.
Update == <<"find", "setHead", "resume", "unmark">>

NoMessage == [from |-> 0, to |-> 0, blocks |-> {}]
Free == [todo |-> <<>>, account |-> NoAddress, tries |-> 0, message |-> NoMessage,
         left |-> {}, start |-> 0, sent |-> <<>>]

\* Some accounts exist already, and the node scans them.
Init ==
    /\ \E known \in SUBSET Address :
          /\ db = [rows |-> known, needScan |-> {}]
          /\ node = [accounts |-> known, scanning |-> known]
    /\ scans = [a \in Address |-> 0]
    /\ handler = [h \in Handler |-> Free]
    /\ failures = 0

At(h, step) == handler[h].todo # <<>> /\ Head(handler[h].todo) = step
Account(h) == handler[h].account
IsImport(h) == At(h, "find") /\ handler[h].todo = Import

----------------------------------------------------------------------------
(* Outcomes of a call.                                                     *)

\* submit_scan_response is tried three times, each from the beginning.
MaxTries == 3
Submitted(a, message, tries) ==
    [Free EXCEPT !.todo = Update, !.account = a, !.tries = tries, !.message = message,
                 !.left = message.blocks, !.start = message.from]

Answered(r) == [Free EXCEPT !.account = r.account]

Failed(h) ==
    LET r == handler[h]
    IN  IF h \in Call THEN Answered(r)
        ELSE IF r.tries > 1 THEN Submitted(r.account, r.message, r.tries - 1)
        ELSE Free

Done(h) == IF h \in Call THEN Answered(handler[h]) ELSE Free

Proceed(h) ==
    LET r == handler[h]
    IN  handler' = [handler EXCEPT ![h] =
            IF Len(r.todo) = 1 THEN Done(h) ELSE [r EXCEPT !.todo = Tail(r.todo)]]

Fail(h) == handler' = [handler EXCEPT ![h] = Failed(h)]

\* A call is accepted or refused; or it fails, and then it may have been
\* carried out all the same.
NodeCall(h, accepted, new) ==
    /\ \/ accepted /\ node' = new /\ Proceed(h) /\ failures' = failures
       \/ ~ accepted /\ node' = node /\ Fail(h) /\ failures' = failures
       \/ /\ node' \in {node, IF accepted THEN new ELSE node}
          /\ failures < MaxFailures /\ failures' = failures + 1
          /\ Fail(h)
    /\ UNCHANGED <<db, scans>>

\* A handler that is dropped after 60 s ends at a call of the database too,
\* the only ones that are awaited.
DbCall(h, accepted, new) ==
    /\ \/ accepted /\ db' = new /\ Proceed(h) /\ failures' = failures
       \/ ~ accepted /\ db' = db /\ Fail(h) /\ failures' = failures
       \/ /\ db' \in {db, IF accepted THEN new ELSE db}
          /\ failures < MaxFailures /\ failures' = failures + 1
          /\ Fail(h)
    /\ UNCHANGED <<node, scans>>

----------------------------------------------------------------------------
(* The database.                                                           *)

HasRow(h) == Account(h) \in db.rows

\* auth: get_account, and the token is made of its view key.
Authorize(h) == At(h, "auth") /\ DbCall(h, HasRow(h), db)

\* get_account; save_account looks for the row as well, and wants none.
Find(h) == At(h, "find") /\ DbCall(h, HasRow(h) # IsImport(h), db)

\* INSERT: the address is the primary key.
Insert(h) ==
    /\ At(h, "insert")
    /\ DbCall(h, ~ HasRow(h), [db EXCEPT !.rows = @ \cup {Account(h)}])

RowOnly(a) == [db EXCEPT !.rows = @ \ {a}]    \* fault variant: need_scan stays
Without(a) == [rows |-> db.rows \ {a}, needScan |-> db.needScan \ {a}]

\* DELETE .. RETURNING fails without a row.
Delete(h) ==
    /\ At(h, "delete")
    /\ DbCall(h, HasRow(h), Without(Account(h)))

\* update_scan_status(address, true) and (address, false).
Mark(h) ==
    /\ At(h, "mark")
    /\ DbCall(h, HasRow(h), [db EXCEPT !.needScan = @ \cup {Account(h)}])

Unmark(h) ==
    /\ At(h, "unmark")
    /\ DbCall(h, HasRow(h), [db EXCEPT !.needScan = @ \ {Account(h)}])

----------------------------------------------------------------------------
(* The node.                                                               *)

Exists(h) == Account(h) \in node.accounts

\* A new account is scanned by the node.
ImportAccount(h) ==
    /\ At(h, "import")
    /\ NodeCall(h, ~ Exists(h),
                [accounts |-> node.accounts \cup {Account(h)},
                 scanning |-> node.scanning \cup {Account(h)}])

RemoveAccount(h) ==
    /\ At(h, "remove")
    /\ NodeCall(h, Exists(h),
                [accounts |-> node.accounts \ {Account(h)},
                 scanning |-> node.scanning \ {Account(h)}])

\* A failure is unwrapped, which ends the handler.
GetLatestBlock(h) == At(h, "latest") /\ NodeCall(h, TRUE, node)

\* An imported account that is at most 1000 blocks behind is left to the node.
GetAccountStatus(h) ==
    /\ At(h, "status")
    /\ \/ NodeCall(h, Exists(h), node)
       \/ /\ Exists(h) /\ Len(handler[h].todo) > 1
          /\ handler[h].todo[2] = "pause"
          /\ handler' = [handler EXCEPT ![h] = Done(h)]
          /\ UNCHANGED <<db, node, scans, failures>>

\* set_scanning(false), reset_account
PauseScanning(h) ==
    /\ At(h, "pause")
    /\ NodeCall(h, Exists(h), [node EXCEPT !.scanning = @ \ {Account(h)}])

ResetAccount(h) == At(h, "reset") /\ NodeCall(h, Exists(h), node)

\* set_scanning(true)
ResumeScanning(h) ==
    /\ At(h, "resume")
    /\ NodeCall(h, Exists(h), [node EXCEPT !.scanning = @ \cup {Account(h)}])

\* One round of the loop of update_scan_status: at most Limit blocks, the
\* lowest first.  A request that is not the last one ends at its last block,
\* and the next one starts at the block after it.
Lowest(S) == {x \in S : Cardinality({y \in S : y < x}) < Limit}
Highest(S) == CHOOSE x \in S : \A y \in S : y <= x

StartAtLast(b) == b                 \* fault variant: the last block once more
StartAfter(b) == b + 1

HeadRequest(r) ==
    LET blocks == Lowest(r.left)
        rest == r.left \ blocks
    IN  [start |-> r.start, blocks |-> blocks,
         end |-> IF rest # {} THEN Highest(blocks) ELSE r.message.to]

SetAccountHead(h) ==
    /\ At(h, "setHead")
    /\ LET r == handler[h]
           request == HeadRequest(r)
           rest == r.left \ request.blocks
       IN  \/ /\ Exists(h)
              /\ handler' = [handler EXCEPT ![h] =
                    IF rest # {}
                      THEN [r EXCEPT !.left = rest, !.sent = Append(@, request),
                                     !.start = StartAfter(Highest(request.blocks))]
                      ELSE [r EXCEPT !.left = {}, !.sent = Append(@, request),
                                   !.todo = Tail(@)]]
              /\ UNCHANGED failures
           \/ ~ Exists(h) /\ Fail(h) /\ UNCHANGED failures
           \/ /\ failures < MaxFailures /\ failures' = failures + 1
              /\ Fail(h)
    /\ UNCHANGED <<db, node, scans>>

----------------------------------------------------------------------------
(* The scanner.                                                            *)

Taken(a) == [scans EXCEPT ![a] = @ + 1]
Settled(a) == [scans EXCEPT ![a] = @ - 1]

\* submit_scan_request: the scanner takes the request, or it skips it because
\* it has a scan of the account.
SubmitScanRequest(h) ==
    /\ At(h, "submit")
    /\ \/ /\ scans' = Taken(Account(h))
          /\ Proceed(h) /\ failures' = failures
       \/ /\ scans[Account(h)] > 0 /\ scans' = scans
          /\ Proceed(h) /\ failures' = failures
       \/ /\ scans' \in {scans, Taken(Account(h))}
          /\ failures < MaxFailures /\ failures' = failures + 1
          /\ Fail(h)
    /\ UNCHANGED <<db, node>>

\* Of two requests that both met no scan the scanner may drop one later.
MergeScans(a) ==
    /\ scans[a] > 1
    /\ scans' = Settled(a)
    /\ UNCHANGED <<db, node, handler, failures>>

\* submit_scan_response, after the last block of a scan.
FinishScan(s, a, message) ==
    /\ handler[s] = Free
    /\ scans[a] > 0
    /\ scans' = Settled(a)
    /\ handler' = [handler EXCEPT ![s] = Submitted(a, message, MaxTries)]
    /\ UNCHANGED <<db, node, failures>>

\* After 60 s without an answer the scanner submits again, to another handler;
\* the one it gave up does not see it and goes on.
SubmitAgain(s, other) ==
    /\ handler[s].todo # <<>> /\ handler[s].tries > 1 /\ handler[other] = Free
    /\ failures < MaxFailures /\ failures' = failures + 1
    /\ handler' = [handler EXCEPT ![s].tries = 1, ![other] =
            Submitted(Account(s), handler[s].message, handler[s].tries - 1)]
    /\ UNCHANGED <<db, node, scans>>

\* A restarted scanner has no requests and does not try again.
ScannerCrash ==
    /\ failures < MaxFailures /\ failures' = failures + 1
    /\ scans' = [a \in Address |-> 0]
    /\ handler' = [h \in Handler |->
            IF h \in Submission /\ handler[h] # Free
              THEN [handler[h] EXCEPT !.tries = 1] ELSE handler[h]]
    /\ UNCHANGED <<db, node>>

----------------------------------------------------------------------------
(* The server.                                                             *)

\* A client sends a request.
Receive(c, a) ==
    /\ handler[c] = Free
    /\ \E todo \in {Import, Remove, Rescan} :
          handler' = [handler EXCEPT ![c] = [Free EXCEPT !.todo = todo, !.account = a]]
    /\ UNCHANGED <<db, node, scans, failures>>

\* A crash ends every handler.
ServerCrash ==
    /\ failures < MaxFailures /\ failures' = failures + 1
    /\ handler' = [h \in Handler |->
                     IF handler[h].todo # <<>> THEN Failed(h) ELSE handler[h]]
    /\ UNCHANGED <<db, node, scans>>

Step(h) ==
    \/ Authorize(h) \/ Find(h) \/ Insert(h) \/ Delete(h) \/ Mark(h) \/ Unmark(h)
    \/ ImportAccount(h) \/ RemoveAccount(h) \/ GetLatestBlock(h)
    \/ GetAccountStatus(h) \/ PauseScanning(h) \/ ResetAccount(h)
    \/ ResumeScanning(h) \/ SetAccountHead(h) \/ SubmitScanRequest(h)

Next ==
    \/ \E c \in Call : \E a \in Address : Receive(c, a)
    \/ \E h \in Handler : Step(h)
    \/ \E s \in Submission : \E a \in Address : \E m \in Response : FinishScan(s, a, m)
    \/ \E a \in Address : MergeScans(a)
    \/ \E s, other \in Submission : SubmitAgain(s, other)
    \/ ServerCrash \/ ScannerCrash

Spec == Init /\ [][Next]_vars

\* Handlers go on, and the scanner finishes its scans.
Fairness ==
    /\ \A h \in Handler : WF_vars(Step(h))
    /\ \A a \in Address :
          WF_vars(\E s \in Submission, m \in Response : FinishScan(s, a, m))

FairSpec == Spec /\ Fairness

----------------------------------------------------------------------------
(* Properties.                                                             *)

\* The node scans no account it does not have, need_scan is a column of an
\* existing row, and a submission is not tried more than MaxTries times.
TypeOK ==
    /\ db.needScan \subseteq db.rows /\ db.rows \subseteq Address
    /\ node.scanning \subseteq node.accounts /\ node.accounts \subseteq Address
    /\ scans \in [Address -> Nat]
    /\ failures \in 0 .. MaxFailures
    /\ \A h \in Handler :
         /\ Account(h) \in Address \cup {NoAddress}
         /\ handler[h].tries \in 0 .. MaxTries
         /\ handler[h].left \subseteq Height

Quiet(a) == \A h \in Handler : Account(h) = a => handler[h].todo = <<>>

\* The node has no account that the server does not know: whatever fails or
\* crashes between the steps of an import and a removal, and however many of
\* them run at once, an account can still be removed by its owner.
NodeImpliesRow == node.accounts \subseteq db.rows

\* "account-exists .. Should never happen" (rpc_handler/mod.rs 22-23): when an
\* import has inserted its row, the node does not have the account, whoever
\* else imports or removes it at the same time and whatever has failed.
ImportIsNew == \A h \in Handler : At(h, "import") => ~ Exists(h)

\* Without failures the database and the node agree about every account that
\* no handler is working on.
QuietMeansEqual ==
    failures = 0 =>
        \A a \in Address : Quiet(a) => (a \in db.rows <=> a \in node.accounts)

\* The requests for one response cover it from its first block to its last,
\* without a gap or an overlap, and carry every block once.
HeadsMeet ==
    \A s \in Submission :
        LET sent == handler[s].sent
        IN  sent # <<>> =>
              /\ sent[1].start = handler[s].message.from
              /\ \A i \in 1 .. Len(sent) - 1 : sent[i + 1].start = sent[i].end + 1
              /\ \A i \in DOMAIN sent :
                    /\ sent[i].blocks \subseteq (sent[i].start .. sent[i].end)
                    /\ Cardinality(sent[i].blocks) <= Limit
              /\ ~ At(s, "setHead") =>
                    /\ sent[Len(sent)].end = handler[s].message.to
                    /\ UNION {sent[i].blocks : i \in DOMAIN sent}
                          = handler[s].message.blocks

\* Unless a call fails, an account that the node was told not to scan is
\* scanned by the node again, or removed: a scan that ends between the steps
\* of a rescan does not leave the account without either.
ScanningResumes ==
    \A a \in Address :
        a \in node.accounts \ node.scanning
            ~> (a \notin node.accounts \ node.scanning \/ failures > 0)

\* A rescan makes up for what was lost: when no more calls fail, an account that
\* a failed handler, a dropped response or a restart of the scanner has left
\* unscanned is scanned again after its owner asks for a rescan.
RescanRecovers ==
    \A c \in Call : \A a \in Address :
        handler[c].todo = Rescan /\ Account(c) = a /\ failures = MaxFailures
            ~> a \notin node.accounts \ node.scanning \/ a \notin db.rows

\* Unless a call fails, need_scan is taken back.
NeedScanSettles ==
    \A a \in Address : a \in db.needScan ~> (a \notin db.needScan \/ failures > 0)
=============================================================================

---------------------------- MODULE ScanManager ----------------------------
(***************************************************************************)
(* The scan coordinator of crates/scanner: POST /scanAccount requests wait *)
(* in accounts_to_scan; the primary task turns them into one task per      *)
(* block and account; workers answer in any order; update_account counts   *)
(* the answers of an account and submits the scan when none is missing;    *)
(* the secondary task reissues the tasks that are 600 s old.               *)
(*                                                                         *)
(* A worker pool that may answer a request late, answer in any order, or   *)
(* never answer stands for the connections and the task queue (manager.rs  *)
(* 228-330, modelled in WorkerPool).  Time is abstracted: any task that is *)
(* in task_mapping may be found to be 600 s old.                           *)
(***************************************************************************)
EXTENDS Integers, FiniteSets, Sequences, BlocksRange

CONSTANTS
    Address,        \* the public addresses of the accounts
    MaxHeight,      \* heights are 1 .. MaxHeight
    Relevant,       \* <<a, h>>: block h holds a transaction of a
    Conn,           \* worker connections, one reader task each
    Client,         \* slots for concurrent POST /scanAccount calls
    Batch,          \* N::PRIMARY_BATCH
    MaxSubmits,     \* attempts to submit a finished scan, 3 in the code
    RescheduleLimit, \* tasks reissued in one round, 20000 in the code
    Word,           \* remaining_task is an unsigned integer modulo Word
    RpcMayFail,     \* may a call to the node or the local block store fail, or
                    \* return fewer blocks than it was asked for?
    SubmitMayFail,  \* may a submission to the account server fail?
    MaxRequests,    \* bound: POST /scanAccount calls
    MaxLate,        \* bound: tasks found expired before they are answered
    MaxLosses,      \* bound: requests that no worker ever answers
    NoTask          \* what an idle connection works on

Height == 1 .. MaxHeight

ASSUME ScanAssumption ==
    /\ MaxHeight \in Nat \ {0}
    /\ Relevant \subseteq Address \X Height
    /\ Batch \in Nat \ {0}
    /\ MaxSubmits \in Nat \ {0}
    /\ RescheduleLimit \in Nat \ {0}
    /\ Word \in Nat /\ Word > MaxHeight
    /\ RpcMayFail \in BOOLEAN
    /\ SubmitMayFail \in BOOLEAN

----------------------------------------------------------------------------
(* Types.                                                                  *)

ScanRequest == [address : Address, head : Height]

\* A DRequest and its TaskInfo.  The uuid of DRequest::from_transactions is
\* the nonce: the n-th task made for this address and block.
Task == [address : Address, sequence : Height, nonce : Nat \ {0}]

ASSUME NoTaskAssumption == NoTask \notin Task

AccountInfo == [start : Height, end : Height,
                remaining : 0 .. Word - 1, blocks : SUBSET Height]

\* No entry for the address in account_mappling.
NoAccount == [start |-> 1, end |-> 0, remaining |-> 0, blocks |-> {}]

\* RpcSetAccountHeadRequest with scan_complete: true; NoMessage before the
\* account is cloned.
Message == [start : Height, end : Height, blocks : SUBSET Height]
NoMessage == [start |-> 0, end |-> 0, blocks |-> {}]

\* The reader task of a connection inside update_account.
Reader == [pc : {"idle", "update", "clone", "remove", "submit", "forget"},
           task : Task \cup {NoTask},
           msg : Message \cup {NoMessage},
           tries : Nat]

\* The two scheduling tasks with their local variables: accounts_should_scan,
\* scan_start, scan_end and the next group; keys_to_reschedule, the task just
\* removed and tasks_to_resechedule.
PrimaryTask == [pc : {"sleep", "tip", "pop", "fetch", "dead"},
                accounts : SUBSET Address,
                start : 1 .. MaxHeight + 1, end : Height, next : Nat \ {0}]
SecondaryTask == [pc : {"sleep", "take", "lookup", "reschedule"},
                  keys : SUBSET Task, removed : SUBSET Task,
                  list : SUBSET Task]

\* A call of scheduling_tasks: accounts not visited yet, the blocks of the
\* call, the <<account, block>> pairs still to issue, the task being sent.
Job == [accounts : SUBSET Address, blocks : SUBSET Nat,
        todo : SUBSET (Address \X Height), sending : SUBSET Task]

Scheduler == {"primary", "secondary"}

VARIABLES
    rest,       \* calls of account_scanner_handler between check and push
    toScan,     \* accounts_to_scan
    account,    \* account_mappling
    taskMap,    \* task_mapping
    issued,     \* uuids drawn so far, per address and block
    sent,       \* requests in the task queue, in a channel or at a worker
    handler,    \* the reader task of each connection
    primary,    \* the primary scheduling task
    secondary,  \* the secondary scheduling task
    job,        \* the scheduling_tasks call of each of the two
    requests, late, losses,        \* counters for the bounds
    counted, overtaken, dropped    \* history, read by the properties only:
                \* the blocks counted for each account, the accounts with a task
                \* taken after it was counted, the blocks given up

history == <<counted, overtaken, dropped>>
bounds == <<requests, late, losses>>
vars == <<rest, toScan, account, taskMap, issued, sent, handler, primary,
          secondary, job, bounds, history>>

----------------------------------------------------------------------------
(* The state read by the actions.                                          *)

Scanning(a) == account[a] # NoAccount

\* The heights from start to end are scheduled, both included.
ScanRangePastEnd(a) == account[a].start .. account[a].end + 1 \* fault variant
ScanRange(a) == account[a].start .. account[a].end

Queued(a) == \E i \in 1 .. Len(toScan) : toScan[i].address = a

\* should_skip_request: one read of each map, the second only if the first finds
\* nothing.  Taken as one step: a call that passes both reads although the account
\* was taken up between them pushes what an earlier call that was slow to push may.
ShouldSkip(a) == Queued(a) \/ Scanning(a)

\* A request for an account that already has a scan is dropped when popped.
DuplicateUnseen(req) == FALSE       \* fault variant: no such test
Duplicate(req) == Scanning(req.address)

\* A head at or above the end of the round is moved down to it.
HeadUnchecked(head, end) == head    \* fault variant: taken as it comes
StartOf(head, end) == IF head >= end THEN end ELSE head

\* AccountInfo::new; both ends of the range are scanned.
NewAccountExclusive(head, end) ==   \* fault variant: one block too few
    [start |-> head, end |-> end,
     remaining |-> end - head, blocks |-> {}]
NewAccount(head, end) ==
    [start |-> head, end |-> end,
     remaining |-> end - head + 1, blocks |-> {}]

\* An answer is counted if its account is in the map and its task is still
\* registered.
CountsAny(t) == Scanning(t.address) \* fault variant: registered or not
Counts(t) == Scanning(t.address) /\ t \in taskMap

\* The scan is finished by the answer that leaves no task remaining.
FinishesEarly(left) == left <= 1        \* fault variant: off by one
FinishesLate(left) == left = Word - 1   \* fault variant: tested, then counted
Finishes(left) == left = 0

\* scheduling_tasks has work left.
Busy(p) == job[p].accounts # {} \/ job[p].todo # {} \/ job[p].sending # {}

IdleJob == [accounts |-> {}, blocks |-> {}, todo |-> {}, sending |-> {}]

\* The requests a connection has taken up: those answered, and among them
\* those whose answer update_account has dealt with up to its last line.
Answered == {handler[c].task : c \in Conn} \ {NoTask}
Handled == {handler[c].task : c \in {d \in Conn :
                handler[d].pc \in {"clone", "remove", "submit", "forget"}}}

\* Tasks whose request some party still works on.
Outstanding == sent \cup Answered \cup job["primary"].sending
                    \cup job["secondary"].sending

Init ==
    /\ rest = [k \in Client |-> {}]
    /\ toScan = <<>>
    /\ account = [a \in Address |-> NoAccount]
    /\ taskMap = {}
    /\ issued = [a \in Address |-> [h \in Height |-> 0]]
    /\ sent = {}
    /\ handler = [c \in Conn |-> [pc |-> "idle", task |-> NoTask,
                                  msg |-> NoMessage, tries |-> 0]]
    /\ primary = [pc |-> "sleep", accounts |-> {}, start |-> MaxHeight + 1,
                  end |-> MaxHeight, next |-> MaxHeight + 1]
    /\ secondary = [pc |-> "sleep", keys |-> {}, removed |-> {}, list |-> {}]
    /\ job = [p \in Scheduler |-> IdleJob]
    /\ requests = 0 /\ late = 0 /\ losses = 0
    /\ counted = [a \in Address |-> {}]
    /\ overtaken = {}
    /\ dropped = {}

----------------------------------------------------------------------------
(* account_scanner_handler: the check and the push take their locks one    *)
(* after the other.  Both outcomes answer success: true.                   *)

ScanAccount(k, req) ==
    /\ rest[k] = {}
    /\ requests < MaxRequests
    /\ requests' = requests + 1
    /\ rest' = IF ShouldSkip(req.address)
                 THEN rest ELSE [rest EXCEPT ![k] = {req}]
    /\ UNCHANGED <<toScan, account, taskMap, issued, sent, handler, primary,
                   secondary, job, late, losses, history>>

PushAccount(k) ==
    /\ \E req \in rest[k] : toScan' = Append(toScan, req)
    /\ rest' = [rest EXCEPT ![k] = {}]
    /\ UNCHANGED <<account, taskMap, issued, sent, handler, primary,
                   secondary, job, bounds, history>>

----------------------------------------------------------------------------
(* The primary task.                                                       *)

PrimaryWake ==
    /\ primary.pc = "sleep"
    /\ toScan # <<>>
    /\ \A a \in Address : ~ Scanning(a)
    /\ primary' = [primary EXCEPT !.pc = "tip"]
    /\ UNCHANGED <<rest, toScan, account, taskMap, issued, sent, handler,
                   secondary, job, bounds, history>>

\* The block REORG_DEPTH below the node's tip ends every scan of the round;
\* a failed call panics in unwrap and ends the task.
PrimaryTip ==
    /\ primary.pc = "tip"
    /\ \/ \E tip \in Height :
            primary' = [pc |-> "pop", accounts |-> {},
                        start |-> MaxHeight + 1, end |-> tip,
                        next |-> MaxHeight + 1]
       \/ RpcMayFail /\ primary' = [primary EXCEPT !.pc = "dead"]
    /\ UNCHANGED <<rest, toScan, account, taskMap, issued, sent, handler,
                   secondary, job, bounds, history>>

\* One turn of the pop loop.  The write lock on accounts_to_scan is held for
\* the whole turn, and only this task inserts into account_mappling.
PrimaryPop ==
    /\ primary.pc = "pop"
    /\ toScan # <<>>
    /\ LET req  == toScan[Len(toScan)]
           head == StartOf(req.head, primary.end)
       IN  /\ toScan' = SubSeq(toScan, 1, Len(toScan) - 1)
           /\ IF Duplicate(req)
                THEN UNCHANGED <<account, primary, counted>>
                ELSE /\ account' = [account EXCEPT ![req.address] =
                                        NewAccount(head, primary.end)]
                     /\ counted' = [counted EXCEPT ![req.address] = {}]
                     /\ primary' = [primary EXCEPT
                            !.accounts = @ \cup {req.address},
                            !.start = IF head < @ THEN head ELSE @]
    /\ UNCHANGED <<rest, taskMap, issued, sent, handler, secondary, job,
                   bounds, overtaken, dropped>>

PrimaryPopDone ==
    /\ primary.pc = "pop"
    /\ toScan = <<>>
    /\ primary' = IF primary.accounts = {}
                    THEN [primary EXCEPT !.pc = "sleep"]
                    ELSE [primary EXCEPT !.pc = "fetch", !.next = primary.start]
    /\ UNCHANGED <<rest, toScan, account, taskMap, issued, sent, handler,
                   secondary, job, bounds, history>>

\* The next group of blocks, from the local store or from the node.  The store
\* refuses a range with a gap (BlockStore), but what the node returns is taken as
\* it comes: a block that is left out never gets a task, and the scans that need
\* it never end.
Returned(group) == IF RpcMayFail THEN SUBSET Heights(group) ELSE {Heights(group)}

PrimaryFetch ==
    /\ primary.pc = "fetch"
    /\ ~ Busy("primary")
    /\ primary.next < primary.end + 1
    /\ LET group == Group(primary.next, primary.end + 1, Batch)
       IN  \/ /\ \E blocks \in Returned(group) :
                    /\ job' = [job EXCEPT !["primary"] =
                                 [accounts |-> primary.accounts, blocks |-> blocks,
                                  todo |-> {}, sending |-> {}]]
                    /\ dropped' = dropped \cup
                          {w \in primary.accounts \X (Heights(group) \ blocks) :
                               w[2] \in ScanRange(w[1])}
              /\ primary' = [primary EXCEPT !.next = @ + Batch]
           \/ /\ RpcMayFail
              /\ primary' = [primary EXCEPT !.pc = "dead"]
              /\ UNCHANGED <<job, dropped>>
    /\ UNCHANGED <<rest, toScan, account, taskMap, issued, sent, handler,
                   secondary, bounds, counted, overtaken>>

PrimaryDone ==
    /\ primary.pc = "fetch"
    /\ ~ Busy("primary")
    /\ primary.next >= primary.end + 1
    /\ primary' = [primary EXCEPT !.pc = "sleep"]
    /\ UNCHANGED <<rest, toScan, account, taskMap, issued, sent, handler,
                   secondary, job, bounds, history>>

----------------------------------------------------------------------------
(* scheduling_tasks, called by both tasks.                                 *)

\* The account is looked up once for all the blocks of the call; those out
\* of its range are skipped, and all of them if it is gone.
ScheduleAccount(p) ==
    /\ job[p].todo = {} /\ job[p].sending = {}
    /\ \E a \in job[p].accounts :
         job' = [job EXCEPT
                   ![p].accounts = @ \ {a},
                   ![p].todo = IF Scanning(a)
                                 THEN {a} \X (job[p].blocks \cap ScanRange(a))
                                 ELSE {}]
    /\ UNCHANGED <<rest, toScan, account, taskMap, issued, sent, handler,
                   primary, secondary, bounds, history>>

\* The task is entered in task_mapping before its request is sent.
CreateTask(p) ==
    /\ job[p].sending = {}
    /\ \E w \in job[p].todo :
         /\ \A v \in job[p].todo : w[2] <= v[2]
         /\ LET t == [address |-> w[1], sequence |-> w[2],
                      nonce |-> issued[w[1]][w[2]] + 1]
            IN  /\ issued' = [issued EXCEPT ![w[1]][w[2]] = @ + 1]
                /\ taskMap' = taskMap \cup {t}
                /\ job' = [job EXCEPT ![p].todo = @ \ {w},
                                      ![p].sending = {t}]
    /\ UNCHANGED <<rest, toScan, account, sent, handler, primary, secondary,
                   bounds, history>>

\* To an idle worker, or into task_queue.
Dispatch(p) ==
    /\ job[p].sending # {}
    /\ sent' = sent \cup job[p].sending
    /\ job' = [job EXCEPT ![p].sending = {}]
    /\ UNCHANGED <<rest, toScan, account, taskMap, issued, handler, primary,
                   secondary, bounds, history>>

----------------------------------------------------------------------------
(* Workers: a response for any request, or none ever.                      *)

Receive(c, t) ==
    /\ handler[c].pc = "idle"
    /\ t \in sent
    /\ sent' = sent \ {t}
    /\ handler' = [handler EXCEPT ![c] = [pc |-> "update", task |-> t,
                                          msg |-> NoMessage, tries |-> 0]]
    /\ UNCHANGED <<rest, toScan, account, taskMap, issued, primary,
                   secondary, job, bounds, history>>

Lose(t) ==
    /\ t \in sent
    /\ losses < MaxLosses
    /\ losses' = losses + 1
    /\ sent' = sent \ {t}
    /\ UNCHANGED <<rest, toScan, account, taskMap, issued, handler, primary,
                   secondary, job, requests, late, history>>

----------------------------------------------------------------------------
(* update_account.                                                         *)

\* decrypt, at the worker: has the answer a transaction of the account?
Decrypted(t) == <<t.address, t.sequence>> \in Relevant

\* The match on account_mappling, its write lock held throughout.
UpdateAccount(c) ==
    /\ handler[c].pc = "update"
    /\ LET t == handler[c].task
           a == t.address
           h == t.sequence
           left == (account[a].remaining - 1) % Word
       IN  IF Counts(t)
             THEN /\ account' = [account EXCEPT
                        ![a].blocks = IF Decrypted(t)
                                        THEN @ \cup {h} ELSE @,
                        ![a].remaining = left]
                  /\ counted' = [counted EXCEPT ![a] = @ \cup {h}]
                  /\ handler' = [handler EXCEPT ![c].pc =
                                    IF Finishes(left) THEN "clone" ELSE "forget"]
             ELSE /\ handler' = [handler EXCEPT ![c].pc = "forget"]
                  /\ UNCHANGED <<account, counted>>
    /\ UNCHANGED <<rest, toScan, taskMap, issued, sent, primary, secondary,
                   job, bounds, overtaken, dropped>>

\* get(&address).unwrap().clone() and the signed message.
CloneAccount(c) ==
    /\ handler[c].pc = "clone"
    /\ LET a == handler[c].task.address
       IN  /\ Scanning(a)
           /\ handler' = [handler EXCEPT ![c].pc = "remove",
                    ![c].msg = [start |-> account[a].start,
                                end |-> account[a].end,
                                blocks |-> account[a].blocks]]
    /\ UNCHANGED <<rest, toScan, account, taskMap, issued, sent, primary,
                   secondary, job, bounds, history>>

RemoveAccount(c) ==
    /\ handler[c].pc = "remove"
    /\ account' = [account EXCEPT ![handler[c].task.address] = NoAccount]
    /\ handler' = [handler EXCEPT ![c].pc = "submit"]
    /\ UNCHANGED <<rest, toScan, taskMap, issued, sent, primary, secondary,
                   job, bounds, history>>

\* submit_scan_response: the scan is given up after MaxSubmits failures.
Submit(c) ==
    /\ handler[c].pc = "submit"
    /\ \/ handler' = [handler EXCEPT ![c].pc = "forget"]
       \/ /\ SubmitMayFail
          /\ handler' = [handler EXCEPT ![c].tries = @ + 1,
                ![c].pc = IF handler[c].tries + 1 = MaxSubmits
                            THEN "forget" ELSE "submit"]
    /\ UNCHANGED <<rest, toScan, account, taskMap, issued, sent, primary,
                   secondary, job, bounds, history>>

\* task_mapping.remove(&task_id), only now that all the rest is done.
ForgetTask(c) ==
    /\ handler[c].pc = "forget"
    /\ taskMap' = taskMap \ {handler[c].task}
    /\ handler' = [handler EXCEPT ![c] = [pc |-> "idle", task |-> NoTask,
                                          msg |-> NoMessage, tries |-> 0]]
    /\ UNCHANGED <<rest, toScan, account, issued, sent, primary, secondary,
                   job, bounds, history>>

----------------------------------------------------------------------------
(* The secondary task.                                                     *)

\* The keys of the tasks that are 600 s old are collected first.
SecondaryWake(keys) ==
    /\ secondary.pc = "sleep"
    /\ keys # {} /\ keys \subseteq taskMap
    /\ LET early == Cardinality(keys \cap Outstanding)
       IN  /\ late + early <= MaxLate
           /\ late' = late + early
    /\ secondary' = [secondary EXCEPT !.pc = "take", !.keys = keys]
    /\ UNCHANGED <<rest, toScan, account, taskMap, issued, sent, handler,
                   primary, job, requests, losses, history>>

SecondaryTake ==
    /\ secondary.pc = "take"
    /\ \E t \in secondary.keys :
         /\ taskMap' = taskMap \ {t}
         /\ secondary' = [secondary EXCEPT
                !.keys = @ \ {t},
                !.pc = IF t \in taskMap THEN "lookup" ELSE "take",
                !.removed = @ \cup ({t} \cap taskMap)]
         /\ overtaken' = IF t \in taskMap \cap Handled
                           THEN overtaken \cup {t.address} ELSE overtaken
    /\ UNCHANGED <<rest, toScan, account, issued, sent, handler, primary,
                   job, bounds, counted, dropped>>

\* The removed task is put on the list of those to reissue, or it is not.
Listed(t) == [secondary EXCEPT !.pc = "take", !.removed = @ \ {t},
                               !.list = @ \cup {t}]
Unlisted(t) == [secondary EXCEPT !.pc = "take", !.removed = @ \ {t}]

\* With a long enough list the rest of the keys is left for the next round.
ListIsFull(t) == Cardinality(secondary.list \cup {t}) >= RescheduleLimit

\* The account and the block of the removed task.  Without its account it is
\* dropped; if the node does not return the block it is dropped as well.
SecondaryLookup ==
    /\ secondary.pc = "lookup"
    /\ \E t \in secondary.removed :
         \/ /\ Scanning(t.address)
            /\ secondary' = IF ListIsFull(t) THEN [Listed(t) EXCEPT !.keys = {}]
                                             ELSE Listed(t)
            /\ dropped' = dropped
         \/ /\ Scanning(t.address) /\ RpcMayFail
            /\ secondary' = Unlisted(t)
            /\ dropped' = dropped \cup {<<t.address, t.sequence>>}
         \/ /\ ~ Scanning(t.address)
            /\ secondary' = Unlisted(t)
            /\ dropped' = dropped
    /\ UNCHANGED <<rest, toScan, account, taskMap, issued, sent, handler,
                   primary, job, bounds, counted, overtaken>>

SecondaryTaken ==
    /\ secondary.pc = "take"
    /\ secondary.keys = {}
    /\ secondary' = [secondary EXCEPT !.pc = "reschedule"]
    /\ UNCHANGED <<rest, toScan, account, taskMap, issued, sent, handler,
                   primary, job, bounds, history>>

\* One scheduling_tasks call for each block to reissue.
SecondarySchedule ==
    /\ secondary.pc = "reschedule"
    /\ ~ Busy("secondary")
    /\ \E t \in secondary.list :
         /\ job' = [job EXCEPT !["secondary"] =
                        [accounts |-> {t.address}, blocks |-> {t.sequence},
                         todo |-> {}, sending |-> {}]]
         /\ secondary' = [secondary EXCEPT !.list = @ \ {t}]
    /\ UNCHANGED <<rest, toScan, account, taskMap, issued, sent, handler,
                   primary, bounds, history>>

SecondaryDone ==
    /\ secondary.pc = "reschedule"
    /\ ~ Busy("secondary")
    /\ secondary.list = {}
    /\ secondary' = [secondary EXCEPT !.pc = "sleep"]
    /\ UNCHANGED <<rest, toScan, account, taskMap, issued, sent, handler,
                   primary, job, bounds, history>>

----------------------------------------------------------------------------

PrimaryStep ==
    \/ PrimaryTip \/ PrimaryPop \/ PrimaryPopDone \/ PrimaryFetch
    \/ PrimaryDone

SecondaryStep ==
    \/ SecondaryTake \/ SecondaryLookup \/ SecondaryTaken
    \/ SecondarySchedule \/ SecondaryDone

ScheduleStep(p) == ScheduleAccount(p) \/ CreateTask(p) \/ Dispatch(p)

ReaderStep(c) ==
    \/ UpdateAccount(c) \/ CloneAccount(c) \/ RemoveAccount(c)
    \/ Submit(c) \/ ForgetTask(c)

Next ==
    \/ \E k \in Client : \E req \in ScanRequest : ScanAccount(k, req)
    \/ \E k \in Client : PushAccount(k)
    \/ PrimaryWake
    \/ PrimaryStep
    \/ \E p \in Scheduler : ScheduleStep(p)
    \/ \E c \in Conn : \E t \in sent : Receive(c, t)
    \/ \E t \in sent : Lose(t)
    \/ \E c \in Conn : ReaderStep(c)
    \/ \E keys \in SUBSET taskMap : SecondaryWake(keys)
    \/ SecondaryStep

Spec == Init /\ [][Next]_vars

\* Every task of the program keeps running; a worker that has a request
\* answers it unless it is lost; a task nobody works on any more gets old.
Fairness ==
    /\ \A k \in Client : WF_vars(PushAccount(k))
    /\ WF_vars(PrimaryWake) /\ WF_vars(PrimaryStep)
    /\ \A p \in Scheduler : WF_vars(ScheduleStep(p))
    /\ \A c \in Conn : WF_vars(ReaderStep(c))
    /\ WF_vars(\E c \in Conn : \E t \in sent : Receive(c, t))
    /\ WF_vars(\E keys \in SUBSET (taskMap \ Outstanding) : SecondaryWake(keys))
    /\ WF_vars(SecondaryStep)

FairSpec == Spec /\ Fairness

----------------------------------------------------------------------------
(* Properties.                                                             *)

\* Every variable of the coordinator holds a value of its type; the counter
\* remaining_task stays an unsigned integer modulo Word whatever is counted.
TypeOK ==
    /\ rest \in [Client -> SUBSET ScanRequest]
    /\ toScan \in Seq(ScanRequest)
    /\ account \in [Address -> AccountInfo \cup {NoAccount}]
    /\ taskMap \subseteq Task /\ IsFiniteSet(taskMap)
    /\ issued \in [Address -> [Height -> Nat]]
    /\ sent \subseteq Task
    /\ handler \in [Conn -> Reader]
    /\ \A c \in Conn : handler[c].pc # "idle" => handler[c].task \in Task
    /\ primary \in PrimaryTask
    /\ secondary \in SecondaryTask
    /\ job \in [Scheduler -> Job]
    /\ requests \in Nat /\ late \in Nat /\ losses \in Nat
    /\ counted \in [Address -> SUBSET Height]
    /\ overtaken \subseteq Address
    /\ dropped \subseteq Address \X Height

\* The two facts BlockConservation rests on: a uuid is never drawn twice, so
\* a new task is not one that is already answered; and the accounts of the
\* primary task's round all end at the block of that round.
FreshIssue ==
    \A t \in Outstanding : t.nonce <= issued[t.address][t.sequence]
RoundEnd ==
    primary.pc \in {"pop", "fetch"} =>
        \A a \in primary.accounts : Scanning(a) => account[a].end = primary.end

\* The primary task has not reached block h of account a yet.
PrimaryWillIssue(a, h) ==
    \/ /\ a \in primary.accounts
       /\ \/ primary.pc = "pop" /\ primary.start <= h
          \/ primary.pc \in {"fetch", "dead"} /\ primary.next <= h
    \/ a \in job["primary"].accounts /\ h \in job["primary"].blocks
    \/ <<a, h>> \in job["primary"].todo

\* The secondary task has taken block h of account a out of task_mapping and
\* has not entered a new task for it yet.
SecondaryWillIssue(a, h) ==
    \/ \E t \in secondary.removed \cup secondary.list :
            t.address = a /\ t.sequence = h
    \/ a \in job["secondary"].accounts /\ h \in job["secondary"].blocks
    \/ <<a, h>> \in job["secondary"].todo

\* A task in task_mapping whose answer has not been dealt with: either it is
\* answered and counted, or it gets old and is reissued.
LiveTask(a, h) ==
    \E t \in taskMap \ Handled : t.address = a /\ t.sequence = h

Covered(a, h) ==
    \/ h \in counted[a]
    \/ LiveTask(a, h)
    \/ PrimaryWillIssue(a, h)
    \/ SecondaryWillIssue(a, h)
    \/ <<a, h>> \in dropped

\* No block of a scan is forgotten: at every moment each block in the range
\* of a scanning account is counted, or has a live task, or will be issued
\* by one of the two schedulers, or was given up: left out of the answer of
\* get_blocks (lib.rs 206-216), or not returned by get_block when it was to be
\* reissued (lib.rs 267).
BlockConservation ==
    \A a \in Address : Scanning(a) => \A h \in ScanRange(a) : Covered(a, h)

\* remaining_task is the number of blocks of the range not counted yet, and so
\* never wraps below zero, as long as no task was taken for reissue after its
\* answer was counted.
RemainingIsUncounted ==
    \A a \in Address \ overtaken : Scanning(a) =>
        account[a].remaining = Cardinality(ScanRange(a) \ counted[a])

\* The message of handler c covers its whole range: it lists every block that
\* holds a transaction of the account, and no other.
Complete(c) ==
    LET msg == handler[c].msg
        a == handler[c].task.address
    IN  msg.blocks = {h \in msg.start .. msg.end : <<a, h>> \in Relevant}

Finished == {c \in Conn : handler[c].pc \in {"remove", "submit"}}

\* What is submitted as scan_complete is complete, unless the secondary task
\* took a task of the account that had been counted but not yet removed from
\* task_mapping: this is the only way to lose a block, whatever is late,
\* lost or reissued.
CompleteUnlessOvertaken ==
    \A c \in Finished : handler[c].task.address \notin overtaken => Complete(c)

\* What a finished scan leaves out, and how much at most: no more blocks than
\* there were tasks found 600 s old while their request or its answer was still
\* on the way.  Lost requests, failing calls and repeated rounds lose nothing.
Missing(c) ==
    LET msg == handler[c].msg
        a == handler[c].task.address
    IN  {h \in msg.start .. msg.end : <<a, h>> \in Relevant} \ msg.blocks

MissesAtMostLate == \A c \in Finished : Cardinality(Missing(c)) <= late

\* The log line of manager.rs 398, "Scanning for account {} completed", and
\* scan_complete: true (378), without that exception.
ScanCompleteMeansComplete == \A c \in Finished : Complete(c)

\* One reader task at a time finishes an account, and the account stays in
\* the map until that task removes it: the unwrap of manager.rs 372 holds.
OneFinisher ==
    \A c \in Conn : handler[c].pc \in {"clone", "remove"} =>
        /\ Scanning(handler[c].task.address)
        /\ \A d \in Conn \ {c} : handler[d].pc \in {"clone", "remove"} =>
                handler[d].task.address # handler[c].task.address

\* While a scan is in the map its range does not change and the blocks found
\* and counted for it only grow: a second request for the account, queued or
\* in flight, never restarts or truncates a scan in progress.
ScanOnlyGrows ==
    [][\A a \in Address : Scanning(a) /\ Scanning(a)' =>
          /\ account'[a].start = account[a].start
          /\ account'[a].end = account[a].end
          /\ account[a].blocks \subseteq account'[a].blocks
          /\ counted[a] \subseteq counted'[a]]_vars

\* The scans that are asked for: by a handler that has passed the check, in
\* accounts_to_scan and in account_mappling.
Owed(a) ==
    Cardinality({k \in Client : \E req \in rest[k] : req.address = a})
        + Cardinality({i \in DOMAIN toScan : toScan[i].address = a})
        + (IF Scanning(a) THEN 1 ELSE 0)

Results(a) ==
    Cardinality({c \in Conn : /\ handler[c].pc = "submit"
                              /\ handler[c].task.address = a})

Service == INSTANCE ScanService
    WITH owed <- [a \in Address |-> Owed(a)],
         results <- [a \in Address |-> Results(a)]

\* No request is dropped unless the account has another scan, and every scan
\* ends with one result: none is submitted twice, by two answers that both find
\* themselves the last or by one that ends the scan of a later request.
IsScanService == Service!Spec

\* The two ways in which the coordinator stops for good: the primary task has
\* panicked on a failed call, or a block was given up by one of the two tasks
\* because the node did not return it.
Stuck == primary.pc = "dead" \/ dropped # {}

\* A queued request is turned into a scan, although the scans of an earlier
\* round must all leave account_mappling first; only a failed call to the
\* node or the block store, or a short answer of one, can prevent it.
QueuedIsScanned == \A a \in Address : Queued(a) ~> (Scanning(a) \/ Stuck)

\* A scan ends with a submission for its account, although requests are lost
\* and tasks get old and are reissued; only a failed call to the node or the
\* block store, or a short answer of one, can prevent it.
ScanIsSubmitted ==
    \A a \in Address : Scanning(a) ~>
        \/ \E c \in Conn : /\ handler[c].pc = "submit"
                           /\ handler[c].task.address = a
        \/ Stuck
=============================================================================

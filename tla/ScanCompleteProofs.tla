--------------------------- MODULE ScanCompleteProofs ---------------------------
(***************************************************************************)
(* A scan that is submitted as complete is complete, unless the secondary  *)
(* task took one of its tasks after the answer was counted.                *)
(*                                                                         *)
(* What is counted and what is left over are related by the sources of a   *)
(* block: the places in which it is on its way to being counted, in front  *)
(* of the primary task, in a call of scheduling_tasks, as a live task or   *)
(* in the lists of the secondary task.  A block of a scan that is not      *)
(* overtaken has at most one source, and none any more once it is counted; *)
(* a step moves a block from one source to the next.                       *)
(*                                                                         *)
(* Of every scan, overtaken or not: one reader finishes it, it misses no   *)
(* more blocks than there were tasks found expired too early, and the      *)
(* coordinator is the service that the server expects.  These count the    *)
(* claims on remaining_task.                                               *)
(***************************************************************************)
EXTENDS ScanManagerProofs

----------------------------------------------------------------------------
(* A scan in the map only grows.                                           *)

\* Counting an answer adds to what is found and counted; the other steps of a
\* reader leave it alone, or end the scan.
LEMMA ReaderGrows ==
    ASSUME TypeOK, NEW c \in Conn, ReaderStep(c), NEW a \in Address, Scanning(a)'
    PROVE  /\ account[a].blocks \subseteq account'[a].blocks
           /\ counted[a] \subseteq counted'[a]
  <1>0. /\ account \in [Address -> AccountInfo \cup {NoAccount}]
        /\ counted \in [Address -> SUBSET Height]
        /\ handler[c].pc # "idle" => handler[c].task \in Task
    BY DEF TypeOK
  <1>1. CASE UpdateAccount(c)
    <2> DEFINE t == handler[c].task
               left == (account[t.address].remaining - 1) % Word
    <2>1. t.address \in Address
      BY <1>0, <1>1 DEF UpdateAccount, Task
    <2>2. CASE ~ Counts(t)
      BY <1>1, <2>2 DEF UpdateAccount
    <2>3. CASE Counts(t)
      <3>1. PICK n : account' = [account EXCEPT
                        ![t.address].blocks = IF Decrypted(t)
                                        THEN @ \cup {t.sequence} ELSE @,
                        ![t.address].remaining = n]
        BY <1>1, <2>3 DEF UpdateAccount
      <3>2. counted' = [counted EXCEPT ![t.address] = @ \cup {t.sequence}]
        BY <1>1, <2>3 DEF UpdateAccount
      <3>3. account[t.address] \in AccountInfo
        BY <1>0, <2>1, <2>3 DEF Counts, Scanning
      <3> QED
        BY <1>0, <2>1, <3>1, <3>2, <3>3 DEF AccountInfo
    <2> QED
      BY <2>2, <2>3
  <1>2. CASE RemoveAccount(c)
    BY <1>0, <1>2 DEF RemoveAccount, Scanning, history
  <1>3. CASE CloneAccount(c) \/ Submit(c) \/ ForgetTask(c)
    BY <1>3 DEF CloneAccount, Submit, ForgetTask, history
  <1> QED
    BY <1>1, <1>2, <1>3 DEF ReaderStep

\* The steps that neither answer nor pop.
LEMMA OthersLeaveScans ==
    ASSUME [Next]_vars
    PROVE  \/ UNCHANGED <<account, counted>>
           \/ PrimaryPop
           \/ \E c \in Conn : ReaderStep(c)
  BY DEF Next, vars, history, ScanAccount, PushAccount, PrimaryWake,
         PrimaryStep, PrimaryTip, PrimaryPopDone, PrimaryFetch, PrimaryDone,
         ScheduleStep, ScheduleAccount, CreateTask, Dispatch, Receive, Lose,
         SecondaryWake, SecondaryStep, SecondaryTake, SecondaryLookup,
         SecondaryTaken, SecondarySchedule, SecondaryDone

\* While a scan is in the map its range stays and what is found and counted
\* for it only grows: no other request for the account touches it.
THEOREM ScansOnlyGrow == Spec => ScanOnlyGrows
  <1> DEFINE Grows == \A a \in Address : Scanning(a) /\ Scanning(a)' =>
          /\ account'[a].start = account[a].start
          /\ account'[a].end = account[a].end
          /\ account[a].blocks \subseteq account'[a].blocks
          /\ counted[a] \subseteq counted'[a]
  <1>1. TypeOK /\ [Next]_vars => [Grows]_vars
    <2> SUFFICES ASSUME TypeOK, [Next]_vars PROVE Grows
      OBVIOUS
    <2>1. CASE UNCHANGED <<account, counted>>
      BY <2>1
    <2>2. CASE PrimaryPop
      BY <2>2, PopAdds
    <2>3. CASE \E c \in Conn : ReaderStep(c)
      BY <2>3, ReaderMovesNoScan, ReaderGrows
    <2> QED
      BY <2>1, <2>2, <2>3, OthersLeaveScans
  <1> QED
    BY <1>1, TypeCorrect, PTL DEF Spec, ScanOnlyGrows

----------------------------------------------------------------------------
(* The invariant.                                                          *)

\* Block h of account a is still before the primary task: in a round that is
\* being put together, or in a group that is not fetched yet.
Ahead(a, h) ==
    /\ a \in primary.accounts
    /\ primary.pc = "pop" \/ (primary.pc = "fetch" /\ primary.next <= h)

Names(t, a, h) == t.address = a /\ t.sequence = h

\* What block h of account a can still be counted from: k says in which of
\* the stages of its way to an answer it is, and x which task or scheduler
\* has it there.
Source(k, x, a, h) ==
    \/ k = "live" /\ x \in taskMap \ Handled /\ Names(x, a, h)
    \/ k = "removed" /\ x \in secondary.removed /\ Names(x, a, h)
    \/ k = "listed" /\ x \in secondary.list /\ Names(x, a, h)
    \/ /\ k = "call" /\ x \in Scheduler
       /\ a \in job[x].accounts /\ h \in job[x].blocks
    \/ k = "todo" /\ x \in Scheduler /\ <<a, h>> \in job[x].todo
    \/ k = "ahead" /\ x = "primary" /\ Ahead(a, h)

\* It has at most one source, and none once it is counted.
Sole(a, h) ==
    /\ \A k, x, l, y :
           Source(k, x, a, h) /\ Source(l, y, a, h) => k = l /\ x = y
    /\ h \in counted[a] => \A k, x : ~ Source(k, x, a, h)

SoleSources ==
    \A a \in Address \ overtaken : Scanning(a) =>
        \A h \in ScanRange(a) : Sole(a, h)

\* Tasks, and what is certain to become a task, are of a scan in the map.
Owned ==
    \A a \in Address \ overtaken, h \in Height : \A k, x :
        /\ Source(k, x, a, h)
        /\ k \in {"live", "removed", "listed", "todo"}
             \/ (k = "call" /\ x = "secondary")
        => Scanning(a) /\ h \in ScanRange(a)

\* The primary task calls scheduling_tasks between two groups only.
Round == job["primary"].accounts # {} => primary.pc = "fetch"

Tally ==
    \A a \in Address : Scanning(a) =>
        /\ account[a].start <= account[a].end
        /\ account[a].blocks = {h \in counted[a] : <<a, h>> \in Relevant}
        /\ a \notin overtaken => counted[a] \subseteq ScanRange(a)

\* The readers that finish an account.
Finishing(c) == handler[c].pc \in {"clone", "remove"}

Finishers ==
    \A c \in Conn :
        Finishing(c) /\ handler[c].task.address \notin overtaken =>
            /\ Scanning(handler[c].task.address)
            /\ ScanRange(handler[c].task.address)
                   \subseteq counted[handler[c].task.address]
            /\ \A d \in Conn : Finishing(d) /\ handler[d].task.address
                                  = handler[c].task.address => d = c

\* A request is in one place: at a scheduler, under way, or at one reader.
Holders ==
    /\ \A c, d \in Conn :
           handler[c].task = handler[d].task /\ handler[c].task # NoTask => c = d
    /\ sent \cap Answered = {}
    /\ \A p \in Scheduler : job[p].sending \cap (sent \cup Answered) = {}
    /\ job["primary"].sending \cap job["secondary"].sending = {}

\* The sources that only a scan in the map can have: all but the ones by which
\* the primary task reaches blocks that may lie before the scan's start.
OfScan(k, x) ==
    \/ k \in {"live", "removed", "listed", "todo"}
    \/ k = "call" /\ x = "secondary"

SInv ==
    /\ SoleSources /\ Owned /\ Round /\ Tally /\ RemainingIsUncounted
    /\ Finishers /\ Holders /\ CompleteUnlessOvertaken

----------------------------------------------------------------------------
(* Sources.                                                                *)

\* Block h of account a keeps its sources, or loses some.
Keeps(a, h) == \A k, x : Source(k, x, a, h)' => Source(k, x, a, h)

\* It goes from one source to another.
Moves(k0, x0, k1, x1, a, h) ==
    /\ Source(k0, x0, a, h)
    /\ \A k, x : Source(k, x, a, h)' =>
           \/ Source(k, x, a, h) /\ ~ (k = k0 /\ x = x0)
           \/ k = k1 /\ x = x1
    /\ OfScan(k1, x1) =>
           OfScan(k0, x0) \/ (Scanning(a) /\ h \in ScanRange(a))

\* Moving from a source to another leaves one.
LEMMA MovedIsSole ==
    ASSUME NEW a, NEW h, NEW k0, NEW x0, NEW k1, NEW x1,
           Sole(a, h), Moves(k0, x0, k1, x1, a, h), UNCHANGED counted
    PROVE  Sole(a, h)'
  <1>1. \A k, x : Source(k, x, a, h) => k = k0 /\ x = x0
    BY DEF Sole, Moves
  <1>2. \A k, x : Source(k, x, a, h)' => k = k1 /\ x = x1
    BY <1>1 DEF Moves
  <1>3. h \notin counted[a]
    BY DEF Sole, Moves
  <1> QED
    BY <1>2, <1>3 DEF Sole

LEMMA KeptIsSole ==
    ASSUME NEW a, NEW h, Sole(a, h), Keeps(a, h), counted'[a] = counted[a]
    PROVE  Sole(a, h)'
  BY DEF Sole, Keeps

\* A step that leaves the scans alone, and keeps or moves each block.
LEMMA SourcesKept ==
    ASSUME SoleSources, Owned, TypeOK, UNCHANGED <<account, counted>>,
           overtaken \subseteq overtaken',
           \A a \in Address \ overtaken' : \A h \in Height :
               \/ Keeps(a, h)
               \/ \E k0, x0, k1, x1 : Moves(k0, x0, k1, x1, a, h)
    PROVE  SoleSources' /\ Owned'
  <1>1. \A a \in Address : Scanning(a)' = Scanning(a) /\ ScanRange(a)' = ScanRange(a)
    BY DEF Scanning, ScanRange
  <1>2. ASSUME NEW a \in Address \ overtaken', Scanning(a), NEW h \in ScanRange(a)
        PROVE  Sole(a, h)'
    <2>1. Sole(a, h)
      BY <1>2 DEF SoleSources
    <2>2. h \in Height
      BY <1>2, ScanRangeType
    <2> QED
      BY <2>1, <2>2, MovedIsSole, KeptIsSole
  <1>3. ASSUME NEW a \in Address \ overtaken', NEW h \in Height, NEW k, NEW x,
               Source(k, x, a, h)', OfScan(k, x)
        PROVE  Scanning(a) /\ h \in ScanRange(a)
    <2>1. \A l, y : Source(l, y, a, h) /\ OfScan(l, y)
                        => Scanning(a) /\ h \in ScanRange(a)
      BY DEF Owned, OfScan
    <2>2. CASE Keeps(a, h)
      BY <1>3, <2>1, <2>2 DEF Keeps
    <2>3. ASSUME NEW k0, NEW x0, NEW k1, NEW x1, Moves(k0, x0, k1, x1, a, h)
          PROVE  Scanning(a) /\ h \in ScanRange(a)
      <3>1. Source(k, x, a, h) \/ (k = k1 /\ x = x1)
        BY <1>3, <2>3 DEF Moves
      <3>2. Source(k0, x0, a, h)
        BY <2>3 DEF Moves
      <3>3. OfScan(k1, x1) => OfScan(k0, x0) \/ (Scanning(a) /\ h \in ScanRange(a))
        BY <2>3 DEF Moves
      <3> QED
        BY <1>3, <2>1, <3>1, <3>2, <3>3
    <2> QED
      BY <2>2, <2>3
  <1>4. SoleSources'
    BY <1>1, <1>2 DEF SoleSources
  <1>5. Owned'
    BY <1>1, <1>3 DEF Owned, OfScan
  <1> QED
    BY <1>4, <1>5

\* The parts of the state that sources are read from.
LEMMA SourcesAre ==
    ASSUME UNCHANGED <<taskMap, handler>>,
           secondary'.removed = secondary.removed,
           secondary'.list = secondary.list,
           \A p \in Scheduler : /\ job'[p].accounts = job[p].accounts
                                /\ job'[p].blocks = job[p].blocks
                                /\ job'[p].todo = job[p].todo,
           NEW a, NEW h, Ahead(a, h)' => Ahead(a, h)
    PROVE  Keeps(a, h)
  BY DEF Keeps, Source, Handled

\* What a reader has dealt with stays so until its task is forgotten.
LEMMA HandledGrows ==
    ASSUME \A c \in Conn : Late(handler[c]) =>
               Late(handler'[c]) /\ handler'[c].task = handler[c].task
    PROVE  Handled \subseteq Handled'
  BY DEF Handled, Late

\* A step of a worker or a reader takes live tasks away at most.
LEMMA LiveKept ==
    ASSUME (taskMap \ Handled)' \subseteq taskMap \ Handled,
           UNCHANGED <<primary, secondary>>,
           \A p \in Scheduler : /\ job'[p].accounts = job[p].accounts
                                /\ job'[p].blocks = job[p].blocks
                                /\ job'[p].todo = job[p].todo,
           NEW a, NEW h
    PROVE  Keeps(a, h)
  BY DEF Keeps, Source, Ahead

LEMMA ReaderKeeps ==
    ASSUME TypeOK, NEW c \in Conn, ReaderStep(c), NEW a, NEW h
    PROVE  Keeps(a, h)
  <1>0. handler \in [Conn -> Reader]
    BY DEF TypeOK
  <1>1. UNCHANGED <<primary, secondary, job>>
    BY DEF ReaderStep, UpdateAccount, CloneAccount, RemoveAccount, Submit,
           ForgetTask
  <1>2. CASE ForgetTask(c)
    <2>1. \A d \in Conn : handler[d].pc \in {"clone", "remove", "submit", "forget"} =>
              handler[d].task = handler[c].task \/ handler'[d] = handler[d]
      BY <1>0, <1>2 DEF ForgetTask
    <2>2. Handled \subseteq Handled' \cup {handler[c].task}
      BY <2>1 DEF Handled
    <2>3. taskMap' = taskMap \ {handler[c].task}
      BY <1>2 DEF ForgetTask
    <2> QED
      BY <1>1, <2>2, <2>3, LiveKept
  <1>3. CASE UpdateAccount(c) \/ CloneAccount(c) \/ RemoveAccount(c) \/ Submit(c)
    <2>1. \A d \in Conn : Late(handler[d]) =>
              Late(handler'[d]) /\ handler'[d].task = handler[d].task
      <3>1. CASE UpdateAccount(c)
        BY <1>0, <3>1 DEF UpdateAccount, Late, Reader
      <3>2. CASE CloneAccount(c)
        BY <1>0, <3>2 DEF CloneAccount, Late, Reader
      <3>3. CASE RemoveAccount(c)
        BY <1>0, <3>3 DEF RemoveAccount, Late, Reader
      <3>4. CASE Submit(c)
        BY <1>0, <3>4 DEF Submit, Late, Reader
      <3> QED
        BY <1>3, <3>1, <3>2, <3>3, <3>4
    <2>2. taskMap' = taskMap
      BY <1>3 DEF UpdateAccount, CloneAccount, RemoveAccount, Submit
    <2> QED
      BY <1>1, <2>1, <2>2, HandledGrows, LiveKept
  <1> QED
    BY <1>2, <1>3 DEF ReaderStep

LEMMA OvertakenGrows ==
    ASSUME [Next]_vars
    PROVE  overtaken \subseteq overtaken'
  <1>1. CASE SecondaryTake
    BY <1>1 DEF SecondaryTake
  <1>2. CASE ~ SecondaryTake
    BY <1>2
    DEF Next, vars, history, ScanAccount, PushAccount, PrimaryWake,
        PrimaryStep, PrimaryTip, PrimaryPop, PrimaryPopDone, PrimaryFetch,
        PrimaryDone, ScheduleStep, ScheduleAccount, CreateTask, Dispatch,
        Receive, Lose, ReaderStep, UpdateAccount, CloneAccount, RemoveAccount,
        Submit, ForgetTask, SecondaryWake, SecondaryStep, SecondaryLookup,
        SecondaryTaken, SecondarySchedule, SecondaryDone
  <1> QED
    BY <1>1, <1>2

\* Requests, workers and the steps of the two tasks that only change their pc.
LEMMA RestSources ==
    ASSUME SInv, TypeOK,
           UNCHANGED <<account, counted, overtaken, taskMap, handler, job>>,
           secondary'.removed = secondary.removed,
           secondary'.list = secondary.list,
           \A a, h : Ahead(a, h)' => Ahead(a, h)
    PROVE  SoleSources' /\ Owned'
  <1>1. \A a, h : Keeps(a, h)
    BY SourcesAre
  <1> QED
    BY <1>1, SourcesKept DEF SInv

LEMMA ReceiveSources ==
    ASSUME SInv, TypeOK, NEW c \in Conn, NEW t \in sent, Receive(c, t)
    PROVE  SoleSources' /\ Owned'
  <1>1. handler \in [Conn -> Reader]
    BY DEF TypeOK
  <1>2. Handled \subseteq Handled'
    BY <1>1, HandledGrows DEF Receive, Late
  <1>3. UNCHANGED <<account, counted, overtaken, taskMap, primary, secondary, job>>
    BY DEF Receive, history
  <1>4. \A a, h : Keeps(a, h)
    BY <1>2, <1>3, LiveKept
  <1> QED
    BY <1>3, <1>4, SourcesKept DEF SInv

\* scheduling_tasks: a block of its call becomes a pair to issue, a pair a task.
LEMMA ScheduleSources ==
    ASSUME SInv, TypeOK, NEW p \in Scheduler, ScheduleStep(p)
    PROVE  SoleSources' /\ Owned'
  <1>0. job \in [Scheduler -> Job] /\ job[p] \in Job
    BY DEF TypeOK
  <1>1. UNCHANGED <<account, handler, primary, secondary, counted, overtaken>>
    BY DEF ScheduleStep, ScheduleAccount, CreateTask, Dispatch, history
  <1>2. \A a, h : Ahead(a, h)' = Ahead(a, h)
    BY <1>1 DEF Ahead
  <1>3. Handled' = Handled
    BY <1>1 DEF Handled
  <1>4. SUFFICES ASSUME NEW a \in Address, NEW h \in Height
                 PROVE  \/ Keeps(a, h)
                        \/ \E k0, x0, k1, x1 : Moves(k0, x0, k1, x1, a, h)
    BY <1>1, SourcesKept DEF SInv
  <1>5. CASE ScheduleAccount(p)
    <2>1. PICK b \in job[p].accounts :
            job' = [job EXCEPT
                      ![p].accounts = @ \ {b},
                      ![p].todo = IF Scanning(b)
                                    THEN {b} \X (job[p].blocks \cap ScanRange(b))
                                    ELSE {}]
      BY <1>5 DEF ScheduleAccount
    <2>2. job[p].todo = {} /\ taskMap' = taskMap
      BY <1>5 DEF ScheduleAccount
    <2>3. /\ job'[p].accounts = job[p].accounts \ {b}
          /\ job'[p].blocks = job[p].blocks
          /\ \/ job'[p].todo = {}
             \/ /\ Scanning(b)
                /\ job'[p].todo = {b} \X (job[p].blocks \cap ScanRange(b))
          /\ \A q \in Scheduler \ {p} : job'[q] = job[q]
      BY <1>0, <2>1 DEF Job
    <2>4. CASE <<a, h>> \notin job'[p].todo
      <3>1. Keeps(a, h)
        BY <1>1, <1>2, <1>3, <2>2, <2>3, <2>4 DEF Keeps, Source
      <3> QED
        BY <3>1
    <2>5. CASE <<a, h>> \in job'[p].todo
      <3>1. a = b /\ h \in job[p].blocks /\ Scanning(a) /\ h \in ScanRange(a)
        BY <2>3, <2>5
      <3>2. Source("call", p, a, h)
        BY <2>1, <3>1 DEF Source
      <3>3. \A k, x : Source(k, x, a, h)' =>
               \/ Source(k, x, a, h) /\ ~ (k = "call" /\ x = p)
               \/ k = "todo" /\ x = p
        BY <1>1, <1>2, <1>3, <2>2, <2>3, <3>1 DEF Source
      <3>4. Moves("call", p, "todo", p, a, h)
        BY <3>1, <3>2, <3>3 DEF Moves
      <3> QED
        BY <3>4
    <2> QED
      BY <2>4, <2>5
  <1>6. CASE CreateTask(p)
    <2> DEFINE T(w) == [address |-> w[1], sequence |-> w[2],
                        nonce |-> issued[w[1]][w[2]] + 1]
    <2>1. PICK w \in job[p].todo :
            /\ taskMap' = taskMap \cup {T(w)}
            /\ job' = [job EXCEPT ![p].todo = @ \ {w}, ![p].sending = {T(w)}]
      BY <1>6 DEF CreateTask
    <2>2. w \in Address \X Height
      BY <1>0, <2>1 DEF Job
    <2>3. PICK t : t = T(w)
      OBVIOUS
    <2>4. /\ taskMap' = taskMap \cup {t}
          /\ t.address = w[1] /\ t.sequence = w[2]
      BY <2>1, <2>3
    <2>5. /\ job'[p].accounts = job[p].accounts
          /\ job'[p].blocks = job[p].blocks
          /\ job'[p].todo = job[p].todo \ {w}
          /\ \A q \in Scheduler \ {p} : job'[q] = job[q]
      BY <1>0, <2>1 DEF Job
    <2> HIDE DEF T
    <2>6. CASE w # <<a, h>>
      <3>1. ~ Names(t, a, h)
        BY <2>2, <2>4, <2>6 DEF Names
      <3>2. Keeps(a, h)
        BY <1>1, <1>2, <1>3, <2>4, <2>5, <3>1 DEF Keeps, Source
      <3> QED
        BY <3>2
    <2>7. CASE w = <<a, h>>
      <3>1. Source("todo", p, a, h)
        BY <2>1, <2>7 DEF Source
      <3>2. \A k, x : Source(k, x, a, h)' =>
               \/ Source(k, x, a, h) /\ ~ (k = "todo" /\ x = p)
               \/ k = "live" /\ x = t
        BY <1>1, <1>2, <1>3, <2>4, <2>5, <2>7 DEF Source
      <3>3. Moves("todo", p, "live", t, a, h)
        BY <3>1, <3>2 DEF Moves, OfScan
      <3> QED
        BY <3>3
    <2> QED
      BY <2>6, <2>7
  <1>7. CASE Dispatch(p)
    <2>1. \A q \in Scheduler : /\ job'[q].accounts = job[q].accounts
                               /\ job'[q].blocks = job[q].blocks
                               /\ job'[q].todo = job[q].todo
      BY <1>0, <1>7 DEF Dispatch, Job
    <2>2. taskMap' = taskMap
      BY <1>7 DEF Dispatch
    <2>3. Keeps(a, h)
      BY <1>1, <1>2, <2>1, <2>2, SourcesAre
    <2> QED
      BY <2>3
  <1> QED
    BY <1>5, <1>6, <1>7 DEF ScheduleStep

\* The secondary task carries the block of a live task it takes through its
\* lists to a call of its own, unless it takes a task dealt with already.
LEMMA SecondarySources ==
    ASSUME SInv, TypeOK,
           \/ \E keys \in SUBSET taskMap : SecondaryWake(keys)
           \/ SecondaryStep
    PROVE  SoleSources' /\ Owned'
  <1>0. secondary \in SecondaryTask /\ job \in [Scheduler -> Job]
    BY DEF TypeOK
  <1>1. UNCHANGED <<account, handler, primary, counted>>
    BY DEF SecondaryWake, SecondaryStep, SecondaryTake, SecondaryLookup,
           SecondaryTaken, SecondarySchedule, SecondaryDone, history
  <1>2. Handled' = Handled /\ \A a, h : Ahead(a, h)' = Ahead(a, h)
    BY <1>1 DEF Handled, Ahead
  <1>3. CASE \/ \E keys \in SUBSET taskMap : SecondaryWake(keys)
             \/ SecondaryTaken \/ SecondaryDone
    <2>1. /\ secondary'.removed = secondary.removed
          /\ secondary'.list = secondary.list
      BY <1>0, <1>3 DEF SecondaryWake, SecondaryTaken, SecondaryDone,
                        SecondaryTask
    <2>2. UNCHANGED <<taskMap, job, overtaken>>
      BY <1>3 DEF SecondaryWake, SecondaryTaken, SecondaryDone, history
    <2> QED
      BY <1>1, <1>2, <2>1, <2>2, RestSources
  <1>4. CASE SecondaryTake
    <2>1. PICK t \in secondary.keys :
            /\ taskMap' = taskMap \ {t}
            /\ secondary' = [secondary EXCEPT
                   !.keys = @ \ {t},
                   !.pc = IF t \in taskMap THEN "lookup" ELSE "take",
                   !.removed = @ \cup ({t} \cap taskMap)]
            /\ overtaken' = IF t \in taskMap \cap Handled
                              THEN overtaken \cup {t.address} ELSE overtaken
      BY <1>4 DEF SecondaryTake
    <2>2. /\ secondary'.removed = secondary.removed \cup ({t} \cap taskMap)
          /\ secondary'.list = secondary.list
          /\ overtaken \subseteq overtaken'
          /\ t \in taskMap \cap Handled => t.address \in overtaken'
      BY <1>0, <2>1 DEF SecondaryTask
    <2>3. UNCHANGED job
      BY <1>4 DEF SecondaryTake
    <2>4. SUFFICES ASSUME NEW a \in Address \ overtaken', NEW h \in Height
                   PROVE  \/ Keeps(a, h)
                          \/ \E k0, x0, k1, x1 : Moves(k0, x0, k1, x1, a, h)
      BY <1>1, <2>2, SourcesKept DEF SInv
    <2>5. CASE t \in taskMap /\ Names(t, a, h)
      <3>1. t \notin Handled
        BY <2>2, <2>5 DEF Names
      <3>2. Source("live", t, a, h)
        BY <2>5, <3>1 DEF Source
      <3>3. \A k, x : Source(k, x, a, h)' =>
               \/ Source(k, x, a, h) /\ ~ (k = "live" /\ x = t)
               \/ k = "removed" /\ x = t
        BY <1>1, <1>2, <2>1, <2>2, <2>3 DEF Source
      <3>4. Moves("live", t, "removed", t, a, h)
        BY <3>2, <3>3 DEF Moves, OfScan
      <3> QED
        BY <3>4
    <2>6. CASE ~ (t \in taskMap /\ Names(t, a, h))
      <3>1. Keeps(a, h)
        BY <1>1, <1>2, <2>1, <2>2, <2>3, <2>6 DEF Keeps, Source
      <3> QED
        BY <3>1
    <2> QED
      BY <2>5, <2>6
  <1>5. CASE SecondaryLookup
    <2>1. PICK t \in secondary.removed :
            \/ secondary' = [Listed(t) EXCEPT !.keys = {}]
            \/ secondary' = Listed(t)
            \/ secondary' = Unlisted(t)
      BY <1>5 DEF SecondaryLookup
    <2>2. /\ \/ secondary'.list = secondary.list \cup {t}
             \/ secondary'.list = secondary.list
          /\ secondary'.removed = secondary.removed \ {t}
      BY <1>0, <2>1 DEF SecondaryTask, Listed, Unlisted
    <2>3. UNCHANGED <<taskMap, job, overtaken>>
      BY <1>5 DEF SecondaryLookup
    <2>4. SUFFICES ASSUME NEW a \in Address, NEW h \in Height
                   PROVE  \/ Keeps(a, h)
                          \/ \E k0, x0, k1, x1 : Moves(k0, x0, k1, x1, a, h)
      BY <1>1, <2>3, SourcesKept DEF SInv
    <2>5. CASE Names(t, a, h)
      <3>1. Source("removed", t, a, h)
        BY <2>5 DEF Source
      <3>2. \A k, x : Source(k, x, a, h)' =>
               \/ Source(k, x, a, h) /\ ~ (k = "removed" /\ x = t)
               \/ k = "listed" /\ x = t
        BY <1>1, <1>2, <2>2, <2>3 DEF Source
      <3>3. Moves("removed", t, "listed", t, a, h)
        BY <3>1, <3>2 DEF Moves, OfScan
      <3> QED
        BY <3>3
    <2>6. CASE ~ Names(t, a, h)
      <3>1. Keeps(a, h)
        BY <1>1, <1>2, <2>2, <2>3, <2>6 DEF Keeps, Source
      <3> QED
        BY <3>1
    <2> QED
      BY <2>5, <2>6
  <1>6. CASE SecondarySchedule
    <2>1. PICK t \in secondary.list :
            /\ job' = [job EXCEPT !["secondary"] =
                   [accounts |-> {t.address}, blocks |-> {t.sequence},
                    todo |-> {}, sending |-> {}]]
            /\ secondary' = [secondary EXCEPT !.list = @ \ {t}]
      BY <1>6 DEF SecondarySchedule
    <2>2. UNCHANGED <<taskMap, overtaken>>
      BY <1>6 DEF SecondarySchedule, history
    <2>3. /\ secondary'.removed = secondary.removed
          /\ secondary'.list = secondary.list \ {t}
          /\ job'["secondary"].accounts = {t.address}
          /\ job'["secondary"].blocks = {t.sequence}
          /\ job'["secondary"].todo = {}
          /\ job'["primary"] = job["primary"]
      BY <1>0, <2>1 DEF SecondaryTask, Scheduler
    <2>4. SUFFICES ASSUME NEW a \in Address, NEW h \in Height
                   PROVE  \/ Keeps(a, h)
                          \/ \E k0, x0, k1, x1 : Moves(k0, x0, k1, x1, a, h)
      BY <1>1, <2>2, SourcesKept DEF SInv
    <2>5. CASE Names(t, a, h)
      <3>1. Source("listed", t, a, h)
        BY <2>5 DEF Source
      <3>2. \A k, x : Source(k, x, a, h)' =>
               \/ Source(k, x, a, h) /\ ~ (k = "listed" /\ x = t)
               \/ k = "call" /\ x = "secondary"
        BY <1>1, <1>2, <2>2, <2>3 DEF Source, Scheduler
      <3>3. Moves("listed", t, "call", "secondary", a, h)
        BY <3>1, <3>2 DEF Moves, OfScan
      <3> QED
        BY <3>3
    <2>6. CASE ~ Names(t, a, h)
      <3>1. Keeps(a, h)
        BY <1>1, <1>2, <2>2, <2>3, <2>6 DEF Keeps, Source, Scheduler, Names
      <3> QED
        BY <3>1
    <2> QED
      BY <2>5, <2>6
  <1> QED
    BY <1>3, <1>4, <1>5, <1>6 DEF SecondaryStep

\* A step of the primary task but the pop: blocks in front of it become blocks
\* of its call, or stay where they are.
PrimaryOther ==
    PrimaryWake \/ PrimaryTip \/ PrimaryPopDone \/ PrimaryFetch \/ PrimaryDone

\* What such a step does to the round.
LEMMA PrimaryTurns ==
    ASSUME TypeOK, PrimaryOther
    PROVE  \/ /\ UNCHANGED job
              /\ \/ primary'.pc \in {"sleep", "tip", "dead"}
                 \/ primary'.accounts = {}
                 \/ /\ primary.pc = "pop" /\ primary'.pc = "fetch"
                    /\ primary'.end = primary.end
                    /\ primary'.accounts = primary.accounts
           \/ /\ PrimaryFetch
              /\ primary.pc = "fetch" /\ primary'.pc = "fetch"
              /\ primary'.end = primary.end
              /\ primary'.accounts = primary.accounts
              /\ primary.next <= primary.end
              /\ primary'.next = primary.next + Batch
              /\ \E blocks \in SUBSET Heights(
                         Group(primary.next, primary.end + 1, Batch)) :
                    job' = [job EXCEPT !["primary"] =
                      [accounts |-> primary.accounts, blocks |-> blocks,
                       todo |-> {}, sending |-> {}]]
  <1>0. /\ primary \in PrimaryTask
        /\ primary.end \in Nat /\ primary.next \in Nat
    BY ScanAssumption DEF TypeOK, PrimaryTask, Height, ScanAssumption
  <1>1. CASE PrimaryWake
    BY <1>0, <1>1 DEF PrimaryWake, PrimaryTask
  <1>2. CASE PrimaryTip
    BY <1>0, <1>2 DEF PrimaryTip, PrimaryTask
  <1>3. CASE PrimaryPopDone
    BY <1>0, <1>3 DEF PrimaryPopDone, PrimaryTask
  <1>4. CASE PrimaryDone
    BY <1>0, <1>4 DEF PrimaryDone, PrimaryTask
  <1>5. CASE PrimaryFetch
    <2>1. primary.pc = "fetch" /\ primary.next <= primary.end
      BY <1>0, <1>5 DEF PrimaryFetch
    <2>2. CASE primary' = [primary EXCEPT !.pc = "dead"] /\ UNCHANGED job
      BY <1>0, <2>2 DEF PrimaryTask
    <2>3. ASSUME primary' = [primary EXCEPT !.next = @ + Batch]
          PROVE  /\ primary'.pc = "fetch" /\ primary'.end = primary.end
                 /\ primary'.accounts = primary.accounts
                 /\ primary'.next = primary.next + Batch
      BY <1>0, <2>1, <2>3 DEF PrimaryTask
    <2> QED
      BY <1>5, <2>1, <2>2, <2>3, FetchIs
  <1> QED
    BY <1>1, <1>2, <1>3, <1>4, <1>5 DEF PrimaryOther

\* The group that is cut out of the span: what is left of the span lies above
\* it.
LEMMA GroupCuts ==
    ASSUME NEW next \in Nat, NEW end \in Nat, next <= end
    PROVE  \A h \in Heights(Group(next, end + 1, Batch)) :
               next <= h /\ h < next + Batch
  BY ScanAssumption DEF Heights, Group, ScanAssumption

LEMMA PrimarySources ==
    ASSUME SInv, TypeOK, PrimaryOther
    PROVE  SoleSources' /\ Owned'
  <1>0. /\ job \in [Scheduler -> Job]
        /\ primary.end \in Nat /\ primary.next \in Nat /\ primary.start \in Nat
    BY ScanAssumption DEF TypeOK, PrimaryTask, Height, ScanAssumption
  <1>1. UNCHANGED <<account, counted, overtaken, taskMap, handler, secondary>>
    BY DEF PrimaryOther, PrimaryWake, PrimaryTip, PrimaryPopDone, PrimaryFetch,
           PrimaryDone, history
  <1>2. CASE /\ UNCHANGED job
             /\ \/ primary'.pc \in {"sleep", "tip", "dead"}
                \/ primary'.accounts = {}
                \/ /\ primary.pc = "pop" /\ primary'.pc = "fetch"
                   /\ primary'.accounts = primary.accounts
    <2>1. \A a, h : Ahead(a, h)' => Ahead(a, h)
      BY <1>2 DEF Ahead
    <2> QED
      BY <1>1, <1>2, <2>1, RestSources
  <1>3. ASSUME NEW blocks \in SUBSET Heights(
                       Group(primary.next, primary.end + 1, Batch)),
               PrimaryFetch,
               primary.pc = "fetch", primary'.pc = "fetch",
               primary'.accounts = primary.accounts,
               primary.next <= primary.end,
               primary'.next = primary.next + Batch,
               job' = [job EXCEPT !["primary"] =
                   [accounts |-> primary.accounts, blocks |-> blocks,
                    todo |-> {}, sending |-> {}]]
        PROVE  SoleSources' /\ Owned'
    <2>1. /\ job["primary"].accounts = {} /\ job["primary"].todo = {}
          /\ job'["primary"].accounts = primary.accounts
          /\ job'["primary"].blocks = blocks
          /\ job'["primary"].todo = {}
          /\ job'["secondary"] = job["secondary"]
      BY <1>0, <1>3 DEF PrimaryFetch, Busy, Scheduler
    <2>2. \A h \in blocks : primary.next <= h /\ h < primary.next + Batch
      BY <1>0, <1>3, GroupCuts
    <2>3. SUFFICES ASSUME NEW a \in Address, NEW h \in Height
                   PROVE  \/ Keeps(a, h)
                          \/ \E k0, x0, k1, x1 : Moves(k0, x0, k1, x1, a, h)
      BY <1>1, SourcesKept DEF SInv
    <2>4. h \in Nat /\ Batch \in Nat
      BY ScanAssumption DEF Height, ScanAssumption
    <2>5. Ahead(a, h)' => Ahead(a, h)
      BY <1>0, <1>3, <2>4 DEF Ahead
    <2>6. Handled' = Handled
      BY <1>1 DEF Handled
    <2>7. CASE a \in primary.accounts /\ h \in blocks
      <3>1. Ahead(a, h) /\ ~ Ahead(a, h)'
        BY <1>0, <1>3, <2>2, <2>4, <2>7 DEF Ahead
      <3>2. Source("ahead", "primary", a, h)
        BY <3>1 DEF Source
      <3>3. \A k, x : Source(k, x, a, h)' =>
               \/ Source(k, x, a, h) /\ ~ (k = "ahead" /\ x = "primary")
               \/ k = "call" /\ x = "primary"
        BY <1>1, <2>1, <2>6, <3>1 DEF Source, Scheduler
      <3>4. Moves("ahead", "primary", "call", "primary", a, h)
        BY <3>2, <3>3 DEF Moves, OfScan
      <3> QED
        BY <3>4
    <2>8. CASE ~ (a \in primary.accounts /\ h \in blocks)
      <3>1. Keeps(a, h)
        BY <1>1, <2>1, <2>5, <2>6, <2>8 DEF Keeps, Source, Scheduler
      <3> QED
        BY <3>1
    <2> QED
      BY <2>7, <2>8
  <1> QED
    BY <1>2, <1>3, PrimaryTurns

----------------------------------------------------------------------------
(* Counting an answer.                                                     *)

\* What UpdateAccount does to the scan of the answer and to the reader.
LEMMA UpdateEffect ==
    ASSUME TypeOK, NEW c \in Conn, UpdateAccount(c),
           NEW t, t = handler[c].task, Counts(t)
    PROVE  /\ t \in Task /\ t.address \in Address /\ t.sequence \in Height
           /\ Scanning(t.address) /\ Scanning(t.address)'
           /\ account'[t.address].start = account[t.address].start
           /\ account'[t.address].end = account[t.address].end
           /\ account'[t.address].blocks = account[t.address].blocks \cup
                  {h \in {t.sequence} : <<t.address, h>> \in Relevant}
           /\ account'[t.address].remaining =
                  (account[t.address].remaining - 1) % Word
           /\ counted'[t.address] = counted[t.address] \cup {t.sequence}
           /\ \A a \in Address \ {t.address} :
                  account'[a] = account[a] /\ counted'[a] = counted[a]
           /\ \/ /\ handler' = [handler EXCEPT ![c].pc = "clone"]
                 /\ account'[t.address].remaining = 0
              \/ handler' = [handler EXCEPT ![c].pc = "forget"]
  <1>0. /\ account \in [Address -> AccountInfo \cup {NoAccount}]
        /\ counted \in [Address -> SUBSET Height]
        /\ t \in Task /\ t.address \in Address /\ t.sequence \in Height
    BY DEF TypeOK, UpdateAccount, Task
  <1>1. PICK left : left = (account[t.address].remaining - 1) % Word
    OBVIOUS
  <1>2. PICK bs : bs = IF <<t.address, t.sequence>> \in Relevant
                         THEN account[t.address].blocks \cup {t.sequence}
                         ELSE account[t.address].blocks
    OBVIOUS
  <1>3. Scanning(t.address) /\ account[t.address] \in AccountInfo
    BY <1>0 DEF Counts, Scanning
  <1>4. account' = [account EXCEPT ![t.address].blocks = bs,
                                   ![t.address].remaining = left]
    BY <1>0, <1>1, <1>2 DEF UpdateAccount, Decrypted
  <1>5. counted' = [counted EXCEPT ![t.address] = @ \cup {t.sequence}]
    BY DEF UpdateAccount
  <1>6. /\ account'[t.address].start = account[t.address].start
        /\ account'[t.address].end = account[t.address].end
        /\ account'[t.address].blocks = bs
        /\ account'[t.address].remaining = left
    BY <1>0, <1>3, <1>4 DEF AccountInfo
  <1>7. Scanning(t.address)'
    <2>1. account'[t.address].end # 0
      BY <1>3, <1>6, ScanAssumption DEF AccountInfo, Height, ScanAssumption
    <2> QED
      BY <2>1 DEF Scanning, NoAccount
  <1>8. \/ handler' = [handler EXCEPT ![c].pc = "clone"] /\ left = 0
        \/ handler' = [handler EXCEPT ![c].pc = "forget"]
    BY <1>1 DEF UpdateAccount, Finishes
  <1>9. bs = account[t.address].blocks \cup
                  {h \in {t.sequence} : <<t.address, h>> \in Relevant}
    BY <1>2
  <1>10. \A a \in Address \ {t.address} :
             account'[a] = account[a] /\ counted'[a] = counted[a]
    BY <1>0, <1>4, <1>5
  <1>11. counted'[t.address] = counted[t.address] \cup {t.sequence}
    BY <1>0, <1>5
  <1> QED
    BY <1>0, <1>1, <1>3, <1>6, <1>7, <1>8, <1>9, <1>10, <1>11

LEMMA ScanRangeFinite ==
    ASSUME TypeOK, NEW a \in Address
    PROVE  IsFiniteSet(ScanRange(a))
  <1>1. account[a] \in AccountInfo \cup {NoAccount}
    BY DEF TypeOK
  <1>2. account[a].start \in Int /\ account[a].end \in Int
    BY <1>1, ScanAssumption DEF AccountInfo, NoAccount, Height, ScanAssumption
  <1> QED
    BY <1>2, FS_Interval DEF ScanRange

\* An answer that counts is the first for its block.
LEMMA CountsOnce ==
    ASSUME SInv, TypeOK, NEW c \in Conn, UpdateAccount(c),
           NEW t, t = handler[c].task, Counts(t), t.address \notin overtaken
    PROVE  /\ t.sequence \in ScanRange(t.address)
           /\ t.sequence \notin counted[t.address]
           /\ Source("live", t, t.address, t.sequence)
  <1>1. t \in Task /\ t.address \in Address /\ t.sequence \in Height
    BY DEF TypeOK, UpdateAccount, Task
  <1>2. t \notin Handled
    <2>1. t # NoTask /\ handler[c].pc = "update"
      BY <1>1, NoTaskAssumption DEF NoTaskAssumption, UpdateAccount
    <2> QED
      BY <2>1 DEF SInv, Holders, Handled
  <1>3. Source("live", t, t.address, t.sequence)
    BY <1>2 DEF Source, Names, Counts
  <1>4. t.sequence \in ScanRange(t.address) /\ Scanning(t.address)
    BY <1>1, <1>3 DEF SInv, Owned
  <1> QED
    BY <1>1, <1>3, <1>4 DEF SInv, SoleSources, Sole

LEMMA UpdateSources ==
    ASSUME SInv, TypeOK, NEW c \in Conn, UpdateAccount(c)
    PROVE  SoleSources' /\ Owned'
  <1> PICK t : t = handler[c].task
    OBVIOUS
  <1>1. \A a, h : Keeps(a, h)
    BY ReaderKeeps DEF ReaderStep
  <1>2. overtaken' = overtaken
    BY DEF UpdateAccount
  <1>3. CASE ~ Counts(t)
    BY <1>1, <1>2, <1>3, SourcesKept DEF UpdateAccount, SInv
  <1>4. CASE Counts(t)
    <2>1. \A a \in Address : /\ Scanning(a)' = Scanning(a)
                             /\ ScanRange(a)' = ScanRange(a)
      BY <1>4, UpdateEffect DEF Scanning, ScanRange
    <2>2. Owned'
      BY <1>1, <1>2, <2>1 DEF SInv, Owned, Keeps
    <2>3. ASSUME NEW a \in Address \ overtaken, Scanning(a),
                 NEW h \in ScanRange(a)
          PROVE  Sole(a, h)'
      <3>1. Sole(a, h)
        BY <2>3 DEF SInv, SoleSources
      <3>2. CASE a = t.address /\ h = t.sequence
        <4>1. Source("live", t, a, h)
          BY <1>4, <3>2, CountsOnce
        <4>2. t \in Handled'
          <5>1. handler'[c].pc \in {"clone", "forget"} /\ handler'[c].task = t
            BY DEF TypeOK, UpdateAccount, Reader
          <5> QED
            BY <5>1 DEF Handled
        <4>3. ~ Source("live", t, a, h)'
          BY <4>2 DEF Source
        <4>4. \A k, x : Source(k, x, a, h) => k = "live" /\ x = t
          BY <3>1, <4>1 DEF Sole
        <4>5. \A k, x : ~ Source(k, x, a, h)'
          BY <1>1, <4>3, <4>4 DEF Keeps
        <4> QED
          BY <4>5 DEF Sole
      <3>3. CASE ~ (a = t.address /\ h = t.sequence)
        <4>1. h \in counted'[a] => h \in counted[a]
          BY <1>4, <3>3, UpdateEffect
        <4> QED
          BY <1>1, <3>1, <4>1 DEF Sole, Keeps
      <3> QED
        BY <3>2, <3>3
    <2> QED
      BY <1>2, <2>1, <2>2, <2>3 DEF SoleSources
  <1> QED
    BY <1>3, <1>4

LEMMA UpdateTally ==
    ASSUME SInv, TypeOK, NEW c \in Conn, UpdateAccount(c)
    PROVE  Tally' /\ RemainingIsUncounted'
  <1> PICK t : t = handler[c].task
    OBVIOUS
  <1>0. /\ Tally /\ RemainingIsUncounted /\ overtaken' = overtaken
        /\ account \in [Address -> AccountInfo \cup {NoAccount}]
        /\ counted \in [Address -> SUBSET Height]
    BY DEF UpdateAccount, SInv, TypeOK
  <1>1. CASE ~ Counts(t)
    BY <1>0, <1>1
    DEF UpdateAccount, Tally, RemainingIsUncounted, Scanning, ScanRange
  <1>2. CASE Counts(t)
    <2>1. \A a \in Address : /\ Scanning(a)' = Scanning(a)
                             /\ ScanRange(a)' = ScanRange(a)
      BY <1>2, UpdateEffect DEF Scanning, ScanRange
    <2>2. Scanning(t.address) /\ t.address \in Address
      BY <1>2, UpdateEffect
    <2>3. Tally'
      <3>1. ASSUME NEW a \in Address, Scanning(a), a # t.address
            PROVE  /\ account'[a].start <= account'[a].end
                   /\ account'[a].blocks = {h \in counted'[a] : <<a, h>> \in Relevant}
                   /\ a \notin overtaken' => counted'[a] \subseteq ScanRange(a)'
        BY <1>0, <1>2, <2>1, <3>1, UpdateEffect DEF Tally
      <3>2. ASSUME NEW a, a = t.address
            PROVE  /\ account'[a].start <= account'[a].end
                   /\ account'[a].blocks = {h \in counted'[a] : <<a, h>> \in Relevant}
                   /\ a \notin overtaken' => counted'[a] \subseteq ScanRange(a)'
        <4>1. /\ a \in Address /\ Scanning(a)
              /\ account'[a].start = account[a].start
              /\ account'[a].end = account[a].end
              /\ account'[a].blocks = account[a].blocks \cup
                     {h \in {t.sequence} : <<a, h>> \in Relevant}
              /\ counted'[a] = counted[a] \cup {t.sequence}
          BY <1>2, <3>2, UpdateEffect
        <4>2. /\ account[a].start <= account[a].end
              /\ account[a].blocks = {h \in counted[a] : <<a, h>> \in Relevant}
              /\ a \notin overtaken => counted[a] \subseteq ScanRange(a)
          BY <1>0, <4>1 DEF Tally
        <4>3. a \notin overtaken => t.sequence \in ScanRange(a)
          BY <1>2, <3>2, CountsOnce
        <4> QED
          BY <1>0, <2>1, <4>1, <4>2, <4>3
      <3> QED
        BY <2>1, <3>1, <3>2 DEF Tally
    <2>4. RemainingIsUncounted'
      <3>1. ASSUME NEW a \in Address \ overtaken, Scanning(a), a # t.address
            PROVE  account'[a].remaining = Cardinality(ScanRange(a) \ counted'[a])
        BY <1>0, <1>2, <3>1, UpdateEffect DEF RemainingIsUncounted
      <3>2. ASSUME NEW a, a = t.address, a \notin overtaken
            PROVE  account'[a].remaining = Cardinality(ScanRange(a) \ counted'[a])
        <4> DEFINE S == ScanRange(a) \ counted[a]
        <4>1. /\ a \in Address /\ Scanning(a)
              /\ account'[a].remaining = (account[a].remaining - 1) % Word
              /\ counted'[a] = counted[a] \cup {t.sequence}
          BY <1>2, <3>2, UpdateEffect
        <4>2. account[a].remaining = Cardinality(S)
          BY <1>0, <3>2, <4>1 DEF RemainingIsUncounted
        <4>3. t.sequence \in S
          BY <1>2, <3>2, CountsOnce
        <4>4. IsFiniteSet(S)
          BY <4>1, ScanRangeFinite, FS_Subset
        <4> HIDE DEF S
        <4>5. /\ Cardinality(S \ {t.sequence}) = Cardinality(S) - 1
              /\ Cardinality(S) \in Nat /\ Cardinality(S \ {t.sequence}) \in Nat
          BY <4>3, <4>4, FS_RemoveElement, FS_CardinalityType
        <4>6. account[a].remaining \in 0 .. Word - 1 /\ Word \in Nat
          BY <1>0, <4>1, ScanAssumption DEF Scanning, AccountInfo, ScanAssumption
        <4>7. (Cardinality(S) - 1) % Word = Cardinality(S) - 1
          BY <4>2, <4>5, <4>6
        <4>8. ScanRange(a) \ counted'[a] = S \ {t.sequence}
          BY <4>1 DEF S
        <4> QED
          BY <4>1, <4>2, <4>5, <4>7, <4>8
      <3> QED
        BY <1>0, <2>1, <2>2, <3>1, <3>2 DEF RemainingIsUncounted
    <2> QED
      BY <2>3, <2>4
  <1> QED
    BY <1>1, <1>2

\* The reader that leaves no block over finishes the scan, and it is the only
\* one: another would have found a block of the scan not counted.
LEMMA UpdateFinishers ==
    ASSUME SInv, TypeOK, NEW c \in Conn, UpdateAccount(c)
    PROVE  Finishers'
  <1> PICK t : t = handler[c].task
    OBVIOUS
  <1>0. /\ Finishers /\ overtaken' = overtaken
        /\ handler \in [Conn -> Reader] /\ handler[c].pc = "update"
        /\ account \in [Address -> AccountInfo \cup {NoAccount}]
        /\ \A d \in Conn : handler[d].pc # "idle" => handler[d].task.address \in Address
    BY DEF UpdateAccount, SInv, TypeOK, Task
  <1>1. /\ \A d \in Conn : handler'[d].task = handler[d].task
        /\ \A d \in Conn \ {c} : handler'[d].pc = handler[d].pc
    BY <1>0 DEF UpdateAccount, Reader
  <1>2. CASE ~ Counts(t)
    <2>1. ~ Finishing(c)'
      BY <1>0, <1>2 DEF UpdateAccount, Finishing, Reader
    <2>2. UNCHANGED <<account, counted>>
      BY <1>2 DEF UpdateAccount
    <2> QED
      BY <1>0, <1>1, <2>1, <2>2 DEF Finishers, Finishing, Scanning, ScanRange
  <1>3. CASE Counts(t)
    <2>1. \A a \in Address : /\ Scanning(a)' = Scanning(a)
                             /\ ScanRange(a)' = ScanRange(a)
                             /\ counted[a] \subseteq counted'[a]
      BY <1>3, UpdateEffect DEF Scanning, ScanRange
    <2>2. ASSUME NEW d \in Conn, Finishing(d),
                 handler[d].task.address \notin overtaken
          PROVE  handler[d].task.address # t.address
      BY <1>0, <1>3, <2>2, CountsOnce DEF Finishers
    <2>3. ASSUME NEW d \in Conn, d # c, Finishing(d)',
                 NEW a, a = handler[d].task.address, a \notin overtaken
          PROVE  /\ Scanning(a)' /\ ScanRange(a)' \subseteq counted'[a]
                 /\ \A e \in Conn : Finishing(e)' /\ handler[e].task.address = a
                                       => e = d
      <3>1. Finishing(d) /\ a \in Address
        BY <1>0, <1>1, <2>3 DEF Finishing
      <3>2. handler[c].task.address # a
        BY <2>2, <2>3, <3>1
      <3>3. \A e \in Conn : Finishing(e)' => e = c \/ Finishing(e)
        BY <1>1 DEF Finishing
      <3>4. /\ Scanning(a) /\ ScanRange(a) \subseteq counted[a]
            /\ \A e \in Conn : Finishing(e) /\ handler[e].task.address = a => e = d
        BY <1>0, <2>3, <3>1 DEF Finishers
      <3> QED
        BY <2>1, <3>1, <3>2, <3>3, <3>4
    <2>4. ASSUME Finishing(c)', t.address \notin overtaken
          PROVE  /\ Scanning(t.address)'
                 /\ ScanRange(t.address)' \subseteq counted'[t.address]
                 /\ \A e \in Conn : Finishing(e)' /\ handler[e].task.address
                                       = t.address => e = c
      <3>1. t.address \in Address /\ Scanning(t.address)'
        BY <1>3, UpdateEffect
      <3>2. account'[t.address].remaining = 0
        BY <1>0, <1>3, <2>4, UpdateEffect DEF Finishing, Reader
      <3>3. RemainingIsUncounted' /\ TypeOK'
        BY UpdateTally, ReaderTypeOK DEF ReaderStep
      <3>4. Cardinality(ScanRange(t.address)' \ counted'[t.address]) = 0
        <4>1. \A a \in Address : a \notin overtaken' /\ Scanning(a)' =>
                  account'[a].remaining = Cardinality(ScanRange(a)' \ counted'[a])
          BY <3>3 DEF RemainingIsUncounted
        <4> QED
          BY <1>0, <2>4, <3>1, <3>2, <4>1
      <3>5. IsFiniteSet(ScanRange(t.address)' \ counted'[t.address])
        BY <2>1, <3>1, ScanRangeFinite, FS_Subset
      <3>6. ScanRange(t.address)' \ counted'[t.address] = {}
        BY <3>4, <3>5, FS_EmptySet
      <3>7. \A e \in Conn : Finishing(e)' => e = c \/ Finishing(e)
        BY <1>1 DEF Finishing
      <3> QED
        BY <2>2, <2>4, <3>1, <3>6, <3>7
    <2> QED
      BY <1>0, <1>1, <2>3, <2>4 DEF Finishers
  <1> QED
    BY <1>2, <1>3

----------------------------------------------------------------------------
(* Finishing a scan, and adding one.                                       *)

\* When a scan is removed, all of it is counted and nothing is left of it.
LEMMA RemoveLeavesNothing ==
    ASSUME SInv, TypeOK, NEW c \in Conn, RemoveAccount(c),
           NEW a, a = handler[c].task.address, a \notin overtaken
    PROVE  /\ a \in Address
           /\ \A h \in Height : \A k, x : Source(k, x, a, h) => ~ OfScan(k, x)
           /\ \A d \in Conn : Finishing(d) /\ handler[d].task.address = a => d = c
  <1>1. a \in Address /\ Finishing(c)
    BY DEF RemoveAccount, TypeOK, Task, Finishing
  <1>2. /\ Scanning(a) /\ ScanRange(a) \subseteq counted[a]
        /\ \A d \in Conn : Finishing(d) /\ handler[d].task.address = a => d = c
    BY <1>1 DEF SInv, Finishers
  <1>3. \A h \in ScanRange(a) : \A k, x : ~ Source(k, x, a, h)
    BY <1>1, <1>2 DEF SInv, SoleSources, Sole
  <1>4. \A h \in Height : \A k, x :
            Source(k, x, a, h) /\ OfScan(k, x) => h \in ScanRange(a)
    BY <1>1 DEF SInv, Owned, OfScan
  <1> QED
    BY <1>1, <1>2, <1>3, <1>4

LEMMA RemoveSources ==
    ASSUME SInv, TypeOK, NEW c \in Conn, RemoveAccount(c)
    PROVE  SoleSources' /\ Owned'
  <1> PICK b : b = handler[c].task.address
    OBVIOUS
  <1>1. \A a, h : Keeps(a, h)
    BY ReaderKeeps DEF ReaderStep
  <1>2. UNCHANGED <<counted, overtaken>>
    BY DEF RemoveAccount, history
  <1>3. /\ account' = [account EXCEPT ![b] = NoAccount]
        /\ account \in [Address -> AccountInfo \cup {NoAccount}]
    BY DEF RemoveAccount, TypeOK
  <1>4. \A a \in Address : \/ account'[a] = account[a]
                           \/ a = b /\ ~ Scanning(a)'
    BY <1>3 DEF Scanning
  <1>5. SoleSources'
    <2>1. ASSUME NEW a \in Address \ overtaken, Scanning(a)',
                 NEW h \in ScanRange(a)'
          PROVE  Sole(a, h)'
      BY <1>1, <1>2, <1>4, <2>1, KeptIsSole
      DEF SInv, SoleSources, Scanning, ScanRange
    <2> QED
      BY <1>2, <2>1 DEF SoleSources
  <1>6. Owned'
    <2>1. ASSUME NEW a \in Address \ overtaken, NEW h \in Height, NEW k, NEW x,
                 Source(k, x, a, h)', OfScan(k, x)
          PROVE  Scanning(a)' /\ h \in ScanRange(a)'
      <3>1. Source(k, x, a, h)
        BY <1>1, <2>1 DEF Keeps
      <3>2. a # b
        BY <2>1, <3>1, RemoveLeavesNothing
      <3>3. Scanning(a) /\ h \in ScanRange(a)
        BY <2>1, <3>1 DEF SInv, Owned, OfScan
      <3> QED
        BY <1>4, <3>2, <3>3 DEF Scanning, ScanRange
    <2> QED
      BY <1>2, <2>1 DEF Owned, OfScan
  <1> QED
    BY <1>5, <1>6

\* What a pop does that adds a scan.
LEMMA PopIs ==
    ASSUME TypeOK, PrimaryPop, ~ UNCHANGED <<account, counted, primary>>
    PROVE  /\ primary.end \in Nat \ {0}
           /\ \E b \in Address, first \in 1 .. primary.end :
                 /\ ~ Scanning(b)
                 /\ account' = [account EXCEPT ![b] = NewAccount(first, primary.end)]
                 /\ counted' = [counted EXCEPT ![b] = {}]
                 /\ primary'.accounts = primary.accounts \cup {b}
                 /\ primary'.pc = "pop" /\ primary'.end = primary.end
  <1> DEFINE req == toScan[Len(toScan)]
             head == StartOf(req.head, primary.end)
  <1>0. /\ primary \in PrimaryTask /\ primary.pc = "pop"
        /\ toScan \in Seq(ScanRequest) /\ toScan # <<>>
    BY DEF TypeOK, PrimaryPop
  <1>1. req \in ScanRequest
    BY <1>0
  <1>2. req.address \in Address /\ req.head \in Height
    BY <1>1 DEF ScanRequest
  <1>3. head \in 1 .. primary.end /\ primary.end \in Nat \ {0}
    <2>1. primary.end \in Height
      BY <1>0 DEF PrimaryTask
    <2>2. head \in 1 .. primary.end
      BY <1>2, <2>1, NewAccountType
    <2> QED
      BY <2>1, <2>2, ScanAssumption DEF Height, ScanAssumption
  <1>4. ~ Duplicate(req)
    BY DEF PrimaryPop
  <1>5. /\ account' = [account EXCEPT ![req.address] =
                             NewAccount(head, primary.end)]
        /\ counted' = [counted EXCEPT ![req.address] = {}]
        /\ primary' = [primary EXCEPT
                 !.accounts = @ \cup {req.address},
                 !.start = IF head < @ THEN head ELSE @]
    BY <1>4 DEF PrimaryPop
  <1>6. /\ primary'.accounts = primary.accounts \cup {req.address}
        /\ primary'.pc = "pop" /\ primary'.end = primary.end
    BY <1>0, <1>5 DEF PrimaryTask
  <1>7. ~ Scanning(req.address)
    BY <1>4 DEF Duplicate
  <1> HIDE DEF head, req
  <1> QED
    BY <1>2, <1>3, <1>5, <1>6, <1>7

\* A scan starts with every block in front of the primary task, and nothing
\* of an earlier scan of the account is left over.
LEMMA PopKeeps ==
    ASSUME SInv, TypeOK, PrimaryPop
    PROVE  /\ SoleSources' /\ Owned' /\ Round' /\ Tally'
           /\ RemainingIsUncounted' /\ Finishers'
  <1>0. /\ account \in [Address -> AccountInfo \cup {NoAccount}]
        /\ counted \in [Address -> SUBSET Height]
        /\ SoleSources /\ Owned /\ Round /\ Tally /\ RemainingIsUncounted
        /\ Finishers
    BY DEF SInv, TypeOK
  <1>1. /\ UNCHANGED <<taskMap, handler, secondary, job, overtaken>>
        /\ primary.pc = "pop"
    BY DEF PrimaryPop
  <1>2. Handled' = Handled
    BY <1>1 DEF Handled
  <1>3. CASE UNCHANGED <<account, counted, primary>>
    <2>1. SoleSources' /\ Owned'
      BY <1>1, <1>3, RestSources DEF Ahead
    <2> QED
      BY <1>0, <1>1, <1>3, <2>1
      DEF Round, Tally, RemainingIsUncounted, Finishers, Finishing, Scanning,
          ScanRange, Ahead
  <1>4. ASSUME NEW b \in Address, NEW first \in 1 .. primary.end,
               primary.end \in Nat \ {0},
               ~ Scanning(b),
               account' = [account EXCEPT ![b] = NewAccount(first, primary.end)],
               counted' = [counted EXCEPT ![b] = {}],
               primary'.accounts = primary.accounts \cup {b},
               primary'.pc = "pop", primary'.end = primary.end
        PROVE  /\ SoleSources' /\ Owned' /\ Round' /\ Tally'
               /\ RemainingIsUncounted' /\ Finishers'
    <2>1. \A a \in Address \ {b} : /\ account'[a] = account[a]
                                   /\ counted'[a] = counted[a]
                                   /\ Scanning(a)' = Scanning(a)
                                   /\ ScanRange(a)' = ScanRange(a)
      BY <1>0, <1>4 DEF Scanning, ScanRange
    <2>2. /\ account'[b].start = first /\ account'[b].end = primary.end
          /\ account'[b].remaining = primary.end - first + 1
          /\ account'[b].blocks = {} /\ counted'[b] = {}
          /\ Scanning(b)' /\ ScanRange(b)' = first .. primary.end
      BY <1>0, <1>4 DEF NewAccount, Scanning, NoAccount, ScanRange
    <2>3. \A a, h : a # b => Keeps(a, h)
      BY <1>1, <1>2, <1>4 DEF Keeps, Source, Ahead
    <2>4. job["primary"].accounts = {}
      BY <1>0, <1>1 DEF Round
    <2>5. b \notin overtaken => \A h \in Height : \A k, x :
              Source(k, x, b, h)' => k = "ahead" /\ x = "primary"
      <3>1. ASSUME NEW h \in Height, NEW k, NEW x, b \notin overtaken,
                   Source(k, x, b, h)', k # "ahead"
            PROVE  FALSE
        <4>1. Source(k, x, b, h)
          BY <1>1, <1>2, <3>1 DEF Source
        <4>2. ~ OfScan(k, x)
          BY <1>0, <1>4, <3>1, <4>1 DEF Owned, OfScan
        <4> QED
          BY <2>4, <3>1, <4>1, <4>2 DEF OfScan, Source, Scheduler
      <3> QED
        BY <3>1 DEF Source
    <2>6. SoleSources'
      <3>1. ASSUME NEW a \in Address \ overtaken, Scanning(a)',
                   NEW h \in ScanRange(a)'
            PROVE  Sole(a, h)'
        <4>1. CASE a = b
          <5>1. h \in Height
            <6>1. primary.end \in Height
              BY DEF TypeOK, PrimaryTask
            <6> QED
              BY <2>2, <3>1, <4>1, <6>1, ScanAssumption
              DEF Height, ScanAssumption
          <5> QED
            BY <2>2, <2>5, <3>1, <4>1, <5>1 DEF Sole
        <4>2. CASE a # b
          BY <1>0, <2>1, <2>3, <3>1, <4>2, KeptIsSole DEF SoleSources
        <4> QED
          BY <4>1, <4>2
      <3> QED
        BY <1>1, <3>1 DEF SoleSources
    <2>7. Owned'
      <3>1. ASSUME NEW a \in Address \ overtaken, NEW h \in Height, NEW k, NEW x,
                   Source(k, x, a, h)', OfScan(k, x)
            PROVE  Scanning(a)' /\ h \in ScanRange(a)'
        <4>1. a # b
          BY <2>5, <3>1 DEF OfScan
        <4>2. Source(k, x, a, h)
          BY <2>3, <3>1, <4>1 DEF Keeps
        <4>3. Scanning(a) /\ h \in ScanRange(a)
          BY <1>0, <3>1, <4>2 DEF Owned, OfScan
        <4> QED
          BY <2>1, <4>1, <4>3
      <3> QED
        BY <1>1, <3>1 DEF Owned, OfScan
    <2>8. Round'
      BY <1>1, <2>4 DEF Round
    <2>9. Tally'
      <3>1. ASSUME NEW a \in Address, Scanning(a)'
            PROVE  /\ account'[a].start <= account'[a].end
                   /\ account'[a].blocks = {h \in counted'[a] : <<a, h>> \in Relevant}
                   /\ a \notin overtaken => counted'[a] \subseteq ScanRange(a)'
        <4>1. CASE a = b
          BY <1>4, <2>2, <4>1
        <4>2. CASE a # b
          BY <1>0, <2>1, <3>1, <4>2 DEF Tally
        <4> QED
          BY <4>1, <4>2
      <3> QED
        BY <1>1, <3>1 DEF Tally
    <2>10. RemainingIsUncounted'
      <3>1. Cardinality(first .. primary.end) = primary.end - first + 1
        BY <1>4, FS_Interval
      <3>2. ScanRange(b)' \ counted'[b] = first .. primary.end
        BY <2>2
      <3>3. account'[b].remaining = Cardinality(ScanRange(b)' \ counted'[b])
        BY <2>2, <3>1, <3>2
      <3>4. \A a \in Address \ overtaken : a # b /\ Scanning(a)' =>
                account'[a].remaining = Cardinality(ScanRange(a)' \ counted'[a])
        BY <1>0, <2>1 DEF RemainingIsUncounted
      <3> QED
        BY <1>1, <3>3, <3>4 DEF RemainingIsUncounted
    <2>11. Finishers'
      <3>1. ASSUME NEW c \in Conn, Finishing(c),
                   NEW a, a = handler[c].task.address, a \notin overtaken
            PROVE  Scanning(a)' /\ ScanRange(a)' \subseteq counted'[a]
        <4>1. a \in Address
          BY <3>1 DEF TypeOK, Finishing, Task
        <4>2. Scanning(a) /\ ScanRange(a) \subseteq counted[a]
          BY <1>0, <3>1 DEF Finishers
        <4> QED
          BY <1>4, <2>1, <4>1, <4>2
      <3> QED
        BY <1>0, <1>1, <3>1 DEF Finishers, Finishing
    <2> QED
      BY <2>6, <2>7, <2>8, <2>9, <2>10, <2>11
  <1> QED
    BY <1>3, <1>4, PopIs

----------------------------------------------------------------------------
(* The other parts of the invariant.                                       *)

LEMMA PrimaryRound ==
    ASSUME Round, TypeOK, PrimaryOther
    PROVE  Round'
  <1>1. job["primary"].accounts = {}
    BY DEF Round, PrimaryOther, PrimaryWake, PrimaryTip, PrimaryPopDone,
           PrimaryFetch, PrimaryDone, Busy
  <1> QED
    BY <1>1, PrimaryTurns DEF Round

\* A step that leaves the scans alone and starts no reader on its last steps.
LEMMA TallyKept ==
    ASSUME Tally, RemainingIsUncounted, UNCHANGED <<account, counted>>,
           overtaken \subseteq overtaken'
    PROVE  Tally' /\ RemainingIsUncounted'
  BY DEF Tally, RemainingIsUncounted, Scanning, ScanRange

LEMMA FinishersKept ==
    ASSUME Finishers, UNCHANGED <<account, counted>>,
           overtaken \subseteq overtaken',
           \A c \in Conn : Finishing(c)' =>
               Finishing(c) /\ handler'[c].task = handler[c].task
    PROVE  Finishers'
  <1>1. ASSUME NEW c \in Conn, Finishing(c)',
               NEW a, a = handler'[c].task.address, a \notin overtaken'
        PROVE  /\ Scanning(a)' /\ ScanRange(a)' \subseteq counted'[a]
               /\ \A d \in Conn : Finishing(d)' /\ handler'[d].task.address = a
                                     => d = c
    <2>1. Finishing(c) /\ a = handler[c].task.address /\ a \notin overtaken
      BY <1>1
    <2>2. /\ Scanning(a) /\ ScanRange(a) \subseteq counted[a]
          /\ \A d \in Conn : Finishing(d) /\ handler[d].task.address = a => d = c
      BY <2>1 DEF Finishers
    <2> QED
      BY <1>1, <2>2 DEF Scanning, ScanRange
  <1> QED
    BY <1>1 DEF Finishers

\* Only the clone makes a message, and it makes it of a scan that is counted.
LEMMA CompleteKept ==
    ASSUME CompleteUnlessOvertaken, overtaken \subseteq overtaken',
           \A c \in Conn : c \in Finished' =>
               /\ c \in Finished /\ handler'[c].task = handler[c].task
               /\ handler'[c].msg = handler[c].msg
    PROVE  CompleteUnlessOvertaken'
  <1>1. ASSUME NEW c \in Finished', handler'[c].task.address \notin overtaken'
        PROVE  Complete(c)'
    <2>1. c \in Conn
      BY <1>1 DEF Finished
    <2>2. /\ c \in Finished /\ handler'[c].task = handler[c].task
          /\ handler'[c].msg = handler[c].msg
      BY <1>1, <2>1
    <2>3. Complete(c)
      BY <1>1, <2>2 DEF CompleteUnlessOvertaken
    <2> QED
      BY <2>2, <2>3 DEF Complete
  <1> QED
    BY <1>1 DEF CompleteUnlessOvertaken

LEMMA CloneCompletes ==
    ASSUME SInv, TypeOK, NEW c \in Conn, CloneAccount(c)
    PROVE  CompleteUnlessOvertaken'
  <1> PICK a : a = handler[c].task.address
    OBVIOUS
  <1>0. /\ handler \in [Conn -> Reader] /\ a \in Address /\ Scanning(a)
        /\ overtaken' = overtaken
    BY DEF CloneAccount, TypeOK, Task, history
  <1>1. PICK msg : msg = [start |-> account[a].start, end |-> account[a].end,
                          blocks |-> account[a].blocks]
    OBVIOUS
  <1>2. handler' = [handler EXCEPT ![c].pc = "remove", ![c].msg = msg]
    BY <1>1 DEF CloneAccount
  <1>3. ASSUME a \notin overtaken
        PROVE  msg.blocks = {h \in msg.start .. msg.end : <<a, h>> \in Relevant}
    <2>1. ScanRange(a) \subseteq counted[a]
      BY <1>3 DEF CloneAccount, SInv, Finishers, Finishing
    <2>2. /\ account[a].blocks = {h \in counted[a] : <<a, h>> \in Relevant}
          /\ counted[a] \subseteq ScanRange(a)
      BY <1>0, <1>3 DEF SInv, Tally
    <2> QED
      BY <1>1, <2>1, <2>2 DEF ScanRange
  <1>4. /\ handler'[c].task.address = a /\ handler'[c].msg = msg
        /\ \A d \in Conn \ {c} : handler'[d] = handler[d]
    BY <1>0, <1>2 DEF Reader
  <1>5. ASSUME NEW d \in Finished', handler'[d].task.address \notin overtaken'
        PROVE  Complete(d)'
    <2>1. CASE d = c
      BY <1>0, <1>3, <1>4, <1>5, <2>1 DEF Complete
    <2>2. CASE d # c
      <3>1. d \in Conn /\ handler'[d] = handler[d] /\ d \in Finished
        BY <1>4, <1>5, <2>2 DEF Finished
      <3>2. Complete(d)
        BY <1>0, <1>5, <3>1 DEF SInv, CompleteUnlessOvertaken
      <3> QED
        BY <3>1, <3>2 DEF Complete
    <2> QED
      BY <2>1, <2>2
  <1> QED
    BY <1>5 DEF CompleteUnlessOvertaken

\* Requests that leave a place, and none that enters one.
LEMMA HoldersShrink ==
    ASSUME Holders, sent' \subseteq sent,
           \A p \in Scheduler : job'[p].sending \subseteq job[p].sending,
           \A c \in Conn : handler'[c].task \in {handler[c].task, NoTask}
    PROVE  Holders'
  <1>1. Answered' \subseteq Answered
    BY DEF Answered
  <1> QED
    BY <1>1 DEF Holders, Scheduler

LEMMA ReceiveHolders ==
    ASSUME Holders, TypeOK, NEW c \in Conn, NEW t \in sent, Receive(c, t)
    PROVE  Holders'
  <1>1. /\ handler'[c].task = t
        /\ \A d \in Conn \ {c} : handler'[d] = handler[d]
        /\ sent' = sent \ {t} /\ UNCHANGED job
    BY DEF Receive, TypeOK
  <1>2. t \in Task /\ t # NoTask
    BY NoTaskAssumption DEF TypeOK, NoTaskAssumption
  <1>3. t \notin Answered
    BY DEF Holders
  <1>4. \A d \in Conn : handler[d].task # t
    BY <1>2, <1>3 DEF Answered
  <1>5. Answered' \subseteq Answered \cup {t}
    BY <1>1 DEF Answered
  <1>6. \A d, e \in Conn :
            handler'[d].task = handler'[e].task /\ handler'[d].task # NoTask => d = e
    BY <1>1, <1>4 DEF Holders
  <1>7. sent' \cap Answered' = {}
    BY <1>1, <1>5 DEF Holders
  <1>8. \A p \in Scheduler : job'[p].sending \cap (sent' \cup Answered') = {}
    BY <1>1, <1>5 DEF Holders
  <1> QED
    BY <1>1, <1>6, <1>7, <1>8 DEF Holders

LEMMA ScheduleHolders ==
    ASSUME Holders, FreshIssue, TypeOK, NEW p \in Scheduler, ScheduleStep(p)
    PROVE  Holders'
  <1>0. job \in [Scheduler -> Job] /\ job[p] \in Job
    BY DEF TypeOK
  <1>1. UNCHANGED handler
    BY DEF ScheduleStep, ScheduleAccount, CreateTask, Dispatch
  <1>2. Answered' = Answered
    BY <1>1 DEF Answered
  <1>3. CASE ScheduleAccount(p)
    <2>1. /\ \A q \in Scheduler : job'[q].sending = job[q].sending
          /\ sent' = sent
      BY <1>0, <1>3 DEF ScheduleAccount, Job
    <2> QED
      BY <1>1, <2>1, HoldersShrink
  <1>4. CASE CreateTask(p)
    <2> DEFINE T(w) == [address |-> w[1], sequence |-> w[2],
                        nonce |-> issued[w[1]][w[2]] + 1]
    <2>1. PICK w \in job[p].todo :
            job' = [job EXCEPT ![p].todo = @ \ {w}, ![p].sending = {T(w)}]
      BY <1>4 DEF CreateTask
    <2>2. issued[w[1]][w[2]] \in Nat
      BY <1>0, <2>1 DEF Job, TypeOK
    <2>3. T(w) \notin Outstanding
      <3>1. SUFFICES ASSUME T(w) \in Outstanding PROVE FALSE
        OBVIOUS
      <3>2. T(w).nonce <= issued[w[1]][w[2]]
        BY <3>1 DEF FreshIssue
      <3> QED
        BY <2>2, <3>2
    <2>4. /\ job'[p].sending = {T(w)} /\ sent' = sent
          /\ \A q \in Scheduler \ {p} : job'[q].sending = job[q].sending
      BY <1>0, <1>4, <2>1 DEF Job, CreateTask
    <2> HIDE DEF T
    <2> QED
      BY <1>1, <1>2, <2>3, <2>4 DEF Holders, Outstanding, Scheduler
  <1>5. CASE Dispatch(p)
    <2>1. /\ job'[p].sending = {} /\ sent' = sent \cup job[p].sending
          /\ \A q \in Scheduler \ {p} : job'[q].sending = job[q].sending
      BY <1>0, <1>5 DEF Dispatch, Job
    <2> QED
      BY <1>1, <1>2, <2>1 DEF Holders, Scheduler
  <1> QED
    BY <1>3, <1>4, <1>5 DEF ScheduleStep

----------------------------------------------------------------------------
(* The steps.                                                              *)

\* A step that touches neither scans nor readers keeps these parts.
LEMMA StillParts ==
    ASSUME SInv, [Next]_vars, UNCHANGED <<account, counted, handler>>
    PROVE  /\ Tally' /\ RemainingIsUncounted' /\ Finishers'
           /\ CompleteUnlessOvertaken'
  <1>1. overtaken \subseteq overtaken'
    BY OvertakenGrows
  <1>2. Tally' /\ RemainingIsUncounted'
    BY <1>1, TallyKept DEF SInv
  <1>3. Finishers'
    BY <1>1, FinishersKept DEF SInv, Finishing
  <1>4. CompleteUnlessOvertaken'
    BY <1>1, CompleteKept DEF SInv, Finished
  <1> QED
    BY <1>2, <1>3, <1>4

\* One that leaves the primary task alone and adds nothing to its call, too.
LEMMA StillRound ==
    ASSUME SInv, UNCHANGED primary,
           job'["primary"].accounts \subseteq job["primary"].accounts
    PROVE  Round'
  BY DEF SInv, Round

LEMMA RestSInv ==
    ASSUME SInv, TypeOK, [Next]_vars,
           UNCHANGED <<account, counted, overtaken, taskMap, handler, primary,
                       secondary, job>>,
           sent' \subseteq sent
    PROVE  SInv'
  <1>1. SoleSources' /\ Owned'
    BY RestSources DEF Ahead
  <1>2. Holders'
    BY HoldersShrink DEF SInv
  <1> QED
    BY <1>1, <1>2, StillParts, StillRound DEF SInv

LEMMA ReceiveSInv ==
    ASSUME SInv, TypeOK, [Next]_vars, NEW c \in Conn, NEW t \in sent, Receive(c, t)
    PROVE  SInv'
  <1>1. /\ UNCHANGED <<account, counted, overtaken, primary, job>>
        /\ handler \in [Conn -> Reader]
    BY DEF Receive, TypeOK, history
  <1>2. \A d \in Conn : d # c => handler'[d] = handler[d]
    BY <1>1 DEF Receive
  <1>3. handler'[c].pc = "update"
    BY <1>1 DEF Receive
  <1>4. Tally' /\ RemainingIsUncounted'
    BY <1>1, TallyKept DEF SInv
  <1>5. Finishers'
    BY <1>1, <1>2, <1>3, FinishersKept DEF SInv, Finishing
  <1>6. CompleteUnlessOvertaken'
    BY <1>1, <1>2, <1>3, CompleteKept DEF SInv, Finished
  <1>7. Round' /\ Holders'
    BY <1>1, StillRound, ReceiveHolders DEF SInv
  <1> QED
    BY <1>4, <1>5, <1>6, <1>7, ReceiveSources DEF SInv

LEMMA ScheduleSInv ==
    ASSUME SInv, FreshIssue, TypeOK, [Next]_vars, NEW p \in Scheduler,
           ScheduleStep(p)
    PROVE  SInv'
  <1>0. job \in [Scheduler -> Job]
    BY DEF TypeOK
  <1>1. UNCHANGED <<account, counted, handler, primary>>
    BY DEF ScheduleStep, ScheduleAccount, CreateTask, Dispatch, history
  <1>2. \A q \in Scheduler : /\ job'[q].accounts \subseteq job[q].accounts
                             /\ job'[q].blocks = job[q].blocks
    <2>1. CASE ScheduleAccount(p)
      BY <1>0, <2>1 DEF ScheduleAccount, Job
    <2>2. CASE CreateTask(p)
      BY <1>0, <2>2 DEF CreateTask, Job
    <2>3. CASE Dispatch(p)
      BY <1>0, <2>3 DEF Dispatch, Job
    <2> QED
      BY <2>1, <2>2, <2>3 DEF ScheduleStep
  <1>3. Round'
    BY <1>1, <1>2, StillRound DEF Scheduler
  <1>4. Holders'
    BY ScheduleHolders DEF SInv
  <1> QED
    BY <1>1, <1>3, <1>4, StillParts, ScheduleSources DEF SInv

LEMMA SecondarySInv ==
    ASSUME SInv, TypeOK, [Next]_vars,
           \/ \E keys \in SUBSET taskMap : SecondaryWake(keys)
           \/ SecondaryStep
    PROVE  SInv'
  <1>0. job \in [Scheduler -> Job]
    BY DEF TypeOK
  <1>1. UNCHANGED <<account, counted, handler, primary, sent>>
    BY DEF SecondaryWake, SecondaryStep, SecondaryTake, SecondaryLookup,
           SecondaryTaken, SecondarySchedule, SecondaryDone, history
  <1>2. /\ job'["primary"] = job["primary"]
        /\ \A p \in Scheduler : job'[p].sending \subseteq job[p].sending
    <2>1. CASE SecondarySchedule
      BY <1>0, <2>1 DEF SecondarySchedule, Scheduler
    <2>2. CASE ~ SecondarySchedule
      BY <2>2 DEF SecondaryWake, SecondaryStep, SecondaryTake, SecondaryLookup,
                  SecondaryTaken, SecondaryDone
    <2> QED
      BY <2>1, <2>2
  <1>3. Round'
    BY <1>1, <1>2, StillRound
  <1>4. Holders'
    BY <1>1, <1>2, HoldersShrink DEF SInv
  <1> QED
    BY <1>1, <1>3, <1>4, StillParts, SecondarySources DEF SInv

LEMMA PrimarySInv ==
    ASSUME SInv, TypeOK, [Next]_vars, PrimaryWake \/ PrimaryStep
    PROVE  SInv'
  <1>0. job \in [Scheduler -> Job]
    BY DEF TypeOK
  <1>1. CASE PrimaryPop
    <2>1. UNCHANGED <<handler, overtaken, sent, job>>
      BY <1>1 DEF PrimaryPop
    <2>2. CompleteUnlessOvertaken'
      BY <2>1, CompleteKept DEF SInv, Finished
    <2>3. Holders'
      BY <2>1, HoldersShrink DEF SInv
    <2> QED
      BY <1>1, <2>2, <2>3, PopKeeps DEF SInv
  <1>2. CASE PrimaryOther
    <2>1. UNCHANGED <<account, counted, handler, sent>>
      BY <1>2 DEF PrimaryOther, PrimaryWake, PrimaryTip, PrimaryPopDone,
                  PrimaryFetch, PrimaryDone, history
    <2>2. \A p \in Scheduler : job'[p].sending \subseteq job[p].sending
      <3>1. CASE PrimaryFetch
        BY <1>0, <3>1, FetchIs
      <3>2. CASE ~ PrimaryFetch
        BY <1>2, <3>2 DEF PrimaryOther, PrimaryWake, PrimaryTip,
                          PrimaryPopDone, PrimaryDone
      <3> QED
        BY <3>1, <3>2
    <2>3. Holders'
      BY <2>1, <2>2, HoldersShrink DEF SInv
    <2>4. Round'
      BY <1>2, PrimaryRound DEF SInv
    <2> QED
      BY <1>2, <2>1, <2>3, <2>4, StillParts, PrimarySources DEF SInv
  <1> QED
    BY <1>1, <1>2 DEF PrimaryStep, PrimaryOther

LEMMA ReaderSInv ==
    ASSUME SInv, TypeOK, [Next]_vars, NEW c \in Conn, ReaderStep(c)
    PROVE  SInv'
  <1>0. /\ handler \in [Conn -> Reader]
        /\ account \in [Address -> AccountInfo \cup {NoAccount}]
        /\ \A d \in Conn : Finishing(d) => handler[d].task.address \in Address
    BY DEF TypeOK, Finishing, Task
  <1>1. /\ UNCHANGED <<primary, job, sent, overtaken>>
        /\ \A d \in Conn : handler'[d].task \in {handler[d].task, NoTask}
    <2>1. UNCHANGED <<primary, job, sent, overtaken>>
      BY DEF ReaderStep, UpdateAccount, CloneAccount, RemoveAccount, Submit,
             ForgetTask, history
    <2>2. \A d \in Conn : handler'[d].task \in {handler[d].task, NoTask}
      BY <1>0 DEF ReaderStep, UpdateAccount, CloneAccount, RemoveAccount,
                  Submit, ForgetTask, Reader
    <2> QED
      BY <2>1, <2>2
  <1>2. Holders'
    BY <1>1, HoldersShrink DEF SInv
  <1>3. \A d \in Conn \ {c} : handler'[d] = handler[d]
    BY <1>0 DEF ReaderStep, UpdateAccount, CloneAccount, RemoveAccount, Submit,
                ForgetTask
  <1>4. CASE UpdateAccount(c)
    <2>2. Round'
      BY <1>1, StillRound
    <2>3. handler'[c].pc \in {"clone", "forget"}
      BY <1>0, <1>4 DEF UpdateAccount, Reader
    <2>4. CompleteUnlessOvertaken'
      BY <1>1, <1>3, <2>3, CompleteKept DEF SInv, Finished
    <2> QED
      BY <1>2, <1>4, <2>2, <2>4, UpdateSources, UpdateTally, UpdateFinishers
      DEF SInv
  <1>5. CASE CloneAccount(c) \/ Submit(c) \/ ForgetTask(c)
    <2>1. UNCHANGED <<account, counted>>
      BY <1>5 DEF CloneAccount, Submit, ForgetTask, history
    <2>2. SoleSources' /\ Owned'
      <3>1. \A a, h : Keeps(a, h)
        BY ReaderKeeps
      <3> QED
        BY <1>1, <2>1, <3>1, SourcesKept DEF SInv
    <2>3. Tally' /\ RemainingIsUncounted' /\ Round'
      BY <1>1, <2>1, TallyKept, StillRound DEF SInv
    <2>4. Finishing(c)' => Finishing(c) /\ handler'[c].task = handler[c].task
      BY <1>0, <1>5
      DEF CloneAccount, Submit, ForgetTask, Finishing, Reader
    <2>5. Finishers'
      BY <1>1, <1>3, <2>1, <2>4, FinishersKept DEF SInv, Finishing
    <2>6. CompleteUnlessOvertaken'
      <3>1. CASE CloneAccount(c)
        BY <3>1, CloneCompletes
      <3>2. CASE Submit(c) \/ ForgetTask(c)
        <4>1. handler'[c].pc \in {"remove", "submit"} =>
                  /\ handler[c].pc = "submit"
                  /\ handler'[c].task = handler[c].task
                  /\ handler'[c].msg = handler[c].msg
          BY <1>0, <3>2 DEF Submit, ForgetTask, Reader
        <4> QED
          BY <1>1, <1>3, <4>1, CompleteKept DEF SInv, Finished
      <3> QED
        BY <1>5, <3>1, <3>2
    <2> QED
      BY <1>2, <2>2, <2>3, <2>5, <2>6 DEF SInv
  <1>6. CASE RemoveAccount(c)
    <2> PICK b : b = handler[c].task.address
      OBVIOUS
    <2>1. /\ UNCHANGED counted
          /\ handler'[c].pc = "submit" /\ handler[c].pc = "remove"
          /\ handler'[c].task = handler[c].task /\ handler'[c].msg = handler[c].msg
          /\ \A a \in Address : \/ account'[a] = account[a] /\ a # b
                                \/ a = b /\ ~ Scanning(a)'
      BY <1>0, <1>6 DEF RemoveAccount, Scanning, Reader, history
    <2>2. Round'
      BY <1>1, StillRound
    <2>3. Tally' /\ RemainingIsUncounted'
      BY <1>1, <2>1 DEF SInv, Tally, RemainingIsUncounted, Scanning, ScanRange
    <2>4. CompleteUnlessOvertaken'
      BY <1>1, <1>3, <2>1, CompleteKept DEF SInv, Finished
    <2>5. Finishers'
      <3>1. ASSUME NEW d \in Conn, Finishing(d)',
                   NEW a, a = handler'[d].task.address, a \notin overtaken
            PROVE  /\ Scanning(a)' /\ ScanRange(a)' \subseteq counted'[a]
                   /\ \A e \in Conn : Finishing(e)' /\ handler'[e].task.address = a
                                         => e = d
        <4>1. d # c /\ Finishing(d) /\ a = handler[d].task.address /\ a \in Address
          BY <1>0, <1>3, <2>1, <3>1 DEF Finishing
        <4>2. /\ Scanning(a) /\ ScanRange(a) \subseteq counted[a]
              /\ \A e \in Conn : Finishing(e) /\ handler[e].task.address = a => e = d
          BY <3>1, <4>1 DEF SInv, Finishers
        <4>3. a # b
          BY <2>1, <4>1, <4>2 DEF Finishing
        <4>4. \A e \in Conn : Finishing(e)' => e # c /\ handler'[e] = handler[e]
          BY <1>3, <2>1 DEF Finishing
        <4> QED
          BY <2>1, <4>1, <4>2, <4>3, <4>4 DEF Scanning, ScanRange, Finishing
      <3> QED
        BY <1>1, <3>1 DEF Finishers
    <2> QED
      BY <1>2, <1>6, <2>2, <2>3, <2>4, <2>5, RemoveSources DEF SInv
  <1> QED
    BY <1>4, <1>5, <1>6 DEF ReaderStep

LEMMA InitSInv == Init => SInv
  <1> SUFFICES ASSUME Init PROVE SInv
    OBVIOUS
  <1>1. \A a \in Address : ~ Scanning(a)
    BY DEF Init, Scanning
  <1>2. \A a, h, k, x : ~ Source(k, x, a, h)
    BY DEF Init, Source, Ahead, IdleJob, Scheduler
  <1>3. /\ Answered = {} /\ sent = {} /\ Finished = {}
        /\ \A c \in Conn : ~ Finishing(c) /\ handler[c].task = NoTask
        /\ \A p \in Scheduler : job[p].sending = {} /\ job[p].accounts = {}
    BY DEF Init, Answered, Finished, Finishing, IdleJob
  <1>5. SoleSources /\ Owned /\ Tally /\ RemainingIsUncounted
    BY <1>1, <1>2 DEF SoleSources, Owned, Tally, RemainingIsUncounted
  <1>6. Round /\ Finishers /\ Holders /\ CompleteUnlessOvertaken
    BY <1>3
    DEF Round, Finishers, Holders, CompleteUnlessOvertaken, Scheduler
  <1> QED
    BY <1>5, <1>6 DEF SInv

LEMMA NextSInv == IInv /\ SInv /\ [Next]_vars => SInv'
  <1> SUFFICES ASSUME IInv, SInv, [Next]_vars PROVE SInv'
    OBVIOUS
  <1>0. TypeOK /\ FreshIssue /\ RoundEnd
    BY DEF IInv
  <1>1. CASE UNCHANGED vars
    BY <1>0, <1>1, RestSInv DEF vars, history
  <1>2. CASE \/ \E k \in Client : \E req \in ScanRequest : ScanAccount(k, req)
             \/ \E k \in Client : PushAccount(k)
             \/ \E t \in sent : Lose(t)
    BY <1>0, <1>2, RestSInv DEF ScanAccount, PushAccount, Lose, history
  <1> QED
    BY <1>0, <1>1, <1>2, ReceiveSInv, ReaderSInv, ScheduleSInv, SecondarySInv,
       PrimarySInv
    DEF Next

LEMMA Invariants == Spec => [](IInv /\ SInv)
  <1>1. Init => IInv /\ SInv
    BY InitIInv, InitSInv
  <1>2. IInv /\ SInv /\ [Next]_vars => (IInv /\ SInv)'
    BY NextIInv, NextSInv
  <1> QED
    BY <1>1, <1>2, PTL DEF Spec

\* remaining_task is the number of blocks not counted, and never wraps, for an
\* account none of whose tasks was taken after its answer was counted.
THEOREM CounterIsExact == Spec => []RemainingIsUncounted
  <1>1. SInv => RemainingIsUncounted
    BY DEF SInv
  <1> QED
    BY <1>1, Invariants, PTL

\* Everything that is submitted as a complete scan is complete, for any number
\* of workers, accounts, losses and late answers, with that one exception.
THEOREM CompleteScans == Spec => []CompleteUnlessOvertaken
  <1>1. SInv => CompleteUnlessOvertaken
    BY DEF SInv
  <1> QED
    BY <1>1, Invariants, PTL

\* OneFinisher with the same exception: one reader finishes an account, which
\* stays in the map until then, and no block of it is left over.
THEOREM FinishersAlone == Spec => []Finishers
  <1>1. SInv => Finishers
    BY DEF SInv
  <1> QED
    BY <1>1, Invariants, PTL

\* Every request is in one place: at a scheduler, under way or at a reader.
THEOREM RequestsInOnePlace == Spec => []Holders
  <1>1. SInv => Holders
    BY DEF SInv
  <1> QED
    BY <1>1, Invariants, PTL

----------------------------------------------------------------------------
(* Claims.                                                                 *)
(*                                                                         *)
(* With a task taken after its answer was counted a block can be counted   *)
(* twice, so that remaining_task reaches zero early, and then passes below *)
(* it.  How far is bounded: each answer that is still to come is a claim   *)
(* on the counter, a claim is only added by a task that is found expired   *)
(* before it is answered, and late counts those.                           *)

\* An unsigned integer that holds MaxHeight and MaxLate, as 64 bits do.
WordHoldsLate == MaxLate \in Nat /\ Word > MaxHeight + MaxLate

\* The blocks of account a that the primary task has not cut out of its span
\* or that are in its call of scheduling_tasks.
Passes(a, h) ==
    \/ /\ a \in primary.accounts
       /\ \/ primary.pc = "pop"
          \/ primary.pc \in {"fetch", "dead"} /\ primary.next <= h
    \/ a \in job["primary"].accounts /\ h \in job["primary"].blocks

\* The blocks of account a that are on the way to a task in scheduler p.
Waiting(p, a) ==
    {h \in Height :
        \/ <<a, h>> \in job[p].todo
        \/ p = "primary" /\ Scanning(a) /\ h \in ScanRange(a) /\ Passes(a, h)
        \/ p = "secondary" /\ a \in job[p].accounts /\ h \in job[p].blocks}

Place == {"live", "early", "removed", "listed", "dropped"} \cup Scheduler

\* What may still be counted for account a: a live task, one that the
\* secondary task has taken, a block on its way to a task, or one that will
\* never be counted because it was dropped.  A task that was found expired
\* while a reader or a worker had it may be counted once more.
Claim(k, x, a) ==
    \/ k = "live" /\ x \in taskMap \ Handled /\ x.address = a
    \/ /\ k = "early" /\ x \in secondary.keys \cap taskMap \cap Outstanding
       /\ x.address = a
    \/ k = "removed" /\ x \in secondary.removed /\ x.address = a
    \/ k = "listed" /\ x \in secondary.list /\ x.address = a
    \/ k = "dropped" /\ <<a, x>> \in dropped
    \/ k \in Scheduler /\ x \in Waiting(k, a)

Claims(a) == {w \in Place \X (Task \cup Height) : Claim(w[1], w[2], a)}

\* remaining_task as a number that may be negative.
Left(a) == IF account[a].remaining <= MaxHeight THEN account[a].remaining
                                                ELSE account[a].remaining - Word

Paid(a) ==
    IsFiniteSet(Claims(a)) /\ Cardinality(Claims(a)) <= Left(a) + late

\* A uuid in the map or on the list of expired keys has been drawn.
TasksAreDrawn ==
    \A t \in taskMap \cup secondary.keys :
        t.nonce <= issued[t.address][t.sequence]

\* The primary task calls scheduling_tasks in one place, for blocks that it
\* has cut out of its span; the account of a pair to issue has left the call.
CallsInOrder ==
    /\ \A p \in Scheduler : \A w \in job[p].todo : w[1] \notin job[p].accounts
    /\ job["primary"].accounts # {} \/ job["primary"].todo # {} =>
           primary.pc = "fetch"
    /\ job["primary"].accounts # {} =>
           \A h \in job["primary"].blocks : h < primary.next
    /\ \A w \in job["primary"].todo : w[2] < primary.next

\* Nothing is scanned when a round begins.
TipIsQuiet == primary.pc = "tip" => \A a \in Address : ~ Scanning(a)

\* The reader that finishes an account is alone, and remaining_task is not
\* above zero any more.
FinishersOwe ==
    /\ OneFinisher
    /\ \A c \in Conn, a \in Address :
           Finishing(c) /\ handler[c].task.address = a => Left(a) <= 0

CInv ==
    /\ TasksAreDrawn /\ CallsInOrder /\ TipIsQuiet
    /\ late <= MaxLate
    /\ \A a \in Address : Paid(a)
    /\ FinishersOwe

----------------------------------------------------------------------------
(* Counting claims.                                                        *)

\* A claim is a member of Claims.
LEMMA ClaimIn ==
    ASSUME TypeOK, NEW a \in Address, NEW k, NEW x, Claim(k, x, a)
    PROVE  <<k, x>> \in Claims(a)
  <1>1. k \in Place
    BY DEF Claim, Place
  <1>2. x \in Task \cup Height
    BY DEF Claim, TypeOK, SecondaryTask, Waiting
  <1> QED
    BY <1>1, <1>2 DEF Claims

\* The claims are kept, or some are lost.
Holds(a) == \A k, x : Claim(k, x, a)' => Claim(k, x, a)

\* One is lost.
Spends(k0, x0, a) ==
    /\ Claim(k0, x0, a)
    /\ \A k, x : Claim(k, x, a)' => Claim(k, x, a) /\ ~ (k = k0 /\ x = x0)

\* One is lost and another one won.
Swaps(k0, x0, k1, x1, a) ==
    /\ Claim(k0, x0, a)
    /\ \A k, x : Claim(k, x, a)' =>
           \/ Claim(k, x, a) /\ ~ (k = k0 /\ x = x0)
           \/ k = k1 /\ x = x1

\* The claims of blocks H before the primary task become claims of blocks that
\* were given up.
GivesUp(H, a) ==
    /\ \A h \in H : Claim("primary", h, a)
    /\ \A k, x : Claim(k, x, a)' =>
           \/ Claim(k, x, a) /\ ~ (k = "primary" /\ x \in H)
           \/ k = "dropped" /\ x \in H

Trades(a) ==
    \/ Holds(a)
    \/ \E k0, x0, k1, x1 : Swaps(k0, x0, k1, x1, a)
    \/ \E H : GivesUp(H, a)

\* What the claims are after a step.
LEMMA NewClaims ==
    ASSUME TypeOK, NEW a \in Address, NEW w, w \in Claims(a)'
    PROVE  w = <<w[1], w[2]>> /\ Claim(w[1], w[2], a)'
  BY DEF Claims

\* A claim that is lost is one less.
LEMMA SpentCount ==
    ASSUME TypeOK, NEW a \in Address, IsFiniteSet(Claims(a)),
           NEW k0, NEW x0, Spends(k0, x0, a)
    PROVE  /\ IsFiniteSet(Claims(a)') /\ Cardinality(Claims(a)') \in Nat
           /\ Cardinality(Claims(a)') <= Cardinality(Claims(a)) - 1
  <1>1. <<k0, x0>> \in Claims(a)
    BY ClaimIn DEF Spends
  <1>2. Claims(a)' \subseteq Claims(a) \ {<<k0, x0>>}
    <2>1. SUFFICES ASSUME NEW w \in Claims(a)'
                   PROVE  w \in Claims(a) /\ w # <<k0, x0>>
      OBVIOUS
    <2>2. w = <<w[1], w[2]>> /\ Claim(w[1], w[2], a)'
      BY NewClaims
    <2>3. Claim(w[1], w[2], a) /\ ~ (w[1] = k0 /\ w[2] = x0)
      BY <2>2 DEF Spends
    <2>4. <<w[1], w[2]>> \in Claims(a)
      BY <2>3, ClaimIn
    <2>5. w # <<k0, x0>>
      BY <2>3
    <2> QED
      BY <2>2, <2>4, <2>5
  <1> DEFINE S == Claims(a) \ {<<k0, x0>>}
  <1>3. IsFiniteSet(S) /\ Cardinality(S) = Cardinality(Claims(a)) - 1
    BY <1>1, FS_RemoveElement
  <1> HIDE DEF S
  <1>4. Claims(a)' \in SUBSET S
    BY <1>2 DEF S
  <1>5. IsFiniteSet(Claims(a)') /\ Cardinality(Claims(a)') <= Cardinality(S)
    BY <1>3, <1>4, FS_Subset
  <1>6. Cardinality(Claims(a)') \in Nat
    BY <1>5, FS_CardinalityType
  <1> QED
    BY <1>3, <1>5, <1>6

\* Claims that are added to are at most the old ones and those added.
LEMMA AddedCount ==
    ASSUME TypeOK, NEW a \in Address, IsFiniteSet(Claims(a)),
           NEW E, IsFiniteSet(E),
           \A k, x : Claim(k, x, a)' => Claim(k, x, a) \/ <<k, x>> \in E
    PROVE  /\ IsFiniteSet(Claims(a)') /\ Cardinality(Claims(a)') \in Nat
           /\ Cardinality(Claims(a)') <= Cardinality(Claims(a)) + Cardinality(E)
  <1>1. Claims(a)' \subseteq Claims(a) \cup E
    <2>1. SUFFICES ASSUME NEW w \in Claims(a)'
                   PROVE  w \in Claims(a) \/ w \in E
      OBVIOUS
    <2>2. w = <<w[1], w[2]>> /\ Claim(w[1], w[2], a)'
      BY NewClaims
    <2>3. Claim(w[1], w[2], a) \/ <<w[1], w[2]>> \in E
      BY <2>2
    <2> QED
      BY <2>2, <2>3, ClaimIn
  <1> DEFINE S == Claims(a) \cup E
  <1>2. /\ IsFiniteSet(S)
        /\ Cardinality(S) = Cardinality(Claims(a)) + Cardinality(E)
                                - Cardinality(Claims(a) \cap E)
    BY FS_Union
  <1>3. IsFiniteSet(Claims(a) \cap E)
    BY FS_Intersection
  <1>4. /\ Cardinality(Claims(a)) \in Nat /\ Cardinality(E) \in Nat
        /\ Cardinality(Claims(a) \cap E) \in Nat
    BY <1>3, FS_CardinalityType
  <1> HIDE DEF S
  <1>5. Claims(a)' \in SUBSET S
    BY <1>1 DEF S
  <1>6. IsFiniteSet(Claims(a)') /\ Cardinality(Claims(a)') <= Cardinality(S)
    BY <1>2, <1>5, FS_Subset
  <1>7. Cardinality(Claims(a)') \in Nat
    BY <1>6, FS_CardinalityType
  <1> QED
    BY <1>2, <1>4, <1>6, <1>7

\* Claims of blocks that are given up replace as many others.
LEMMA GivenUpCount ==
    ASSUME TypeOK, NEW a \in Address, IsFiniteSet(Claims(a)),
           NEW H, GivesUp(H, a)
    PROVE  /\ IsFiniteSet(Claims(a)') /\ Cardinality(Claims(a)') \in Nat
           /\ Cardinality(Claims(a)') <= Cardinality(Claims(a))
  <1> DEFINE P == {<<"primary", h>> : h \in H}
             D == {<<"dropped", h>> : h \in H}
             f == [w \in P |-> <<"dropped", w[2]>>]
             R == Claims(a) \ P
             S == R \cup D
  <1>1. P \in SUBSET Claims(a)
    <2>1. ASSUME NEW h \in H PROVE <<"primary", h>> \in Claims(a)
      BY <2>1, ClaimIn DEF GivesUp
    <2> QED
      BY <2>1
  <1>2. IsFiniteSet(P)
    BY <1>1, FS_Subset
  <1>3. f \in Surjection(P, D)
    <2>1. f \in [P -> D]
      OBVIOUS
    <2>2. ASSUME NEW d \in D PROVE \E w \in P : f[w] = d
      <3>1. PICK h \in H : d = <<"dropped", h>>
        OBVIOUS
      <3>2. <<"primary", h>> \in P /\ f[<<"primary", h>>] = d
        BY <3>1
      <3> QED
        BY <3>2
    <2> QED
      BY <2>1, <2>2 DEF Surjection
  <1>4. Claims(a)' \subseteq S
    <2>1. SUFFICES ASSUME NEW w \in Claims(a)' PROVE w \in R \/ w \in D
      OBVIOUS
    <2>2. w = <<w[1], w[2]>> /\ Claim(w[1], w[2], a)'
      BY NewClaims
    <2>3. CASE Claim(w[1], w[2], a) /\ ~ (w[1] = "primary" /\ w[2] \in H)
      <3>1. <<w[1], w[2]>> \in Claims(a)
        BY <2>3, ClaimIn
      <3>2. w \notin P
        BY <2>3
      <3> QED
        BY <2>2, <3>1, <3>2
    <2>4. CASE w[1] = "dropped" /\ w[2] \in H
      BY <2>2, <2>4
    <2> QED
      BY <2>2, <2>3, <2>4 DEF GivesUp
  <1> HIDE DEF P, D, f
  <1>5. IsFiniteSet(D) /\ Cardinality(D) <= Cardinality(P)
    BY <1>2, <1>3, FS_Surjection
  <1>6. /\ IsFiniteSet(R)
        /\ Cardinality(R) = Cardinality(Claims(a)) - Cardinality(Claims(a) \cap P)
    BY FS_Difference
  <1>7. Claims(a) \cap P = P
    BY <1>1
  <1> HIDE DEF R
  <1>8. /\ IsFiniteSet(S)
        /\ Cardinality(S) = Cardinality(R) + Cardinality(D) - Cardinality(R \cap D)
    BY <1>5, <1>6, FS_Union
  <1>9. IsFiniteSet(R \cap D)
    BY <1>6, FS_Intersection
  <1>10. /\ Cardinality(R) \in Nat /\ Cardinality(D) \in Nat
         /\ Cardinality(P) \in Nat /\ Cardinality(R \cap D) \in Nat
         /\ Cardinality(Claims(a)) \in Nat
    BY <1>2, <1>5, <1>6, <1>9, FS_CardinalityType
  <1> HIDE DEF S
  <1>11. Claims(a)' \in SUBSET S
    BY <1>4
  <1>12. IsFiniteSet(Claims(a)') /\ Cardinality(Claims(a)') <= Cardinality(S)
    BY <1>8, <1>11, FS_Subset
  <1>13. Cardinality(Claims(a)') \in Nat
    BY <1>12, FS_CardinalityType
  <1>14. Cardinality(R) = Cardinality(Claims(a)) - Cardinality(P)
    BY <1>6, <1>7
  <1>15. Cardinality(S) \in Nat /\ Cardinality(S) <= Cardinality(Claims(a))
    BY <1>5, <1>8, <1>10, <1>14, FS_CardinalityType
  <1> QED
    BY <1>10, <1>12, <1>13, <1>15

\* A trade adds none.
LEMMA TradesCount ==
    ASSUME TypeOK, NEW a \in Address, IsFiniteSet(Claims(a)), Trades(a)
    PROVE  /\ IsFiniteSet(Claims(a)') /\ Cardinality(Claims(a)') \in Nat
           /\ Cardinality(Claims(a)') <= Cardinality(Claims(a))
  <1>0. Cardinality(Claims(a)) \in Nat
    BY FS_CardinalityType
  <1>1. CASE Holds(a)
    <2>1. IsFiniteSet({}) /\ Cardinality({}) = 0
      BY FS_EmptySet
    <2>2. \A k, x : Claim(k, x, a)' => Claim(k, x, a) \/ <<k, x>> \in {}
      BY <1>1 DEF Holds
    <2> QED
      BY <1>0, <2>1, <2>2, AddedCount
  <1>2. ASSUME NEW k0, NEW x0, NEW k1, NEW x1, Swaps(k0, x0, k1, x1, a)
        PROVE  /\ IsFiniteSet(Claims(a)') /\ Cardinality(Claims(a)') \in Nat
               /\ Cardinality(Claims(a)') <= Cardinality(Claims(a))
    <2> DEFINE R == Claims(a) \ {<<k0, x0>>}
               S == R \cup {<<k1, x1>>}
    <2>1. <<k0, x0>> \in Claims(a)
      BY <1>2, ClaimIn DEF Swaps
    <2>2. IsFiniteSet(R) /\ Cardinality(R) = Cardinality(Claims(a)) - 1
      BY <2>1, FS_RemoveElement
    <2>3. /\ Claims(a)' \subseteq S
      <3>1. SUFFICES ASSUME NEW w \in Claims(a)' PROVE w \in S
        OBVIOUS
      <3>2. w = <<w[1], w[2]>> /\ Claim(w[1], w[2], a)'
        BY NewClaims
      <3>3. \/ Claim(w[1], w[2], a) /\ ~ (w[1] = k0 /\ w[2] = x0)
            \/ w[1] = k1 /\ w[2] = x1
        BY <1>2, <3>2 DEF Swaps
      <3>4. CASE Claim(w[1], w[2], a) /\ ~ (w[1] = k0 /\ w[2] = x0)
        <4>1. <<w[1], w[2]>> \in Claims(a)
          BY <3>4, ClaimIn
        <4>2. w # <<k0, x0>>
          BY <3>4
        <4> QED
          BY <3>2, <4>1, <4>2
      <3>5. CASE w[1] = k1 /\ w[2] = x1
        BY <3>2, <3>5
      <3> QED
        BY <3>3, <3>4, <3>5
    <2> HIDE DEF R
    <2>4. /\ IsFiniteSet(S)
          /\ Cardinality(S) = IF <<k1, x1>> \in R THEN Cardinality(R)
                                                  ELSE Cardinality(R) + 1
      BY <2>2, FS_AddElement
    <2> HIDE DEF S
    <2>5. Claims(a)' \in SUBSET S
      BY <2>3
    <2>6. IsFiniteSet(Claims(a)') /\ Cardinality(Claims(a)') <= Cardinality(S)
      BY <2>4, <2>5, FS_Subset
    <2>7. Cardinality(Claims(a)') \in Nat
      BY <2>6, FS_CardinalityType
    <2>8. Cardinality(S) <= Cardinality(Claims(a))
      BY <1>0, <2>2, <2>4
    <2>9. Cardinality(S) \in Nat
      BY <2>4, FS_CardinalityType
    <2> QED
      BY <1>0, <2>6, <2>7, <2>8, <2>9
  <1> QED
    BY <1>1, <1>2, GivenUpCount DEF Trades

\* Left is an integer: remaining_task read as one with a sign.
LEMMA LeftType ==
    ASSUME TypeOK, NEW a \in Address
    PROVE  Left(a) \in Int /\ account[a].remaining \in 0 .. Word - 1
  <1>1. account[a] \in AccountInfo \cup {NoAccount}
    BY DEF TypeOK
  <1>2. account[a].remaining \in 0 .. Word - 1
    BY <1>1, ScanAssumption DEF AccountInfo, NoAccount, ScanAssumption
  <1> QED
    BY <1>2, ScanAssumption DEF Left, ScanAssumption

\* What is paid stays so when no claim is added.
LEMMA TradesPaid ==
    ASSUME TypeOK, TypeOK', NEW a \in Address, Paid(a), Trades(a),
           Left(a) <= Left(a)', late <= late'
    PROVE  Paid(a)'
  <1>1. /\ IsFiniteSet(Claims(a)') /\ Cardinality(Claims(a)') \in Nat
        /\ Cardinality(Claims(a)') <= Cardinality(Claims(a))
    BY TradesCount DEF Paid
  <1>2. /\ Cardinality(Claims(a)) \in Nat
        /\ Cardinality(Claims(a)) <= Left(a) + late
    BY FS_CardinalityType DEF Paid
  <1>3. Left(a) \in Int /\ late \in Nat /\ late' \in Nat
    BY LeftType DEF TypeOK
  <1>4. Left(a)' \in Int
    <2>1. account'[a] \in AccountInfo \cup {NoAccount}
      BY DEF TypeOK
    <2>2. account'[a].remaining \in 0 .. Word - 1
      BY <2>1, ScanAssumption DEF AccountInfo, NoAccount, ScanAssumption
    <2> QED
      BY <2>2, ScanAssumption DEF Left, ScanAssumption
  <1> QED
    BY <1>1, <1>2, <1>3, <1>4 DEF Paid

----------------------------------------------------------------------------
(* Claims from step to step.                                               *)

\* No claim is won by a step that takes tasks and waiting blocks away at most.
LEMMA HoldsWhen ==
    ASSUME (taskMap \ Handled)' \subseteq taskMap \ Handled,
           taskMap' \subseteq taskMap, Outstanding' \subseteq Outstanding,
           UNCHANGED <<secondary, dropped>>,
           NEW a, \A p \in Scheduler : Waiting(p, a)' \subseteq Waiting(p, a)
    PROVE  Holds(a)
  BY DEF Holds, Claim

\* No block starts to wait when no scan starts and the calls only shrink.
LEMMA WaitingKept ==
    ASSUME UNCHANGED primary, NEW a, account'[a] = account[a] \/ ~ Scanning(a)',
           NEW p \in Scheduler,
           \A q \in Scheduler : /\ job'[q].accounts \subseteq job[q].accounts
                                /\ job'[q].blocks = job[q].blocks
                                /\ job'[q].todo \subseteq job[q].todo
    PROVE  Waiting(p, a)' \subseteq Waiting(p, a)
  <1>1. \A h : Passes(a, h)' => Passes(a, h)
    BY DEF Passes, Scheduler
  <1>2. Scanning(a)' => Scanning(a) /\ ScanRange(a)' = ScanRange(a)
    BY DEF Scanning, ScanRange
  <1> QED
    BY <1>1, <1>2 DEF Waiting

\* Requests, losses and receipts.
LEMMA RestTrades ==
    ASSUME UNCHANGED <<account, taskMap, primary, secondary, job, dropped>>,
           Handled \subseteq Handled', Outstanding' \subseteq Outstanding, NEW a
    PROVE  Trades(a)
  <1>1. \A p \in Scheduler : Waiting(p, a)' \subseteq Waiting(p, a)
    BY WaitingKept
  <1> QED
    BY <1>1, HoldsWhen DEF Trades

\* A worker's answer that arrives changes no claim.
LEMMA ReceiveTrades ==
    ASSUME TypeOK, NEW c \in Conn, NEW t \in sent, Receive(c, t), NEW a
    PROVE  Trades(a)
  <1>1. handler \in [Conn -> Reader]
    BY DEF TypeOK
  <1>2. Handled \subseteq Handled'
    BY <1>1, HandledGrows DEF Receive, Late
  <1>3. Answered' \subseteq Answered \cup {t}
    <2>1. \A d \in Conn : handler'[d].task \in {handler[d].task, t}
      BY <1>1 DEF Receive
    <2> QED
      BY <2>1 DEF Answered
  <1>4. Outstanding' \subseteq Outstanding
    BY <1>3 DEF Receive, Outstanding
  <1> QED
    BY <1>2, <1>4, RestTrades DEF Receive, history

\* The scan of a keeps its range or ends.
KeepsOrEnds(a) ==
    \/ account'[a] = account[a]
    \/ ~ Scanning(a)'
    \/ Scanning(a) /\ Scanning(a)' /\ ScanRange(a)' = ScanRange(a)

\* A reader deals with a task or forgets one: claims go, none comes.
LEMMA ReaderTrades ==
    ASSUME TypeOK, NEW c \in Conn, ReaderStep(c), NEW a \in Address,
           KeepsOrEnds(a)
    PROVE  Holds(a)
  <1>0. handler \in [Conn -> Reader]
    BY DEF TypeOK
  <1>1. UNCHANGED <<primary, secondary, job, sent, dropped>>
    BY DEF ReaderStep, UpdateAccount, CloneAccount, RemoveAccount, Submit,
           ForgetTask, history
  <1>2. Answered' \subseteq Answered
    <2>1. \A d \in Conn : handler'[d].task \in {handler[d].task, NoTask}
      BY <1>0 DEF ReaderStep, UpdateAccount, CloneAccount, RemoveAccount,
                  Submit, ForgetTask, Reader
    <2> QED
      BY <2>1 DEF Answered
  <1>3. Outstanding' \subseteq Outstanding
    BY <1>1, <1>2 DEF Outstanding
  <1>4. taskMap' \subseteq taskMap
    BY DEF ReaderStep, UpdateAccount, CloneAccount, RemoveAccount, Submit,
           ForgetTask
  <1>5. (taskMap \ Handled)' \subseteq taskMap \ Handled
    <2>2. ASSUME NEW t \in (taskMap \ Handled)' PROVE t \in taskMap \ Handled
      <3>1. Keeps(t.address, t.sequence)
        BY ReaderKeeps
      <3>2. Source("live", t, t.address, t.sequence)'
        BY <2>2 DEF Source, Names
      <3>3. Source("live", t, t.address, t.sequence)
        BY <3>1, <3>2 DEF Keeps
      <3> QED
        BY <3>3 DEF Source
    <2> QED
      BY <2>2
  <1>6. \A p \in Scheduler : Waiting(p, a)' \subseteq Waiting(p, a)
    <2>1. \A h : Passes(a, h)' <=> Passes(a, h)
      BY <1>1 DEF Passes
    <2>2. Scanning(a)' => Scanning(a) /\ ScanRange(a)' = ScanRange(a)
      BY DEF KeepsOrEnds, Scanning, ScanRange
    <2> QED
      BY <1>1, <2>1, <2>2 DEF Waiting
  <1> QED
    BY <1>1, <1>3, <1>4, <1>5, <1>6, HoldsWhen

\* scheduling_tasks: a block in the call becomes a pair, a pair a task.
LEMMA ScheduleTrades ==
    ASSUME TypeOK, FreshIssue, TasksAreDrawn, CallsInOrder,
           NEW p \in Scheduler, ScheduleStep(p), NEW a \in Address
    PROVE  Trades(a)
  <1>0. job \in [Scheduler -> Job] /\ job[p] \in Job
    BY DEF TypeOK
  <1>1. UNCHANGED <<account, handler, primary, secondary, dropped>>
    BY DEF ScheduleStep, ScheduleAccount, CreateTask, Dispatch, history
  <1>2. Handled' = Handled /\ Answered' = Answered
    BY <1>1 DEF Handled, Answered
  <1>3. CASE ScheduleAccount(p)
    <2>1. PICK b \in job[p].accounts :
            job' = [job EXCEPT
                   ![p].accounts = @ \ {b},
                   ![p].todo = IF Scanning(b)
                                 THEN {b} \X (job[p].blocks \cap ScanRange(b))
                                 ELSE {}]
      BY <1>3 DEF ScheduleAccount
    <2> DEFINE pairs == IF Scanning(b)
                          THEN {b} \X (job[p].blocks \cap ScanRange(b)) ELSE {}
    <2>2. /\ job'[p].accounts = job[p].accounts \ {b}
          /\ job'[p].blocks = job[p].blocks
          /\ job'[p].todo = pairs
          /\ job'[p].sending = job[p].sending
          /\ \A q \in Scheduler \ {p} : job'[q] = job[q]
      BY <1>0, <2>1 DEF Job
    <2>3. \A h : <<a, h>> \in pairs =>
              a = b /\ Scanning(a) /\ h \in job[p].blocks \cap ScanRange(a)
      OBVIOUS
    <2> HIDE DEF pairs
    <2>4. \A q \in Scheduler : Waiting(q, a)' \subseteq Waiting(q, a)
      <3>1. Scanning(a)' = Scanning(a) /\ ScanRange(a)' = ScanRange(a)
        BY <1>1 DEF Scanning, ScanRange
      <3>2. \A h : Passes(a, h)' => Passes(a, h)
        BY <1>1, <2>2 DEF Passes, Scheduler
      <3>3. ASSUME NEW h, <<a, h>> \in pairs, h \in Height
            PROVE  h \in Waiting(p, a)
        <4>1. a \in job[p].accounts /\ h \in job[p].blocks /\ Scanning(a)
              /\ h \in ScanRange(a)
          BY <2>3, <3>3
        <4> QED
          BY <3>3, <4>1 DEF Waiting, Passes, Scheduler
      <3>4. Waiting(p, a)' \subseteq Waiting(p, a)
        BY <2>2, <3>1, <3>2, <3>3 DEF Waiting
      <3>5. \A q \in Scheduler \ {p} : Waiting(q, a)' \subseteq Waiting(q, a)
        BY <2>2, <3>1, <3>2 DEF Waiting
      <3> QED
        BY <3>4, <3>5
    <2>5. UNCHANGED <<taskMap, sent>>
      BY <1>3 DEF ScheduleAccount
    <2>6. Outstanding' = Outstanding
      BY <1>2, <2>2, <2>5 DEF Outstanding, Scheduler
    <2> QED
      BY <1>1, <1>2, <2>4, <2>5, <2>6, HoldsWhen DEF Trades
  <1>4. CASE CreateTask(p)
    <2> DEFINE T(w) == [address |-> w[1], sequence |-> w[2],
                        nonce |-> issued[w[1]][w[2]] + 1]
    <2>1. PICK w \in job[p].todo :
            /\ job' = [job EXCEPT ![p].todo = @ \ {w}, ![p].sending = {T(w)}]
            /\ taskMap' = taskMap \cup {T(w)}
      BY <1>4 DEF CreateTask
    <2>2. /\ w \in Address \X Height /\ w = <<w[1], w[2]>>
          /\ w[1] \in Address /\ w[2] \in Height
          /\ issued[w[1]][w[2]] \in Nat
      BY <1>0, <2>1 DEF Job, TypeOK
    <2> PICK t : t = T(w)
      OBVIOUS
    <2>3. t \notin secondary.keys
      <3>1. SUFFICES ASSUME t \in secondary.keys PROVE FALSE
        OBVIOUS
      <3>2. t.nonce <= issued[w[1]][w[2]]
        BY <3>1 DEF TasksAreDrawn
      <3> QED
        BY <2>2, <3>2
    <2>4. t.address = w[1] /\ t.sequence = w[2]
      OBVIOUS
    <2>5. /\ job'[p].accounts = job[p].accounts
          /\ job'[p].blocks = job[p].blocks
          /\ job'[p].todo = job[p].todo \ {w}
          /\ job'[p].sending = {t}
          /\ \A q \in Scheduler \ {p} : job'[q] = job[q]
          /\ job[p].sending = {} /\ UNCHANGED sent
      BY <1>0, <1>4, <2>1 DEF Job, CreateTask
    <2>6. Outstanding' \subseteq Outstanding \cup {t}
      BY <1>2, <2>5 DEF Outstanding, Scheduler
    <2>7. taskMap' = taskMap \cup {t}
      BY <2>1
    <2>8. Scanning(a)' = Scanning(a) /\ ScanRange(a)' = ScanRange(a)
      BY <1>1 DEF Scanning, ScanRange
    <2>9. \A h : Passes(a, h)' => Passes(a, h)
      BY <1>1, <2>5 DEF Passes, Scheduler
    <2>10. \A q \in Scheduler : Waiting(q, a)' \subseteq Waiting(q, a)
      <3>1. Waiting(p, a)' \subseteq Waiting(p, a)
        BY <2>5, <2>8, <2>9 DEF Waiting
      <3>2. \A q \in Scheduler \ {p} : Waiting(q, a)' \subseteq Waiting(q, a)
        BY <2>5, <2>8, <2>9 DEF Waiting
      <3> QED
        BY <3>1, <3>2
    <2>11. CASE a # w[1]
      <3>1. Holds(a)
        BY <1>1, <1>2, <2>3, <2>4, <2>6, <2>7, <2>10, <2>11 DEF Holds, Claim
      <3> QED
        BY <3>1 DEF Trades
    <2>12. CASE a = w[1]
      <3>1. Claim(p, w[2], a)
        BY <2>1, <2>2, <2>12 DEF Claim, Waiting
      <3>2. w[2] \notin Waiting(p, a)'
        <4>1. <<a, w[2]>> \notin job'[p].todo
          BY <2>2, <2>5, <2>12
        <4>2. a \notin job[p].accounts
          BY <2>1, <2>12 DEF CallsInOrder
        <4>3. p = "primary" => ~ Passes(a, w[2])
          <5>1. SUFFICES ASSUME p = "primary" PROVE ~ Passes(a, w[2])
            OBVIOUS
          <5>2. primary.pc = "fetch" /\ w[2] < primary.next
            BY <2>1, <5>1 DEF CallsInOrder
          <5>3. w[2] \in Nat /\ primary.next \in Nat
            BY <2>2 DEF TypeOK, PrimaryTask, Height
          <5> QED
            BY <4>2, <5>1, <5>2, <5>3 DEF Passes
        <4> QED
          BY <2>5, <2>9, <4>1, <4>2, <4>3 DEF Waiting
      <3>3. \A k, x : Claim(k, x, a)' =>
                \/ Claim(k, x, a) /\ ~ (k = p /\ x = w[2])
                \/ k = "live" /\ x = t
        <4>1. ASSUME NEW k, NEW x, Claim(k, x, a)', k \in Scheduler
              PROVE  Claim(k, x, a) /\ ~ (k = p /\ x = w[2])
          <5>1. x \in Waiting(k, a)'
            BY <4>1 DEF Claim, Scheduler
          <5> QED
            BY <2>10, <3>2, <4>1, <5>1 DEF Claim
        <4>2. ASSUME NEW k, NEW x, Claim(k, x, a)', k \notin Scheduler
              PROVE  Claim(k, x, a) \/ (k = "live" /\ x = t)
          BY <1>1, <1>2, <2>3, <2>6, <2>7, <4>2 DEF Claim
        <4> QED
          BY <4>1, <4>2
      <3>4. Swaps(p, w[2], "live", t, a)
        BY <3>1, <3>3 DEF Swaps
      <3> QED
        BY <3>4 DEF Trades
    <2> QED
      BY <2>11, <2>12
  <1>5. CASE Dispatch(p)
    <2>1. /\ job'[p].accounts = job[p].accounts
          /\ job'[p].blocks = job[p].blocks
          /\ job'[p].todo = job[p].todo
          /\ job'[p].sending = {}
          /\ \A q \in Scheduler \ {p} : job'[q] = job[q]
          /\ sent' = sent \cup job[p].sending /\ taskMap' = taskMap
      BY <1>0, <1>5 DEF Dispatch, Job
    <2>2. Outstanding' \subseteq Outstanding
      BY <1>2, <2>1 DEF Outstanding, Scheduler
    <2>3. \A q \in Scheduler : /\ job'[q].accounts \subseteq job[q].accounts
                               /\ job'[q].blocks = job[q].blocks
                               /\ job'[q].todo \subseteq job[q].todo
      BY <2>1
    <2>4. \A q \in Scheduler : Waiting(q, a)' \subseteq Waiting(q, a)
      BY <1>1, <2>3, WaitingKept
    <2> QED
      BY <1>1, <1>2, <2>1, <2>2, <2>4, HoldsWhen DEF Trades
  <1> QED
    BY <1>3, <1>4, <1>5 DEF ScheduleStep

\* The secondary task passes a claim on: from the map to the task removed, to
\* the list and to its call of scheduling_tasks.  A task that is taken after
\* its answer was counted had its claim since it was found expired.
LEMMA SecondaryTrades ==
    ASSUME TypeOK, SecondaryStep, NEW a \in Address
    PROVE  Trades(a)
  <1>0. /\ job \in [Scheduler -> Job] /\ secondary \in SecondaryTask
        /\ taskMap \subseteq Task
    BY DEF TypeOK
  <1>1. UNCHANGED <<account, handler, primary, sent>>
    BY DEF SecondaryStep, SecondaryTake, SecondaryLookup, SecondaryTaken,
           SecondarySchedule, SecondaryDone
  <1>2. Handled' = Handled /\ Answered' = Answered
    BY <1>1 DEF Handled, Answered
  <1>3. CASE SecondaryTake
    <2>1. PICK t \in secondary.keys :
            /\ taskMap' = taskMap \ {t}
            /\ secondary' = [secondary EXCEPT
                   !.keys = @ \ {t},
                   !.pc = IF t \in taskMap THEN "lookup" ELSE "take",
                   !.removed = @ \cup ({t} \cap taskMap)]
      BY <1>3 DEF SecondaryTake
    <2>2. UNCHANGED <<job, dropped>>
      BY <1>3 DEF SecondaryTake
    <2>3. /\ secondary'.keys = secondary.keys \ {t}
          /\ secondary'.removed = secondary.removed \cup ({t} \cap taskMap)
          /\ secondary'.list = secondary.list
      BY <1>0, <2>1 DEF SecondaryTask
    <2>4. Outstanding' = Outstanding
      BY <1>1, <1>2, <2>2 DEF Outstanding
    <2>5. \A p \in Scheduler : Waiting(p, a)' = Waiting(p, a)
      BY <1>1, <2>2 DEF Waiting, Passes, Scanning, ScanRange
    <2>6. CASE t \in taskMap /\ t.address = a
      <3>1. PICK k0 : /\ Claim(k0, t, a) /\ k0 \in {"live", "early"}
        <4>1. CASE t \in Handled
          <5>1. t \in Answered
            BY <1>0, <2>6, <4>1, NoTaskAssumption
            DEF Handled, Answered, NoTaskAssumption
          <5> QED
            BY <2>1, <2>6, <5>1 DEF Claim, Outstanding
        <4>2. CASE t \notin Handled
          BY <2>6, <4>2 DEF Claim
        <4> QED
          BY <4>1, <4>2
      <3>2. \A k, x : Claim(k, x, a)' =>
                \/ Claim(k, x, a) /\ ~ (k = k0 /\ x = t)
                \/ k = "removed" /\ x = t
        <4>1. ASSUME NEW k, NEW x, Claim(k, x, a)', k \in Scheduler
              PROVE  Claim(k, x, a) /\ k # k0
          BY <2>5, <3>1, <4>1 DEF Claim, Scheduler
        <4>2. ASSUME NEW k, NEW x, Claim(k, x, a)', k \notin Scheduler
              PROVE  \/ Claim(k, x, a) /\ ~ (k = k0 /\ x = t)
                     \/ k = "removed" /\ x = t
          BY <1>2, <2>1, <2>2, <2>3, <2>4, <3>1, <4>2 DEF Claim
        <4> QED
          BY <4>1, <4>2
      <3>3. Swaps(k0, t, "removed", t, a)
        BY <3>1, <3>2 DEF Swaps
      <3> QED
        BY <3>3 DEF Trades
    <2>7. CASE ~ (t \in taskMap /\ t.address = a)
      <3>1. Holds(a)
        BY <1>2, <2>1, <2>2, <2>3, <2>4, <2>5, <2>7 DEF Holds, Claim
      <3> QED
        BY <3>1 DEF Trades
    <2> QED
      BY <2>6, <2>7
  <1>4. CASE SecondaryLookup
    <2>1. UNCHANGED <<taskMap, job>>
      BY <1>4 DEF SecondaryLookup
    <2>2. Outstanding' = Outstanding
      BY <1>1, <1>2, <2>1 DEF Outstanding
    <2>3. \A p \in Scheduler : Waiting(p, a)' = Waiting(p, a)
      BY <1>1, <2>1 DEF Waiting, Passes, Scanning, ScanRange
    <2>4. PICK t \in secondary.removed :
            \/ /\ secondary' \in {[Listed(t) EXCEPT !.keys = {}], Listed(t)}
               /\ dropped' = dropped
            \/ /\ secondary' = Unlisted(t)
               /\ dropped' \in {dropped, dropped \cup {<<t.address, t.sequence>>}}
      BY <1>4 DEF SecondaryLookup
    <2>5. /\ secondary'.keys \subseteq secondary.keys
          /\ secondary'.removed = secondary.removed \ {t}
          /\ \/ /\ secondary'.list = secondary.list \cup {t}
                /\ dropped' = dropped
             \/ /\ secondary'.list = secondary.list
                /\ dropped' \subseteq dropped \cup {<<t.address, t.sequence>>}
      BY <1>0, <2>4 DEF Listed, Unlisted, SecondaryTask
    <2>6. CASE t.address # a
      <3>1. Holds(a)
        BY <1>2, <2>1, <2>2, <2>3, <2>5, <2>6 DEF Holds, Claim
      <3> QED
        BY <3>1 DEF Trades
    <2>7. CASE t.address = a
      <3>1. Claim("removed", t, a)
        BY <2>4, <2>7 DEF Claim
      <3>2. ASSUME NEW k, NEW x, Claim(k, x, a)', k \in Scheduler
            PROVE  Claim(k, x, a) /\ k # "removed"
        BY <2>3, <3>2 DEF Claim, Scheduler
      <3>3. CASE secondary'.list = secondary.list \cup {t} /\ dropped' = dropped
        <4>1. \A k, x : Claim(k, x, a)' =>
                 \/ Claim(k, x, a) /\ ~ (k = "removed" /\ x = t)
                 \/ k = "listed" /\ x = t
          <5>1. ASSUME NEW k, NEW x, Claim(k, x, a)', k \notin Scheduler
                PROVE  \/ Claim(k, x, a) /\ ~ (k = "removed" /\ x = t)
                       \/ k = "listed" /\ x = t
            BY <1>2, <2>1, <2>2, <2>5, <3>3, <5>1 DEF Claim
          <5> QED
            BY <3>2, <5>1
        <4>2. Swaps("removed", t, "listed", t, a)
          BY <3>1, <4>1 DEF Swaps
        <4> QED
          BY <4>2 DEF Trades
      <3>4. CASE /\ secondary'.list = secondary.list
                 /\ dropped' \subseteq dropped \cup {<<t.address, t.sequence>>}
        <4>1. \A k, x : Claim(k, x, a)' =>
                 \/ Claim(k, x, a) /\ ~ (k = "removed" /\ x = t)
                 \/ k = "dropped" /\ x = t.sequence
          <5>1. ASSUME NEW k, NEW x, Claim(k, x, a)', k \notin Scheduler
                PROVE  \/ Claim(k, x, a) /\ ~ (k = "removed" /\ x = t)
                       \/ k = "dropped" /\ x = t.sequence
            BY <1>2, <2>1, <2>2, <2>5, <3>4, <5>1 DEF Claim
          <5> QED
            BY <3>2, <5>1
        <4>2. Swaps("removed", t, "dropped", t.sequence, a)
          BY <3>1, <4>1 DEF Swaps
        <4> QED
          BY <4>2 DEF Trades
      <3> QED
        BY <2>5, <3>3, <3>4
    <2> QED
      BY <2>6, <2>7
  <1>5. CASE SecondaryTaken \/ SecondaryDone
    <2>1. UNCHANGED <<taskMap, job, dropped>>
      BY <1>5 DEF SecondaryTaken, SecondaryDone, history
    <2>2. /\ secondary'.keys = secondary.keys
          /\ secondary'.removed = secondary.removed
          /\ secondary'.list = secondary.list
      BY <1>0, <1>5 DEF SecondaryTaken, SecondaryDone, SecondaryTask
    <2>3. Outstanding' = Outstanding
      BY <1>1, <1>2, <2>1 DEF Outstanding
    <2>4. \A p \in Scheduler : Waiting(p, a)' = Waiting(p, a)
      BY <1>1, <2>1 DEF Waiting, Passes, Scanning, ScanRange
    <2> QED
      BY <1>2, <2>1, <2>2, <2>3, <2>4 DEF Trades, Holds, Claim
  <1>6. CASE SecondarySchedule
    <2>1. UNCHANGED <<taskMap, dropped>> /\ ~ Busy("secondary")
      BY <1>6 DEF SecondarySchedule, history
    <2>2. PICK t \in secondary.list :
            /\ job' = [job EXCEPT !["secondary"] =
                        [accounts |-> {t.address}, blocks |-> {t.sequence},
                         todo |-> {}, sending |-> {}]]
            /\ secondary' = [secondary EXCEPT !.list = @ \ {t}]
      BY <1>6 DEF SecondarySchedule
    <2>3. /\ secondary'.keys = secondary.keys
          /\ secondary'.removed = secondary.removed
          /\ secondary'.list = secondary.list \ {t}
          /\ job'["primary"] = job["primary"]
          /\ job'["secondary"] = [accounts |-> {t.address},
                 blocks |-> {t.sequence}, todo |-> {}, sending |-> {}]
      BY <1>0, <2>2 DEF SecondaryTask, Scheduler
    <2>4. Outstanding' \subseteq Outstanding
      BY <1>1, <1>2, <2>3 DEF Outstanding
    <2>5. Waiting("primary", a)' = Waiting("primary", a)
      BY <1>1, <2>3 DEF Waiting, Passes, Scanning, ScanRange
    <2>6. \A h \in Waiting("secondary", a)' : a = t.address /\ h = t.sequence
      BY <2>3 DEF Waiting
    <2>7. CASE a = t.address
      <3>1. Claim("listed", t, a)
        BY <2>2, <2>7 DEF Claim
      <3>2. \A k, x : Claim(k, x, a)' =>
               \/ Claim(k, x, a) /\ ~ (k = "listed" /\ x = t)
               \/ k = "secondary" /\ x = t.sequence
        <4>1. ASSUME NEW k, NEW x, Claim(k, x, a)', k \in Scheduler
              PROVE  \/ Claim(k, x, a) /\ k = "primary"
                     \/ k = "secondary" /\ x = t.sequence
          BY <2>5, <2>6, <4>1 DEF Claim, Scheduler
        <4>2. ASSUME NEW k, NEW x, Claim(k, x, a)', k \notin Scheduler
              PROVE  Claim(k, x, a) /\ ~ (k = "listed" /\ x = t)
          BY <1>2, <2>1, <2>3, <2>4, <4>2 DEF Claim
        <4> QED
          BY <4>1, <4>2
      <3>3. Swaps("listed", t, "secondary", t.sequence, a)
        BY <3>1, <3>2 DEF Swaps
      <3> QED
        BY <3>3 DEF Trades
    <2>8. CASE a # t.address
      <3>1. Holds(a)
        BY <1>2, <2>1, <2>3, <2>4, <2>5, <2>6, <2>8 DEF Holds, Claim, Scheduler
      <3> QED
        BY <3>1 DEF Trades
    <2> QED
      BY <2>7, <2>8
  <1> QED
    BY <1>3, <1>4, <1>5, <1>6 DEF SecondaryStep

\* The expired tasks that are not answered yet are paid for by late.
LEMMA WakePaid ==
    ASSUME TypeOK, NEW keys \in SUBSET taskMap, SecondaryWake(keys),
           NEW a \in Address, Paid(a)
    PROVE  Paid(a)'
  <1>1. /\ UNCHANGED <<account, handler, taskMap, primary, sent, job, dropped>>
        /\ secondary \in SecondaryTask
        /\ IsFiniteSet(taskMap) /\ late \in Nat
    BY DEF SecondaryWake, TypeOK, history
  <1>2. Handled' = Handled /\ Outstanding' = Outstanding
    BY <1>1 DEF Handled, Answered, Outstanding
  <1>3. \A p \in Scheduler : Waiting(p, a)' = Waiting(p, a)
    BY <1>1 DEF Waiting, Passes, Scanning, ScanRange
  <1>4. /\ secondary'.keys = keys /\ secondary'.removed = secondary.removed
        /\ secondary'.list = secondary.list
    BY <1>1 DEF SecondaryWake, SecondaryTask
  <1> DEFINE K == keys \cap Outstanding
             f == [t \in K |-> <<"early", t>>]
             E == {<<"early", t>> : t \in K}
  <1>5. late' = late + Cardinality(K)
    BY DEF SecondaryWake
  <1>6. IsFiniteSet(K) /\ Cardinality(K) \in Nat
    <2>1. K \in SUBSET taskMap
      OBVIOUS
    <2>2. IsFiniteSet(K)
      BY <1>1, <2>1, FS_Subset
    <2> QED
      BY <2>2, FS_CardinalityType
  <1>7. IsFiniteSet(E) /\ Cardinality(E) <= Cardinality(K)
    <2>1. f \in Surjection(K, E)
      BY DEF Surjection
    <2> QED
      BY <1>6, <2>1, FS_Surjection
  <1>8. \A k, x : Claim(k, x, a)' => Claim(k, x, a) \/ <<k, x>> \in E
    BY <1>1, <1>2, <1>3, <1>4 DEF Claim
  <1> HIDE DEF E, K
  <1>9. /\ IsFiniteSet(Claims(a)') /\ Cardinality(Claims(a)') \in Nat
        /\ Cardinality(Claims(a)') <= Cardinality(Claims(a)) + Cardinality(E)
    BY <1>7, <1>8, AddedCount DEF Paid
  <1>10. Left(a)' = Left(a) /\ Left(a) \in Int
    BY <1>1, LeftType DEF Left
  <1>11. Cardinality(Claims(a)) \in Nat /\ Cardinality(E) \in Nat
    BY <1>7, FS_CardinalityType DEF Paid
  <1> QED
    BY <1>1, <1>5, <1>6, <1>7, <1>9, <1>10, <1>11 DEF Paid

\* The primary task cuts blocks out of its span, gives up those that are not
\* returned, and leaves some behind when it is done; when it dies they are not
\* issued any more.
LEMMA PrimaryTrades ==
    ASSUME TypeOK, TipIsQuiet, PrimaryOther, NEW a \in Address
    PROVE  Trades(a)
  <1>0. /\ job \in [Scheduler -> Job] /\ primary \in PrimaryTask
        /\ primary.end \in Nat /\ primary.next \in Nat /\ Batch \in Nat
    BY ScanAssumption DEF TypeOK, PrimaryTask, Height, ScanAssumption
  <1>1. UNCHANGED <<account, taskMap, handler, secondary, sent>>
    BY DEF PrimaryOther, PrimaryWake, PrimaryTip, PrimaryPopDone, PrimaryFetch,
           PrimaryDone, history
  <1>2. /\ Handled' = Handled /\ Answered' = Answered
        /\ Scanning(a)' = Scanning(a) /\ ScanRange(a)' = ScanRange(a)
    BY <1>1 DEF Handled, Answered, Scanning, ScanRange
  <1>4. CASE /\ UNCHANGED <<job, dropped>>
             /\ Scanning(a) => \A h : Passes(a, h)' => Passes(a, h)
    <2>1. /\ Outstanding' \subseteq Outstanding
          /\ \A p \in Scheduler : Waiting(p, a)' \subseteq Waiting(p, a)
      BY <1>1, <1>2, <1>4 DEF Outstanding, Waiting
    <2> QED
      BY <1>1, <1>2, <1>4, <2>1, HoldsWhen DEF Trades
  <1>5. CASE PrimaryWake
    BY <1>0, <1>4, <1>5 DEF PrimaryWake, PrimaryTask, Passes, history
  <1>6. CASE PrimaryTip
    BY <1>0, <1>4, <1>6 DEF PrimaryTip, PrimaryTask, Passes, TipIsQuiet, history
  <1>7. CASE PrimaryPopDone
    BY <1>0, <1>4, <1>7 DEF PrimaryPopDone, PrimaryTask, Passes, history
  <1>8. CASE PrimaryDone
    BY <1>0, <1>4, <1>8 DEF PrimaryDone, PrimaryTask, Passes, history
  <1>9. CASE PrimaryFetch
    <2> DEFINE group == Group(primary.next, primary.end + 1, Batch)
    <2>1. CASE /\ primary' = [primary EXCEPT !.pc = "dead"]
               /\ UNCHANGED <<job, dropped>>
      BY <1>0, <1>4, <1>9, <2>1 DEF PrimaryFetch, PrimaryTask, Passes
    <2>2. ASSUME NEW blocks \in SUBSET Heights(group),
                 job' = [job EXCEPT !["primary"] =
                     [accounts |-> primary.accounts, blocks |-> blocks,
                      todo |-> {}, sending |-> {}]],
                 dropped' = dropped \cup
                     {w \in primary.accounts \X (Heights(group) \ blocks) :
                          w[2] \in ScanRange(w[1])},
                 primary' = [primary EXCEPT !.next = @ + Batch]
          PROVE  Trades(a)
      <3> DEFINE H == {h \in Height : <<a, h>> \in dropped' \ dropped}
      <3>1. /\ primary.pc = "fetch" /\ primary.next <= primary.end
            /\ primary'.pc = "fetch" /\ primary'.accounts = primary.accounts
            /\ primary'.next = primary.next + Batch
        BY <1>0, <1>9, <2>2 DEF PrimaryFetch, PrimaryTask
      <3>2. /\ job'["primary"] = [accounts |-> primary.accounts,
                   blocks |-> blocks, todo |-> {}, sending |-> {}]
            /\ job'["secondary"] = job["secondary"]
        BY <1>0, <2>2 DEF Scheduler
      <3>3. \A h \in Heights(group) : primary.next <= h /\ h < primary.next + Batch
        BY <1>0, <3>1, GroupCuts
      <3>4. \A h \in Height : Passes(a, h)' => Passes(a, h)
        <4>1. \A h \in Height : h \in Nat
          BY DEF Height
        <4> QED
          BY <1>0, <3>1, <3>2, <3>3, <4>1 DEF Passes
      <3>5. Waiting("primary", a)' \subseteq Waiting("primary", a)
        BY <1>2, <3>2, <3>4 DEF Waiting
      <3>6. Waiting("secondary", a)' \subseteq Waiting("secondary", a)
        BY <3>2 DEF Waiting
      <3>7. Outstanding' \subseteq Outstanding
        BY <1>1, <1>2, <3>2 DEF Outstanding
      <3>8. ASSUME NEW h \in H
            PROVE  h \in Waiting("primary", a) /\ h \notin Waiting("primary", a)'
        <4>1. /\ a \in primary.accounts /\ h \in Heights(group) \ blocks
              /\ h \in ScanRange(a) /\ h \in Height /\ h \in Nat
          BY <2>2, <3>8 DEF Height
        <4>2. Scanning(a)
          BY <4>1 DEF Scanning, ScanRange, NoAccount
        <4>3. Passes(a, h) /\ ~ Passes(a, h)'
          BY <1>0, <3>1, <3>2, <3>3, <4>1 DEF Passes
        <4> QED
          BY <3>2, <4>1, <4>2, <4>3 DEF Waiting
      <3>9. GivesUp(H, a)
        <4>1. \A h \in H : Claim("primary", h, a)
          BY <3>8 DEF Claim, Scheduler
        <4>2. ASSUME NEW k, NEW x, Claim(k, x, a)', k \in Scheduler
              PROVE  Claim(k, x, a) /\ ~ (k = "primary" /\ x \in H)
          BY <3>5, <3>6, <3>8, <4>2 DEF Claim, Scheduler
        <4>3. dropped' \subseteq Address \X Height
          BY <1>9, PrimaryTypeOK DEF TypeOK, PrimaryStep
        <4>4. ASSUME NEW k, NEW x, Claim(k, x, a)', k \notin Scheduler
              PROVE  Claim(k, x, a) \/ (k = "dropped" /\ x \in H)
          <5>1. CASE k = "dropped"
            BY <4>3, <4>4, <5>1 DEF Claim, Scheduler
          <5>2. CASE k # "dropped"
            BY <1>1, <1>2, <3>7, <4>4, <5>2 DEF Claim
          <5> QED
            BY <5>1, <5>2
        <4> HIDE DEF H
        <4> QED
          BY <4>1, <4>2, <4>4 DEF GivesUp, Scheduler
      <3> QED
        BY <3>9 DEF Trades
    <2> HIDE DEF group
    <2> QED
      BY <1>9, <2>1, <2>2, FetchIs DEF group
  <1> QED
    BY <1>5, <1>6, <1>7, <1>8, <1>9 DEF PrimaryOther

\* A scan starts with a claim for each of its blocks, and remaining_task is
\* their number.
LEMMA PopPaid ==
    ASSUME TypeOK, TypeOK', PrimaryPop, NEW a \in Address, Paid(a)
    PROVE  Paid(a)'
  <1>0. /\ account \in [Address -> AccountInfo \cup {NoAccount}]
        /\ primary.pc = "pop" /\ primary \in PrimaryTask /\ late \in Nat
        /\ UNCHANGED <<taskMap, handler, secondary, sent, job, dropped, late>>
    BY DEF TypeOK, PrimaryPop, bounds
  <1>1. Handled' = Handled /\ Answered' = Answered /\ Outstanding' = Outstanding
    BY <1>0 DEF Handled, Answered, Outstanding
  <1>2. CASE UNCHANGED <<account, counted, primary>>
    <2>1. Trades(a)
      BY <1>0, <1>1, <1>2, RestTrades
    <2>2. Left(a)' = Left(a) /\ Left(a) \in Int
      BY <1>2, LeftType DEF Left
    <2> QED
      BY <1>0, <2>1, <2>2, TradesPaid
  <1>3. CASE ~ UNCHANGED <<account, counted, primary>>
    <2>1. PICK b \in Address, first \in 1 .. primary.end :
            /\ ~ Scanning(b)
            /\ account' = [account EXCEPT ![b] = NewAccount(first, primary.end)]
            /\ primary'.accounts = primary.accounts \cup {b}
            /\ primary'.pc = "pop"
      BY <1>3, PopIs
    <2>2. CASE a # b
      <3>1. account'[a] = account[a]
        BY <1>0, <2>1, <2>2
      <3>2. \A p \in Scheduler : Waiting(p, a)' \subseteq Waiting(p, a)
        <4>1. \A h : Passes(a, h)' <=> Passes(a, h)
          BY <1>0, <2>1, <2>2 DEF Passes
        <4> QED
          BY <1>0, <3>1, <4>1 DEF Waiting, Scanning, ScanRange
      <3>3. Trades(a)
        BY <1>0, <1>1, <3>2, HoldsWhen DEF Trades
      <3>4. Left(a)' = Left(a) /\ Left(a) \in Int
        BY <3>1, LeftType DEF Left
      <3> QED
        BY <1>0, <3>3, <3>4, TradesPaid
    <2>3. CASE a = b
      <3> DEFINE n == primary.end - first + 1
      <3>1. account'[a] = [start |-> first, end |-> primary.end,
                           remaining |-> n, blocks |-> {}]
        BY <1>0, <2>1, <2>3 DEF NewAccount
      <3>2. /\ n \in 1 .. MaxHeight
            /\ first \in Int /\ primary.end \in Int /\ first <= primary.end
        BY <1>0, ScanAssumption DEF PrimaryTask, Height, ScanAssumption
      <3> DEFINE H == first .. primary.end
                 E == {<<"primary", h>> : h \in H}
                 f == [h \in H |-> <<"primary", h>>]
      <3>3. IsFiniteSet(H) /\ Cardinality(H) = n
        <4> PICK i, j \in Int : i = first /\ j = primary.end
          BY <3>2
        <4>1. /\ IsFiniteSet(i .. j)
              /\ Cardinality(i .. j) = IF i > j THEN 0 ELSE j - i + 1
          BY FS_Interval
        <4> QED
          BY <3>2, <4>1
      <3>4. ScanRange(a)' = H
        BY <3>1 DEF ScanRange
      <3>5. IsFiniteSet(E) /\ Cardinality(E) <= Cardinality(H)
        <4>1. f \in Surjection(H, E)
          BY DEF Surjection
        <4> QED
          BY <3>3, <4>1, FS_Surjection
      <3>6. Waiting("primary", a)' \subseteq Waiting("primary", a) \cup H
        BY <1>0, <3>4 DEF Waiting
      <3>7. Waiting("secondary", a)' = Waiting("secondary", a)
        BY <1>0 DEF Waiting
      <3>8. \A k, x : Claim(k, x, a)' => Claim(k, x, a) \/ <<k, x>> \in E
        <4>1. ASSUME NEW k, NEW x, Claim(k, x, a)', k \in Scheduler
              PROVE  Claim(k, x, a) \/ <<k, x>> \in E
          BY <3>6, <3>7, <4>1 DEF Claim, Scheduler
        <4>2. ASSUME NEW k, NEW x, Claim(k, x, a)', k \notin Scheduler
              PROVE  Claim(k, x, a)
          BY <1>0, <1>1, <4>2 DEF Claim
        <4> QED
          BY <4>1, <4>2
      <3>9. account[a].remaining = 0
        BY <2>1, <2>3 DEF Scanning, NoAccount
      <3>10. Left(a) = 0 /\ Left(a)' = n
        BY <3>1, <3>2, <3>9, ScanAssumption DEF Left, ScanAssumption
      <3> HIDE DEF E, H, n
      <3>11. /\ IsFiniteSet(Claims(a)') /\ Cardinality(Claims(a)') \in Nat
             /\ Cardinality(Claims(a)') <= Cardinality(Claims(a)) + Cardinality(E)
        BY <3>5, <3>8, AddedCount DEF Paid
      <3>12. /\ Cardinality(Claims(a)) \in Nat /\ Cardinality(E) \in Nat
             /\ n \in Nat
        BY <3>2, <3>5, FS_CardinalityType DEF Paid
      <3> QED
        BY <1>0, <3>3, <3>5, <3>10, <3>11, <3>12 DEF Paid
    <2> QED
      BY <2>2, <2>3
  <1> QED
    BY <1>2, <1>3

\* Counting an answer uses its claim up; with a counter that is wide enough
\* the number that is left goes down by one, also below zero.
LEMMA UpdatePaid ==
    ASSUME WordHoldsLate, TypeOK, Holders, late <= MaxLate,
           NEW c \in Conn, UpdateAccount(c),
           NEW t, t = handler[c].task, Counts(t), Paid(t.address)
    PROVE  /\ Paid(t.address)' /\ Left(t.address)' = Left(t.address) - 1
           /\ account'[t.address].remaining = 0 => Left(t.address) = 1
  <1> PICK a : a = t.address
    OBVIOUS
  <1>1. /\ t \in Task /\ a \in Address /\ Scanning(a) /\ Scanning(a)'
        /\ ScanRange(a)' = ScanRange(a)
        /\ account'[a].remaining = (account[a].remaining - 1) % Word
        /\ handler'[c].pc \in {"clone", "forget"} /\ handler'[c].task = t
    <2>1. handler'[c].pc \in {"clone", "forget"} /\ handler'[c].task = t
      BY DEF TypeOK, UpdateAccount, Reader
    <2> QED
      BY <2>1, UpdateEffect DEF ScanRange
  <1>2. Claim("live", t, a)
    <2>1. t # NoTask /\ handler[c].pc = "update"
      BY <1>1, NoTaskAssumption DEF NoTaskAssumption, UpdateAccount
    <2>2. t \notin Handled
      BY <2>1 DEF Holders, Handled
    <2> QED
      BY <2>2 DEF Claim, Counts
  <1>3. Holds(a)
    BY <1>1, ReaderTrades DEF ReaderStep, KeepsOrEnds
  <1>4. ~ Claim("live", t, a)'
    <2>1. t \in Handled'
      BY <1>1 DEF Handled
    <2> QED
      BY <2>1 DEF Claim, Scheduler
  <1>5. Spends("live", t, a)
    BY <1>2, <1>3, <1>4 DEF Spends, Holds
  <1>6. /\ IsFiniteSet(Claims(a)') /\ Cardinality(Claims(a)') \in Nat
        /\ Cardinality(Claims(a)') <= Cardinality(Claims(a)) - 1
    BY <1>1, <1>5, SpentCount DEF Paid
  <1>7. /\ Cardinality(Claims(a)) \in Nat
        /\ Cardinality(Claims(a)) <= Left(a) + late
    BY FS_CardinalityType DEF Paid
  <1>8. /\ account[a].remaining \in 0 .. Word - 1 /\ Left(a) \in Int
        /\ late' = late /\ late \in Nat
    BY <1>1, LeftType DEF TypeOK, UpdateAccount, bounds
  <1>9. Left(a) + MaxLate >= 1
    BY <1>6, <1>7, <1>8 DEF WordHoldsLate
  <1> PICK r : r = account[a].remaining
    OBVIOUS
  <1> PICK s : s = account'[a].remaining
    OBVIOUS
  <1>10. s = IF r = 0 THEN Word - 1 ELSE r - 1
    <2>1. r \in 0 .. Word - 1 /\ Word \in Nat /\ Word > 0
      BY <1>8, ScanAssumption DEF ScanAssumption
    <2>2. s = (r - 1) % Word
      BY <1>1
    <2>3. CASE r = 0
      BY <2>1, <2>2, <2>3
    <2>4. CASE r # 0
      BY <2>1, <2>2, <2>4
    <2> QED
      BY <2>3, <2>4
  <1>11. /\ Left(a) = IF r <= MaxHeight THEN r ELSE r - Word
         /\ Left(a)' = IF s <= MaxHeight THEN s ELSE s - Word
    BY DEF Left
  <1>12. Left(a)' = Left(a) - 1 /\ (s = 0 => Left(a) = 1)
    BY <1>8, <1>9, <1>10, <1>11, ScanAssumption
    DEF WordHoldsLate, ScanAssumption
  <1> QED
    BY <1>6, <1>7, <1>8, <1>12 DEF Paid

----------------------------------------------------------------------------
(* Finishers, and the inductive invariant.                                 *)

\* Tasks are made with a uuid drawn for them, and taken from the map.
LEMMA NextDrawn ==
    ASSUME TypeOK, TasksAreDrawn, [Next]_vars
    PROVE  TasksAreDrawn'
  <1>0. /\ job \in [Scheduler -> Job] /\ taskMap \subseteq Task
        /\ secondary \in SecondaryTask
        /\ issued \in [Address -> [Height -> Nat]]
    BY DEF TypeOK
  <1>1. CASE /\ taskMap' \subseteq taskMap /\ UNCHANGED issued
             /\ secondary'.keys \subseteq secondary.keys \cup taskMap
    BY <1>1 DEF TasksAreDrawn
  <1>2. ASSUME NEW p \in Scheduler, CreateTask(p)
        PROVE  TasksAreDrawn'
    <2> DEFINE T(w) == [address |-> w[1], sequence |-> w[2],
                        nonce |-> issued[w[1]][w[2]] + 1]
    <2>1. PICK w \in job[p].todo :
            /\ issued' = [issued EXCEPT ![w[1]][w[2]] = @ + 1]
            /\ taskMap' = taskMap \cup {T(w)}
      BY <1>2 DEF CreateTask
    <2>2. w[1] \in Address /\ w[2] \in Height /\ issued[w[1]][w[2]] \in Nat
      BY <1>0, <2>1 DEF Job
    <2>3. /\ issued'[w[1]][w[2]] = issued[w[1]][w[2]] + 1
          /\ \A a \in Address, h \in Height :
                 issued'[a][h] \in Nat /\ issued[a][h] <= issued'[a][h]
      BY <1>0, <2>1, <2>2
    <2>4. ASSUME NEW t \in taskMap \cup secondary.keys
          PROVE  t.nonce <= issued'[t.address][t.sequence]
      <3>1. /\ t.address \in Address /\ t.sequence \in Height
            /\ t.nonce \in Nat
        BY <1>0, <2>4 DEF SecondaryTask, Task
      <3>2. t.nonce <= issued[t.address][t.sequence]
        BY <2>4 DEF TasksAreDrawn
      <3>3. issued[t.address][t.sequence] \in Nat
        BY <1>0, <3>1
      <3> QED
        BY <2>3, <3>1, <3>2, <3>3
    <2>5. T(w).nonce <= issued'[T(w).address][T(w).sequence]
      BY <2>2, <2>3
    <2>6. secondary' = secondary
      BY <1>2 DEF CreateTask
    <2> HIDE DEF T
    <2> QED
      BY <2>1, <2>4, <2>5, <2>6 DEF TasksAreDrawn
  <1>3. CASE SecondaryTake
    BY <1>0, <1>1, <1>3 DEF SecondaryTake, SecondaryTask
  <1>4. CASE SecondaryLookup
    BY <1>0, <1>1, <1>4
    DEF SecondaryLookup, Listed, Unlisted, SecondaryTask
  <1>5. CASE SecondaryTaken \/ SecondarySchedule \/ SecondaryDone
    BY <1>0, <1>1, <1>5
    DEF SecondaryTaken, SecondarySchedule, SecondaryDone, SecondaryTask
  <1>6. ASSUME NEW keys \in SUBSET taskMap, SecondaryWake(keys)
        PROVE  TasksAreDrawn'
    BY <1>0, <1>1, <1>6 DEF SecondaryWake, SecondaryTask
  <1>7. CASE UNCHANGED vars
    BY <1>1, <1>7 DEF vars
  <1> QED
    BY <1>1, <1>2, <1>3, <1>4, <1>5, <1>6, <1>7
    DEF Next, ScanAccount, PushAccount, PrimaryWake,
        PrimaryStep, PrimaryTip, PrimaryPop, PrimaryPopDone, PrimaryFetch,
        PrimaryDone, ScheduleStep, ScheduleAccount, Dispatch, Receive, Lose,
        ReaderStep, UpdateAccount, CloneAccount, RemoveAccount, Submit,
        ForgetTask, SecondaryStep

\* The steps of one scheduler leave the call of the other alone.
LEMMA OrderKept ==
    ASSUME CallsInOrder, UNCHANGED primary,
           \A p \in Scheduler :
               /\ job'[p].accounts \subseteq job[p].accounts
               /\ job'[p].blocks = job[p].blocks
               /\ job'[p].todo \subseteq job[p].todo
    PROVE  CallsInOrder'
  BY DEF CallsInOrder, Scheduler

\* Blocks go one way: from the span to the call, to its pairs, to a task.
LEMMA NextOrder ==
    ASSUME TypeOK, CallsInOrder, [Next]_vars
    PROVE  CallsInOrder'
  <1>0. /\ job \in [Scheduler -> Job] /\ primary \in PrimaryTask
        /\ primary.end \in Nat /\ primary.next \in Nat /\ Batch \in Nat \ {0}
    BY ScanAssumption DEF TypeOK, PrimaryTask, Height, ScanAssumption
  <1>1. ASSUME NEW p \in Scheduler, ScheduleAccount(p)
        PROVE  CallsInOrder'
    <2>1. PICK b \in job[p].accounts :
            job' = [job EXCEPT
                   ![p].accounts = @ \ {b},
                   ![p].todo = IF Scanning(b)
                                 THEN {b} \X (job[p].blocks \cap ScanRange(b))
                                 ELSE {}]
      BY <1>1 DEF ScheduleAccount
    <2> DEFINE pairs == IF Scanning(b)
                          THEN {b} \X (job[p].blocks \cap ScanRange(b)) ELSE {}
    <2>2. \A w \in pairs : w[1] = b /\ w[2] \in job[p].blocks
      OBVIOUS
    <2>3. /\ job'[p].accounts = job[p].accounts \ {b}
          /\ job'[p].blocks = job[p].blocks
          /\ job'[p].todo = pairs
          /\ \A q \in Scheduler \ {p} : job'[q] = job[q]
      BY <1>0, <2>1 DEF Job
    <2> HIDE DEF pairs
    <2>4. primary' = primary
      BY <1>1 DEF ScheduleAccount
    <2>5. CASE p = "primary"
      BY <2>1, <2>2, <2>3, <2>4, <2>5 DEF CallsInOrder, Scheduler
    <2>6. CASE p = "secondary"
      BY <2>2, <2>3, <2>4, <2>6 DEF CallsInOrder, Scheduler
    <2> QED
      BY <2>5, <2>6 DEF Scheduler
  <1>2. ASSUME NEW p \in Scheduler, CreateTask(p) \/ Dispatch(p)
        PROVE  CallsInOrder'
    <2>1. CASE CreateTask(p)
      <3>1. PICK w, t : job' = [job EXCEPT ![p].todo = @ \ {w},
                                           ![p].sending = {t}]
        BY <2>1 DEF CreateTask
      <3> QED
        BY <1>0, <2>1, <3>1, OrderKept DEF CreateTask, Job
    <2>2. CASE Dispatch(p)
      BY <1>0, <2>2, OrderKept DEF Dispatch, Job
    <2> QED
      BY <1>2, <2>1, <2>2
  <1>3. CASE SecondarySchedule
    <2>1. PICK t : job' = [job EXCEPT !["secondary"] =
                        [accounts |-> {t.address}, blocks |-> {t.sequence},
                         todo |-> {}, sending |-> {}]]
      BY <1>3 DEF SecondarySchedule
    <2>2. /\ job'["primary"] = job["primary"] /\ job'["secondary"].todo = {}
          /\ primary' = primary
      BY <1>0, <1>3, <2>1 DEF Scheduler, SecondarySchedule
    <2> QED
      BY <2>2 DEF CallsInOrder, Scheduler
  <1>4. CASE PrimaryFetch
    <2>1. CASE primary' = [primary EXCEPT !.pc = "dead"] /\ job' = job
      <3>1. job["primary"].accounts = {} /\ job["primary"].todo = {}
        BY <1>4 DEF PrimaryFetch, Busy
      <3> QED
        BY <2>1, <3>1 DEF CallsInOrder
    <2>2. ASSUME NEW blocks \in SUBSET Heights(
                         Group(primary.next, primary.end + 1, Batch)),
                 job' = [job EXCEPT !["primary"] =
                     [accounts |-> primary.accounts, blocks |-> blocks,
                      todo |-> {}, sending |-> {}]],
                 primary' = [primary EXCEPT !.next = @ + Batch]
          PROVE  CallsInOrder'
      <3>1. /\ primary'.pc = "fetch" /\ primary.next <= primary.end
            /\ primary'.next = primary.next + Batch
        BY <1>0, <1>4, <2>2 DEF PrimaryFetch, PrimaryTask
      <3>2. /\ job'["primary"].blocks = blocks /\ job'["primary"].todo = {}
            /\ job'["secondary"] = job["secondary"]
        BY <1>0, <2>2 DEF Scheduler
      <3>3. \A h \in blocks : h < primary'.next
        BY <1>0, <2>2, <3>1, GroupCuts
      <3> QED
        BY <3>1, <3>2, <3>3 DEF CallsInOrder, Scheduler
    <2> QED
      BY <1>4, <2>1, <2>2, FetchIs
  <1>5. CASE PrimaryDone
    <2>1. /\ job["primary"].accounts = {} /\ job["primary"].todo = {}
          /\ job' = job
      BY <1>5 DEF PrimaryDone, Busy
    <2> QED
      BY <2>1 DEF CallsInOrder
  <1>6. CASE PrimaryWake \/ PrimaryTip \/ PrimaryPop \/ PrimaryPopDone
    <2>1. primary.pc # "fetch" /\ job' = job
      BY <1>6 DEF PrimaryWake, PrimaryTip, PrimaryPop, PrimaryPopDone
    <2>2. job["primary"].accounts = {} /\ job["primary"].todo = {}
      BY <2>1 DEF CallsInOrder
    <2> QED
      BY <2>1, <2>2 DEF CallsInOrder
  <1>7. CASE UNCHANGED <<job, primary>>
    BY <1>7 DEF CallsInOrder
  <1> QED
    BY <1>1, <1>2, <1>3, <1>4, <1>5, <1>6, <1>7
    DEF Next, vars, ScanAccount, PushAccount, PrimaryStep, ScheduleStep,
        Receive, Lose, ReaderStep, UpdateAccount, CloneAccount, RemoveAccount,
        Submit, ForgetTask, SecondaryWake, SecondaryStep, SecondaryTake,
        SecondaryLookup, SecondaryTaken, SecondaryDone

\* A round begins when account_mappling is empty, and only a round fills it.
LEMMA NextTip ==
    ASSUME TypeOK, TipIsQuiet, [Next]_vars
    PROVE  TipIsQuiet'
  <1>0. primary \in PrimaryTask
    BY DEF TypeOK
  <1>1. CASE PrimaryPop
    <2>1. primary'.pc = "pop"
      BY <1>0, <1>1 DEF PrimaryPop, PrimaryTask
    <2> QED
      BY <2>1 DEF TipIsQuiet
  <1>2. CASE PrimaryOther
    <2>1. primary'.pc = "tip" => \A a \in Address : ~ Scanning(a)
      <3>1. CASE PrimaryWake
        BY <3>1 DEF PrimaryWake
      <3>2. CASE PrimaryTip
        BY <1>0, <3>2 DEF PrimaryTip, PrimaryTask
      <3>4. CASE PrimaryPopDone
        BY <1>0, <3>4 DEF PrimaryPopDone, PrimaryTask
      <3>5. CASE PrimaryDone
        BY <1>0, <3>5 DEF PrimaryDone, PrimaryTask
      <3>3. CASE PrimaryFetch
        BY <1>0, <3>3 DEF PrimaryFetch, PrimaryTask
      <3> QED
        BY <1>2, <3>1, <3>2, <3>3, <3>4, <3>5 DEF PrimaryOther
    <2>2. UNCHANGED account
      BY <1>2 DEF PrimaryOther, PrimaryWake, PrimaryTip, PrimaryPopDone,
                  PrimaryFetch, PrimaryDone
    <2> QED
      BY <2>1, <2>2 DEF TipIsQuiet, Scanning
  <1>3. ASSUME NEW c \in Conn, ReaderStep(c)
        PROVE  TipIsQuiet'
    <2>1. UNCHANGED primary
      BY <1>3 DEF ReaderStep, UpdateAccount, CloneAccount, RemoveAccount,
                  Submit, ForgetTask
    <2>2. \A a \in Address : Scanning(a)' => Scanning(a)
      BY <1>3, ReaderMovesNoScan
    <2> QED
      BY <2>1, <2>2 DEF TipIsQuiet
  <1>4. CASE UNCHANGED <<account, primary>>
    BY <1>4 DEF TipIsQuiet, Scanning
  <1> QED
    BY <1>1, <1>2, <1>3, <1>4
    DEF Next, vars, ScanAccount, PushAccount, PrimaryStep, PrimaryOther,
        ScheduleStep, ScheduleAccount, CreateTask, Dispatch, Receive, Lose,
        SecondaryWake, SecondaryStep, SecondaryTake, SecondaryLookup,
        SecondaryTaken, SecondarySchedule, SecondaryDone

\* An answer that is counted gives up its claim and lowers remaining_task.
LEMMA ReaderPaid ==
    ASSUME WordHoldsLate, TypeOK, TypeOK', Holders, CInv,
           NEW c \in Conn, ReaderStep(c), NEW a \in Address
    PROVE  Paid(a)'
  <1>0. /\ account \in [Address -> AccountInfo \cup {NoAccount}]
        /\ Paid(a) /\ Left(a) \in Int /\ late \in Nat /\ late' = late
    <2>1. late' = late
      BY DEF ReaderStep, UpdateAccount, CloneAccount, RemoveAccount, Submit,
             ForgetTask, bounds
    <2> QED
      BY <2>1, LeftType DEF TypeOK, CInv
  <1>1. CASE account'[a] = account[a]
    <2>1. Trades(a)
      <3>1. KeepsOrEnds(a)
        BY <1>1 DEF KeepsOrEnds
      <3>2. Holds(a)
        BY <3>1, ReaderTrades
      <3> QED
        BY <3>2 DEF Trades
    <2>2. Left(a)' = Left(a)
      BY <1>1 DEF Left
    <2> QED
      BY <1>0, <2>1, <2>2, TradesPaid
  <1>2. CASE UpdateAccount(c)
    <2> PICK t : t = handler[c].task
      OBVIOUS
    <2>1. CASE Counts(t) /\ a = t.address
      BY <1>0, <1>2, <2>1, UpdatePaid DEF CInv
    <2>2. CASE Counts(t) /\ a # t.address
      BY <1>1, <1>2, <2>2, UpdateEffect
    <2>3. CASE ~ Counts(t)
      BY <1>1, <1>2, <2>3 DEF UpdateAccount
    <2> QED
      BY <2>1, <2>2, <2>3
  <1>3. CASE RemoveAccount(c)
    <2>1. CASE a = handler[c].task.address
      <3>1. account'[a] = NoAccount
        BY <1>0, <1>3, <2>1 DEF RemoveAccount
      <3>2. Left(a)' = 0
        BY <3>1, ScanAssumption DEF Left, NoAccount, ScanAssumption
      <3>3. Left(a) <= 0
        BY <1>3, <2>1 DEF CInv, FinishersOwe, Finishing, RemoveAccount
      <3>4. Trades(a)
        <4>1. ~ Scanning(a)'
          BY <3>1 DEF Scanning
        <4>2. KeepsOrEnds(a)
          BY <4>1 DEF KeepsOrEnds
        <4>3. Holds(a)
          BY <4>2, ReaderTrades
        <4> QED
          BY <4>3 DEF Trades
      <3> QED
        BY <1>0, <3>2, <3>3, <3>4, TradesPaid
    <2>2. CASE a # handler[c].task.address
      BY <1>0, <1>1, <1>3, <2>2 DEF RemoveAccount
    <2> QED
      BY <2>1, <2>2
  <1>4. CASE CloneAccount(c) \/ Submit(c) \/ ForgetTask(c)
    BY <1>1, <1>4 DEF CloneAccount, Submit, ForgetTask
  <1> QED
    BY <1>2, <1>3, <1>4 DEF ReaderStep

\* Each step pays for the claims it adds, with remaining_task or with late.
LEMMA NextPaid ==
    ASSUME WordHoldsLate, TypeOK, TypeOK', FreshIssue, Holders, CInv,
           [Next]_vars
    PROVE  late' <= MaxLate /\ \A a \in Address : Paid(a)'
  <1>0. /\ TasksAreDrawn /\ CallsInOrder /\ TipIsQuiet
        /\ late <= MaxLate /\ \A a \in Address : Paid(a)
    BY DEF CInv
  <1>1. ASSUME UNCHANGED <<account, late>>, NEW a \in Address, Trades(a)
        PROVE  late' <= MaxLate /\ Paid(a)'
    <2>1. Left(a)' = Left(a) /\ Left(a) \in Int /\ late \in Nat
      BY <1>1, LeftType DEF Left, TypeOK
    <2> QED
      BY <1>0, <1>1, <2>1, TradesPaid
  <1>2. ASSUME NEW p \in Scheduler, ScheduleStep(p), NEW a \in Address
        PROVE  Trades(a)
    BY <1>0, <1>2, ScheduleTrades
  <1>3. ASSUME NEW c \in Conn, NEW t \in sent, Receive(c, t), NEW a \in Address
        PROVE  Trades(a)
    BY <1>3, ReceiveTrades
  <1>4. ASSUME SecondaryStep, NEW a \in Address PROVE Trades(a)
    BY <1>4, SecondaryTrades
  <1>5. ASSUME PrimaryOther, NEW a \in Address PROVE Trades(a)
    BY <1>0, <1>5, PrimaryTrades
  <1>6. ASSUME \/ UNCHANGED vars
               \/ \E k \in Client : \E req \in ScanRequest : ScanAccount(k, req)
               \/ \E k \in Client : PushAccount(k)
               \/ \E t \in sent : Lose(t),
               NEW a \in Address
        PROVE  Trades(a)
    <2>1. /\ UNCHANGED <<account, taskMap, primary, secondary, job, dropped,
                         handler>>
          /\ sent' \subseteq sent
      BY <1>6 DEF vars, ScanAccount, PushAccount, Lose, history
    <2>2. Handled' = Handled /\ Outstanding' \subseteq Outstanding
      BY <2>1 DEF Handled, Outstanding, Answered
    <2> QED
      BY <2>1, <2>2, RestTrades
  <1>7. ASSUME NEW keys \in SUBSET taskMap, SecondaryWake(keys)
        PROVE  late' <= MaxLate /\ \A a \in Address : Paid(a)'
    BY <1>0, <1>7, WakePaid DEF SecondaryWake
  <1>8. CASE PrimaryPop
    <2>1. late' = late
      BY <1>8 DEF PrimaryPop, bounds
    <2> QED
      BY <1>0, <1>8, <2>1, PopPaid
  <1>9. ASSUME NEW c \in Conn, ReaderStep(c)
        PROVE  late' <= MaxLate /\ \A a \in Address : Paid(a)'
    <2>1. late' = late
      BY <1>9 DEF ReaderStep, UpdateAccount, CloneAccount, RemoveAccount,
                  Submit, ForgetTask, bounds
    <2> QED
      BY <1>0, <1>9, <2>1, ReaderPaid
  <1>10. CASE UNCHANGED <<account, late>> /\ \A a \in Address : Trades(a)
    BY <1>0, <1>1, <1>10
  <1>11. \/ UNCHANGED <<account, late>>
         \/ \E keys \in SUBSET taskMap : SecondaryWake(keys)
         \/ PrimaryPop
         \/ \E c \in Conn : ReaderStep(c)
    BY DEF Next, vars, bounds, ScanAccount, PushAccount, PrimaryWake,
           PrimaryStep, PrimaryTip, PrimaryPopDone, PrimaryFetch, PrimaryDone,
           ScheduleStep, ScheduleAccount, CreateTask, Dispatch, Receive, Lose,
           SecondaryStep, SecondaryTake, SecondaryLookup, SecondaryTaken,
           SecondarySchedule, SecondaryDone
  <1>12. \/ \A a \in Address : Trades(a)
         \/ \E keys \in SUBSET taskMap : SecondaryWake(keys)
         \/ PrimaryPop
         \/ \E c \in Conn : ReaderStep(c)
    BY <1>2, <1>3, <1>4, <1>5, <1>6 DEF Next, PrimaryStep, PrimaryOther
  <1> QED
    BY <1>7, <1>8, <1>9, <1>10, <1>11, <1>12

\* Whoever still finishes an account is as alone as before.
LEMMA OweKept ==
    ASSUME FinishersOwe,
           \A c \in Conn : Finishing(c)' =>
               /\ Finishing(c) /\ handler'[c].task = handler[c].task
               /\ account'[handler[c].task.address]
                      = account[handler[c].task.address]
    PROVE  FinishersOwe'
  <1>1. OneFinisher'
    BY DEF FinishersOwe, OneFinisher, Finishing, Scanning
  <1>2. \A c \in Conn, a \in Address :
            Finishing(c)' /\ handler'[c].task.address = a => Left(a)' <= 0
    BY DEF FinishersOwe, Left
  <1> QED
    BY <1>1, <1>2 DEF FinishersOwe

\* The answer that leaves no task remaining meets no other finisher, as then
\* there would have been none left before it.
LEMMA UpdateOwes ==
    ASSUME WordHoldsLate, TypeOK, TypeOK', Holders, CInv,
           NEW c \in Conn, UpdateAccount(c)
    PROVE  FinishersOwe'
  <1> PICK t : t = handler[c].task
    OBVIOUS
  <1>0. /\ handler \in [Conn -> Reader] /\ FinishersOwe /\ late <= MaxLate
        /\ \A d \in Conn : Finishing(d) => handler[d].task.address \in Address
    BY DEF TypeOK, CInv, Finishing, Task
  <1>1. \A d \in Conn \ {c} : handler'[d] = handler[d]
    BY <1>0 DEF UpdateAccount
  <1>2. CASE ~ Counts(t)
    <2>1. account' = account /\ handler'[c].pc = "forget"
      BY <1>0, <1>2 DEF UpdateAccount, Reader
    <2> QED
      BY <1>0, <1>1, <2>1, OweKept DEF Finishing
  <1>3. CASE Counts(t)
    <2>0. /\ t.address \in Address /\ Scanning(t.address)'
          /\ \A b \in Address \ {t.address} : account'[b] = account[b]
          /\ \/ /\ handler' = [handler EXCEPT ![c].pc = "clone"]
                /\ account'[t.address].remaining = 0
             \/ handler' = [handler EXCEPT ![c].pc = "forget"]
      BY <1>3, UpdateEffect
    <2>1. /\ Left(t.address)' = Left(t.address) - 1
          /\ account'[t.address].remaining = 0 => Left(t.address) = 1
          /\ Left(t.address) \in Int
      BY <1>0, <1>3, <2>0, UpdatePaid, LeftType DEF CInv
    <2>2. handler'[c].task = t /\ handler'[c].pc \in {"clone", "forget"}
      BY <1>0, <2>0 DEF Reader
    <2>3. CASE handler'[c].pc = "forget"
      <3>1. \A d \in Conn : Finishing(d)' =>
                /\ Finishing(d) /\ d # c /\ handler'[d] = handler[d]
        BY <1>1, <2>3 DEF Finishing
      <3>2. OneFinisher'
        BY <1>0, <2>0, <3>1
        DEF FinishersOwe, OneFinisher, Finishing, Scanning
      <3>3. \A d \in Conn, a \in Address :
                Finishing(d)' /\ handler'[d].task.address = a => Left(a)' <= 0
        <4>1. SUFFICES ASSUME NEW d \in Conn, NEW a \in Address, Finishing(d)',
                              handler'[d].task.address = a
                       PROVE  Left(a)' <= 0
          OBVIOUS
        <4>2. Left(a) <= 0
          BY <1>0, <3>1, <4>1 DEF FinishersOwe
        <4>3. CASE a = t.address
          BY <2>1, <4>2, <4>3
        <4>4. CASE a # t.address
          BY <2>0, <4>2, <4>4 DEF Left
        <4> QED
          BY <4>3, <4>4
      <3> QED
        BY <3>2, <3>3 DEF FinishersOwe
    <2>4. CASE handler'[c].pc = "clone"
      <3>0. account'[t.address].remaining = 0
        BY <1>0, <2>0, <2>4 DEF Reader
      <3>1. Left(t.address) = 1 /\ Left(t.address)' = 0
        BY <2>1, <3>0
      <3>2. \A d \in Conn : Finishing(d) => handler[d].task.address # t.address
        BY <1>0, <3>1 DEF FinishersOwe
      <3>3. \A d \in Conn : Finishing(d)' =>
                d = c \/ (Finishing(d) /\ handler'[d] = handler[d] /\ d # c)
        BY <1>1 DEF Finishing
      <3>4. OneFinisher'
        BY <1>0, <2>0, <2>2, <3>2, <3>3
        DEF FinishersOwe, OneFinisher, Finishing, Scanning
      <3>5. \A d \in Conn, a \in Address :
                Finishing(d)' /\ handler'[d].task.address = a => Left(a)' <= 0
        <4>1. ASSUME NEW d \in Conn, Finishing(d), handler'[d] = handler[d],
                     NEW a \in Address, handler[d].task.address = a
              PROVE  Left(a)' <= 0
          <5>1. a # t.address /\ Left(a) <= 0
            BY <1>0, <3>2, <4>1 DEF FinishersOwe
          <5> QED
            BY <2>0, <5>1 DEF Left
        <4> QED
          BY <2>2, <3>1, <3>3, <4>1
      <3> QED
        BY <3>4, <3>5 DEF FinishersOwe
    <2> QED
      BY <2>2, <2>3, <2>4
  <1> QED
    BY <1>2, <1>3

\* Only the answer that leaves 0 remaining makes its reader a finisher.
LEMMA NextOwes ==
    ASSUME WordHoldsLate, TypeOK, TypeOK', Holders, CInv, [Next]_vars
    PROVE  FinishersOwe'
  <1>0. /\ handler \in [Conn -> Reader] /\ FinishersOwe
        /\ account \in [Address -> AccountInfo \cup {NoAccount}]
        /\ \A d \in Conn : Finishing(d) => handler[d].task.address \in Address
    BY DEF TypeOK, CInv, Finishing, Task
  <1>1. CASE UNCHANGED <<account, handler>>
    BY <1>0, <1>1, OweKept DEF Finishing
  <1>2. CASE PrimaryPop
    <2>1. handler' = handler
      BY <1>2 DEF PrimaryPop
    <2>2. \A d \in Conn : Finishing(d) => account'[handler[d].task.address]
                                            = account[handler[d].task.address]
      <3>1. CASE UNCHANGED <<account, counted, primary>>
        BY <3>1
      <3>2. CASE ~ UNCHANGED <<account, counted, primary>>
        <4>1. PICK b \in Address :
                /\ ~ Scanning(b)
                /\ \E v : account' = [account EXCEPT ![b] = v]
          BY <1>2, <3>2, PopIs
        <4> QED
          BY <1>0, <4>1 DEF FinishersOwe, OneFinisher, Finishing
      <3> QED
        BY <3>1, <3>2
    <2> QED
      BY <1>0, <2>1, <2>2, OweKept DEF Finishing
  <1>3. ASSUME NEW c \in Conn, NEW t \in sent, Receive(c, t)
        PROVE  FinishersOwe'
    <2>1. /\ account' = account /\ handler'[c].pc = "update"
          /\ \A d \in Conn \ {c} : handler'[d] = handler[d]
      BY <1>0, <1>3 DEF Receive
    <2> QED
      BY <1>0, <2>1, OweKept DEF Finishing
  <1>4. ASSUME NEW c \in Conn, CloneAccount(c) \/ Submit(c) \/ ForgetTask(c)
        PROVE  FinishersOwe'
    <2>1. account' = account /\ \A d \in Conn \ {c} : handler'[d] = handler[d]
      BY <1>0, <1>4 DEF CloneAccount, Submit, ForgetTask
    <2>2. Finishing(c)' => Finishing(c) /\ handler'[c].task = handler[c].task
      BY <1>0, <1>4 DEF CloneAccount, Submit, ForgetTask, Finishing, Reader
    <2> QED
      BY <1>0, <2>1, <2>2, OweKept DEF Finishing
  <1>5. ASSUME NEW c \in Conn, RemoveAccount(c)
        PROVE  FinishersOwe'
    <2>1. /\ handler'[c].pc = "submit" /\ Finishing(c)
          /\ \A d \in Conn \ {c} : handler'[d] = handler[d]
          /\ \A a \in Address \ {handler[c].task.address} :
                 account'[a] = account[a]
      BY <1>0, <1>5 DEF RemoveAccount, Reader, Finishing
    <2>2. \A d \in Conn \ {c} : Finishing(d) =>
              handler[d].task.address # handler[c].task.address
      BY <1>0, <2>1 DEF FinishersOwe, OneFinisher, Finishing
    <2>3. \A d \in Conn : Finishing(d)' => d # c /\ Finishing(d)
      BY <2>1 DEF Finishing
    <2> QED
      BY <1>0, <2>1, <2>2, <2>3, OweKept
  <1>6. ASSUME NEW c \in Conn, UpdateAccount(c)
        PROVE  FinishersOwe'
    BY <1>6, UpdateOwes
  <1> QED
    BY <1>1, <1>2, <1>3, <1>4, <1>5, <1>6
    DEF Next, vars, ScanAccount, PushAccount, PrimaryWake, PrimaryStep,
        PrimaryTip, PrimaryPopDone, PrimaryFetch, PrimaryDone, ScheduleStep,
        ScheduleAccount, CreateTask, Dispatch, Lose, ReaderStep,
        SecondaryWake, SecondaryStep, SecondaryTake, SecondaryLookup,
        SecondaryTaken, SecondarySchedule, SecondaryDone

\* At the start nothing is claimed and nothing remains.
LEMMA InitCInv == WordHoldsLate /\ Init => CInv
  <1> SUFFICES ASSUME WordHoldsLate, Init PROVE CInv
    OBVIOUS
  <1>1. /\ \A a \in Address : account[a] = NoAccount
        /\ taskMap = {} /\ dropped = {} /\ late = 0
        /\ secondary.keys = {} /\ secondary.removed = {} /\ secondary.list = {}
        /\ \A p \in Scheduler : job[p].accounts = {} /\ job[p].todo = {}
        /\ primary.pc = "sleep"
        /\ \A c \in Conn : ~ Finishing(c)
    BY DEF Init, IdleJob, Finishing
  <1>2. TasksAreDrawn /\ CallsInOrder /\ TipIsQuiet
    BY <1>1 DEF TasksAreDrawn, CallsInOrder, TipIsQuiet, Scheduler
  <1>3. ASSUME NEW a \in Address PROVE Paid(a)
    <2>1. \A p \in Scheduler : Waiting(p, a) = {}
      BY <1>1, <1>3 DEF Waiting, Scanning, Scheduler
    <2>2. \A k, x : ~ Claim(k, x, a)
      BY <1>1, <2>1 DEF Claim
    <2>3. Claims(a) = {}
      BY <2>2 DEF Claims
    <2>4. Left(a) = 0
      BY <1>1, ScanAssumption DEF Left, NoAccount, ScanAssumption
    <2> QED
      BY <1>1, <2>3, <2>4, FS_EmptySet DEF Paid
  <1>4. FinishersOwe
    BY <1>1 DEF FinishersOwe, OneFinisher, Finishing
  <1> QED
    BY <1>1, <1>2, <1>3, <1>4 DEF CInv, WordHoldsLate

\* CInv is inductive, relative to the invariants above.
LEMMA NextCInv ==
    WordHoldsLate /\ IInv /\ IInv' /\ SInv /\ CInv /\ [Next]_vars => CInv'
  <1> SUFFICES ASSUME WordHoldsLate, IInv, IInv', SInv, CInv, [Next]_vars
               PROVE  CInv'
    OBVIOUS
  <1>0. /\ TypeOK /\ TypeOK' /\ FreshIssue /\ Holders
        /\ TasksAreDrawn /\ CallsInOrder /\ TipIsQuiet
    BY DEF IInv, SInv, CInv
  <1>1. TasksAreDrawn' /\ CallsInOrder' /\ TipIsQuiet'
    BY <1>0, NextDrawn, NextOrder, NextTip
  <1>2. late' <= MaxLate /\ \A a \in Address : Paid(a)'
    BY <1>0, NextPaid
  <1>3. FinishersOwe'
    BY <1>0, NextOwes
  <1> QED
    BY <1>1, <1>2, <1>3 DEF CInv

\* So the claims on an account are bounded for ever.
LEMMA ClaimsAreBounded == WordHoldsLate => (Spec => []CInv)
  <1> SUFFICES ASSUME WordHoldsLate PROVE Spec => []CInv
    OBVIOUS
  <1>1. Init => CInv
    BY InitCInv
  <1>2. IInv /\ IInv' /\ SInv /\ CInv /\ [Next]_vars => CInv'
    BY NextCInv
  <1> QED
    BY <1>1, <1>2, Invariants, PTL DEF Spec

\* One reader task at a time finishes an account, which stays in the map until
\* it is done: the unwrap of manager.rs 372 holds whatever is late, lost or
\* reissued, as long as remaining_task is wide enough.
THEOREM FinisherIsAlone == WordHoldsLate => (Spec => []OneFinisher)
  <1> SUFFICES ASSUME WordHoldsLate PROVE Spec => []OneFinisher
    OBVIOUS
  <1>1. CInv => OneFinisher
    BY DEF CInv, FinishersOwe
  <1> QED
    BY <1>1, ClaimsAreBounded, PTL

----------------------------------------------------------------------------
(* What a scan can miss.                                                   *)

\* The block that a claim is on.
BlockOf(w) ==
    IF w[1] \in {"live", "early", "removed", "listed"} THEN w[2].sequence
                                                       ELSE w[2]

\* A block of a scan that is not counted has a claim of its own.
LEMMA UncountedClaimed ==
    ASSUME TypeOK, BlockConservation, NEW a \in Address, Scanning(a),
           NEW h \in ScanRange(a) \ counted[a]
    PROVE  \E w \in Claims(a) : BlockOf(w) = h
  <1>0. h \in Height
    BY ScanRangeType
  <1>1. ASSUME NEW k, NEW x, Claim(k, x, a), BlockOf(<<k, x>>) = h
        PROVE  \E w \in Claims(a) : BlockOf(w) = h
    BY <1>1, ClaimIn
  <1>2. CASE LiveTask(a, h)
    <2>1. PICK t \in taskMap \ Handled : t.address = a /\ t.sequence = h
      BY <1>2 DEF LiveTask
    <2>2. Claim("live", t, a) /\ BlockOf(<<"live", t>>) = h
      BY <2>1 DEF Claim, BlockOf
    <2> QED
      BY <1>1, <2>2
  <1>3. ASSUME NEW p \in Scheduler, h \in Waiting(p, a)
        PROVE  \E w \in Claims(a) : BlockOf(w) = h
    <2>1. Claim(p, h, a)
      BY <1>3 DEF Claim
    <2>2. BlockOf(<<p, h>>) = h
      BY DEF BlockOf, Scheduler
    <2> QED
      BY <1>1, <2>1, <2>2
  <1>4. CASE PrimaryWillIssue(a, h)
    <2>1. h \in Waiting("primary", a)
      BY <1>0, <1>4 DEF PrimaryWillIssue, Waiting, Passes
    <2> QED
      BY <1>3, <2>1 DEF Scheduler
  <1>5. ASSUME NEW t \in secondary.removed \cup secondary.list,
               t.address = a, t.sequence = h
        PROVE  \E w \in Claims(a) : BlockOf(w) = h
    <2>1. PICK k \in {"removed", "listed"} : Claim(k, t, a)
      BY <1>5 DEF Claim
    <2>2. BlockOf(<<k, t>>) = h
      BY <1>5 DEF BlockOf
    <2> QED
      BY <1>1, <2>1, <2>2
  <1>6. CASE SecondaryWillIssue(a, h)
    <2>1. CASE \E t \in secondary.removed \cup secondary.list :
                   t.address = a /\ t.sequence = h
      BY <1>5, <2>1
    <2>2. CASE \/ a \in job["secondary"].accounts /\ h \in job["secondary"].blocks
               \/ <<a, h>> \in job["secondary"].todo
      <3>1. h \in Waiting("secondary", a)
        BY <1>0, <2>2 DEF Waiting
      <3> QED
        BY <1>3, <3>1 DEF Scheduler
    <2> QED
      BY <1>6, <2>1, <2>2 DEF SecondaryWillIssue
  <1>7. CASE <<a, h>> \in dropped
    <2>1. Claim("dropped", h, a) /\ BlockOf(<<"dropped", h>>) = h
      BY <1>7 DEF Claim, BlockOf
    <2> QED
      BY <1>1, <2>1
  <1>8. Covered(a, h)
    BY DEF BlockConservation
  <1> QED
    BY <1>2, <1>4, <1>6, <1>7, <1>8 DEF Covered

\* So there are no more of them than claims.
LEMMA UncountedAreFew ==
    ASSUME TypeOK, BlockConservation, NEW a \in Address, Scanning(a), Paid(a)
    PROVE  /\ IsFiniteSet(ScanRange(a) \ counted[a])
           /\ Cardinality(ScanRange(a) \ counted[a]) \in Nat
           /\ Cardinality(ScanRange(a) \ counted[a]) <= Left(a) + late
  <1> DEFINE U == ScanRange(a) \ counted[a]
             f == [h \in U |-> CHOOSE w \in Claims(a) : BlockOf(w) = h]
  <1>1. \A h \in U : f[h] \in Claims(a) /\ BlockOf(f[h]) = h
    BY UncountedClaimed
  <1>2. f \in Injection(U, Claims(a))
    <2>1. f \in [U -> Claims(a)]
      BY <1>1
    <2> HIDE DEF f
    <2>2. \A g, h \in U : f[g] = f[h] => g = h
      BY <1>1
    <2> QED
      BY <2>1, <2>2 DEF Injection, IsInjective
  <1> HIDE DEF f, U
  <1>3. IsFiniteSet(U) /\ Cardinality(U) <= Cardinality(Claims(a))
    BY <1>2, FS_Injection DEF Paid
  <1>4. Cardinality(U) \in Nat /\ Cardinality(Claims(a)) \in Nat
    BY <1>3, FS_CardinalityType DEF Paid
  <1>5. Left(a) \in Int /\ late \in Nat
    BY LeftType DEF TypeOK
  <1> QED
    BY <1>3, <1>4, <1>5 DEF U, Paid

\* What is missing from a message is missing for good, and late only grows.
LEMMA MissingKept ==
    ASSUME TypeOK, TypeOK', MissesAtMostLate, late <= late',
           \A c \in Conn : c \in Finished' =>
               /\ c \in Finished
               /\ handler'[c].task = handler[c].task
               /\ handler'[c].msg = handler[c].msg
    PROVE  MissesAtMostLate'
  <1>1. SUFFICES ASSUME NEW c \in Conn, c \in Finished'
                 PROVE  Cardinality(Missing(c)') <= late'
    BY DEF MissesAtMostLate, Finished
  <1>2. Missing(c)' = Missing(c)
    BY <1>1 DEF Missing
  <1>3. Cardinality(Missing(c)) <= late
    BY <1>1 DEF MissesAtMostLate
  <1>4. handler[c].msg \in Message \cup {NoMessage} /\ late \in Nat /\ late' \in Nat
    BY DEF TypeOK, Reader
  <1>5. handler[c].msg.start \in Int /\ handler[c].msg.end \in Int
    BY <1>4, ScanAssumption DEF Message, NoMessage, Height, ScanAssumption
  <1>6. IsFiniteSet(handler[c].msg.start .. handler[c].msg.end)
    BY <1>5, FS_Interval
  <1>7. Missing(c) \in SUBSET (handler[c].msg.start .. handler[c].msg.end)
    BY DEF Missing
  <1> HIDE DEF Missing
  <1>8. IsFiniteSet(Missing(c))
    BY <1>6, <1>7, FS_Subset
  <1>9. Cardinality(Missing(c)) \in Nat
    BY <1>8, FS_CardinalityType
  <1> QED
    BY <1>2, <1>3, <1>4, <1>9

\* The message is made of an account with nothing left over but what is paid
\* for by a late answer.
LEMMA CloneMisses ==
    ASSUME TypeOK, BlockConservation, Tally, CInv, NEW c \in Conn,
           CloneAccount(c)
    PROVE  Cardinality(Missing(c)') <= late'
  <1> PICK a : a = handler[c].task.address
    OBVIOUS
  <1>0. /\ handler \in [Conn -> Reader] /\ handler[c].pc = "clone"
        /\ handler[c].task \in Task
    BY DEF TypeOK, CloneAccount
  <1>1. a \in Address /\ Scanning(a) /\ Finishing(c)
    BY <1>0 DEF CloneAccount, Task, Finishing
  <1>2. Left(a) <= 0 /\ Paid(a) /\ Left(a) \in Int /\ late \in Nat
    BY <1>1, LeftType DEF CInv, FinishersOwe, TypeOK
  <1>3. account[a].blocks = {h \in counted[a] : <<a, h>> \in Relevant}
    BY <1>1 DEF Tally
  <1>4. Missing(c)' \subseteq ScanRange(a) \ counted[a]
    <2>1. /\ handler'[c].task.address = a
          /\ handler'[c].msg = [start |-> account[a].start, end |-> account[a].end,
                                blocks |-> account[a].blocks]
      BY <1>0 DEF CloneAccount, Reader
    <2>2. Missing(c)' = {h \in account[a].start .. account[a].end :
                            <<a, h>> \in Relevant} \ account[a].blocks
      BY <2>1 DEF Missing
    <2> QED
      BY <1>3, <2>2 DEF ScanRange
  <1> DEFINE U == ScanRange(a) \ counted[a]
             M == Missing(c)'
  <1>5. IsFiniteSet(U) /\ Cardinality(U) \in Nat /\ Cardinality(U) <= Left(a) + late
    BY <1>1, <1>2, UncountedAreFew
  <1>6. M \in SUBSET U
    BY <1>4
  <1> HIDE DEF U, M
  <1>7. IsFiniteSet(M) /\ Cardinality(M) <= Cardinality(U)
    BY <1>5, <1>6, FS_Subset
  <1>8. Cardinality(M) \in Nat
    BY <1>7, FS_CardinalityType
  <1>9. late' = late
    BY DEF CloneAccount, bounds
  <1> QED
    BY <1>2, <1>5, <1>7, <1>8, <1>9 DEF M

\* Only CloneAccount makes a message, and every other step leaves it alone.
LEMMA NextMisses ==
    ASSUME TypeOK, TypeOK', BlockConservation, Tally, CInv,
           MissesAtMostLate, [Next]_vars
    PROVE  MissesAtMostLate'
  <1>0. /\ handler \in [Conn -> Reader] /\ late \in Nat
        /\ IsFiniteSet(taskMap)
    BY DEF TypeOK
  <1>1. CASE UNCHANGED <<handler, late>>
    BY <1>0, <1>1, MissingKept DEF Finished
  <1>2. ASSUME NEW keys \in SUBSET taskMap, SecondaryWake(keys)
        PROVE  MissesAtMostLate'
    <2>1. PICK n : n = Cardinality(keys \cap Outstanding) /\ late' = late + n
      BY <1>2 DEF SecondaryWake
    <2>2. IsFiniteSet(keys \cap Outstanding)
      <3>1. keys \cap Outstanding \in SUBSET taskMap
        OBVIOUS
      <3> QED
        BY <1>0, <3>1, FS_Subset
    <2>3. n \in Nat
      BY <2>1, <2>2, FS_CardinalityType
    <2>4. handler' = handler /\ late <= late'
      BY <1>0, <1>2, <2>1, <2>3 DEF SecondaryWake
    <2> QED
      BY <2>4, MissingKept DEF Finished
  <1>3. ASSUME NEW c \in Conn,
               \/ \E t \in sent : Receive(c, t)
               \/ UpdateAccount(c) \/ RemoveAccount(c) \/ Submit(c)
               \/ ForgetTask(c)
        PROVE  MissesAtMostLate'
    <2>1. late' = late /\ \A d \in Conn \ {c} : handler'[d] = handler[d]
      BY <1>0, <1>3 DEF Receive, UpdateAccount, RemoveAccount, Submit,
                        ForgetTask, bounds
    <2>2. c \in Finished' =>
              /\ c \in Finished
              /\ handler'[c].task = handler[c].task
              /\ handler'[c].msg = handler[c].msg
      BY <1>0, <1>3 DEF Receive, UpdateAccount, RemoveAccount, Submit,
                        ForgetTask, Finished, Reader
    <2>3. \A d \in Conn \ {c} : d \in Finished' => d \in Finished
      BY <2>1 DEF Finished
    <2> QED
      BY <1>0, <2>1, <2>2, <2>3, MissingKept
  <1>4. ASSUME NEW c \in Conn, CloneAccount(c)
        PROVE  MissesAtMostLate'
    <2>1. late' = late /\ \A d \in Conn \ {c} : handler'[d] = handler[d]
      BY <1>0, <1>4 DEF CloneAccount, bounds
    <2>2. SUFFICES ASSUME NEW d \in Conn \ {c}, d \in Finished'
                   PROVE  Cardinality(Missing(d)') <= late'
      BY <1>4, CloneMisses DEF MissesAtMostLate, Finished
    <2>3. d \in Finished /\ Missing(d)' = Missing(d)
      BY <2>1, <2>2 DEF Finished, Missing
    <2> QED
      BY <2>1, <2>3 DEF MissesAtMostLate
  <1> QED
    BY <1>1, <1>2, <1>3, <1>4
    DEF Next, vars, bounds, ScanAccount, PushAccount, PrimaryWake,
        PrimaryStep, PrimaryTip, PrimaryPop, PrimaryPopDone, PrimaryFetch,
        PrimaryDone, ScheduleStep, ScheduleAccount, CreateTask, Dispatch, Lose,
        ReaderStep, SecondaryStep, SecondaryTake, SecondaryLookup,
        SecondaryTaken, SecondarySchedule, SecondaryDone

\* A finished scan leaves out no more blocks than tasks were found expired
\* before their answer was dealt with: without those it is complete, and each
\* of them costs one block at most.
THEOREM LossIsBounded == WordHoldsLate => (Spec => []MissesAtMostLate)
  <1> SUFFICES ASSUME WordHoldsLate PROVE Spec => []MissesAtMostLate
    OBVIOUS
  <1>1. Init => MissesAtMostLate
    BY DEF Init, MissesAtMostLate, Finished
  <1>2. IInv /\ IInv' /\ SInv /\ CInv /\ MissesAtMostLate /\ [Next]_vars
            => MissesAtMostLate'
    BY NextMisses DEF IInv, SInv
  <1> QED
    BY <1>1, <1>2, ClaimsAreBounded, Invariants, PTL DEF Spec

----------------------------------------------------------------------------
(* The coordinator implements ScanService.                                 *)

\* Where the requests for account a are, and the readers with its results.
Callers(a) == {k \in Client : \E req \in rest[k] : req.address = a}
Places(a) == {i \in DOMAIN toScan : toScan[i].address = a}
Enders(a) == {c \in Conn : /\ handler[c].pc = "submit"
                           /\ handler[c].task.address = a}
Scans(a) == IF Scanning(a) THEN 1 ELSE 0

\* A handler pushes the request that it has checked; and however many clients
\* and connections there may be, only so many are in use.
RestOne == \A k \in Client : \A q, r \in rest[k] : q = r
InUse == /\ IsFiniteSet({k \in Client : rest[k] # {}})
         /\ IsFiniteSet({c \in Conn : handler[c].pc = "submit"})
RInv == RestOne /\ InUse

\* A client's slot is filled with one request or emptied.
LEMMA NextRestOne ==
    ASSUME TypeOK, RestOne, [Next]_vars
    PROVE  RestOne'
  <1>0. rest \in [Client -> SUBSET ScanRequest]
    BY DEF TypeOK
  <1>1. \A k \in Client : rest'[k] \in {rest[k], {}}
                              \cup {{req} : req \in ScanRequest}
    BY <1>0
    DEF Next, vars, ScanAccount, PushAccount, PrimaryWake, PrimaryStep,
        PrimaryTip, PrimaryPop, PrimaryPopDone, PrimaryFetch, PrimaryDone,
        ScheduleStep, ScheduleAccount, CreateTask, Dispatch, Receive, Lose,
        ReaderStep, UpdateAccount, CloneAccount, RemoveAccount, Submit,
        ForgetTask, SecondaryWake, SecondaryStep, SecondaryTake,
        SecondaryLookup, SecondaryTaken, SecondarySchedule, SecondaryDone
  <1> QED
    BY <1>1 DEF RestOne

\* A step uses at most one client and one connection more.
LEMMA NextInUse ==
    ASSUME TypeOK, InUse, [Next]_vars
    PROVE  InUse'
  <1> DEFINE R == {k \in Client : rest[k] # {}}
             S == {c \in Conn : handler[c].pc = "submit"}
  <1>0. /\ rest \in [Client -> SUBSET ScanRequest]
        /\ handler \in [Conn -> Reader]
        /\ IsFiniteSet(R) /\ IsFiniteSet(S)
    BY DEF TypeOK, InUse
  <1>1. \E k : \A l \in Client \ {k} : rest'[l] = rest[l]
    BY <1>0
    DEF Next, vars, ScanAccount, PushAccount, PrimaryWake, PrimaryStep,
        PrimaryTip, PrimaryPop, PrimaryPopDone, PrimaryFetch, PrimaryDone,
        ScheduleStep, ScheduleAccount, CreateTask, Dispatch, Receive, Lose,
        ReaderStep, UpdateAccount, CloneAccount, RemoveAccount, Submit,
        ForgetTask, SecondaryWake, SecondaryStep, SecondaryTake,
        SecondaryLookup, SecondaryTaken, SecondarySchedule, SecondaryDone
  <1>2. \E c : \A d \in Conn \ {c} : handler'[d] = handler[d]
    BY <1>0
    DEF Next, vars, ScanAccount, PushAccount, PrimaryWake, PrimaryStep,
        PrimaryTip, PrimaryPop, PrimaryPopDone, PrimaryFetch, PrimaryDone,
        ScheduleStep, ScheduleAccount, CreateTask, Dispatch, Receive, Lose,
        ReaderStep, UpdateAccount, CloneAccount, RemoveAccount, Submit,
        ForgetTask, SecondaryWake, SecondaryStep, SecondaryTake,
        SecondaryLookup, SecondaryTaken, SecondarySchedule, SecondaryDone
  <1>3. PICK k, c : R' \subseteq R \cup {k} /\ S' \subseteq S \cup {c}
    BY <1>1, <1>2
  <1> HIDE DEF R, S
  <1>4. IsFiniteSet(R \cup {k}) /\ IsFiniteSet(S \cup {c})
    BY <1>0, FS_AddElement
  <1>5. R' \in SUBSET (R \cup {k}) /\ S' \in SUBSET (S \cup {c})
    BY <1>3
  <1>6. IsFiniteSet(R') /\ IsFiniteSet(S')
    BY <1>4, <1>5, FS_Subset
  <1> QED
    BY <1>6 DEF InUse, R, S

\* So what an account is owed, and its results, are counts of finite sets.
LEMMA ServiceParts ==
    ASSUME TypeOK, InUse, NEW a \in Address
    PROVE  /\ IsFiniteSet(Callers(a)) /\ IsFiniteSet(Places(a))
           /\ IsFiniteSet(Enders(a))
  <1>1. Callers(a) \in SUBSET {k \in Client : rest[k] # {}}
    BY DEF Callers
  <1>2. Places(a) \in SUBSET (1 .. Len(toScan)) /\ Len(toScan) \in Nat
    BY DEF Places, TypeOK
  <1>3. Enders(a) \in SUBSET {c \in Conn : handler[c].pc = "submit"}
    BY DEF Enders
  <1>4. IsFiniteSet(1 .. Len(toScan))
    BY <1>2, FS_Interval
  <1> QED
    BY <1>1, <1>2, <1>3, <1>4, FS_Subset DEF InUse

\* Sets that gain or lose an element.
Gains(S, T, x) == x \notin S /\ T = S \cup {x}

\* One element more is one more.
LEMMA GainsOne ==
    ASSUME NEW S, NEW T, NEW x, Gains(S, T, x), IsFiniteSet(S)
    PROVE  Cardinality(T) = Cardinality(S) + 1
  BY FS_AddElement DEF Gains

\* What is owed, and what has resulted, add up from these.
SizesAre ==
    \A a \in Address :
        /\ Owed(a) = Cardinality(Callers(a)) + Cardinality(Places(a)) + Scans(a)
        /\ Results(a) = Cardinality(Enders(a))
        /\ Cardinality(Callers(a)) \in Nat /\ Cardinality(Places(a)) \in Nat
        /\ Cardinality(Enders(a)) \in Nat /\ Scans(a) \in {0, 1}

\* The counts of ScanService are these sums.
LEMMA SizesAdd == TypeOK /\ InUse => SizesAre
  BY ServiceParts, FS_CardinalityType
  DEF SizesAre, Owed, Results, Callers, Places, Enders, Scans

\* Account b is now owed m scans and has n results; nothing changes for the
\* others.
Becomes(b, m, n) ==
    /\ Owed(b)' = m /\ Results(b)' = n
    /\ \A a \in Address \ {b} : Owed(a)' = Owed(a) /\ Results(a)' = Results(a)

ServiceVars ==
    <<[a \in Address |-> Owed(a)], [a \in Address |-> Results(a)]>>

\* Each of these changes is a step of the service.
LEMMA BecomesIsStep ==
    ASSUME SizesAre, SizesAre', NEW b \in Address,
           \/ Becomes(b, Owed(b), Results(b))
           \/ Becomes(b, Owed(b) + 1, Results(b))
           \/ Becomes(b, Owed(b) - 1, Results(b)) /\ Owed(b) > 1
           \/ Becomes(b, Owed(b) - 1, Results(b) + 1) /\ Owed(b) > 0
           \/ Becomes(b, Owed(b), Results(b) - 1) /\ Results(b) > 0
    PROVE  [Service!Next]_ServiceVars
  <1>1. \A a \in Address : Owed(a) \in Nat /\ Results(a) \in Nat
    BY DEF SizesAre
  <1>2. CASE Becomes(b, Owed(b), Results(b))
    BY <1>1, <1>2 DEF Becomes, ServiceVars
  <1>3. CASE Becomes(b, Owed(b) + 1, Results(b))
    <2>1. Service!Take(b)
      BY <1>1, <1>3 DEF Becomes, Service!Take
    <2> QED
      BY <2>1 DEF Service!Next
  <1>4. CASE Becomes(b, Owed(b) - 1, Results(b)) /\ Owed(b) > 1
    <2>1. Service!Merge(b)
      BY <1>1, <1>4 DEF Becomes, Service!Merge
    <2> QED
      BY <2>1 DEF Service!Next
  <1>5. CASE Becomes(b, Owed(b) - 1, Results(b) + 1) /\ Owed(b) > 0
    <2>1. Service!Finish(b)
      BY <1>1, <1>5 DEF Becomes, Service!Finish
    <2> QED
      BY <2>1 DEF Service!Next
  <1>6. CASE Becomes(b, Owed(b), Results(b) - 1) /\ Results(b) > 0
    <2>1. Service!Settle(b)
      BY <1>1, <1>6 DEF Becomes, Service!Settle
    <2> QED
      BY <2>1 DEF Service!Next
  <1> QED
    BY <1>2, <1>3, <1>4, <1>5, <1>6

\* The parts that a step leaves alone.
SameCallers == \A a \in Address : Callers(a)' = Callers(a)
SamePlaces == \A a \in Address : Places(a)' = Places(a)
SameScans == \A a \in Address : Scans(a)' = Scans(a)
SameEnders == \A a \in Address : Enders(a)' = Enders(a)

\* Readers that neither enter nor leave the submission change no result.
LEMMA ReadersStay ==
    ASSUME \A c \in Conn :
               \/ handler'[c] = handler[c]
               \/ handler[c].pc # "submit" /\ handler'[c].pc # "submit"
               \/ /\ handler'[c].pc = handler[c].pc
                  /\ handler'[c].task = handler[c].task
    PROVE  SameEnders
  BY DEF SameEnders, Enders

\* A step that changes none of the parts is a stutter of the service.
LEMMA NothingAdded ==
    ASSUME SizesAre, SizesAre',
           SameCallers, SamePlaces, SameScans, SameEnders
    PROVE  [Service!Next]_ServiceVars
  <1>1. \A a \in Address : Owed(a)' = Owed(a) /\ Results(a)' = Results(a)
    BY DEF SizesAre, SameCallers, SamePlaces, SameScans, SameEnders
  <1> QED
    BY <1>1 DEF ServiceVars

\* A request that is checked and not skipped.
LEMMA ScanAccountServes ==
    ASSUME TypeOK, TypeOK', InUse, SizesAre, SizesAre',
           NEW k \in Client, NEW req \in ScanRequest, ScanAccount(k, req)
    PROVE  [Service!Next]_ServiceVars
  <1> PICK b \in Address : b = req.address
    BY DEF ScanRequest
  <1>1. SamePlaces /\ SameScans /\ SameEnders
    BY DEF ScanAccount, SamePlaces, SameScans, SameEnders, Places, Scans,
           Scanning, Enders
  <1>2. CASE ShouldSkip(b)
    <2>1. SameCallers
      BY <1>2 DEF ScanAccount, SameCallers, Callers
    <2> QED
      BY <1>1, <2>1, NothingAdded
  <1>3. CASE ~ ShouldSkip(b)
    <2>1. rest[k] = {} /\ rest' = [rest EXCEPT ![k] = {req}]
          /\ rest \in [Client -> SUBSET ScanRequest]
      BY <1>3 DEF ScanAccount, TypeOK
    <2>2. Gains(Callers(b), Callers(b)', k)
      BY <2>1 DEF Gains, Callers
    <2>3. \A a \in Address \ {b} : Callers(a)' = Callers(a)
      BY <2>1 DEF Callers
    <2>4. Cardinality(Callers(b)') = Cardinality(Callers(b)) + 1
      BY <2>2, GainsOne, ServiceParts
    <2>5. Becomes(b, Owed(b) + 1, Results(b))
      BY <1>1, <2>3, <2>4
      DEF SizesAre, Becomes, SamePlaces, SameScans, SameEnders
    <2> QED
      BY <2>5, BecomesIsStep
  <1> QED
    BY <1>2, <1>3

\* It goes into accounts_to_scan.
LEMMA PushServes ==
    ASSUME TypeOK, TypeOK', InUse, InUse', RestOne, SizesAre, SizesAre',
           NEW k \in Client, PushAccount(k)
    PROVE  [Service!Next]_ServiceVars
  <1>0. rest \in [Client -> SUBSET ScanRequest] /\ toScan \in Seq(ScanRequest)
    BY DEF TypeOK
  <1>1. SameScans /\ SameEnders
    BY DEF PushAccount, SameScans, SameEnders, Scans, Scanning, Enders
  <1>2. PICK req \in ScanRequest : /\ rest[k] = {req}
                                   /\ toScan' = Append(toScan, req)
    BY <1>0 DEF PushAccount, RestOne
  <1>3. rest' = [rest EXCEPT ![k] = {}]
    BY DEF PushAccount
  <1> PICK b \in Address : b = req.address
    BY DEF ScanRequest
  <1> DEFINE n == Len(toScan) + 1
  <1>4. /\ DOMAIN toScan' = DOMAIN toScan \cup {n} /\ n \notin DOMAIN toScan
        /\ toScan'[n] = req
        /\ \A i \in DOMAIN toScan : toScan'[i] = toScan[i]
    BY <1>0, <1>2
  <1> HIDE DEF n
  <1>5. /\ Gains(Callers(b)', Callers(b), k)
        /\ \A a \in Address \ {b} : Callers(a)' = Callers(a)
    BY <1>0, <1>2, <1>3 DEF Gains, Callers
  <1>6. /\ Gains(Places(b), Places(b)', n)
        /\ \A a \in Address \ {b} : Places(a)' = Places(a)
    BY <1>4 DEF Gains, Places
  <1>7. IsFiniteSet(Callers(b)') /\ IsFiniteSet(Places(b))
    <2>1. IsFiniteSet(Callers(b)) /\ IsFiniteSet(Places(b))
      BY ServiceParts
    <2>2. Callers(b)' \in SUBSET Callers(b)
      BY <1>5 DEF Gains
    <2> QED
      BY <2>1, <2>2, FS_Subset
  <1>8. /\ Cardinality(Callers(b)) = Cardinality(Callers(b)') + 1
        /\ Cardinality(Places(b)') = Cardinality(Places(b)) + 1
    BY <1>5, <1>6, <1>7, GainsOne
  <1>9. Becomes(b, Owed(b), Results(b))
    BY <1>1, <1>5, <1>6, <1>8 DEF SizesAre, Becomes, SameScans, SameEnders
  <1> QED
    BY <1>9, BecomesIsStep

\* The primary task makes a scan of it, or leaves it to the one there is.
LEMMA PopServes ==
    ASSUME TypeOK, TypeOK', InUse, SizesAre, SizesAre', PrimaryPop
    PROVE  [Service!Next]_ServiceVars
  <1>0. /\ toScan \in Seq(ScanRequest) /\ toScan # <<>>
        /\ account \in [Address -> AccountInfo \cup {NoAccount}]
        /\ toScan' \in Seq(ScanRequest)
    BY DEF TypeOK, PrimaryPop
  <1>1. SameCallers /\ SameEnders
    BY DEF PrimaryPop, SameCallers, SameEnders, Callers, Enders
  <1> DEFINE n == Len(toScan)
  <1>2. n \in 1 .. Len(toScan) /\ toScan[n] \in ScanRequest
    BY <1>0
  <1> PICK b \in Address : b = toScan[n].address
    BY <1>2 DEF ScanRequest
  <1>3. /\ DOMAIN toScan = DOMAIN toScan' \cup {n} /\ n \notin DOMAIN toScan'
        /\ \A i \in DOMAIN toScan' : toScan'[i] = toScan[i]
    <2>1. toScan' = SubSeq(toScan, 1, n - 1)
      BY DEF PrimaryPop
    <2>2. n \in Nat /\ n > 0 /\ DOMAIN toScan = 1 .. n
      BY <1>0
    <2>3. DOMAIN toScan' = 1 .. n - 1
      BY <1>0, <2>1, <2>2
    <2>4. \A i \in 1 .. n - 1 : toScan'[i] = toScan[i]
      BY <1>0, <2>1, <2>2
    <2> HIDE DEF n
    <2> QED
      BY <2>2, <2>3, <2>4
  <1>4. /\ Gains(Places(b)', Places(b), n)
        /\ \A a \in Address \ {b} : Places(a)' = Places(a)
    BY <1>3 DEF Gains, Places
  <1>5. IsFiniteSet(Places(b)')
    <2>1. IsFiniteSet(Places(b))
      BY ServiceParts
    <2>2. Places(b)' \in SUBSET Places(b)
      BY <1>4 DEF Gains
    <2> QED
      BY <2>1, <2>2, FS_Subset
  <1>6. Cardinality(Places(b)) = Cardinality(Places(b)') + 1
    BY <1>4, <1>5, GainsOne
  <1>7. CASE Scanning(b)
    <2>1. account' = account
      BY <1>7 DEF PrimaryPop, Duplicate
    <2>2. SameScans /\ Scans(b) = 1
      BY <1>7, <2>1 DEF SameScans, Scans, Scanning
    <2>3. Becomes(b, Owed(b) - 1, Results(b))
      BY <1>1, <1>4, <1>6, <2>2
      DEF SizesAre, Becomes, SameCallers, SameScans, SameEnders
    <2>4. Owed(b) > 1
      BY <1>6, <2>2 DEF SizesAre
    <2> QED
      BY <2>3, <2>4, BecomesIsStep
  <1>8. CASE ~ Scanning(b)
    <2>1. account' = [account EXCEPT ![b] =
                NewAccount(StartOf(toScan[n].head, primary.end), primary.end)]
      BY <1>8 DEF PrimaryPop, Duplicate
    <2>2. toScan[n].head \in Height /\ primary.end \in Height
      BY <1>2 DEF ScanRequest, TypeOK, PrimaryTask
    <2>3. account'[b] # NoAccount
      <3>1. StartOf(toScan[n].head, primary.end) \in 1 .. primary.end
        BY <2>2, NewAccountType
      <3>2. primary.end \in Nat \ {0}
        BY <2>2, ScanAssumption DEF Height, ScanAssumption
      <3> QED
        BY <1>0, <2>1, <3>1, <3>2 DEF NewAccount, NoAccount
    <2>4. /\ Scans(b) = 0 /\ Scans(b)' = 1
          /\ \A a \in Address \ {b} : Scans(a)' = Scans(a)
      BY <1>0, <1>8, <2>1, <2>3 DEF Scans, Scanning
    <2>5. Becomes(b, Owed(b), Results(b))
      BY <1>1, <1>4, <1>6, <2>4
      DEF SizesAre, Becomes, SameCallers, SameEnders
    <2> QED
      BY <2>5, BecomesIsStep
  <1> QED
    BY <1>7, <1>8

\* The reader that finishes an account ends its scan, with one result.
LEMMA RemoveServes ==
    ASSUME TypeOK, TypeOK', InUse, SizesAre, SizesAre', OneFinisher,
           NEW c \in Conn, RemoveAccount(c)
    PROVE  [Service!Next]_ServiceVars
  <1>0. /\ account \in [Address -> AccountInfo \cup {NoAccount}]
        /\ handler \in [Conn -> Reader]
        /\ handler[c].pc = "remove" /\ handler[c].task \in Task
    BY DEF TypeOK, RemoveAccount
  <1> PICK b \in Address : b = handler[c].task.address
    BY <1>0 DEF Task
  <1>1. SameCallers /\ SamePlaces
    BY DEF RemoveAccount, SameCallers, SamePlaces, Callers, Places
  <1>2. Scanning(b)
    BY <1>0 DEF OneFinisher
  <1>3. /\ Scans(b) = 1 /\ Scans(b)' = 0
        /\ \A a \in Address \ {b} : Scans(a)' = Scans(a)
    BY <1>0, <1>2 DEF RemoveAccount, Scans, Scanning
  <1>4. /\ Gains(Enders(b), Enders(b)', c)
        /\ \A a \in Address \ {b} : Enders(a)' = Enders(a)
    <2>1. handler'[c].pc = "submit" /\ handler'[c].task.address = b
      BY <1>0 DEF RemoveAccount, Reader
    <2>2. \A d \in Conn \ {c} : handler'[d] = handler[d]
      BY <1>0 DEF RemoveAccount
    <2>3. \A a : c \notin Enders(a)
      BY <1>0 DEF Enders
    <2> QED
      BY <2>1, <2>2, <2>3 DEF Gains, Enders
  <1>5. Cardinality(Enders(b)') = Cardinality(Enders(b)) + 1
    BY <1>4, GainsOne, ServiceParts
  <1>6. Becomes(b, Owed(b) - 1, Results(b) + 1)
    BY <1>1, <1>3, <1>4, <1>5
    DEF SizesAre, Becomes, SameCallers, SamePlaces
  <1>7. Owed(b) > 0
    BY <1>3 DEF SizesAre
  <1> QED
    BY <1>6, <1>7, BecomesIsStep

\* The result is submitted or given up, or there is another attempt.
LEMMA SubmitServes ==
    ASSUME TypeOK, TypeOK', InUse, SizesAre, SizesAre',
           NEW c \in Conn, Submit(c)
    PROVE  [Service!Next]_ServiceVars
  <1>0. /\ handler \in [Conn -> Reader]
        /\ handler[c].pc = "submit" /\ handler[c].task \in Task
    BY DEF TypeOK, Submit
  <1> PICK b \in Address : b = handler[c].task.address
    BY <1>0 DEF Task
  <1>1. SameCallers /\ SamePlaces /\ SameScans
    BY DEF Submit, SameCallers, SamePlaces, SameScans, Callers, Places, Scans,
           Scanning
  <1>2. /\ handler'[c].pc \in {"submit", "forget"}
        /\ handler'[c].task = handler[c].task
        /\ \A d \in Conn \ {c} : handler'[d] = handler[d]
    BY <1>0 DEF Submit, Reader
  <1>3. CASE handler'[c].pc = "submit"
    <2>1. SameEnders
      BY <1>0, <1>2, <1>3, ReadersStay
    <2> QED
      BY <1>1, <2>1, NothingAdded
  <1>4. CASE handler'[c].pc = "forget"
    <2>1. /\ Gains(Enders(b)', Enders(b), c)
          /\ \A a \in Address \ {b} : Enders(a)' = Enders(a)
      BY <1>0, <1>2, <1>4 DEF Gains, Enders
    <2>2. IsFiniteSet(Enders(b)')
      <3>1. IsFiniteSet(Enders(b))
        BY ServiceParts
      <3>2. Enders(b)' \in SUBSET Enders(b)
        BY <2>1 DEF Gains
      <3> QED
        BY <3>1, <3>2, FS_Subset
    <2>3. Cardinality(Enders(b)) = Cardinality(Enders(b)') + 1
      BY <2>1, <2>2, GainsOne
    <2>4. Becomes(b, Owed(b), Results(b) - 1)
      BY <1>1, <2>1, <2>3
      DEF SizesAre, Becomes, SameCallers, SamePlaces, SameScans
    <2>5. Results(b) > 0
      BY <2>3 DEF SizesAre
    <2> QED
      BY <2>4, <2>5, BecomesIsStep
  <1> QED
    BY <1>2, <1>3, <1>4

\* No other step of a reader or a worker changes what is owed.
LEMMA ReaderServes ==
    ASSUME TypeOK, TypeOK', SizesAre, SizesAre', NEW c \in Conn,
           \/ \E t \in sent : Receive(c, t)
           \/ UpdateAccount(c) \/ CloneAccount(c) \/ ForgetTask(c)
    PROVE  [Service!Next]_ServiceVars
  <1>0. handler \in [Conn -> Reader]
    BY DEF TypeOK
  <1>1. SameCallers /\ SamePlaces
    BY DEF Receive, UpdateAccount, CloneAccount, ForgetTask, SameCallers,
           SamePlaces, Callers, Places
  <1>2. SameEnders
    <2>1. /\ handler[c].pc # "submit" /\ handler'[c].pc # "submit"
          /\ \A d \in Conn \ {c} : handler'[d] = handler[d]
      BY <1>0 DEF Receive, UpdateAccount, CloneAccount, ForgetTask, Reader
    <2> QED
      BY <2>1, ReadersStay
  <1>3. SameScans
    <2>1. CASE account' = account
      BY <2>1 DEF SameScans, Scans, Scanning
    <2>2. CASE UpdateAccount(c) /\ Counts(handler[c].task)
      <3> PICK t : t = handler[c].task
        OBVIOUS
      <3>1. /\ t.address \in Address
            /\ Scanning(t.address) /\ Scanning(t.address)'
            /\ \A a \in Address \ {t.address} : account'[a] = account[a]
        BY <2>2, UpdateEffect
      <3> QED
        BY <3>1 DEF SameScans, Scans, Scanning
    <2> QED
      BY <2>1, <2>2 DEF Receive, UpdateAccount, CloneAccount, ForgetTask
  <1> QED
    BY <1>1, <1>2, <1>3, NothingAdded

\* At the start nothing is owed.
LEMMA InitIsServiceInit == Init => Service!Init
  <1> SUFFICES ASSUME Init PROVE Service!Init
    OBVIOUS
  <1>1. ASSUME NEW a \in Address PROVE Owed(a) = 0 /\ Results(a) = 0
    <2>1. Callers(a) = {} /\ Places(a) = {} /\ Enders(a) = {} /\ Scans(a) = 0
      BY <1>1 DEF Init, Callers, Places, Enders, Scans, Scanning
    <2>2. /\ Owed(a) = Cardinality(Callers(a)) + Cardinality(Places(a))
                           + Scans(a)
          /\ Results(a) = Cardinality(Enders(a))
      BY DEF Owed, Results, Callers, Places, Enders, Scans
    <2> QED
      BY <2>1, <2>2, FS_EmptySet
  <1> QED
    BY <1>1 DEF Service!Init

\* Every step is one of the service, or a stutter.
LEMMA NextIsServiceNext ==
    ASSUME TypeOK, TypeOK', OneFinisher, RInv, RInv', SizesAre, SizesAre',
           [Next]_vars
    PROVE  [Service!Next]_ServiceVars
  <1>0. RestOne /\ InUse /\ InUse'
    BY DEF RInv
  <1>1. CASE UNCHANGED <<rest, toScan, account, handler>>
    <2>1. SameCallers /\ SamePlaces /\ SameScans /\ SameEnders
      BY <1>1 DEF SameCallers, SamePlaces, SameScans, SameEnders, Callers,
                  Places, Scans, Scanning, Enders
    <2> QED
      BY <2>1, NothingAdded
  <1>2. CASE PrimaryPop
    BY <1>0, <1>2, PopServes
  <1>3. ASSUME NEW c \in Conn, ReaderStep(c) PROVE [Service!Next]_ServiceVars
    BY <1>0, <1>3, RemoveServes, SubmitServes, ReaderServes DEF ReaderStep
  <1>4. ASSUME NEW k \in Client,
               \/ \E req \in ScanRequest : ScanAccount(k, req)
               \/ PushAccount(k)
        PROVE  [Service!Next]_ServiceVars
    BY <1>0, <1>4, ScanAccountServes, PushServes
  <1>5. ASSUME NEW c \in Conn, NEW t \in sent, Receive(c, t)
        PROVE  [Service!Next]_ServiceVars
    BY <1>5, ReaderServes
  <1> QED
    BY <1>1, <1>2, <1>3, <1>4, <1>5
    DEF Next, vars, PrimaryWake, PrimaryStep, PrimaryTip, PrimaryPopDone,
        PrimaryFetch, PrimaryDone, ScheduleStep, ScheduleAccount, CreateTask,
        Dispatch, Lose, SecondaryWake, SecondaryStep, SecondaryTake,
        SecondaryLookup, SecondaryTaken, SecondarySchedule, SecondaryDone

\* The slots and the submissions in use are always finitely many.
LEMMA RInvHolds == Spec => []RInv
  <1>1. Init => RInv
    <2> SUFFICES ASSUME Init PROVE RInv
      OBVIOUS
    <2>1. /\ {k \in Client : rest[k] # {}} = {}
          /\ {c \in Conn : handler[c].pc = "submit"} = {}
          /\ RestOne
      BY DEF Init, RestOne
    <2> QED
      BY <2>1, FS_EmptySet DEF RInv, InUse
  <1>2. TypeOK /\ RInv /\ [Next]_vars => RInv'
    BY NextRestOne, NextInUse DEF RInv
  <1> QED
    BY <1>1, <1>2, TypeCorrect, PTL DEF Spec

\* The contract with the server: whatever is queued twice, late, lost, reissued
\* or counted twice, no request is dropped but for another scan of its
\* account, and every scan ends with one result, which is settled once.
THEOREM ScannerIsService == WordHoldsLate => (Spec => IsScanService)
  <1> SUFFICES ASSUME WordHoldsLate PROVE Spec => IsScanService
    OBVIOUS
  <1>1. TypeOK /\ TypeOK' /\ OneFinisher /\ RInv /\ RInv' /\ SizesAre
            /\ SizesAre' /\ [Next]_vars
        => [Service!Next]_ServiceVars
    BY NextIsServiceNext
  <1>2. TypeOK /\ RInv => SizesAre
    BY SizesAdd DEF RInv
  <1> QED
    BY <1>1, <1>2, TypeCorrect, FinisherIsAlone, RInvHolds, InitIsServiceInit,
       PTL
    DEF Spec, IsScanService, Service!Spec, ServiceVars
=============================================================================

-------------------------- MODULE ScanManagerProofs --------------------------
(***************************************************************************)
(* Theorems about ScanManager, for every set of addresses, connections and *)
(* clients, every height, batch size and bound.                            *)
(***************************************************************************)
EXTENDS ScanManager, FiniteSetTheorems, TLAPS

----------------------------------------------------------------------------
(* Operators of the model.                                                 *)

\* Counting down an unsigned integer stays within its word.
LEMMA WrapType == ASSUME NEW n \in Int PROVE (n - 1) % Word \in 0 .. Word - 1
  BY ScanAssumption DEF ScanAssumption

\* A new scan has a legal range that ends at the block of the round, and its
\* counter fits the word.
LEMMA NewAccountType ==
    ASSUME NEW head \in Height, NEW end \in Height
    PROVE  /\ StartOf(head, end) \in 1 .. end
           /\ NewAccount(StartOf(head, end), end) \in AccountInfo
  <1>1. StartOf(head, end) \in 1 .. end
    BY ScanAssumption DEF ScanAssumption, StartOf, Height
  <1>2. end - StartOf(head, end) + 1 \in 0 .. Word - 1
    BY <1>1, ScanAssumption DEF ScanAssumption, Height
  <1> QED
    BY <1>1, <1>2, ScanAssumption
    DEF ScanAssumption, NewAccount, AccountInfo, Height

\* The range of any entry of account_mappling is a set of heights, empty when
\* there is none.
LEMMA ScanRangeType ==
    ASSUME TypeOK, NEW a \in Address
    PROVE  ScanRange(a) \subseteq Height
  <1>1. account[a] \in AccountInfo \cup {NoAccount}
    BY DEF TypeOK
  <1> QED
    BY <1>1, ScanAssumption
    DEF ScanAssumption, ScanRange, AccountInfo, NoAccount, Height

----------------------------------------------------------------------------
(* Type correctness.                                                       *)

LEMMA InitTypeOK == Init => TypeOK
  BY ScanAssumption, FS_EmptySet
  DEF ScanAssumption, Init, TypeOK, Height, IdleJob, Reader, PrimaryTask,
      SecondaryTask, Job

LEMMA RestTypeOK ==
    ASSUME TypeOK,
           \/ \E k \in Client : \E req \in ScanRequest : ScanAccount(k, req)
           \/ \E k \in Client : PushAccount(k)
    PROVE  TypeOK'
  <1>1. ASSUME NEW k \in Client, NEW req \in ScanRequest, ScanAccount(k, req)
        PROVE  TypeOK'
    BY <1>1 DEF TypeOK, ScanAccount, history
  <1>2. ASSUME NEW k \in Client, PushAccount(k) PROVE TypeOK'
    <2>1. PICK req \in rest[k] : toScan' = Append(toScan, req)
      BY <1>2 DEF PushAccount
    <2>2. req \in ScanRequest /\ toScan \in Seq(ScanRequest)
      BY <2>1 DEF TypeOK
    <2>3. toScan' \in Seq(ScanRequest)
      BY <2>1, <2>2
    <2>4. rest' \in [Client -> SUBSET ScanRequest]
      BY <1>2 DEF TypeOK, PushAccount
    <2> QED
      BY <1>2, <2>3, <2>4 DEF TypeOK, PushAccount, bounds, history
  <1> QED
    BY <1>1, <1>2

\* What the primary task does with the next group: it dies, or it issues the
\* blocks that were returned and gives up the others.
LEMMA FetchIs ==
    ASSUME PrimaryFetch
    PROVE  /\ primary.pc = "fetch" /\ ~ Busy("primary")
           /\ primary.next < primary.end + 1
           /\ UNCHANGED <<rest, toScan, account, taskMap, issued, sent, handler,
                          secondary, bounds, counted, overtaken>>
           /\ \/ /\ primary' = [primary EXCEPT !.pc = "dead"]
                 /\ UNCHANGED <<job, dropped>>
              \/ /\ primary' = [primary EXCEPT !.next = @ + Batch]
                 /\ \E blocks \in SUBSET Heights(
                            Group(primary.next, primary.end + 1, Batch)) :
                       /\ job' = [job EXCEPT !["primary"] =
                                     [accounts |-> primary.accounts,
                                      blocks |-> blocks,
                                      todo |-> {}, sending |-> {}]]
                       /\ dropped' = dropped \cup
                             {w \in primary.accounts \X
                                    (Heights(Group(primary.next, primary.end + 1,
                                                   Batch)) \ blocks) :
                                  w[2] \in ScanRange(w[1])}
  BY DEF PrimaryFetch, Returned

LEMMA PrimaryTypeOK ==
    ASSUME TypeOK, PrimaryWake \/ PrimaryStep
    PROVE  TypeOK'
  <1>0. primary \in PrimaryTask
    BY DEF TypeOK
  <1>1. CASE PrimaryWake
    BY <1>1 DEF TypeOK, PrimaryWake, PrimaryTask, bounds, history
  <1>2. CASE PrimaryTip
    <2>1. primary' \in PrimaryTask
      BY <1>0, <1>2, ScanAssumption
      DEF PrimaryTip, PrimaryTask, Height, ScanAssumption
    <2> QED
      BY <1>2, <2>1 DEF TypeOK, PrimaryTip, bounds, history
  <1>3. CASE PrimaryPop
    <2> DEFINE req == toScan[Len(toScan)]
               head == StartOf(req.head, primary.end)
    <2>1. toScan \in Seq(ScanRequest) /\ toScan # <<>>
      BY <1>3 DEF TypeOK, PrimaryPop
    <2>2. toScan' = SubSeq(toScan, 1, Len(toScan) - 1)
      BY <1>3 DEF PrimaryPop
    <2>3. req \in ScanRequest /\ toScan' \in Seq(ScanRequest)
      BY <2>1, <2>2
    <2>4. req.address \in Address /\ req.head \in Height
      BY <2>3 DEF ScanRequest
    <2>5. /\ head \in 1 .. primary.end
          /\ NewAccount(head, primary.end) \in AccountInfo
      BY <1>0, <2>4, NewAccountType DEF PrimaryTask
    <2>6. CASE Duplicate(req)
      BY <1>3, <2>3, <2>6 DEF TypeOK, PrimaryPop, bounds
    <2>7. CASE ~ Duplicate(req)
      <3>1. /\ account' = [account EXCEPT ![req.address] =
                               NewAccount(head, primary.end)]
            /\ counted' = [counted EXCEPT ![req.address] = {}]
            /\ primary' = [primary EXCEPT
                   !.accounts = @ \cup {req.address},
                   !.start = IF head < @ THEN head ELSE @]
        BY <1>3, <2>7 DEF PrimaryPop
      <3>2. account' \in [Address -> AccountInfo \cup {NoAccount}]
        BY <3>1, <2>5 DEF TypeOK
      <3>3. counted' \in [Address -> SUBSET Height]
        BY <3>1 DEF TypeOK
      <3>4. head \in 1 .. MaxHeight + 1
        BY <1>0, <2>5, ScanAssumption DEF PrimaryTask, Height, ScanAssumption
      <3>5. primary' \in PrimaryTask
        BY <1>0, <3>1, <3>4, <2>4 DEF PrimaryTask
      <3> QED
        BY <1>3, <2>3, <3>2, <3>3, <3>5 DEF TypeOK, PrimaryPop, bounds
    <2> QED
      BY <2>6, <2>7
  <1>4. CASE PrimaryPopDone
    <2>1. primary.start \in Nat \ {0}
      BY <1>0, ScanAssumption DEF PrimaryTask, ScanAssumption
    <2>2. \/ primary' = [primary EXCEPT !.pc = "sleep"]
          \/ primary' = [primary EXCEPT !.pc = "fetch", !.next = primary.start]
      BY <1>4 DEF PrimaryPopDone
    <2>3. primary' \in PrimaryTask
      BY <1>0, <2>1, <2>2 DEF PrimaryTask
    <2> QED
      BY <1>4, <2>3 DEF TypeOK, PrimaryPopDone, bounds, history
  <1>5. CASE PrimaryFetch
    <2>1. primary' \in PrimaryTask
      BY <1>0, <1>5, ScanAssumption DEF PrimaryFetch, PrimaryTask, ScanAssumption
    <2>2. job' \in [Scheduler -> Job] /\ dropped' \subseteq Address \X Height
      <3> DEFINE group == Group(primary.next, primary.end + 1, Batch)
      <3>1. Heights(group) \in SUBSET Nat
        BY <1>0, ScanAssumption
        DEF Heights, Group, PrimaryTask, Height, ScanAssumption
      <3>2. CASE UNCHANGED <<job, dropped>>
        BY <3>2 DEF TypeOK
      <3>3. ASSUME NEW blocks \in SUBSET Heights(group),
                   job' = [job EXCEPT !["primary"] =
                               [accounts |-> primary.accounts, blocks |-> blocks,
                                todo |-> {}, sending |-> {}]],
                   dropped' = dropped \cup
                       {w \in primary.accounts \X (Heights(group) \ blocks) :
                            w[2] \in ScanRange(w[1])}
            PROVE  job' \in [Scheduler -> Job] /\ dropped' \subseteq Address \X Height
        <4>1. primary.accounts \subseteq Address
          BY <1>0 DEF PrimaryTask
        <4>2. [accounts |-> primary.accounts, blocks |-> blocks,
               todo |-> {}, sending |-> {}] \in Job
          BY <3>1, <4>1 DEF Job
        <4>3. \A a \in Address : ScanRange(a) \subseteq Height
          BY ScanRangeType
        <4>4. dropped' \subseteq Address \X Height
          BY <3>3, <4>1, <4>3 DEF TypeOK
        <4> QED
          BY <3>3, <4>2, <4>4 DEF TypeOK
      <3> HIDE DEF group
      <3> QED
        BY <1>5, <3>2, <3>3, FetchIs DEF group
    <2> QED
      BY <1>5, <2>1, <2>2 DEF TypeOK, PrimaryFetch, bounds
  <1>6. CASE PrimaryDone
    BY <1>6 DEF TypeOK, PrimaryDone, PrimaryTask, bounds, history
  <1> QED
    BY <1>1, <1>2, <1>3, <1>4, <1>5, <1>6 DEF PrimaryStep

LEMMA ScheduleTypeOK ==
    ASSUME TypeOK, NEW p \in Scheduler, ScheduleStep(p)
    PROVE  TypeOK'
  <1>0. job \in [Scheduler -> Job] /\ job[p] \in Job
    BY DEF TypeOK
  <1>1. CASE ScheduleAccount(p)
    <2>1. PICK a \in job[p].accounts :
            job' = [job EXCEPT
                      ![p].accounts = @ \ {a},
                      ![p].todo = IF Scanning(a)
                                    THEN {a} \X (job[p].blocks \cap ScanRange(a))
                                    ELSE {}]
      BY <1>1 DEF ScheduleAccount
    <2>2. a \in Address
      BY <1>0, <2>1 DEF Job
    <2>3. {a} \X (job[p].blocks \cap ScanRange(a)) \in SUBSET (Address \X Height)
      BY <2>2, ScanRangeType
    <2>4. job' \in [Scheduler -> Job]
      BY <1>0, <2>1, <2>3 DEF Job
    <2> QED
      BY <1>1, <2>4 DEF TypeOK, ScheduleAccount, bounds, history
  <1>2. CASE CreateTask(p)
    <2> DEFINE T(w) == [address |-> w[1], sequence |-> w[2],
                        nonce |-> issued[w[1]][w[2]] + 1]
    <2>1. PICK w \in job[p].todo :
            /\ issued' = [issued EXCEPT ![w[1]][w[2]] = @ + 1]
            /\ taskMap' = taskMap \cup {T(w)}
            /\ job' = [job EXCEPT ![p].todo = @ \ {w}, ![p].sending = {T(w)}]
      BY <1>2 DEF CreateTask
    <2>2. w[1] \in Address /\ w[2] \in Height
      BY <1>0, <2>1 DEF Job
    <2>3. issued \in [Address -> [Height -> Nat]]
      BY DEF TypeOK
    <2>4. T(w) \in Task
      BY <2>2, <2>3 DEF Task
    <2>5. issued' \in [Address -> [Height -> Nat]]
      BY <2>1, <2>2, <2>3
    <2>6. job' \in [Scheduler -> Job]
      BY <1>0, <2>1, <2>4 DEF Job
    <2>7. taskMap' \subseteq Task /\ IsFiniteSet(taskMap')
      BY <2>1, <2>4, FS_AddElement DEF TypeOK
    <2> QED
      BY <1>2, <2>5, <2>6, <2>7 DEF TypeOK, CreateTask, bounds, history
  <1>3. CASE Dispatch(p)
    <2>1. job' \in [Scheduler -> Job]
      BY <1>0, <1>3 DEF Dispatch, Job
    <2>2. sent' \subseteq Task
      BY <1>0, <1>3 DEF TypeOK, Dispatch, Job
    <2> QED
      BY <1>3, <2>1, <2>2 DEF TypeOK, Dispatch, bounds, history
  <1> QED
    BY <1>1, <1>2, <1>3 DEF ScheduleStep

LEMMA WorkerTypeOK ==
    ASSUME TypeOK,
           \/ \E c \in Conn : \E t \in sent : Receive(c, t)
           \/ \E t \in sent : Lose(t)
    PROVE  TypeOK'
  <1>1. ASSUME NEW c \in Conn, NEW t \in sent, Receive(c, t) PROVE TypeOK'
    <2>1. t \in Task
      BY DEF TypeOK
    <2>2. [pc |-> "update", task |-> t, msg |-> NoMessage, tries |-> 0]
            \in Reader
      BY <2>1 DEF Reader
    <2>3. /\ handler' \in [Conn -> Reader]
          /\ \A d \in Conn : handler'[d].pc # "idle" => handler'[d].task \in Task
      BY <1>1, <2>1, <2>2 DEF TypeOK, Receive
    <2> QED
      BY <1>1, <2>3 DEF TypeOK, Receive, bounds, history
  <1>2. ASSUME NEW t \in sent, Lose(t) PROVE TypeOK'
    BY <1>2 DEF TypeOK, Lose, history
  <1> QED
    BY <1>1, <1>2

LEMMA ReaderTypeOK ==
    ASSUME TypeOK, NEW c \in Conn, ReaderStep(c)
    PROVE  TypeOK'
  <1>0. /\ handler \in [Conn -> Reader] /\ handler[c] \in Reader
        /\ \A d \in Conn : handler[d].pc # "idle" => handler[d].task \in Task
    BY DEF TypeOK
  <1>1. CASE UpdateAccount(c)
    <2> DEFINE t == handler[c].task
               a == t.address
               left == (account[a].remaining - 1) % Word
    <2>0. t \in Task /\ a \in Address /\ t.sequence \in Height
      BY <1>0, <1>1 DEF UpdateAccount, Task
    <2>1. /\ handler' \in [Conn -> Reader]
          /\ \A d \in Conn : handler'[d].pc # "idle" => handler'[d].task \in Task
      <3>1. PICK q \in {"clone", "forget"} :
                handler' = [handler EXCEPT ![c].pc = q]
        BY <1>1 DEF UpdateAccount
      <3> QED
        BY <1>0, <2>0, <3>1 DEF Reader
    <2>2. CASE ~ Counts(t)
      BY <1>1, <2>1, <2>2 DEF TypeOK, UpdateAccount, bounds
    <2>3. CASE Counts(t)
      <3>1. account \in [Address -> AccountInfo \cup {NoAccount}]
        BY DEF TypeOK
      <3>2. account[a] \in AccountInfo
        BY <2>0, <2>3, <3>1 DEF Counts, Scanning
      <3>3. left \in 0 .. Word - 1
        BY <3>2, WrapType, ScanAssumption DEF AccountInfo, ScanAssumption
      <3>4. /\ account' = [account EXCEPT
                   ![a].blocks = IF Decrypted(t)
                                   THEN @ \cup {t.sequence} ELSE @,
                   ![a].remaining = left]
            /\ counted' = [counted EXCEPT ![a] = @ \cup {t.sequence}]
        BY <1>1, <2>3 DEF UpdateAccount
      <3> HIDE DEF left
      <3>5. account' \in [Address -> AccountInfo \cup {NoAccount}]
        BY <2>0, <3>1, <3>2, <3>3, <3>4 DEF AccountInfo
      <3>6. counted' \in [Address -> SUBSET Height]
        BY <2>0, <3>4 DEF TypeOK
      <3> QED
        BY <1>1, <2>1, <3>5, <3>6 DEF TypeOK, UpdateAccount, bounds
    <2> QED
      BY <2>2, <2>3
  <1>2. CASE CloneAccount(c)
    <2> DEFINE a == handler[c].task.address
               msg == [start |-> account[a].start, end |-> account[a].end,
                       blocks |-> account[a].blocks]
    <2>1. /\ handler' = [handler EXCEPT ![c].pc = "remove", ![c].msg = msg]
          /\ Scanning(a)
      BY <1>2 DEF CloneAccount
    <2>2. a \in Address
      BY <1>0, <1>2 DEF CloneAccount, Task
    <2>3. account[a] \in AccountInfo
      BY <2>1, <2>2 DEF TypeOK, Scanning
    <2>4. msg \in Message
      BY <2>3 DEF AccountInfo, Message
    <2>5. handler[c].task \in Task
      BY <1>0, <1>2 DEF CloneAccount
    <2>6. /\ handler' \in [Conn -> Reader]
          /\ \A d \in Conn : handler'[d].pc # "idle" => handler'[d].task \in Task
      BY <1>0, <2>1, <2>4, <2>5 DEF Reader
    <2> QED
      BY <1>2, <2>6 DEF TypeOK, CloneAccount, bounds, history
  <1>3. CASE RemoveAccount(c)
    <2>1. handler[c].task \in Task
      BY <1>0, <1>3 DEF RemoveAccount
    <2>2. /\ handler' \in [Conn -> Reader]
          /\ \A d \in Conn : handler'[d].pc # "idle" => handler'[d].task \in Task
      BY <1>0, <1>3, <2>1 DEF RemoveAccount, Reader
    <2>3. account' \in [Address -> AccountInfo \cup {NoAccount}]
      BY <1>3 DEF TypeOK, RemoveAccount
    <2> QED
      BY <1>3, <2>2, <2>3 DEF TypeOK, RemoveAccount, bounds, history
  <1>4. CASE Submit(c)
    <2>1. handler[c].task \in Task
      BY <1>0, <1>4 DEF Submit
    <2>2. /\ handler' \in [Conn -> Reader]
          /\ \A d \in Conn : handler'[d].pc # "idle" => handler'[d].task \in Task
      BY <1>0, <1>4, <2>1 DEF Submit, Reader
    <2> QED
      BY <1>4, <2>2 DEF TypeOK, Submit, bounds, history
  <1>5. CASE ForgetTask(c)
    <2>1. [pc |-> "idle", task |-> NoTask, msg |-> NoMessage, tries |-> 0]
            \in Reader
      BY DEF Reader
    <2>2. /\ handler' \in [Conn -> Reader]
          /\ \A d \in Conn : handler'[d].pc # "idle" => handler'[d].task \in Task
      BY <1>0, <1>5, <2>1 DEF ForgetTask
    <2>3. taskMap' \subseteq Task /\ IsFiniteSet(taskMap')
      BY <1>5, FS_RemoveElement DEF TypeOK, ForgetTask
    <2> QED
      BY <1>5, <2>2, <2>3 DEF TypeOK, ForgetTask, bounds, history
  <1> QED
    BY <1>1, <1>2, <1>3, <1>4, <1>5 DEF ReaderStep

LEMMA SecondaryTypeOK ==
    ASSUME TypeOK,
           \/ \E keys \in SUBSET taskMap : SecondaryWake(keys)
           \/ SecondaryStep
    PROVE  TypeOK'
  <1>0. secondary \in SecondaryTask /\ taskMap \subseteq Task
        /\ IsFiniteSet(taskMap)
    BY DEF TypeOK
  <1>1. ASSUME NEW keys \in SUBSET taskMap, SecondaryWake(keys) PROVE TypeOK'
    <2>1. IsFiniteSet(keys \cap Outstanding)
      BY <1>0, FS_Subset
    <2>2. Cardinality(keys \cap Outstanding) \in Nat
      BY <2>1, FS_CardinalityType
    <2>3. late' = late + Cardinality(keys \cap Outstanding)
      BY <1>1 DEF SecondaryWake
    <2>4. late' \in Nat
      BY <2>2, <2>3 DEF TypeOK
    <2>5. secondary' \in SecondaryTask
      BY <1>0, <1>1 DEF SecondaryWake, SecondaryTask
    <2> QED
      BY <1>1, <2>4, <2>5 DEF TypeOK, SecondaryWake, history
  <1>2. CASE SecondaryTake
    <2>1. PICK t \in secondary.keys :
            /\ taskMap' = taskMap \ {t}
            /\ secondary' = [secondary EXCEPT
                   !.keys = @ \ {t},
                   !.pc = IF t \in taskMap THEN "lookup" ELSE "take",
                   !.removed = @ \cup ({t} \cap taskMap)]
            /\ overtaken' = IF t \in taskMap \cap Handled
                              THEN overtaken \cup {t.address} ELSE overtaken
      BY <1>2 DEF SecondaryTake
    <2>2. t \in Task
      BY <1>0, <2>1 DEF SecondaryTask
    <2>3. secondary' \in SecondaryTask
      BY <1>0, <2>1, <2>2 DEF SecondaryTask
    <2>4. overtaken' \subseteq Address
      BY <2>1, <2>2 DEF TypeOK, Task
    <2>5. taskMap' \subseteq Task /\ IsFiniteSet(taskMap')
      BY <1>0, <2>1, FS_RemoveElement
    <2> QED
      BY <1>2, <2>3, <2>4, <2>5 DEF TypeOK, SecondaryTake, bounds
  <1>3. CASE SecondaryLookup
    <2>1. PICK t \in secondary.removed :
            /\ \/ secondary' = [Listed(t) EXCEPT !.keys = {}]
               \/ secondary' = Listed(t)
               \/ secondary' = Unlisted(t)
            /\ \/ dropped' = dropped
               \/ dropped' = dropped \cup {<<t.address, t.sequence>>}
      BY <1>3 DEF SecondaryLookup
    <2>2. t \in Task
      BY <1>0, <2>1 DEF SecondaryTask
    <2>3. secondary' \in SecondaryTask
      <3>1. Listed(t) \in SecondaryTask /\ Unlisted(t) \in SecondaryTask
        BY <1>0, <2>2 DEF SecondaryTask, Listed, Unlisted
      <3>2. [Listed(t) EXCEPT !.keys = {}] \in SecondaryTask
        BY <3>1 DEF SecondaryTask
      <3> QED
        BY <2>1, <3>1, <3>2
    <2>4. dropped' \subseteq Address \X Height
      BY <2>1, <2>2 DEF TypeOK, Task
    <2> QED
      BY <1>3, <2>3, <2>4 DEF TypeOK, SecondaryLookup, bounds
  <1>4. CASE SecondaryTaken
    BY <1>4 DEF TypeOK, SecondaryTaken, SecondaryTask, bounds, history
  <1>5. CASE SecondarySchedule
    <2>1. PICK t \in secondary.list :
            /\ job' = [job EXCEPT !["secondary"] =
                   [accounts |-> {t.address}, blocks |-> {t.sequence},
                    todo |-> {}, sending |-> {}]]
            /\ secondary' = [secondary EXCEPT !.list = @ \ {t}]
      BY <1>5 DEF SecondarySchedule
    <2>2. t.address \in Address /\ t.sequence \in Nat
      BY <1>0, <2>1 DEF SecondaryTask, Task, Height
    <2>3. job' \in [Scheduler -> Job]
      <3>1. [accounts |-> {t.address}, blocks |-> {t.sequence},
             todo |-> {}, sending |-> {}] \in Job
        BY <2>2 DEF Job
      <3> QED
        BY <2>1, <3>1 DEF TypeOK
    <2>4. secondary' \in SecondaryTask
      BY <1>0, <2>1 DEF SecondaryTask
    <2> QED
      BY <1>5, <2>3, <2>4 DEF TypeOK, SecondarySchedule, bounds, history
  <1>6. CASE SecondaryDone
    BY <1>6 DEF TypeOK, SecondaryDone, SecondaryTask, bounds, history
  <1> QED
    BY <1>1, <1>2, <1>3, <1>4, <1>5, <1>6 DEF SecondaryStep

LEMMA NextTypeOK == TypeOK /\ [Next]_vars => TypeOK'
  <1> SUFFICES ASSUME TypeOK, [Next]_vars PROVE TypeOK'
    OBVIOUS
  <1>1. CASE UNCHANGED vars
    BY <1>1 DEF TypeOK, vars, bounds, history
  <1>2. CASE Next
    BY <1>2, RestTypeOK, PrimaryTypeOK, ScheduleTypeOK, WorkerTypeOK,
       ReaderTypeOK, SecondaryTypeOK
    DEF Next
  <1> QED
    BY <1>1, <1>2

\* Every state of the coordinator is well typed; in particular remaining_task
\* keeps to its word, and what a reader task is working on is always a task.
THEOREM TypeCorrect == Spec => []TypeOK
  BY InitTypeOK, NextTypeOK, PTL DEF Spec

----------------------------------------------------------------------------
(* No block of a scan is forgotten.                                        *)
(*                                                                         *)
(* BlockConservation is inductive together with the types, with FreshIssue *)
(* (a task that is being created is not one that a reader has dealt with   *)
(* already) and with RoundEnd (the groups that the primary task cuts out   *)
(* of its span reach the end of every scan of the round).                  *)

IInv == TypeOK /\ FreshIssue /\ RoundEnd /\ BlockConservation

----------------------------------------------------------------------------
(* FreshIssue.                                                             *)

LEMMA FreshIssueKept ==
    ASSUME FreshIssue, UNCHANGED issued, Outstanding' \subseteq Outstanding
    PROVE  FreshIssue'
  BY DEF FreshIssue

\* What the readers hold is unchanged by a step that leaves their tasks alone.
LEMMA AnsweredKept ==
    ASSUME TypeOK, \A c \in Conn : handler'[c].task = handler[c].task
    PROVE  Answered' = Answered
  BY DEF Answered

LEMMA NextFreshIssue ==
    ASSUME TypeOK, FreshIssue, [Next]_vars
    PROVE  FreshIssue'
  <1>0. /\ handler \in [Conn -> Reader] /\ job \in [Scheduler -> Job]
        /\ \A p \in Scheduler : job[p] \in Job
    BY DEF TypeOK
  <1>1. CASE UNCHANGED <<issued, sent, handler, job>>
    BY <1>1, FreshIssueKept DEF Outstanding, Answered
  <1>2. CASE PrimaryFetch
    <2>1. \A p \in Scheduler : job'[p].sending \subseteq job[p].sending
      BY <1>0, <1>2, FetchIs
    <2>2. UNCHANGED <<issued, sent, handler>>
      BY <1>2 DEF PrimaryFetch
    <2> QED
      BY <2>1, <2>2, FreshIssueKept DEF Outstanding, Answered, Scheduler
  <1>3. CASE SecondarySchedule
    <2>1. \A p \in Scheduler : job'[p].sending \subseteq job[p].sending
      BY <1>0, <1>3 DEF SecondarySchedule
    <2>2. UNCHANGED <<issued, sent, handler>>
      BY <1>3 DEF SecondarySchedule
    <2> QED
      BY <2>1, <2>2, FreshIssueKept DEF Outstanding, Answered, Scheduler
  <1>4. ASSUME NEW p \in Scheduler, ScheduleAccount(p) PROVE FreshIssue'
    <2>1. \A q \in Scheduler : job'[q].sending = job[q].sending
      BY <1>0, <1>4 DEF ScheduleAccount, Job
    <2>2. UNCHANGED <<issued, sent, handler>>
      BY <1>4 DEF ScheduleAccount
    <2> QED
      BY <2>1, <2>2, FreshIssueKept DEF Outstanding, Answered, Scheduler
  <1>5. ASSUME NEW p \in Scheduler, CreateTask(p) PROVE FreshIssue'
    <2> DEFINE T(w) == [address |-> w[1], sequence |-> w[2],
                        nonce |-> issued[w[1]][w[2]] + 1]
    <2>1. PICK w \in job[p].todo :
            /\ issued' = [issued EXCEPT ![w[1]][w[2]] = @ + 1]
            /\ job' = [job EXCEPT ![p].todo = @ \ {w}, ![p].sending = {T(w)}]
      BY <1>5 DEF CreateTask
    <2>2. w[1] \in Address /\ w[2] \in Height
      BY <1>0, <2>1 DEF Job
    <2>3. issued \in [Address -> [Height -> Nat]]
      BY DEF TypeOK
    <2>4. \A q \in Scheduler :
              job'[q].sending \subseteq job[q].sending \cup {T(w)}
      BY <1>0, <2>1 DEF Job
    <2>5. Outstanding' \subseteq Outstanding \cup {T(w)}
      BY <1>5, <2>4 DEF CreateTask, Outstanding, Answered, Scheduler
    <2>6. T(w).nonce <= issued'[w[1]][w[2]]
      BY <2>1, <2>2, <2>3
    <2>7. \A t \in Outstanding : t \in Task
      BY <1>0 DEF Outstanding, Answered, TypeOK, Job, Scheduler, Reader
    <2>8. \A a \in Address, h \in Height : issued[a][h] <= issued'[a][h]
      BY <2>1, <2>2, <2>3
    <2>9. ASSUME NEW t \in Outstanding
          PROVE  t.nonce <= issued'[t.address][t.sequence]
      <3>1. t.address \in Address /\ t.sequence \in Height /\ t.nonce \in Nat
        BY <2>7 DEF Task
      <3>2. t.nonce <= issued[t.address][t.sequence]
        BY DEF FreshIssue
      <3>3. /\ issued[t.address][t.sequence] \in Nat
            /\ issued'[t.address][t.sequence] \in Nat
            /\ issued[t.address][t.sequence] <= issued'[t.address][t.sequence]
        BY <2>1, <2>2, <2>3, <2>8, <3>1
      <3> QED
        BY <3>1, <3>2, <3>3
    <2> QED
      BY <2>5, <2>6, <2>9 DEF FreshIssue
  <1>6. ASSUME NEW p \in Scheduler, Dispatch(p) PROVE FreshIssue'
    <2>1. \A q \in Scheduler : job'[q].sending \subseteq job[q].sending
      BY <1>0, <1>6 DEF Dispatch, Job
    <2>2. sent' = sent \cup job[p].sending /\ UNCHANGED <<issued, handler>>
      BY <1>6 DEF Dispatch
    <2> QED
      BY <2>1, <2>2, FreshIssueKept DEF Outstanding, Answered, Scheduler
  <1>7. ASSUME NEW c \in Conn, NEW t \in sent, Receive(c, t)
        PROVE  FreshIssue'
    <2>1. \A d \in Conn : handler'[d].task \in {handler[d].task, t}
      BY <1>0, <1>7 DEF Receive, Reader
    <2>2. Answered' \subseteq Answered \cup {t}
      BY <2>1 DEF Answered
    <2> QED
      BY <1>7, <2>2, FreshIssueKept DEF Receive, Outstanding
  <1>8. ASSUME NEW t \in sent, Lose(t) PROVE FreshIssue'
    BY <1>8, FreshIssueKept DEF Lose, Outstanding, Answered
  <1>9. ASSUME NEW c \in Conn, ReaderStep(c) PROVE FreshIssue'
    <2>1. \A d \in Conn : handler'[d].task \in {handler[d].task, NoTask}
      BY <1>0, <1>9
      DEF ReaderStep, UpdateAccount, CloneAccount, RemoveAccount, Submit,
          ForgetTask, Reader
    <2>2. UNCHANGED <<issued, sent, job>>
      BY <1>9
      DEF ReaderStep, UpdateAccount, CloneAccount, RemoveAccount, Submit,
          ForgetTask
    <2>3. Answered' \subseteq Answered
      BY <2>1 DEF Answered
    <2> QED
      BY <2>2, <2>3, FreshIssueKept DEF Outstanding
  <1> QED
    <2>1. CASE UNCHANGED vars
      BY <1>1, <2>1 DEF vars
    <2>2. CASE \/ \E k \in Client : \E req \in ScanRequest : ScanAccount(k, req)
               \/ \E k \in Client : PushAccount(k)
      BY <1>1, <2>2 DEF ScanAccount, PushAccount
    <2>3. CASE PrimaryWake \/ PrimaryStep
      BY <1>1, <1>2, <2>3
      DEF PrimaryWake, PrimaryStep, PrimaryTip, PrimaryPop, PrimaryPopDone,
          PrimaryDone
    <2>4. CASE \/ \E keys \in SUBSET taskMap : SecondaryWake(keys)
               \/ SecondaryStep
      BY <1>1, <1>3, <2>4
      DEF SecondaryWake, SecondaryStep, SecondaryTake, SecondaryLookup,
          SecondaryTaken, SecondaryDone
    <2> QED
      BY <1>4, <1>5, <1>6, <1>7, <1>8, <1>9, <2>1, <2>2, <2>3, <2>4
      DEF Next, ScheduleStep

----------------------------------------------------------------------------
(* RoundEnd.                                                               *)

\* The steps that neither touch the primary task nor move or add a scan.
LEMMA RoundEndKept ==
    ASSUME RoundEnd, UNCHANGED primary,
           \A a \in Address : Scanning(a)' =>
               Scanning(a) /\ account'[a].end = account[a].end,
           TypeOK
    PROVE  RoundEnd'
  <1>1. primary.accounts \subseteq Address
    BY DEF TypeOK, PrimaryTask
  <1> QED
    BY <1>1 DEF RoundEnd

\* A step of a reader moves no scan: the account it counts for keeps its
\* range, and the one it finishes leaves the map.
LEMMA ReaderMovesNoScan ==
    ASSUME TypeOK, NEW c \in Conn, ReaderStep(c), NEW a \in Address, Scanning(a)'
    PROVE  /\ Scanning(a)
           /\ account'[a].start = account[a].start
           /\ account'[a].end = account[a].end
  <1>0. /\ account \in [Address -> AccountInfo \cup {NoAccount}]
        /\ handler[c].pc # "idle" => handler[c].task \in Task
    BY DEF TypeOK
  <1>1. CASE UpdateAccount(c)
    <2> DEFINE t == handler[c].task
    <2>1. t.address \in Address
      BY <1>0, <1>1 DEF UpdateAccount, Task
    <2>2. CASE ~ Counts(t)
      BY <1>1, <2>2 DEF UpdateAccount, Scanning
    <2>3. CASE Counts(t)
      <3>1. PICK n, bs : account' = [account EXCEPT ![t.address].blocks = bs,
                                                    ![t.address].remaining = n]
        BY <1>1, <2>3 DEF UpdateAccount
      <3>2. account[t.address] \in AccountInfo
        BY <1>0, <2>1, <2>3 DEF Counts, Scanning
      <3>3. \/ account'[a] = account[a]
            \/ /\ a = t.address
               /\ account'[a].start = account[a].start
               /\ account'[a].end = account[a].end
        BY <1>0, <2>1, <3>1, <3>2 DEF AccountInfo
      <3> QED
        BY <2>3, <3>3 DEF Counts, Scanning
    <2> QED
      BY <2>2, <2>3
  <1>2. CASE RemoveAccount(c)
    BY <1>0, <1>2 DEF RemoveAccount, Scanning
  <1>3. CASE CloneAccount(c) \/ Submit(c) \/ ForgetTask(c)
    BY <1>3 DEF CloneAccount, Submit, ForgetTask, Scanning
  <1> QED
    BY <1>1, <1>2, <1>3 DEF ReaderStep

\* Popping a request adds at most one scan, which ends at the block of the
\* round and starts at or above the start of the span.
LEMMA PopAdds ==
    ASSUME TypeOK, PrimaryPop
    PROVE  \/ UNCHANGED <<account, counted, primary>>
           \/ \E b \in Address :
                 /\ ~ Scanning(b)
                 /\ \A a \in Address \ {b} : /\ account'[a] = account[a]
                                             /\ counted'[a] = counted[a]
                 /\ account'[b].end = primary.end
                 /\ primary'.start <= account'[b].start
                 /\ primary'.start <= primary.start
                 /\ primary'.accounts = primary.accounts \cup {b}
                 /\ primary'.pc = "pop"
                 /\ primary'.end = primary.end
  <1> DEFINE req == toScan[Len(toScan)]
             head == StartOf(req.head, primary.end)
  <1>0. /\ primary \in PrimaryTask /\ primary.pc = "pop"
        /\ toScan \in Seq(ScanRequest) /\ toScan # <<>>
        /\ account \in [Address -> AccountInfo \cup {NoAccount}]
        /\ counted \in [Address -> SUBSET Height]
    BY DEF TypeOK, PrimaryPop
  <1>1. req \in ScanRequest
    BY <1>0
  <1>2. req.address \in Address /\ req.head \in Height
    BY <1>1 DEF ScanRequest
  <1>3. head \in 1 .. primary.end /\ primary.end \in Height
    BY <1>0, <1>2, NewAccountType DEF PrimaryTask
  <1>4. CASE Duplicate(req)
    BY <1>4 DEF PrimaryPop
  <1>5. CASE ~ Duplicate(req)
    <2>1. /\ account' = [account EXCEPT ![req.address] =
                             NewAccount(head, primary.end)]
          /\ counted' = [counted EXCEPT ![req.address] = {}]
          /\ primary' = [primary EXCEPT
                 !.accounts = @ \cup {req.address},
                 !.start = IF head < @ THEN head ELSE @]
      BY <1>5 DEF PrimaryPop
    <2>2. account'[req.address] = NewAccount(head, primary.end)
      BY <1>0, <1>2, <2>1
    <2>3. /\ account'[req.address].start = head
          /\ account'[req.address].end = primary.end
      BY <2>2 DEF NewAccount
    <2>4. primary'.start <= head /\ primary'.start <= primary.start
      BY <1>0, <1>3, <2>1, ScanAssumption
      DEF PrimaryTask, Height, ScanAssumption
    <2>5. ~ Scanning(req.address)
      BY <1>5 DEF Duplicate
    <2>6. \A a \in Address \ {req.address} : /\ account'[a] = account[a]
                                             /\ counted'[a] = counted[a]
      BY <1>0, <2>1
    <2>7. /\ primary'.accounts = primary.accounts \cup {req.address}
          /\ primary'.pc = "pop" /\ primary'.end = primary.end
      BY <1>0, <2>1 DEF PrimaryTask
    <2> QED
      BY <1>2, <2>3, <2>4, <2>5, <2>6, <2>7
  <1> QED
    BY <1>4, <1>5

LEMMA NextRoundEnd ==
    ASSUME TypeOK, RoundEnd, [Next]_vars
    PROVE  RoundEnd'
  <1>1. CASE UNCHANGED <<account, primary>>
    BY <1>1, RoundEndKept DEF Scanning
  <1>2. ASSUME NEW c \in Conn, ReaderStep(c) PROVE RoundEnd'
    <2>1. UNCHANGED primary
      BY <1>2
      DEF ReaderStep, UpdateAccount, CloneAccount, RemoveAccount, Submit,
          ForgetTask
    <2> QED
      BY <1>2, <2>1, ReaderMovesNoScan, RoundEndKept
  <1>3. CASE PrimaryPop
    <2>1. primary.accounts \subseteq Address /\ primary.pc = "pop"
      BY <1>3 DEF TypeOK, PrimaryTask, PrimaryPop
    <2>2. CASE UNCHANGED <<account, counted, primary>>
      BY <1>1, <2>2
    <2> QED
      BY <1>3, <2>1, <2>2, PopAdds DEF RoundEnd, Scanning
  <1>4. CASE PrimaryWake \/ PrimaryTip \/ PrimaryPopDone \/ PrimaryFetch
             \/ PrimaryDone
    <2>1. primary \in PrimaryTask
      BY DEF TypeOK
    <2>2. /\ UNCHANGED account
          /\ \/ primary'.pc \in {"sleep", "tip", "dead"}
             \/ primary'.accounts = {}
             \/ /\ primary.pc \in {"pop", "fetch"}
                /\ primary'.end = primary.end
                /\ primary'.accounts = primary.accounts
      <3>1. CASE PrimaryWake
        BY <3>1, <2>1 DEF PrimaryWake, PrimaryTask
      <3>2. CASE PrimaryTip
        BY <3>2, <2>1 DEF PrimaryTip, PrimaryTask
      <3>3. CASE PrimaryPopDone
        BY <3>3, <2>1 DEF PrimaryPopDone, PrimaryTask
      <3>4. CASE PrimaryFetch
        BY <3>4, <2>1 DEF PrimaryFetch, PrimaryTask
      <3>5. CASE PrimaryDone
        BY <3>5, <2>1 DEF PrimaryDone, PrimaryTask
      <3> QED
        BY <1>4, <3>1, <3>2, <3>3, <3>4, <3>5
    <2> QED
      BY <2>2 DEF RoundEnd, Scanning
  <1> QED
    <2>1. CASE UNCHANGED vars
      BY <1>1, <2>1 DEF vars
    <2>2. CASE \/ \E k \in Client : \E req \in ScanRequest : ScanAccount(k, req)
               \/ \E k \in Client : PushAccount(k)
               \/ \E p \in Scheduler : ScheduleStep(p)
               \/ \E c \in Conn : \E t \in sent : Receive(c, t)
               \/ \E t \in sent : Lose(t)
      BY <1>1, <2>2
      DEF ScanAccount, PushAccount, ScheduleStep, ScheduleAccount, CreateTask,
          Dispatch, Receive, Lose
    <2>3. CASE \/ \E keys \in SUBSET taskMap : SecondaryWake(keys)
               \/ SecondaryStep
      BY <1>1, <2>3
      DEF SecondaryWake, SecondaryStep, SecondaryTake, SecondaryLookup,
          SecondaryTaken, SecondarySchedule, SecondaryDone
    <2> QED
      BY <1>2, <1>3, <1>4, <2>1, <2>2, <2>3 DEF Next, PrimaryStep

----------------------------------------------------------------------------
(* BlockConservation.                                                      *)

\* A step that adds no scan, moves none and uncovers no block.
LEMMA ConservationKept ==
    ASSUME BlockConservation,
           \A a \in Address : Scanning(a)' =>
               Scanning(a) /\ ScanRange(a)' = ScanRange(a),
           \A a \in Address : \A h \in ScanRange(a) :
               Scanning(a) /\ Scanning(a)' /\ Covered(a, h) => Covered(a, h)'
    PROVE  BlockConservation'
  BY DEF BlockConservation

\* The same for a step that leaves account_mappling alone.
LEMMA ConservationKeptStill ==
    ASSUME BlockConservation, UNCHANGED account,
           \A a \in Address : \A h \in ScanRange(a) :
               Scanning(a) /\ Covered(a, h) => Covered(a, h)'
    PROVE  BlockConservation'
  BY ConservationKept DEF Scanning, ScanRange

\* No task becomes dealt with, unless a reader turns to its last steps.
Late(r) == r.pc \in {"clone", "remove", "submit", "forget"}

LEMMA HandledKept ==
    ASSUME \A c \in Conn : Late(handler'[c]) =>
               Late(handler[c]) /\ handler'[c].task = handler[c].task
    PROVE  Handled' \subseteq Handled
  BY DEF Handled, Late

\* What the two schedulers will issue only depends on these parts of them.
LEMMA WillIssueKept ==
    ASSUME TypeOK, UNCHANGED primary,
           secondary'.removed = secondary.removed,
           secondary'.list = secondary.list,
           \A p \in Scheduler : /\ job'[p].accounts = job[p].accounts
                                /\ job'[p].blocks = job[p].blocks
                                /\ job'[p].todo = job[p].todo,
           NEW a, NEW h
    PROVE  /\ PrimaryWillIssue(a, h) => PrimaryWillIssue(a, h)'
           /\ SecondaryWillIssue(a, h) => SecondaryWillIssue(a, h)'
  BY DEF PrimaryWillIssue, SecondaryWillIssue, Scheduler

LEMMA RestConserves ==
    ASSUME TypeOK, BlockConservation,
           UNCHANGED <<account, taskMap, handler, primary, secondary, job,
                       counted, dropped>>
    PROVE  BlockConservation'
  BY ConservationKeptStill
  DEF Covered, LiveTask, Handled, PrimaryWillIssue, SecondaryWillIssue

LEMMA ReceiveConserves ==
    ASSUME TypeOK, BlockConservation, NEW c \in Conn, NEW t \in sent,
           Receive(c, t)
    PROVE  BlockConservation'
  <1>1. handler \in [Conn -> Reader]
    BY DEF TypeOK
  <1>2. Handled' \subseteq Handled
    BY <1>1, HandledKept DEF Receive, Late, Reader
  <1>3. UNCHANGED <<account, taskMap, primary, secondary, job, counted, dropped>>
    BY DEF Receive, history
  <1> QED
    BY <1>2, <1>3, ConservationKeptStill
    DEF Covered, LiveTask, PrimaryWillIssue, SecondaryWillIssue

\* Dealing with an answer: its block is counted, or its task was not live, or
\* its account is not scanned; the other blocks are not concerned.
LEMMA ReaderConserves ==
    ASSUME TypeOK, BlockConservation, NEW c \in Conn, ReaderStep(c)
    PROVE  BlockConservation'
  <1> DEFINE t == handler[c].task
  <1>0. /\ handler \in [Conn -> Reader]
        /\ counted \in [Address -> SUBSET Height]
        /\ handler[c].pc # "idle" => t \in Task
    BY DEF TypeOK
  <1>1. UNCHANGED <<primary, secondary, job, dropped>>
    BY DEF ReaderStep, UpdateAccount, CloneAccount, RemoveAccount, Submit,
           ForgetTask, history
  <1>2. \A a \in Address : Scanning(a)' =>
            Scanning(a) /\ ScanRange(a)' = ScanRange(a)
    BY ReaderMovesNoScan DEF ScanRange
  <1>3. \A a \in Address, h \in Height :
            /\ PrimaryWillIssue(a, h) => PrimaryWillIssue(a, h)'
            /\ SecondaryWillIssue(a, h) => SecondaryWillIssue(a, h)'
    BY <1>1 DEF PrimaryWillIssue, SecondaryWillIssue
  <1>4. \A a \in Address : ScanRange(a) \subseteq Height
    BY ScanRangeType
  <1>5. SUFFICES ASSUME NEW a \in Address, NEW h \in Height,
                        Scanning(a), Scanning(a)', Covered(a, h)
                 PROVE  Covered(a, h)'
    BY <1>2, <1>4, ConservationKept
  <1>6. CASE UpdateAccount(c)
    <2>1. Handled' \subseteq Handled \cup {t}
      <3>1. \A d \in Conn : Late(handler'[d]) =>
                /\ handler'[d].task = handler[d].task
                /\ d = c \/ Late(handler[d])
        BY <1>0, <1>6 DEF UpdateAccount, Late, Reader
      <3> QED
        BY <3>1 DEF Handled, Late
    <2>2. taskMap' = taskMap
      BY <1>6 DEF UpdateAccount
    <2>3. t \in Task /\ t.address \in Address
      BY <1>0, <1>6 DEF UpdateAccount, Task
    <2>4. counted[a] \subseteq counted'[a]
      BY <1>0, <1>6, <2>3 DEF UpdateAccount
    <2>5. CASE LiveTask(a, h)
      <3>1. PICK u \in taskMap \ Handled : u.address = a /\ u.sequence = h
        BY <2>5 DEF LiveTask
      <3>2. CASE u # t
        BY <2>1, <2>2, <3>1, <3>2 DEF Covered, LiveTask
      <3>3. CASE u = t
        <4>1. Counts(t) /\ t.address = a /\ t.sequence = h
          BY <1>5, <3>1, <3>3 DEF Counts
        <4>2. counted' = [counted EXCEPT ![t.address] = @ \cup {t.sequence}]
          BY <1>6, <4>1 DEF UpdateAccount
        <4>3. h \in counted'[a]
          BY <1>0, <4>1, <4>2
        <4> QED
          BY <4>3 DEF Covered
      <3> QED
        BY <3>2, <3>3
    <2> QED
      BY <1>1, <1>3, <1>5, <2>4, <2>5 DEF Covered
  <1>7. CASE CloneAccount(c) \/ Submit(c)
    <2>1. \A d \in Conn : Late(handler'[d]) =>
              Late(handler[d]) /\ handler'[d].task = handler[d].task
      BY <1>0, <1>7 DEF CloneAccount, Submit, Late, Reader
    <2>2. Handled' \subseteq Handled
      BY <2>1, HandledKept
    <2>3. UNCHANGED <<taskMap, counted>>
      BY <1>7 DEF CloneAccount, Submit, history
    <2> QED
      BY <1>1, <1>3, <1>5, <2>2, <2>3 DEF Covered, LiveTask
  <1>8. CASE RemoveAccount(c)
    <2>1. \A d \in Conn : Late(handler'[d]) =>
              Late(handler[d]) /\ handler'[d].task = handler[d].task
      BY <1>0, <1>8 DEF RemoveAccount, Late, Reader
    <2>2. Handled' \subseteq Handled
      BY <2>1, HandledKept
    <2>3. UNCHANGED <<taskMap, counted>>
      BY <1>8 DEF RemoveAccount, history
    <2> QED
      BY <1>1, <1>3, <1>5, <2>2, <2>3 DEF Covered, LiveTask
  <1>9. CASE ForgetTask(c)
    <2>1. \A d \in Conn : Late(handler'[d]) =>
              Late(handler[d]) /\ handler'[d].task = handler[d].task
      BY <1>0, <1>9 DEF ForgetTask, Late, Reader
    <2>2. Handled' \subseteq Handled
      BY <2>1, HandledKept
    <2>3. t \in Handled
      BY <1>9 DEF ForgetTask, Handled
    <2>4. taskMap' = taskMap \ {t} /\ UNCHANGED counted
      BY <1>9 DEF ForgetTask, history
    <2>5. LiveTask(a, h) => LiveTask(a, h)'
      BY <2>2, <2>3, <2>4 DEF LiveTask
    <2> QED
      BY <1>1, <1>3, <1>5, <2>4, <2>5 DEF Covered
  <1> QED
    BY <1>6, <1>7, <1>8, <1>9 DEF ReaderStep

\* scheduling_tasks: an account's blocks in range become pairs to issue, a
\* pair becomes a new task, which no reader can have dealt with.
LEMMA ScheduleConserves ==
    ASSUME TypeOK, FreshIssue, BlockConservation,
           NEW p \in Scheduler, ScheduleStep(p)
    PROVE  BlockConservation'
  <1>0. job \in [Scheduler -> Job] /\ job[p] \in Job
    BY DEF TypeOK
  <1>1. UNCHANGED <<account, handler, primary, secondary, counted, dropped>>
    BY DEF ScheduleStep, ScheduleAccount, CreateTask, Dispatch, history
  <1>2. Handled' = Handled
    BY <1>1 DEF Handled
  <1>3. SUFFICES ASSUME NEW a \in Address, NEW h \in ScanRange(a),
                        Scanning(a), Covered(a, h)
                 PROVE  Covered(a, h)'
    BY <1>1, ConservationKeptStill
  <1> DEFINE Pending(j) == \/ a \in j.accounts /\ h \in j.blocks
                           \/ <<a, h>> \in j.todo
  <1>4. ASSUME \A q \in Scheduler : Pending(job[q]) => Pending(job'[q]) \/ LiveTask(a, h)',
               taskMap \subseteq taskMap'
        PROVE  Covered(a, h)'
    BY <1>1, <1>2, <1>3, <1>4
    DEF Covered, LiveTask, PrimaryWillIssue, SecondaryWillIssue, Scheduler
  <1>5. CASE ScheduleAccount(p)
    <2>1. PICK b \in job[p].accounts :
            job' = [job EXCEPT
                      ![p].accounts = @ \ {b},
                      ![p].todo = IF Scanning(b)
                                    THEN {b} \X (job[p].blocks \cap ScanRange(b))
                                    ELSE {}]
      BY <1>5 DEF ScheduleAccount
    <2>2. job[p].todo = {} /\ taskMap' = taskMap
      BY <1>5 DEF ScheduleAccount
    <2>3. /\ job'[p].accounts = job[p].accounts \ {b}
          /\ job'[p].blocks = job[p].blocks
          /\ Scanning(b) =>
                job'[p].todo = {b} \X (job[p].blocks \cap ScanRange(b))
          /\ \A q \in Scheduler \ {p} : job'[q] = job[q]
      BY <1>0, <2>1 DEF Job
    <2>4. \A q \in Scheduler : Pending(job[q]) => Pending(job'[q])
      BY <1>3, <2>2, <2>3
    <2> QED
      BY <1>4, <2>2, <2>4
  <1>6. CASE CreateTask(p)
    <2> DEFINE T(w) == [address |-> w[1], sequence |-> w[2],
                        nonce |-> issued[w[1]][w[2]] + 1]
    <2>1. PICK w \in job[p].todo :
            /\ taskMap' = taskMap \cup {T(w)}
            /\ job' = [job EXCEPT ![p].todo = @ \ {w}, ![p].sending = {T(w)}]
      BY <1>6 DEF CreateTask
    <2>2. w \in Address \X Height
      BY <1>0, <2>1 DEF Job
    <2>3. issued[w[1]][w[2]] \in Nat
      BY <2>2 DEF TypeOK
    <2>4. T(w) \notin Handled
      <3>1. SUFFICES ASSUME T(w) \in Handled PROVE FALSE
        OBVIOUS
      <3>2. T(w) \in Task
        BY <2>2, <2>3 DEF Task
      <3>3. T(w) \in Outstanding
        BY <3>1, <3>2, NoTaskAssumption
        DEF Handled, Answered, Outstanding, NoTaskAssumption
      <3>4. T(w).nonce <= issued[w[1]][w[2]]
        BY <3>3 DEF FreshIssue
      <3> QED
        BY <2>3, <3>4
    <2>5. /\ job'[p].accounts = job[p].accounts
          /\ job'[p].blocks = job[p].blocks
          /\ job'[p].todo = job[p].todo \ {w}
          /\ \A q \in Scheduler \ {p} : job'[q] = job[q]
      BY <1>0, <2>1 DEF Job
    <2>6. <<a, h>> = w => LiveTask(a, h)'
      BY <1>2, <2>1, <2>4 DEF LiveTask
    <2>7. \A q \in Scheduler :
              Pending(job[q]) => Pending(job'[q]) \/ LiveTask(a, h)'
      BY <2>5, <2>6
    <2> QED
      BY <1>4, <2>1, <2>7
  <1>7. CASE Dispatch(p)
    <2>1. \A q \in Scheduler : Pending(job[q]) => Pending(job'[q])
      BY <1>0, <1>7 DEF Dispatch, Job
    <2>2. taskMap' = taskMap
      BY <1>7 DEF Dispatch
    <2> QED
      BY <1>4, <2>1, <2>2
  <1> QED
    BY <1>5, <1>6, <1>7 DEF ScheduleStep

\* The secondary task: a live task it removes is carried in its variables
\* until the call that issues its block again, or the block is given up.
LEMMA SecondaryConserves ==
    ASSUME TypeOK, BlockConservation,
           \/ \E keys \in SUBSET taskMap : SecondaryWake(keys)
           \/ SecondaryStep
    PROVE  BlockConservation'
  <1>0. secondary \in SecondaryTask /\ job \in [Scheduler -> Job]
    BY DEF TypeOK
  <1>1. UNCHANGED <<account, handler, primary, counted>>
    BY DEF SecondaryWake, SecondaryStep, SecondaryTake, SecondaryLookup,
           SecondaryTaken, SecondarySchedule, SecondaryDone, history
  <1>2. Handled' = Handled
    BY <1>1 DEF Handled
  <1>3. SUFFICES ASSUME NEW a \in Address, NEW h \in ScanRange(a),
                        Scanning(a), Covered(a, h)
                 PROVE  Covered(a, h)'
    BY <1>1, ConservationKeptStill
  <1>4. CASE \/ \E keys \in SUBSET taskMap : SecondaryWake(keys)
             \/ SecondaryTaken \/ SecondaryDone
    <2>1. /\ secondary'.removed = secondary.removed
          /\ secondary'.list = secondary.list
      BY <1>0, <1>4 DEF SecondaryWake, SecondaryTaken, SecondaryDone,
                        SecondaryTask
    <2>2. UNCHANGED <<taskMap, job, dropped>>
      BY <1>4 DEF SecondaryWake, SecondaryTaken, SecondaryDone, history
    <2> QED
      BY <1>1, <1>2, <1>3, <2>1, <2>2
      DEF Covered, LiveTask, PrimaryWillIssue, SecondaryWillIssue
  <1>5. CASE SecondaryTake
    <2>1. PICK t \in secondary.keys :
            /\ taskMap' = taskMap \ {t}
            /\ secondary' = [secondary EXCEPT
                   !.keys = @ \ {t},
                   !.pc = IF t \in taskMap THEN "lookup" ELSE "take",
                   !.removed = @ \cup ({t} \cap taskMap)]
      BY <1>5 DEF SecondaryTake
    <2>2. /\ secondary'.removed = secondary.removed \cup ({t} \cap taskMap)
          /\ secondary'.list = secondary.list
      BY <1>0, <2>1 DEF SecondaryTask
    <2>3. UNCHANGED <<job, dropped>>
      BY <1>5 DEF SecondaryTake
    <2>4. LiveTask(a, h) => LiveTask(a, h)' \/ SecondaryWillIssue(a, h)'
      BY <1>2, <2>1, <2>2 DEF LiveTask, SecondaryWillIssue
    <2>5. SecondaryWillIssue(a, h) => SecondaryWillIssue(a, h)'
      BY <2>2, <2>3 DEF SecondaryWillIssue
    <2> QED
      BY <1>1, <1>3, <2>3, <2>4, <2>5 DEF Covered, PrimaryWillIssue
  <1>6. CASE SecondaryLookup
    <2>1. PICK t \in secondary.removed :
            \/ /\ \/ secondary' = [Listed(t) EXCEPT !.keys = {}]
                  \/ secondary' = Listed(t)
               /\ dropped' = dropped
            \/ /\ secondary' = Unlisted(t)
               /\ dropped' = dropped \cup {<<t.address, t.sequence>>}
            \/ /\ ~ Scanning(t.address)
               /\ secondary' = Unlisted(t)
               /\ dropped' = dropped
      BY <1>6 DEF SecondaryLookup
    <2>2. /\ \/ secondary'.list = secondary.list \cup {t}
             \/ /\ secondary'.list = secondary.list
                /\ \/ ~ Scanning(t.address)
                   \/ <<t.address, t.sequence>> \in dropped'
          /\ secondary'.removed = secondary.removed \ {t}
          /\ dropped \subseteq dropped'
      BY <1>0, <2>1 DEF SecondaryTask, Listed, Unlisted
    <2>3. UNCHANGED <<taskMap, job>>
      BY <1>6 DEF SecondaryLookup
    <2>4. SecondaryWillIssue(a, h) =>
              SecondaryWillIssue(a, h)' \/ <<a, h>> \in dropped'
      BY <1>3, <2>2, <2>3 DEF SecondaryWillIssue
    <2> QED
      BY <1>1, <1>2, <1>3, <2>2, <2>3, <2>4
      DEF Covered, LiveTask, PrimaryWillIssue
  <1>7. CASE SecondarySchedule
    <2>1. PICK t \in secondary.list :
            /\ job' = [job EXCEPT !["secondary"] =
                   [accounts |-> {t.address}, blocks |-> {t.sequence},
                    todo |-> {}, sending |-> {}]]
            /\ secondary' = [secondary EXCEPT !.list = @ \ {t}]
      BY <1>7 DEF SecondarySchedule
    <2>2. /\ job["secondary"].accounts = {} /\ job["secondary"].todo = {}
          /\ UNCHANGED <<taskMap, dropped>>
      BY <1>7 DEF SecondarySchedule, Busy, history
    <2>3. /\ secondary'.removed = secondary.removed
          /\ secondary'.list = secondary.list \ {t}
          /\ job'["secondary"].accounts = {t.address}
          /\ job'["secondary"].blocks = {t.sequence}
          /\ job'["primary"] = job["primary"]
      BY <1>0, <2>1 DEF SecondaryTask, Scheduler
    <2>4. SecondaryWillIssue(a, h) => SecondaryWillIssue(a, h)'
      BY <2>2, <2>3 DEF SecondaryWillIssue
    <2> QED
      BY <1>1, <1>2, <1>3, <2>2, <2>3, <2>4
      DEF Covered, LiveTask, PrimaryWillIssue
  <1> QED
    BY <1>4, <1>5, <1>6, <1>7 DEF SecondaryStep

\* The primary task: a scan it adds is ahead of it, and the groups it cuts
\* out of its span leave out no block of the round.
LEMMA PrimaryConserves ==
    ASSUME TypeOK, RoundEnd, BlockConservation, PrimaryWake \/ PrimaryStep
    PROVE  BlockConservation'
  <1>0. /\ primary \in PrimaryTask
        /\ primary.accounts \subseteq Address
        /\ primary.end \in Nat /\ primary.next \in Nat /\ primary.start \in Nat
        /\ job \in [Scheduler -> Job]
        /\ account \in [Address -> AccountInfo \cup {NoAccount}]
    BY ScanAssumption DEF TypeOK, PrimaryTask, Height, ScanAssumption
  <1>1. /\ UNCHANGED <<taskMap, handler, secondary>>
        /\ job'["secondary"] = job["secondary"]
        /\ dropped \subseteq dropped'
    <2>1. CASE PrimaryFetch
      BY <1>0, <2>1, FetchIs DEF Scheduler
    <2>2. CASE ~ PrimaryFetch
      BY <2>2
      DEF PrimaryWake, PrimaryStep, PrimaryTip, PrimaryPop, PrimaryPopDone,
          PrimaryDone, history
    <2> QED
      BY <2>1, <2>2
  <1>2. \A a \in Address, h \in Height :
            /\ LiveTask(a, h) => LiveTask(a, h)'
            /\ SecondaryWillIssue(a, h) => SecondaryWillIssue(a, h)'
    BY <1>1 DEF LiveTask, Handled, SecondaryWillIssue
  <1>3. ASSUME UNCHANGED <<account, counted>>,
               \A a \in Address : \A h \in ScanRange(a) :
                   Scanning(a) /\ PrimaryWillIssue(a, h) =>
                       PrimaryWillIssue(a, h)' \/ <<a, h>> \in dropped'
        PROVE  BlockConservation'
    <2>1. \A a \in Address : ScanRange(a) \subseteq Height
      BY ScanRangeType
    <2> QED
      BY <1>1, <1>2, <1>3, <2>1, ConservationKeptStill DEF Covered
  <1>4. CASE PrimaryWake \/ PrimaryTip
    <2>1. /\ UNCHANGED <<account, counted, job>>
          /\ primary.pc \in {"sleep", "tip"}
      BY <1>4 DEF PrimaryWake, PrimaryTip, history
    <2> QED
      BY <1>3, <2>1 DEF PrimaryWillIssue
  <1>5. CASE PrimaryPop
    <2>1. UNCHANGED job /\ primary.pc = "pop"
      BY <1>5 DEF PrimaryPop
    <2>2. CASE UNCHANGED <<account, counted, primary>>
      BY <1>3, <2>1, <2>2 DEF PrimaryWillIssue
    <2>3. ASSUME NEW b \in Address,
                 ~ Scanning(b),
                 \A a \in Address \ {b} : /\ account'[a] = account[a]
                                         /\ counted'[a] = counted[a],
                 primary'.start <= account'[b].start,
                 primary'.start <= primary.start,
                 primary'.accounts = primary.accounts \cup {b},
                 primary'.pc = "pop"
          PROVE  BlockConservation'
      <3>1. TypeOK'
        BY <1>5, PrimaryTypeOK DEF PrimaryStep
      <3>2. primary'.start \in Nat
        BY <3>1, ScanAssumption DEF TypeOK, PrimaryTask, ScanAssumption
      <3>3. SUFFICES ASSUME NEW a \in Address, Scanning(a)',
                            NEW h \in ScanRange(a)'
                     PROVE  Covered(a, h)'
        BY DEF BlockConservation
      <3>4. CASE a = b
        <4>1. account'[b] \in AccountInfo
          BY <3>1, <3>3, <3>4 DEF TypeOK, Scanning
        <4>2. account'[b].start <= h /\ account'[b].start \in Nat /\ h \in Nat
          BY <3>3, <3>4, <4>1, ScanAssumption
          DEF ScanRange, AccountInfo, Height, ScanAssumption
        <4>3. primary'.start <= h
          BY <2>3, <3>2, <4>2
        <4> QED
          BY <2>3, <3>4, <4>3 DEF Covered, PrimaryWillIssue
      <3>5. CASE a # b
        <4>1. Scanning(a) /\ h \in ScanRange(a)
          BY <2>3, <3>3, <3>5 DEF Scanning, ScanRange
        <4>2. h \in Height /\ h \in Nat
          BY <4>1, ScanRangeType, ScanAssumption DEF Height, ScanAssumption
        <4>3. Covered(a, h)
          BY <4>1 DEF BlockConservation
        <4>4. PrimaryWillIssue(a, h) => PrimaryWillIssue(a, h)'
          BY <1>0, <2>1, <2>3, <3>2, <4>2 DEF PrimaryWillIssue
        <4>5. counted'[a] = counted[a]
          BY <2>3, <3>5
        <4> QED
          BY <1>1, <1>2, <4>2, <4>3, <4>4, <4>5 DEF Covered
      <3> QED
        BY <3>4, <3>5
    <2> QED
      BY <1>5, <2>2, <2>3, PopAdds
  <1>6. CASE PrimaryPopDone
    <2>1. UNCHANGED <<account, counted, job>> /\ primary.pc = "pop"
      BY <1>6 DEF PrimaryPopDone, history
    <2>2. \/ primary.accounts = {}
          \/ /\ primary'.pc = "fetch" /\ primary'.next = primary.start
             /\ primary'.accounts = primary.accounts
      BY <1>0, <1>6 DEF PrimaryPopDone, PrimaryTask
    <2> QED
      BY <1>3, <2>1, <2>2 DEF PrimaryWillIssue
  <1>7. CASE PrimaryFetch \/ PrimaryDone
    <2>1. /\ UNCHANGED <<account, counted>> /\ primary.pc = "fetch"
          /\ job["primary"].accounts = {} /\ job["primary"].todo = {}
      BY <1>7 DEF PrimaryFetch, PrimaryDone, Busy, history
    <2>2. SUFFICES ASSUME NEW a \in Address, NEW h \in ScanRange(a),
                          Scanning(a), PrimaryWillIssue(a, h)
                   PROVE  PrimaryWillIssue(a, h)' \/ <<a, h>> \in dropped'
      BY <1>3, <2>1
    <2>3. a \in primary.accounts /\ primary.next <= h
      BY <2>1, <2>2 DEF PrimaryWillIssue
    <2>4. h \in Nat /\ h <= primary.end
      <3>1. account[a] \in AccountInfo /\ account[a].end = primary.end
        BY <1>0, <2>1, <2>2, <2>3 DEF RoundEnd, Scanning
      <3> QED
        BY <1>0, <2>2, <3>1, ScanAssumption
        DEF ScanRange, AccountInfo, Height, ScanAssumption
    <2>5. CASE primary' = [primary EXCEPT !.pc = "dead"]
      <3>1. /\ primary'.pc = "dead" /\ primary'.next = primary.next
            /\ primary'.accounts = primary.accounts
        BY <1>0, <2>5 DEF PrimaryTask
      <3> QED
        BY <2>3, <3>1 DEF PrimaryWillIssue
    <2>6. ASSUME NEW blocks,
                 primary' = [primary EXCEPT !.next = @ + Batch],
                 job' = [job EXCEPT !["primary"] =
                             [accounts |-> primary.accounts, blocks |-> blocks,
                              todo |-> {}, sending |-> {}]],
                 dropped' = dropped \cup
                     {w \in primary.accounts \X
                            (Heights(Group(primary.next, primary.end + 1, Batch))
                                 \ blocks) :
                          w[2] \in ScanRange(w[1])}
          PROVE  PrimaryWillIssue(a, h)' \/ <<a, h>> \in dropped'
      <3> DEFINE group == Group(primary.next, primary.end + 1, Batch)
      <3>1. /\ primary'.pc = "fetch" /\ primary'.next = primary.next + Batch
            /\ primary'.accounts = primary.accounts
        BY <1>0, <2>1, <2>6 DEF PrimaryTask
      <3>2. /\ job'["primary"].accounts = primary.accounts
            /\ job'["primary"].blocks = blocks
        BY <1>0, <2>6 DEF Scheduler
      <3>3. h \in Heights(group) \/ primary.next + Batch <= h
        BY <1>0, <2>3, <2>4, ScanAssumption DEF Heights, Group, ScanAssumption
      <3>4. CASE h \in blocks \/ primary.next + Batch <= h
        BY <2>3, <3>1, <3>2, <3>4 DEF PrimaryWillIssue
      <3>5. CASE h \in Heights(group) \ blocks
        <4>1. <<a, h>> \in primary.accounts \X (Heights(group) \ blocks)
          BY <2>3, <3>5
        <4> QED
          BY <2>2, <2>6, <4>1
      <3> QED
        BY <3>3, <3>4, <3>5
    <2>7. CASE PrimaryDone
      BY <1>0, <2>3, <2>4, <2>7 DEF PrimaryDone
    <2> QED
      BY <1>7, <2>5, <2>6, <2>7, FetchIs
  <1> QED
    BY <1>4, <1>5, <1>6, <1>7 DEF PrimaryStep

----------------------------------------------------------------------------

LEMMA InitIInv == Init => IInv
  <1> SUFFICES ASSUME Init PROVE IInv
    OBVIOUS
  <1>1. TypeOK
    BY InitTypeOK
  <1>2. FreshIssue
    BY DEF Init, FreshIssue, Outstanding, Answered, IdleJob, Scheduler
  <1>3. RoundEnd /\ BlockConservation
    BY DEF Init, RoundEnd, BlockConservation, Scanning
  <1> QED
    BY <1>1, <1>2, <1>3 DEF IInv

LEMMA NextIInv == IInv /\ [Next]_vars => IInv'
  <1> SUFFICES ASSUME IInv, [Next]_vars PROVE IInv'
    OBVIOUS
  <1>0. TypeOK /\ FreshIssue /\ RoundEnd /\ BlockConservation
    BY DEF IInv
  <1>1. TypeOK' /\ FreshIssue' /\ RoundEnd'
    BY <1>0, NextTypeOK, NextFreshIssue, NextRoundEnd
  <1>2. BlockConservation'
    <2>1. CASE UNCHANGED vars
      BY <1>0, <2>1, RestConserves DEF vars, history
    <2>2. CASE \/ \E k \in Client : \E req \in ScanRequest : ScanAccount(k, req)
               \/ \E k \in Client : PushAccount(k)
               \/ \E t \in sent : Lose(t)
      BY <1>0, <2>2, RestConserves DEF ScanAccount, PushAccount, Lose, history
    <2> QED
      BY <1>0, <2>1, <2>2, ReceiveConserves, ReaderConserves,
         ScheduleConserves, SecondaryConserves, PrimaryConserves
      DEF Next
  <1> QED
    BY <1>1, <1>2 DEF IInv

\* No block of a scan is ever forgotten, whatever is late, lost, answered out
\* of order or reissued, and for any number of accounts, workers and requests.
THEOREM Conservation == Spec => []BlockConservation
  <1>1. IInv => BlockConservation
    BY DEF IInv
  <1> QED
    BY <1>1, InitIInv, NextIInv, PTL DEF Spec

\* The strengthening itself: fresh tasks and the end of the round.
THEOREM FreshAndRoundEnd == Spec => [](FreshIssue /\ RoundEnd)
  <1>1. IInv => FreshIssue /\ RoundEnd
    BY DEF IInv
  <1> QED
    BY <1>1, InitIInv, NextIInv, PTL DEF Spec
=============================================================================

-------------------------- MODULE WorkerPoolProofs --------------------------
(***************************************************************************)
(* The worker pool keeps its contract, for any workers, connections,       *)
(* schedulers and tasks.                                                   *)
(*                                                                         *)
(* A task is held in spots: the channel, the buffer, the socket of a       *)
(* connection, the hands of its reader and writer and of a scheduler, the  *)
(* queue, the answered ones.  Every step of the model carries tasks from   *)
(* spots to one other spot, or loses some, and it loses some only by a     *)
(* fault.  The properties of WorkerPool follow from that alone.            *)
(***************************************************************************)
EXTENDS WorkerPool, FiniteSetTheorems, SequenceTheorems, WellFoundedInduction, TLAPS

----------------------------------------------------------------------------
(* The inductive invariant.                                                *)

\* Who has a task, a message or a response in hand.
HandsOK ==
    /\ \A p \in Scheduler :
         IF sched[p].pc = "next" THEN sched[p].task = {}
                                 ELSE \E t \in Task : sched[p].task = {t}
    /\ \A c \in Conn :
         /\ IF reader[c].pc \in {"sendFirst", "sendNext"}
              THEN \E t \in Task : reader[c].task = {t}
              ELSE reader[c].task = {}
         /\ IF reader[c].pc \in {"takeNext", "sendNext", "setIdle", "deliver"}
              THEN \E t \in Task : reader[c].resp = {t}
              ELSE reader[c].resp = {}
         /\ writer[c].pc \in {"mark", "write"} <=> writer[c].msg # <<>>

\* What carries the name of a worker belongs to a connection of that worker.
NamesOK ==
    /\ \A w \in Worker : Registered(w) =>
         Owner[workers[w].conn] = w /\ reader[workers[w].conn].pc # "new"
    /\ \A c \in Conn :
         /\ \A i \in 1 .. Len(chan[c]) : chan[c][i].name \in {Owner[c], NoWorker}
         /\ \A i \in 1 .. Len(writer[c].msg) :
              writer[c].msg[i].name \in {Owner[c], NoWorker}
         /\ writer[c].pc = "mark" => writer[c].msg[1].name # NoWorker

\* A connection that has not been opened yet is empty.
NewIsEmpty ==
    \A c \in Conn : reader[c].pc = "new" =>
        /\ chan[c] = <<>> /\ unflushed[c] = <<>>
        /\ wire[c] = <<>> /\ replies[c] = <<>>
        /\ writer[c].pc = "recv" /\ c \notin open

TasksOf(s) == {s[i].task : i \in 1 .. Len(s)}

\* The spots; Held is what is in one of them.
Spot == ({"chan", "hand", "unflushed", "wire", "replies", "task", "resp"} \X Conn)
        \cup ({"scheduler"} \X Scheduler) \cup ({"queue", "answered"} \X {"pool"})

Held(x) ==
    CASE x[1] = "chan"      -> TasksOf(chan[x[2]])
      [] x[1] = "hand"      -> TasksOf(writer[x[2]].msg)
      [] x[1] = "unflushed" -> Elements(unflushed[x[2]])
      [] x[1] = "wire"      -> Elements(wire[x[2]])
      [] x[1] = "replies"   -> Elements(replies[x[2]])
      [] x[1] = "task"      -> reader[x[2]].task
      [] x[1] = "resp"      -> reader[x[2]].resp
      [] x[1] = "scheduler" -> sched[x[2]].task
      [] x[1] = "queue"     -> queue
      [] x[1] = "answered"  -> answered

\* No task is in two spots, none was never handed over, and no buffer, channel
\* or socket has one twice.
Disjoint == \A x, y \in Spot : x # y => Held(x) \cap Held(y) = {}
HeldIssued == \A x \in Spot : Held(x) \subseteq issued

NoRepeat(s) == \A i, j \in 1 .. Len(s) : s[i] = s[j] => i = j
NoRepeatTask(s) == \A i, j \in 1 .. Len(s) : s[i].task = s[j].task => i = j
Distinct == \A c \in Conn : /\ NoRepeatTask(chan[c]) /\ NoRepeat(unflushed[c])
                            /\ NoRepeat(wire[c]) /\ NoRepeat(replies[c])

\* Without faults every reader and writer goes on, every task is in a spot, and
\* a busy worker has something under way.
Faultless == ~ ConnMayFail /\ ~ SendMayTimeOut

AllUp == Faultless => \A c \in Conn :
    /\ reader[c].pc # "dead" /\ writer[c].pc # "dead" /\ unflushed[c] = <<>>
    /\ c \in open <=> reader[c].pc # "new"
    /\ reader[c].pc # "new" => workers[Owner[c]].conn = c
AllHeld == Faultless => \A t \in issued : \E x \in Spot : t \in Held(x)

InFlight(c) == chan[c] # <<>> \/ writer[c].msg # <<>> \/ wire[c] # <<>> \/ replies[c] # <<>>
Working(c) == InFlight(c) \/ reader[c].pc \in {"takeNext", "sendNext", "setIdle"}
BusyInFlight == Faultless =>
    \A w \in Worker : workers[w].status = Busy => Working(workers[w].conn)
----------------------------------------------------------------------------
(* Types and hands.                                                        *)

Inv1 == TypeOK /\ HandsOK /\ NamesOK /\ NewIsEmpty /\ EntryIsLive

LEMMA InitInv1 == Init => Inv1
  BY PoolAssumption
  DEF Init, Inv1, TypeOK, HandsOK, NamesOK, NewIsEmpty, EntryIsLive, Registered,
      Dispatched, SchedulerState, ReaderState, WriterState, NoEntry

LEMMA IssueInv1 ==
    ASSUME Inv1, NEW p \in Scheduler, NEW t \in Task, Issue(p, t)
    PROVE  Inv1'
  <1>1. TypeOK'
    BY DEF Inv1, TypeOK, Issue, SchedulerState, WaitingReaders, WaitingWriters, Registered
  <1>2. HandsOK'
    BY DEF Inv1, TypeOK, HandsOK, Issue, SchedulerState
  <1> QED
    BY <1>1, <1>2 DEF Inv1, NamesOK, NewIsEmpty, EntryIsLive, Registered, Issue

\* The dispatch loop goes on to an idle worker or gives up, the task in hand.
LEMMA NextWorkerTypes ==
    ASSUME TypeOK, NEW p \in Scheduler, NEW tried \in SUBSET Worker,
           NextWorker(p, tried)
    PROVE  \E s \in SchedulerState :
             /\ sched' = [sched EXCEPT ![p] = s]
             /\ s.task = sched[p].task
             /\ \/ s.pc = "push"
                \/ s.pc = "send" /\ s.to \in Worker /\ Registered(s.to)
  <1>1. sched \in [Scheduler -> SchedulerState] /\ sched[p] \in SchedulerState
    BY DEF TypeOK
  <1>2. \A w \in Worker : workers[w].status = Idle => Registered(w)
    BY DEF TypeOK, Registered, NoEntry, Idle
  <1>3. CASE sched' = [sched EXCEPT ![p].pc = "push", ![p].tried = {}]
    <2> DEFINE s == [sched[p] EXCEPT !.pc = "push", !.tried = {}]
    <2>1. sched' = [sched EXCEPT ![p] = s]
      BY <1>1, <1>3
    <2>2. s \in SchedulerState /\ s.pc = "push" /\ s.task = sched[p].task
      BY <1>1 DEF SchedulerState
    <2> QED
      BY <2>1, <2>2
  <1>4. ASSUME NEW w \in Worker, workers[w].status = Idle,
               sched' = [sched EXCEPT ![p].pc = "send", ![p].tried = tried \cup {w},
                                      ![p].to = w]
        PROVE  \E s \in SchedulerState :
                 /\ sched' = [sched EXCEPT ![p] = s]
                 /\ s.task = sched[p].task
                 /\ s.pc = "send" /\ s.to \in Worker /\ Registered(s.to)
    <2> DEFINE s == [sched[p] EXCEPT !.pc = "send", !.tried = tried \cup {w}, !.to = w]
    <2>1. sched' = [sched EXCEPT ![p] = s]
      BY <1>1, <1>4
    <2>2. s \in SchedulerState /\ s.pc = "send" /\ s.task = sched[p].task /\ s.to = w
      BY <1>1 DEF SchedulerState
    <2> QED
      BY <1>2, <1>4, <2>1, <2>2
  <1> QED
    BY <1>3, <1>4 DEF NextWorker

LEMMA LookInv1 ==
    ASSUME Inv1, NEW p \in Scheduler, Look(p)
    PROVE  Inv1'
  <1>0. sched[p].pc = "lock" /\ NextWorker(p, {})
    BY DEF Look
  <1>1. PICK s \in SchedulerState :
          /\ sched' = [sched EXCEPT ![p] = s] /\ s.task = sched[p].task
          /\ s.pc = "push" \/ (s.pc = "send" /\ s.to \in Worker /\ Registered(s.to))
    BY <1>0, NextWorkerTypes DEF Inv1
  <1>2. UNCHANGED <<issued, workers, queue, reader, chan, writer, unflushed,
                    wire, replies, open, stopped, answered>>
    BY DEF Look
  <1>3. TypeOK'
    BY <1>1, <1>2 DEF Inv1, TypeOK, Registered
  <1>4. HandsOK'
    BY <1>0, <1>1, <1>2 DEF Inv1, TypeOK, HandsOK
  <1> QED
    BY <1>2, <1>3, <1>4 DEF Inv1, NamesOK, NewIsEmpty, EntryIsLive, Registered

\* The channel it waits for is that of a connection of the worker it chose.
LEMMA SendTarget ==
    ASSUME Inv1, NEW p \in Scheduler, sched[p].pc = "send"
    PROVE  /\ sched[p].to \in Worker /\ Registered(sched[p].to)
           /\ workers[sched[p].to].conn \in Conn
           /\ Owner[workers[sched[p].to].conn] = sched[p].to
           /\ writer[workers[sched[p].to].conn].pc # "dead"
           /\ reader[workers[sched[p].to].conn].pc # "new"
           /\ \E t \in Task : sched[p].task = {t}
  <1>1. sched[p].to \in Worker /\ Registered(sched[p].to)
    BY DEF Inv1, TypeOK
  <1>2. workers[sched[p].to] \in Entry
    BY <1>1 DEF Inv1, TypeOK, Registered
  <1> QED
    BY <1>1, <1>2 DEF Inv1, NamesOK, EntryIsLive, Entry, HandsOK

LEMMA SendToWorkerInv1 ==
    ASSUME Inv1, NEW p \in Scheduler, SendToWorker(p)
    PROVE  Inv1'
  <1> DEFINE w == sched[p].to
             c == workers[w].conn
  <1>0. sched[p].pc = "send"
    BY DEF SendToWorker
  <1>1. /\ w \in Worker /\ Registered(w) /\ c \in Conn /\ Owner[c] = w
        /\ writer[c].pc # "dead" /\ reader[c].pc # "new"
    BY <1>0, SendTarget
  <1>9. PICK t \in Task : sched[p].task = {t}
    BY <1>0, SendTarget
  <1>2. chan' = [chan EXCEPT ![c] = Append(@, [name |-> w, task |-> t])]
    BY <1>1, <1>9 DEF SendToWorker
  <1>3. /\ sched' = [sched EXCEPT ![p] = Dispatched] /\ Len(chan[c]) < Capacity
        /\ UNCHANGED <<issued, workers, queue, reader, writer, unflushed, wire,
                       replies, open, stopped, answered>>
    BY <1>1 DEF SendToWorker, AfterSend
  <1> HIDE DEF w, c
  <1>4. [name |-> w, task |-> t] \in ServerMessage
    BY <1>1 DEF ServerMessage
  <1>5. TypeOK'
    <2>1. sched' \in [Scheduler -> SchedulerState] /\
          \A q \in Scheduler : sched'[q].pc = "send" =>
              sched'[q].to \in Worker /\ Registered(sched'[q].to)
      BY <1>3 DEF Inv1, TypeOK, Dispatched, SchedulerState
    <2>2. chan' \in [Conn -> Seq(ServerMessage)]
          /\ \A d \in Conn : Len(chan'[d]) <= Capacity
      BY <1>1, <1>2, <1>3, <1>4, PoolAssumption DEF Inv1, TypeOK
    <2> QED
      BY <1>3, <2>1, <2>2 DEF Inv1, TypeOK, Registered
  <1>6. HandsOK'
    BY <1>3 DEF Inv1, HandsOK, TypeOK, Dispatched
  <1>7. NamesOK'
    <2>1. ASSUME NEW d \in Conn, NEW i \in 1 .. Len(chan'[d])
          PROVE  chan'[d][i].name \in {Owner[d], NoWorker}
      <3>1. chan[d] \in Seq(ServerMessage) /\ chan \in [Conn -> Seq(ServerMessage)]
        BY DEF Inv1, TypeOK
      <3>2. CASE d = c
        BY <1>1, <1>2, <1>4, <3>1, <3>2 DEF Inv1, NamesOK
      <3>3. CASE d # c
        BY <1>1, <1>2, <3>1, <3>3 DEF Inv1, NamesOK
      <3> QED
        BY <3>2, <3>3
    <2> QED
      BY <1>3, <2>1 DEF Inv1, NamesOK, Registered
  <1>8. NewIsEmpty'
    BY <1>1, <1>2, <1>3 DEF Inv1, TypeOK, NewIsEmpty
  <1> QED
    BY <1>3, <1>5, <1>6, <1>7, <1>8 DEF Inv1, EntryIsLive, Registered

LEMMA PushToQueueInv1 ==
    ASSUME Inv1, NEW p \in Scheduler, PushToQueue(p)
    PROVE  Inv1'
  <1>1. TypeOK'
    BY DEF Inv1, TypeOK, PushToQueue, Dispatched, SchedulerState, Registered
  <1>2. HandsOK'
    BY DEF Inv1, HandsOK, TypeOK, PushToQueue, Dispatched
  <1> QED
    BY <1>1, <1>2 DEF Inv1, NamesOK, NewIsEmpty, EntryIsLive, Registered, PushToQueue

----------------------------------------------------------------------------
(* The reader.                                                             *)

\* The map changes only while no scheduler waits for room in a channel.
LEMMA UnlockedNoSend ==
    ASSUME WorkersUnlocked, NEW p \in Scheduler
    PROVE  sched[p].pc # "send"
  BY DEF WorkersUnlocked

LEMMA RegisterInv1 ==
    ASSUME Inv1, NEW c \in Conn, Register(c)
    PROVE  Inv1'
  <1>0. Owner[c] \in Worker
    BY PoolAssumption
  <1>1. TypeOK'
    BY <1>0, UnlockedNoSend DEF Inv1, TypeOK, Register, Entry, ReaderState, Registered,
       NoEntry
  <1>2. HandsOK'
    BY DEF Inv1, HandsOK, TypeOK, Register, ReaderState
  <1>3. NamesOK'
    BY <1>0, PoolAssumption DEF Inv1, NamesOK, TypeOK, Register, ReaderState, Registered,
       Entry
  <1>4. NewIsEmpty'
    BY DEF Inv1, NewIsEmpty, TypeOK, Register, ReaderState
  <1>5. EntryIsLive'
    BY <1>0 DEF Inv1, NewIsEmpty, EntryIsLive, TypeOK, Register, Registered
  <1> QED
    BY <1>1, <1>2, <1>3, <1>4, <1>5 DEF Inv1

LEMMA ReadResponseInv1 ==
    ASSUME Inv1, NEW c \in Conn, ReadResponse(c)
    PROVE  Inv1'
  <1>0. Head(replies[c]) \in Task /\ Tail(replies[c]) \in Seq(Task)
    BY DEF Inv1, TypeOK, ReadResponse
  <1>1. TypeOK'
    <2>1. replies' \in [Conn -> Seq(Task)]
      BY <1>0 DEF Inv1, TypeOK, ReadResponse
    <2>2. reader' \in [Conn -> ReaderState]
      BY <1>0 DEF Inv1, TypeOK, ReadResponse, ReaderState
    <2> QED
      BY <2>1, <2>2 DEF Inv1, TypeOK, ReadResponse, Registered
  <1>2. HandsOK'
    BY <1>0 DEF Inv1, HandsOK, TypeOK, ReadResponse, ReaderState
  <1>3. NamesOK' /\ NewIsEmpty' /\ EntryIsLive'
    BY DEF Inv1, NamesOK, NewIsEmpty, EntryIsLive, TypeOK, ReadResponse, ReaderState,
       Registered, Entry
  <1> QED
    BY <1>1, <1>2, <1>3 DEF Inv1

\* The queue is a set of numbers, so that it has a least one.
LEMMA LeastIs ==
    ASSUME NEW q \in SUBSET Task, q # {}
    PROVE  Least(q) \in q
  <1>0. q \subseteq Nat
    BY PoolAssumption DEF Task
  <1>1. PICK t \in q : \A u \in q : ~ (<<u, t>> \in OpToRel(<, Nat))
    BY <1>0, NatLessThanWellFounded, WFMin
  <1>2. \A u \in q : ~ (u < t)
    BY <1>0, <1>1 DEF OpToRel
  <1>3. \A u \in q : t <= u
    BY <1>0, <1>2
  <1> QED
    BY <1>3 DEF Least

LEMMA TakeTaskInv1 ==
    ASSUME Inv1, NEW c \in Conn, TakeTask(c)
    PROVE  Inv1'
  <1>0. queue # {} => Least(queue) \in Task
    BY LeastIs DEF Inv1, TypeOK
  <1>9. reader \in [Conn -> ReaderState] /\ reader[c] \in ReaderState
    BY DEF Inv1, TypeOK
  <1> DEFINE first == reader[c].pc = "takeFirst"
             r == IF queue # {}
                    THEN [reader[c] EXCEPT !.task = {Least(queue)},
                                           !.pc = IF first THEN "sendFirst" ELSE "sendNext"]
                    ELSE [reader[c] EXCEPT !.pc = IF first THEN "read" ELSE "setIdle"]
  <1>1. reader' = [reader EXCEPT ![c] = r]
    BY <1>9 DEF TakeTask, OnEmptyQueue
  <1>2. /\ r \in ReaderState /\ r.resp = reader[c].resp
        /\ r.task = IF queue # {} THEN {Least(queue)} ELSE reader[c].task
        /\ r.pc = IF queue # {} THEN IF first THEN "sendFirst" ELSE "sendNext"
                                ELSE IF first THEN "read" ELSE "setIdle"
    BY <1>0, <1>9 DEF ReaderState
  <1> HIDE DEF r
  <1>3. /\ queue' \subseteq queue /\ reader[c].pc \in {"takeFirst", "takeNext"}
        /\ UNCHANGED <<issued, sched, workers, chan, writer, unflushed, wire,
                       replies, open, stopped, answered>>
    BY DEF TakeTask, Pop
  <1>4. TypeOK'
    BY <1>1, <1>2, <1>3 DEF Inv1, TypeOK, Registered
  <1>5. HandsOK'
    BY <1>0, <1>1, <1>2, <1>3, <1>9 DEF Inv1, HandsOK
  <1>6. NewIsEmpty' /\ EntryIsLive'
    BY <1>1, <1>2, <1>3, <1>9 DEF Inv1, NewIsEmpty, EntryIsLive, Registered
  <1>7. NamesOK'
    BY <1>1, <1>2, <1>3, <1>9 DEF Inv1, TypeOK, NamesOK, Registered, Entry
  <1> QED
    BY <1>4, <1>5, <1>6, <1>7 DEF Inv1

\* A socket that is closed loses what is on it.
LEMMA CloseKeeps ==
    ASSUME Inv1, NEW c \in Conn, Close(c) \/ UNCHANGED <<wire, open, stopped>>
    PROVE  /\ wire' \in [Conn -> Seq(Task)] /\ open' \subseteq open /\ stopped' \subseteq Worker
           /\ \A d \in Conn : wire[d] = <<>> => wire'[d] = <<>>
  <1>1. /\ wire \in [Conn -> Seq(Task)] /\ stopped \subseteq Worker /\ Owner[c] \in Worker
        /\ <<>> \in Seq(Task)
    BY PoolAssumption DEF Inv1, TypeOK
  <1>2. CASE Close(c)
    <2>1. /\ wire' = [wire EXCEPT ![c] = <<>>] /\ open' = open \ {c}
          /\ stopped' = stopped \/ stopped' = stopped \cup {Owner[c]}
      BY <1>2 DEF Close
    <2> QED
      BY <1>1, <2>1
  <1> QED
    BY <1>1, <1>2

\* The end of a reader takes what is in its hands with it.
LEMMA HangupInv1 ==
    ASSUME Inv1, NEW c \in Conn, Hangup(c), reader[c].pc # "new",
           UNCHANGED <<issued, sched, queue, chan, writer, unflushed, answered>>,
           \/ UNCHANGED workers
           \/ WorkersUnlocked /\ workers' = [workers EXCEPT ![Owner[c]] = NoEntry]
    PROVE  Inv1'
  <1>0. Owner[c] \in Worker
    BY PoolAssumption
  <1>9. Close(c) \/ UNCHANGED <<wire, open, stopped>>
    BY DEF Hangup, CloseIfLast
  <1>8. /\ wire' \in [Conn -> Seq(Task)] /\ open' \subseteq open /\ stopped' \subseteq Worker
        /\ \A d \in Conn : wire[d] = <<>> => wire'[d] = <<>>
    BY <1>9, CloseKeeps
  <1>7. /\ reader' = [reader EXCEPT ![c] = [pc |-> "dead", task |-> {}, resp |-> {}]]
        /\ replies' = [replies EXCEPT ![c] = <<>>]
    BY DEF Hangup
  <1>1. TypeOK'
    <2>1. wire' \in [Conn -> Seq(Task)] /\ replies' \in [Conn -> Seq(Task)]
      <3>1. replies \in [Conn -> Seq(Task)] /\ <<>> \in Seq(Task)
        BY DEF Inv1, TypeOK
      <3> QED
        BY <1>7, <1>8, <3>1
    <2>2. reader' \in [Conn -> ReaderState]
      BY <1>7 DEF Inv1, TypeOK, ReaderState
    <2>3. /\ workers' \in [Worker -> Entry \cup {NoEntry}]
          /\ \A p \in Scheduler :
                sched[p].pc = "send" =>
                    sched[p].to \in Worker /\ workers'[sched[p].to] # NoEntry
      BY <1>0, UnlockedNoSend DEF Inv1, TypeOK, Registered
    <2>4. open' \subseteq Conn /\ stopped' \subseteq Worker
      BY <1>7, <1>8 DEF Inv1, TypeOK
    <2> QED
      BY <2>1, <2>2, <2>3, <2>4 DEF Inv1, TypeOK, Registered
  <1>2. HandsOK'
    BY <1>7 DEF Inv1, HandsOK, TypeOK
  <1>3. NamesOK'
    <2>1. \A d \in Conn : reader[d].pc # "new" => reader'[d].pc # "new"
      BY <1>7 DEF Inv1, TypeOK
    <2>2. \A w \in Worker : Registered(w)' =>
              Registered(w) /\ workers'[w] = workers[w] /\ workers[w].conn \in Conn
      BY <1>0 DEF Inv1, TypeOK, Registered, Entry
    <2> QED
      BY <2>1, <2>2 DEF Inv1, NamesOK
  <1>4. NewIsEmpty' /\ EntryIsLive'
    BY <1>0, <1>7, <1>8 DEF Inv1, NewIsEmpty, EntryIsLive, TypeOK, Registered
  <1> QED
    BY <1>1, <1>2, <1>3, <1>4 DEF Inv1

LEMMA SendTaskInv1 ==
    ASSUME Inv1, NEW c \in Conn, SendTask(c)
    PROVE  Inv1'
  <1>1. CASE writer[c].pc = "dead"
    BY <1>1, HangupInv1 DEF SendTask
  <1>2. CASE writer[c].pc # "dead"
    <2>1. PICK t \in Task : reader[c].task = {t}
      BY DEF SendTask, Inv1, HandsOK
    <2> DEFINE m == [name |-> NameToMark(c), task |-> t]
    <2>2. m \in ServerMessage /\ m.name \in {Owner[c], NoWorker}
      BY PoolAssumption DEF ServerMessage, NameToMark
    <2>3. /\ chan' = [chan EXCEPT ![c] = Append(@, m)] /\ Len(chan[c]) < Capacity
          /\ reader' = [reader EXCEPT ![c].task = {},
                ![c].pc = IF @ = "sendFirst" THEN "read" ELSE "deliver"]
          /\ UNCHANGED <<issued, sched, workers, queue, writer, unflushed, answered,
                         wire, replies, open, stopped>>
      BY <1>2, <2>1 DEF SendTask
    <2> HIDE DEF m
    <2>4. /\ chan' \in [Conn -> Seq(ServerMessage)]
          /\ \A d \in Conn : Len(chan'[d]) <= Capacity
      BY <2>2, <2>3, PoolAssumption DEF Inv1, TypeOK
    <2> DEFINE r == [reader[c] EXCEPT !.task = {},
                        !.pc = IF @ = "sendFirst" THEN "read" ELSE "deliver"]
    <2>10. reader \in [Conn -> ReaderState] /\ reader[c] \in ReaderState
      BY DEF Inv1, TypeOK
    <2>11. reader' = [reader EXCEPT ![c] = r]
      BY <2>3, <2>10
    <2>5. /\ r \in ReaderState /\ r.task = {} /\ r.resp = reader[c].resp
          /\ r.pc = IF reader[c].pc = "sendFirst" THEN "read" ELSE "deliver"
          /\ reader[c].pc \in {"sendFirst", "sendNext"}
      BY <2>10 DEF ReaderState, SendTask
    <2> HIDE DEF r
    <2>6. TypeOK'
      <3>1. reader' \in [Conn -> ReaderState]
        BY <2>5, <2>10, <2>11
      <3> QED
        BY <2>3, <2>4, <3>1 DEF Inv1, TypeOK, Registered
    <2>7. HandsOK'
      BY <2>3, <2>5, <2>10, <2>11 DEF Inv1, HandsOK
    <2>8. ASSUME NEW d \in Conn, NEW i \in 1 .. Len(chan'[d])
          PROVE  chan'[d][i].name \in {Owner[d], NoWorker}
      <3>1. chan[d] \in Seq(ServerMessage) /\ chan \in [Conn -> Seq(ServerMessage)]
        BY DEF Inv1, TypeOK
      <3>2. CASE d = c
        BY <2>2, <2>3, <3>1, <3>2 DEF Inv1, NamesOK
      <3>3. CASE d # c
        BY <2>2, <2>3, <3>1, <3>3 DEF Inv1, NamesOK
      <3> QED
        BY <3>2, <3>3
    <2>9. NamesOK'
      BY <2>3, <2>5, <2>8, <2>10, <2>11 DEF Inv1, NamesOK, Registered, TypeOK, Entry
    <2>12. NewIsEmpty' /\ EntryIsLive'
      BY <2>3, <2>5, <2>10, <2>11 DEF Inv1, TypeOK, NewIsEmpty, EntryIsLive, Registered
    <2> QED
      BY <2>6, <2>7, <2>9, <2>12 DEF Inv1
  <1> QED
    BY <1>1, <1>2

LEMMA SetIdleInv1 ==
    ASSUME Inv1, NEW c \in Conn, SetIdle(c)
    PROVE  Inv1'
  <1>0. Owner[c] \in Worker
    BY PoolAssumption
  <1>1. CASE ~ Registered(Owner[c])
    BY <1>1, HangupInv1 DEF SetIdle
  <1>2. CASE Registered(Owner[c])
    <2> DEFINE e == [workers[Owner[c]] EXCEPT !.status = Idle]
    <2>1. workers[Owner[c]] \in Entry
      BY <1>0, <1>2 DEF Inv1, TypeOK, Registered
    <2>2. /\ reader' = [reader EXCEPT ![c].pc = "deliver"] /\ reader[c].pc = "setIdle"
          /\ UNCHANGED <<issued, sched, queue, chan, writer, unflushed, answered,
                         wire, replies, open, stopped>>
      BY <1>2 DEF SetIdle
    <2>7. /\ workers' = [workers EXCEPT ![Owner[c]] = e]
          /\ e \in Entry /\ e # NoEntry /\ e.conn = workers[Owner[c]].conn
      BY <1>2, <2>1 DEF SetIdle, Entry, NoEntry, Idle
    <2> HIDE DEF e
    <2>8. workers \in [Worker -> Entry \cup {NoEntry}]
      BY DEF Inv1, TypeOK
    <2>3. \A w \in Worker : /\ (workers'[w] # NoEntry) = (workers[w] # NoEntry)
                            /\ workers'[w].conn = workers[w].conn
      BY <1>0, <1>2, <2>7, <2>8 DEF Registered
    <2>9. /\ reader' \in [Conn -> ReaderState]
          /\ \A d \in Conn : (reader'[d].pc = "new") = (reader[d].pc = "new")
      BY <2>2 DEF Inv1, TypeOK, ReaderState
    <2>4. TypeOK'
      <3>1. workers' \in [Worker -> Entry \cup {NoEntry}]
        BY <1>0, <2>7, <2>8
      <3> QED
        BY <2>2, <2>3, <2>9, <3>1 DEF Inv1, TypeOK, Registered
    <2>5. HandsOK'
      BY <2>2 DEF Inv1, HandsOK, TypeOK, ReaderState
    <2>6. NamesOK' /\ NewIsEmpty' /\ EntryIsLive'
      <3>1. \A w \in Worker : workers[w] # NoEntry => workers[w].conn \in Conn
        BY <2>8 DEF Entry
      <3> QED
        BY <2>2, <2>3, <2>9, <3>1 DEF Inv1, NamesOK, NewIsEmpty, EntryIsLive, Registered
    <2> QED
      BY <2>4, <2>5, <2>6 DEF Inv1
  <1> QED
    BY <1>1, <1>2

LEMMA DeliverInv1 ==
    ASSUME Inv1, NEW c \in Conn, Deliver(c)
    PROVE  Inv1'
  <1>1. TypeOK'
    BY DEF Inv1, TypeOK, Deliver, ReaderState, Registered
  <1>2. HandsOK'
    BY DEF Inv1, HandsOK, TypeOK, Deliver, ReaderState
  <1>3. NamesOK' /\ NewIsEmpty' /\ EntryIsLive'
    BY DEF Inv1, NamesOK, NewIsEmpty, EntryIsLive, TypeOK, Deliver, ReaderState,
       Registered, Entry
  <1> QED
    BY <1>1, <1>2, <1>3 DEF Inv1

LEMMA ExitInv1 ==
    ASSUME Inv1, NEW c \in Conn, Exit(c)
    PROVE  Inv1'
  BY HangupInv1 DEF Exit

----------------------------------------------------------------------------
(* The writer and the worker.                                              *)

LEMMA ReceiveMessageInv1 ==
    ASSUME Inv1, NEW c \in Conn, ReceiveMessage(c)
    PROVE  Inv1'
  <1> DEFINE m == Head(chan[c])
             s == [pc |-> AfterStep("recv", m), msg |-> <<m>>]
  <1>1. /\ chan \in [Conn -> Seq(ServerMessage)] /\ chan[c] \in Seq(ServerMessage)
        /\ chan[c] # <<>> /\ writer[c].pc = "recv"
    BY DEF Inv1, TypeOK, ReceiveMessage
  <1>2. m \in ServerMessage /\ m = chan[c][1] /\ 1 \in 1 .. Len(chan[c])
    BY <1>1
  <1>3. m.name \in {Owner[c], NoWorker} /\ reader[c].pc # "new"
    BY <1>1, <1>2 DEF Inv1, NamesOK, NewIsEmpty
  <1>4. s.pc = IF m.name = NoWorker THEN "write" ELSE "mark"
    BY DEF AfterStep
  <1>5. /\ writer' = [writer EXCEPT ![c] = s] /\ chan' = [chan EXCEPT ![c] = Tail(@)]
        /\ UNCHANGED <<issued, sched, workers, queue, reader, unflushed, wire,
                       replies, open, stopped, answered>>
    BY <1>1, <1>4 DEF ReceiveMessage, WriterGoesOn
  <1>6. s \in WriterState /\ s.pc # "dead" /\ s.msg = <<m>> /\ Len(s.msg) = 1
        /\ s.msg[1] = m
    BY <1>2, <1>4 DEF WriterState
  <1>7. /\ Tail(chan[c]) \in Seq(ServerMessage) /\ Len(Tail(chan[c])) = Len(chan[c]) - 1
        /\ \A i \in 1 .. Len(Tail(chan[c])) : /\ Tail(chan[c])[i] = chan[c][i + 1]
                                               /\ i + 1 \in 1 .. Len(chan[c])
    BY <1>1
  <1> HIDE DEF m, s
  <1>8. TypeOK'
    <2>1. writer' \in [Conn -> WriterState] /\ chan' \in [Conn -> Seq(ServerMessage)]
      BY <1>5, <1>6, <1>7 DEF Inv1, TypeOK
    <2>2. ASSUME NEW d \in Conn
          PROVE  Len(chan'[d]) <= Capacity /\ Len(writer'[d].msg) <= 1
      <3>1. /\ writer \in [Conn -> WriterState] /\ Len(chan[d]) <= Capacity
            /\ Len(writer[d].msg) <= 1
        BY DEF Inv1, TypeOK
      <3>2. CASE d = c
        <4>1. Len(chan[c]) \in Nat /\ Capacity \in Nat /\ chan'[c] = Tail(chan[c])
              /\ writer'[c] = s
          BY <1>1, <1>5, <3>1, PoolAssumption
        <4>2. Len(chan[c]) <= Capacity /\ Len(chan'[c]) = Len(chan[c]) - 1
          BY <1>7, <3>1, <3>2, <4>1
        <4> DEFINE n == Len(chan[c])
        <4>3. n - 1 <= Capacity
          <5> HIDE DEF n
          <5>1. n \in Nat /\ Capacity \in Nat /\ n <= Capacity
            BY <4>1, <4>2 DEF n
          <5> QED
            BY <5>1
        <4>4. Len(chan'[c]) <= Capacity
          BY <4>2, <4>3
        <4>5. writer'[c].msg = s.msg /\ 1 <= 1
          BY <4>1
        <4>6. Len(writer'[c].msg) <= 1
          BY <1>6, <4>5
        <4> QED
          BY <3>2, <4>4, <4>6
      <3>3. CASE d # c
        BY <1>1, <1>5, <3>1, <3>3
      <3> QED
        BY <3>2, <3>3
    <2> QED
      BY <1>5, <2>1, <2>2 DEF Inv1, TypeOK, Registered
  <1>9. HandsOK'
    <2>1. \A d \in Conn : writer'[d] = IF d = c THEN s ELSE writer[d]
      BY <1>5 DEF Inv1, TypeOK
    <2>2. s.pc \in {"mark", "write"} /\ s.msg # <<>>
      BY <1>4, <1>6
    <2> QED
      BY <1>5, <2>1, <2>2 DEF Inv1, HandsOK
  <1>10. NamesOK'
    <2>1. ASSUME NEW d \in Conn
          PROVE  /\ \A i \in 1 .. Len(chan'[d]) : chan'[d][i].name \in {Owner[d], NoWorker}
                 /\ \A i \in 1 .. Len(writer'[d].msg) :
                      writer'[d].msg[i].name \in {Owner[d], NoWorker}
                 /\ writer'[d].pc = "mark" => writer'[d].msg[1].name # NoWorker
      <3>1. CASE d = c
        BY <1>1, <1>3, <1>4, <1>5, <1>6, <1>7, <3>1 DEF Inv1, TypeOK, NamesOK
      <3>2. CASE d # c
        BY <1>1, <1>5, <3>2 DEF Inv1, TypeOK, NamesOK
      <3> QED
        BY <3>1, <3>2
    <2> QED
      BY <1>5, <2>1 DEF Inv1, NamesOK, Registered
  <1>11. NewIsEmpty' /\ EntryIsLive'
    BY <1>1, <1>3, <1>5, <1>6 DEF Inv1, TypeOK, NewIsEmpty, EntryIsLive, Registered, Entry
  <1> QED
    BY <1>8, <1>9, <1>10, <1>11 DEF Inv1

\* A writer that does not take from its channel goes on with the message it
\* has, lets go of it, or ends.
LEMMA WriterMovesInv1 ==
    ASSUME Inv1, NEW c \in Conn, NEW s \in WriterState, writer[c].pc \in {"mark", "write"},
           writer' = [writer EXCEPT ![c] = s],
           \/ s.pc = "write" /\ s.msg = writer[c].msg
           \/ s.pc = "recv" /\ s.msg = <<>>,
           wire' \in [Conn -> Seq(Task)], unflushed' \in [Conn -> Seq(Task)],
           \A d \in Conn \ {c} : wire'[d] = wire[d] /\ unflushed'[d] = unflushed[d],
           workers' \in [Worker -> Entry \cup {NoEntry}],
           \A w \in Worker : /\ (workers'[w] # NoEntry) = (workers[w] # NoEntry)
                             /\ workers'[w].conn = workers[w].conn,
           UNCHANGED <<issued, sched, queue, reader, chan, replies, open,
                       stopped, answered>>
    PROVE  Inv1'
  <1>1. writer \in [Conn -> WriterState]
    BY DEF Inv1, TypeOK
  <1>2. TypeOK'
    <2>1. writer' \in [Conn -> WriterState] /\ \A d \in Conn : Len(writer'[d].msg) <= 1
      BY <1>1 DEF Inv1, TypeOK
    <2> QED
      BY <2>1 DEF Inv1, TypeOK, Registered
  <1>3. HandsOK'
    BY <1>1 DEF Inv1, HandsOK
  <1>4. \A w \in Worker : /\ Registered(w)' <=> Registered(w)
                          /\ workers'[w].conn = workers[w].conn
    BY DEF Registered
  <1>5. \A d \in Conn : /\ writer'[d].pc = "mark" => writer'[d] = writer[d]
                        /\ writer'[d].msg \in {writer[d].msg, <<>>}
                        /\ writer'[d].pc = "dead" => writer[d].pc = "dead"
    BY <1>1
  <1>6. NamesOK'
    <2>1. \A d \in Conn : \A i \in 1 .. Len(writer'[d].msg) :
              writer'[d].msg[i].name \in {Owner[d], NoWorker}
      <3> SUFFICES ASSUME NEW d \in Conn, NEW i \in 1 .. Len(writer'[d].msg)
                   PROVE  writer'[d].msg[i].name \in {Owner[d], NoWorker}
        OBVIOUS
      <3>1. writer'[d].msg = writer[d].msg
        BY <1>5
      <3> QED
        BY <3>1 DEF Inv1, NamesOK
    <2>2. \A d \in Conn : writer'[d].pc = "mark" => writer'[d].msg[1].name # NoWorker
      BY <1>5 DEF Inv1, NamesOK
    <2>3. \A w \in Worker : Registered(w)' =>
              Owner[workers'[w].conn] = w /\ reader[workers'[w].conn].pc # "new"
      BY <1>4 DEF Inv1, NamesOK
    <2> QED
      BY <2>1, <2>2, <2>3 DEF Inv1, NamesOK
  <1>7. NewIsEmpty' /\ EntryIsLive'
    <2>1. EntryIsLive'
      <3>1. \A w \in Worker : Registered(w) => workers[w].conn \in Conn
        BY DEF Inv1, TypeOK, Registered, Entry
      <3> QED
        BY <1>4, <1>5, <3>1 DEF Inv1, EntryIsLive
    <2>2. \A d \in Conn : reader[d].pc = "new" => d # c
      BY DEF Inv1, NewIsEmpty
    <2> QED
      BY <1>1, <2>1, <2>2 DEF Inv1, NewIsEmpty
  <1> QED
    BY <1>2, <1>3, <1>6, <1>7 DEF Inv1

\* The end of a writer: nobody's entry has its connection.
LEMMA WriterEndsInv1 ==
    ASSUME Inv1, NEW c \in Conn, \A w \in Worker : workers[w].conn # c,
           reader[c].pc # "new",
           writer' = [writer EXCEPT ![c] = [pc |-> "dead", msg |-> <<>>]],
           chan' = [chan EXCEPT ![c] = <<>>],
           unflushed' = [unflushed EXCEPT ![c] = <<>>],
           Close(c) \/ UNCHANGED <<wire, open, stopped>>,
           UNCHANGED <<issued, sched, workers, queue, reader, replies, answered>>
    PROVE  Inv1'
  <1>0. /\ wire' \in [Conn -> Seq(Task)] /\ open' \subseteq open /\ stopped' \subseteq Worker
        /\ \A d \in Conn : wire[d] = <<>> => wire'[d] = <<>>
    BY CloseKeeps
  <1>1. TypeOK'
    <2>1. [pc |-> "dead", msg |-> <<>>] \in WriterState
      BY DEF WriterState
    <2>2. writer' \in [Conn -> WriterState] /\ \A d \in Conn : Len(writer'[d].msg) <= 1
      BY <2>1 DEF Inv1, TypeOK
    <2>3. /\ chan' \in [Conn -> Seq(ServerMessage)] /\ \A d \in Conn : Len(chan'[d]) <= Capacity
          /\ unflushed' \in [Conn -> Seq(Task)]
      BY PoolAssumption DEF Inv1, TypeOK
    <2> QED
      BY <1>0, <2>2, <2>3 DEF Inv1, TypeOK, Registered
  <1>2. HandsOK'
    BY DEF Inv1, HandsOK, TypeOK
  <1>3. NamesOK'
    BY DEF Inv1, NamesOK, TypeOK, Registered
  <1>4. NewIsEmpty' /\ EntryIsLive'
    BY <1>0 DEF Inv1, NewIsEmpty, EntryIsLive, TypeOK, Registered
  <1> QED
    BY <1>1, <1>2, <1>3, <1>4 DEF Inv1

\* The message in the writer's hand.
LEMMA MessageInHand ==
    ASSUME Inv1, NEW c \in Conn, writer[c].pc \in {"mark", "write"}
    PROVE  /\ writer[c].msg[1] \in ServerMessage
           /\ writer[c].msg = <<writer[c].msg[1]>>
           /\ writer[c].msg[1].name \in {Owner[c], NoWorker}
           /\ writer[c].pc = "mark" => writer[c].msg[1].name = Owner[c]
           /\ reader[c].pc # "new"
  <1>1. writer[c].msg \in Seq(ServerMessage) /\ writer[c].msg # <<>> /\ Len(writer[c].msg) <= 1
    BY DEF Inv1, TypeOK, HandsOK, WriterState
  <1>2. Len(writer[c].msg) = 1 /\ 1 \in 1 .. Len(writer[c].msg)
    <2> DEFINE n == Len(writer[c].msg)
    <2>1. n \in Nat /\ n # 0 /\ n <= 1
      BY <1>1, EmptySeq
    <2>2. n = 1
      <3> HIDE DEF n
      <3> QED
        BY <2>1
    <2> QED
      BY <2>2
  <1>3. writer[c].msg[1] \in ServerMessage /\ writer[c].msg = <<writer[c].msg[1]>>
    BY <1>1, <1>2
  <1> QED
    BY <1>2, <1>3 DEF Inv1, NamesOK, NewIsEmpty

LEMMA MarkBusyInv1 ==
    ASSUME Inv1, NEW c \in Conn, MarkBusy(c)
    PROVE  Inv1'
  <1>0. /\ writer[c].pc = "mark" /\ Owner[c] \in Worker
        /\ writer[c].msg = <<writer[c].msg[1]>> /\ writer[c].msg[1] \in ServerMessage
        /\ writer[c].msg[1].name = Owner[c] /\ reader[c].pc # "new"
    BY MessageInHand, PoolAssumption DEF MarkBusy
  <1>1. CASE ~ Registered(Owner[c])
    <2>1. \A w \in Worker : workers[w].conn # c
      BY <1>0, <1>1, PoolAssumption DEF Inv1, NamesOK, Registered, NoEntry
    <2> QED
      BY <1>0, <1>1, <2>1, WriterEndsInv1 DEF MarkBusy, CloseIfLast
  <1>2. CASE Registered(Owner[c])
    <2> DEFINE e == [workers[Owner[c]] EXCEPT !.status = Busy]
               s == [pc |-> "write", msg |-> writer[c].msg]
    <2>1. workers[Owner[c]] \in Entry
      BY <1>0, <1>2 DEF Inv1, TypeOK, Registered
    <2>2. /\ workers' = [workers EXCEPT ![Owner[c]] = e]
          /\ e \in Entry /\ e # NoEntry /\ e.conn = workers[Owner[c]].conn
      BY <1>0, <1>2, <2>1 DEF MarkBusy, Entry, NoEntry, Busy
    <2>3. writer' = [writer EXCEPT ![c] = s]
      BY <1>0, <1>2 DEF MarkBusy, WriterGoesOn, AfterStep
    <2>4. s \in WriterState /\ s.pc = "write" /\ s.msg = writer[c].msg
      BY DEF Inv1, TypeOK, WriterState
    <2>5. UNCHANGED <<issued, sched, queue, reader, chan, replies, open, wire,
                      unflushed, stopped, answered>>
      BY <1>0, <1>2 DEF MarkBusy
    <2> HIDE DEF e, s
    <2>6. workers \in [Worker -> Entry \cup {NoEntry}]
      BY DEF Inv1, TypeOK
    <2>7. /\ workers' \in [Worker -> Entry \cup {NoEntry}]
          /\ \A w \in Worker : /\ (workers'[w] # NoEntry) = (workers[w] # NoEntry)
                                /\ workers'[w].conn = workers[w].conn
      BY <1>0, <1>2, <2>2, <2>6 DEF Registered
    <2>8. wire' \in [Conn -> Seq(Task)] /\ unflushed' \in [Conn -> Seq(Task)]
      BY <2>5 DEF Inv1, TypeOK
    <2> QED
      BY <1>0, <2>3, <2>4, <2>5, <2>7, <2>8, WriterMovesInv1
  <1> QED
    BY <1>1, <1>2

LEMMA WriteRequestInv1 ==
    ASSUME Inv1, NEW c \in Conn, WriteRequest(c)
    PROVE  Inv1'
  <1> DEFINE t == writer[c].msg[1].task
  <1>0. /\ writer[c].pc = "write" /\ t \in Task /\ writer[c].msg[1] \in ServerMessage
    BY MessageInHand DEF WriteRequest, ServerMessage
  <1>1. writer' = [writer EXCEPT ![c] = [pc |-> "recv", msg |-> <<>>]]
    BY <1>0 DEF WriteRequest, WriterGoesOn, AfterStep, AfterTimeout
  <1>2. [pc |-> "recv", msg |-> <<>>] \in WriterState
    BY DEF WriterState
  <1>3. /\ wire \in [Conn -> Seq(Task)] /\ unflushed \in [Conn -> Seq(Task)]
        /\ workers \in [Worker -> Entry \cup {NoEntry}]
    BY DEF Inv1, TypeOK
  <1>4. /\ wire' \in [Conn -> Seq(Task)] /\ unflushed' \in [Conn -> Seq(Task)]
        /\ \A d \in Conn \ {c} : wire'[d] = wire[d] /\ unflushed'[d] = unflushed[d]
    <2> HIDE DEF t
    <2>1. CASE wire' = [wire EXCEPT ![c] = Append(@, t)] /\ unflushed' = unflushed
      BY <1>0, <1>3, <2>1
    <2>2. CASE wire' = wire /\ unflushed' = [unflushed EXCEPT ![c] = Append(@, t)]
      BY <1>0, <1>3, <2>2
    <2>3. CASE wire' = wire /\ unflushed' = unflushed
      BY <1>3, <2>3
    <2> QED
      BY <2>1, <2>2, <2>3 DEF WriteRequest, t
  <1>5. UNCHANGED <<issued, sched, workers, queue, reader, chan, replies,
                    open, stopped, answered>>
    BY DEF WriteRequest
  <1> QED
    BY <1>0, <1>1, <1>2, <1>3, <1>4, <1>5, WriterMovesInv1

LEMMA FlushOlderInv1 ==
    ASSUME Inv1, NEW c \in Conn, FlushOlder(c)
    PROVE  Inv1'
  <1>1. /\ wire \in [Conn -> Seq(Task)] /\ unflushed \in [Conn -> Seq(Task)]
        /\ unflushed[c] # <<>>
    BY DEF Inv1, TypeOK, FlushOlder
  <1>2. Head(unflushed[c]) \in Task /\ Tail(unflushed[c]) \in Seq(Task)
    BY <1>1
  <1>3. wire' \in [Conn -> Seq(Task)] /\ unflushed' \in [Conn -> Seq(Task)]
    BY <1>1, <1>2 DEF FlushOlder
  <1>4. TypeOK'
    BY <1>3 DEF Inv1, TypeOK, FlushOlder, Registered
  <1>5. NewIsEmpty'
    BY DEF Inv1, TypeOK, NewIsEmpty, FlushOlder
  <1> QED
    BY <1>4, <1>5 DEF Inv1, HandsOK, NamesOK, EntryIsLive, Registered, FlushOlder

LEMMA WriterExitInv1 ==
    ASSUME Inv1, NEW c \in Conn, WriterExit(c)
    PROVE  Inv1'
  <1>1. writer[c] \in WriterState /\ writer[c].msg = <<>> /\ writer[c].pc = "recv"
    BY DEF Inv1, TypeOK, HandsOK, WriterExit
  <1>2. writer' = [writer EXCEPT ![c] = [pc |-> "dead", msg |-> <<>>]]
    <2>1. [writer[c] EXCEPT !.pc = "dead"] = [pc |-> "dead", msg |-> <<>>]
      BY <1>1 DEF WriterState
    <2> QED
      BY <2>1 DEF WriterExit, Inv1, TypeOK
  <1>3. chan' = [chan EXCEPT ![c] = <<>>]
    BY DEF WriterExit, Inv1, TypeOK
  <1> QED
    BY <1>2, <1>3, WriterEndsInv1 DEF WriterExit

LEMMA DecryptInv1 ==
    ASSUME Inv1, NEW c \in Conn, Decrypt(c)
    PROVE  Inv1'
  <1>1. Head(wire[c]) \in Task /\ Tail(wire[c]) \in Seq(Task)
    BY DEF Inv1, TypeOK, Decrypt
  <1>2. wire' \in [Conn -> Seq(Task)] /\ replies' \in [Conn -> Seq(Task)]
    BY <1>1 DEF Inv1, TypeOK, Decrypt
  <1>3. TypeOK'
    BY <1>2 DEF Inv1, TypeOK, Decrypt, Registered
  <1>4. NewIsEmpty'
    BY DEF Inv1, TypeOK, NewIsEmpty, Decrypt
  <1> QED
    BY <1>3, <1>4 DEF Inv1, HandsOK, NamesOK, EntryIsLive, Registered, Decrypt

LEMMA ProcessInv1 ==
    ASSUME Inv1, \/ \E c \in Conn : Break(c)
                 \/ \E w \in Worker : Restart(w)
    PROVE  Inv1'
  <1>1. ASSUME NEW c \in Conn, Break(c) PROVE Inv1'
    <2>1. wire' \in [Conn -> Seq(Task)] /\ stopped' \subseteq Worker /\ open' \subseteq open
      BY <1>1, CloseKeeps DEF Break
    <2>2. TypeOK'
      BY <1>1, <2>1 DEF Inv1, TypeOK, Break, Registered
    <2>3. NewIsEmpty'
      BY <1>1 DEF Inv1, TypeOK, NewIsEmpty, Break, Close
    <2> QED
      BY <1>1, <2>2, <2>3 DEF Inv1, HandsOK, NamesOK, EntryIsLive, Registered, Break
  <1>2. ASSUME NEW w \in Worker, Restart(w) PROVE Inv1'
    BY <1>2 DEF Inv1, TypeOK, HandsOK, NamesOK, NewIsEmpty, EntryIsLive, Registered, Restart
  <1> QED
    BY <1>1, <1>2

LEMMA NextInv1 == Inv1 /\ [Next]_vars => Inv1'
  <1> SUFFICES ASSUME Inv1, [Next]_vars PROVE Inv1'
    OBVIOUS
  <1>1. CASE UNCHANGED vars
    BY <1>1 DEF vars, Inv1, TypeOK, HandsOK, NamesOK, NewIsEmpty, EntryIsLive, Registered
  <1>2. ASSUME NEW p \in Scheduler, SchedulerStep(p) PROVE Inv1'
    BY <1>2, LookInv1, SendToWorkerInv1, PushToQueueInv1 DEF SchedulerStep
  <1>3. ASSUME NEW c \in Conn, ReaderStep(c) \/ Register(c) \/ Exit(c) PROVE Inv1'
    BY <1>3, ReadResponseInv1, TakeTaskInv1, SendTaskInv1, SetIdleInv1, DeliverInv1,
       RegisterInv1, ExitInv1
    DEF ReaderStep
  <1>4. ASSUME NEW c \in Conn, WriterStep(c) \/ Decrypt(c) PROVE Inv1'
    BY <1>4, ReceiveMessageInv1, MarkBusyInv1, FlushOlderInv1, WriteRequestInv1,
       WriterExitInv1, DecryptInv1
    DEF WriterStep
  <1> QED
    BY <1>1, <1>2, <1>3, <1>4, IssueInv1, ProcessInv1 DEF Next

----------------------------------------------------------------------------
(* Without faults no task of a connection ends.                            *)

LEMMA InitAllUp == Init => AllUp
  BY DEF Init, AllUp

LEMMA KeepsUp ==
    ASSUME AllUp,
           Faultless => \A c \in Conn : /\ reader'[c].pc # "dead" /\ writer'[c].pc # "dead"
                                        /\ reader'[c].pc = "new" <=> reader[c].pc = "new"
                                        /\ unflushed'[c] = <<>>,
           Faultless => open' = open,
           Faultless => \A c \in Conn : workers'[Owner[c]].conn = workers[Owner[c]].conn
    PROVE  AllUp'
  BY DEF AllUp, Faultless

\* Every opened connection is that of its worker's entry.
LEMMA UpIsRegistered ==
    ASSUME Inv1, AllUp, Faultless, NEW c \in Conn, reader[c].pc # "new"
    PROVE  Registered(Owner[c]) /\ writer[c].pc # "dead"
  <1>1. workers[Owner[c]].conn = c /\ writer[c].pc # "dead"
    BY DEF AllUp
  <1> QED
    BY <1>1, PoolAssumption DEF Registered, NoEntry

LEMMA SchedulerAllUp ==
    ASSUME Inv1, AllUp, NEW p \in Scheduler, SchedulerStep(p) \/ \E t \in Task : Issue(p, t)
    PROVE  AllUp'
  <1>1. UNCHANGED <<reader, writer, unflushed, open, workers>>
    BY DEF SchedulerStep, Issue, Look, SendToWorker, PushToQueue
  <1> QED
    BY <1>1 DEF AllUp, Faultless

LEMMA RegisterAllUp ==
    ASSUME Inv1, AllUp, NEW c \in Conn, Register(c)
    PROVE  AllUp'
  <1>1. Owner \in [Conn -> Worker] /\ workers \in [Worker -> Entry \cup {NoEntry}]
    BY PoolAssumption DEF Inv1, TypeOK
  <1>2. /\ workers' = [workers EXCEPT ![Owner[c]] = [conn |-> c, status |-> Idle]]
        /\ open' = open \cup {c} /\ \A d \in open : Owner[d] # Owner[c]
        /\ \A d \in Conn \ {c} : reader'[d].pc = reader[d].pc
        /\ reader'[c].pc = "takeFirst" /\ UNCHANGED <<writer, unflushed>>
    BY DEF Register, Connected, Inv1, TypeOK, ReaderState
  <1> SUFFICES ASSUME Faultless PROVE AllUp'
    BY DEF AllUp, Faultless
  <1>3. ASSUME NEW d \in Conn, d # c, reader[d].pc # "new"
        PROVE  workers'[Owner[d]].conn = d
    <2>1. d \in open /\ workers[Owner[d]].conn = d
      BY <1>3 DEF AllUp
    <2> QED
      BY <1>1, <1>2, <2>1
  <1>4. workers'[Owner[c]].conn = c
    BY <1>1, <1>2
  <1> QED
    BY <1>2, <1>3, <1>4 DEF AllUp

LEMMA ReaderAllUp ==
    ASSUME Inv1, AllUp, NEW c \in Conn, ReaderStep(c) \/ Exit(c)
    PROVE  AllUp'
  <1>1. /\ reader \in [Conn -> ReaderState] /\ workers \in [Worker -> Entry \cup {NoEntry}]
        /\ Owner \in [Conn -> Worker]
    BY PoolAssumption DEF Inv1, TypeOK
  <1>2. UNCHANGED <<writer, unflushed>>
    BY DEF ReaderStep, Exit, ReadResponse, TakeTask, SendTask, SetIdle, Deliver
  <1>3. ASSUME Faultless PROVE ~ Exit(c) /\ reader[c].pc # "new"
    BY <1>3 DEF Faultless, Exit, ReaderStep, ReadResponse, TakeTask, SendTask, SetIdle,
       Deliver
  <1>4. ASSUME Faultless
        PROVE  /\ \A d \in Conn \ {c} : reader'[d].pc = reader[d].pc
               /\ reader'[c].pc \notin {"dead", "new"} /\ open' = open
    <2>1. Registered(Owner[c]) /\ writer[c].pc # "dead"
      BY <1>3, <1>4, UpIsRegistered
    <2>2. CASE ReadResponse(c) \/ Deliver(c)
      BY <1>1, <2>2 DEF ReadResponse, Deliver, ReaderState
    <2>3. CASE TakeTask(c)
      BY <1>1, <2>3 DEF TakeTask, OnEmptyQueue, ReaderState
    <2>4. CASE SendTask(c)
      BY <1>1, <2>1, <2>4 DEF SendTask, ReaderState
    <2>5. CASE SetIdle(c)
      BY <1>1, <2>1, <2>5 DEF SetIdle, ReaderState
    <2> QED
      BY <1>3, <1>4, <2>2, <2>3, <2>4, <2>5 DEF ReaderStep
  <1>5. ASSUME Faultless, NEW d \in Conn
        PROVE  workers'[Owner[d]].conn = workers[Owner[d]].conn
    <2>1. CASE SetIdle(c)
      <3>1. workers' = [workers EXCEPT ![Owner[c]].status = Idle] \/ workers' = workers
        BY <2>1 DEF SetIdle
      <3> QED
        BY <1>1, <3>1 DEF Entry, NoEntry
    <2>2. CASE ~ SetIdle(c)
      BY <1>3, <1>5, <2>2 DEF ReaderStep, ReadResponse, TakeTask, SendTask, Deliver
    <2> QED
      BY <2>1, <2>2
  <1> QED
    BY <1>2, <1>4, <1>5, <1>3, KeepsUp DEF AllUp

LEMMA WriterAllUp ==
    ASSUME Inv1, AllUp, NEW c \in Conn, WriterStep(c)
    PROVE  AllUp'
  <1>1. /\ writer \in [Conn -> WriterState] /\ workers \in [Worker -> Entry \cup {NoEntry}]
        /\ Owner \in [Conn -> Worker] /\ unflushed \in [Conn -> Seq(Task)]
    BY PoolAssumption DEF Inv1, TypeOK
  <1>2. UNCHANGED reader
    BY DEF WriterStep, ReceiveMessage, MarkBusy, FlushOlder, WriteRequest, WriterExit
  <1>3. ASSUME Faultless
        PROVE  /\ \A d \in Conn \ {c} : writer'[d] = writer[d]
               /\ writer'[c].pc # "dead" /\ \A d \in Conn : unflushed'[d] = <<>>
               /\ open' = open
    <2>0. reader[c].pc # "dead" /\ \A d \in Conn : unflushed[d] = <<>>
      BY <1>3 DEF AllUp
    <2>1. CASE ReceiveMessage(c)
      BY <1>1, <2>0, <2>1 DEF ReceiveMessage, WriterGoesOn, AfterStep
    <2>2. CASE MarkBusy(c)
      <3>1. writer[c].msg[1].name = Owner[c] /\ Registered(Owner[c])
        BY <1>3, <2>2, MessageInHand, UpIsRegistered DEF MarkBusy
      <3> QED
        BY <1>1, <2>0, <2>2, <3>1 DEF MarkBusy, WriterGoesOn, AfterStep
    <2>3. CASE WriteRequest(c)
      <3>1. ~ SendMayTimeOut /\ writer[c].pc = "write"
        BY <1>3, <2>3 DEF Faultless, WriteRequest
      <3>2. writer' = [writer EXCEPT ![c] = [pc |-> "recv", msg |-> <<>>]]
        BY <2>3, <3>1 DEF WriteRequest, WriterGoesOn, AfterStep
      <3>3. unflushed' = unflushed /\ open' = open
        BY <2>3, <3>1 DEF WriteRequest
      <3> QED
        BY <1>1, <2>0, <3>2, <3>3
    <2>4. ~ WriterExit(c) /\ ~ FlushOlder(c)
      BY <2>0 DEF WriterExit, FlushOlder
    <2> QED
      BY <2>1, <2>2, <2>3, <2>4 DEF WriterStep
  <1>4. ASSUME Faultless, NEW d \in Conn
        PROVE  workers'[Owner[d]].conn = workers[Owner[d]].conn
    <2>1. CASE MarkBusy(c)
      <3>1. \/ workers' = workers
            \/ \E w \in Worker : workers' = [workers EXCEPT ![w].status = Busy]
        BY <1>1, <2>1, MessageInHand DEF MarkBusy
      <3>2. \A e \in Entry \cup {NoEntry} : [e EXCEPT !.status = Busy].conn = e.conn
        BY DEF Entry, NoEntry
      <3>3. ASSUME NEW w \in Worker, workers' = [workers EXCEPT ![w].status = Busy]
            PROVE  workers'[Owner[d]].conn = workers[Owner[d]].conn
        <4>1. /\ workers[w] \in Entry \cup {NoEntry}
              /\ workers' = [workers EXCEPT ![w] = [workers[w] EXCEPT !.status = Busy]]
          BY <1>1, <3>3
        <4> QED
          BY <1>1, <3>2, <4>1
      <3> QED
        BY <3>1, <3>3
    <2>2. CASE ~ MarkBusy(c)
      BY <2>2 DEF WriterStep, ReceiveMessage, FlushOlder, WriteRequest, WriterExit
    <2> QED
      BY <2>1, <2>2
  <1> QED
    BY <1>2, <1>3, <1>4, KeepsUp DEF AllUp

LEMMA NextAllUp == Inv1 /\ AllUp /\ [Next]_vars => AllUp'
  <1> SUFFICES ASSUME Inv1, AllUp, [Next]_vars PROVE AllUp'
    OBVIOUS
  <1>1. CASE UNCHANGED vars
    BY <1>1 DEF vars, AllUp, Faultless
  <1>2. ASSUME NEW c \in Conn, Decrypt(c) \/ Break(c) PROVE AllUp'
    BY <1>2 DEF Decrypt, Break, AllUp, Faultless
  <1>3. ASSUME NEW w \in Worker, Restart(w) PROVE AllUp'
    BY <1>3 DEF Restart, AllUp, Faultless
  <1> QED
    BY <1>1, <1>2, <1>3, SchedulerAllUp, RegisterAllUp, ReaderAllUp, WriterAllUp DEF Next

----------------------------------------------------------------------------
(* What a sequence holds.                                                  *)

LEMMA AppendHolds ==
    ASSUME NEW S, NEW s \in Seq(S), NEW x \in S
    PROVE  /\ Elements(Append(s, x)) = Elements(s) \cup {x}
           /\ NoRepeat(s) /\ x \notin Elements(s) => NoRepeat(Append(s, x))
  <1>1. /\ Len(s) \in Nat /\ Len(Append(s, x)) = Len(s) + 1
        /\ \A i \in 1 .. Len(s) : Append(s, x)[i] = s[i]
        /\ Append(s, x)[Len(s) + 1] = x
    BY AppendProperties
  <1>2. \A i : i \in 1 .. Len(s) + 1 <=> i \in 1 .. Len(s) \/ i = Len(s) + 1
    BY <1>1
  <1> QED
    BY <1>1, <1>2 DEF Elements, NoRepeat

LEMMA AppendIsLonger ==
    ASSUME NEW S, NEW s \in Seq(S), NEW x \in S
    PROVE  Append(s, x) # <<>>
  <1>1. Len(Append(s, x)) = Len(s) + 1 /\ Len(s) \in Nat
    BY AppendProperties
  <1>2. Len(<<>>) = 0
    OBVIOUS
  <1> QED
    BY <1>1, <1>2

LEMMA TailHolds ==
    ASSUME NEW S, NEW s \in Seq(S), s # <<>>
    PROVE  /\ Head(s) \in S /\ Head(s) \in Elements(s) /\ Tail(s) \in Seq(S)
           /\ Elements(s) = Elements(Tail(s)) \cup {Head(s)}
           /\ NoRepeat(s) => /\ NoRepeat(Tail(s))
                             /\ Elements(Tail(s)) = Elements(s) \ {Head(s)}
  <1>1. /\ Tail(s) \in Seq(S) /\ Len(s) \in Nat \ {0} /\ Len(Tail(s)) = Len(s) - 1
        /\ \A i \in 1 .. Len(s) - 1 : Tail(s)[i] = s[i + 1]
        /\ Head(s) = s[1] /\ Head(s) \in S
    BY HeadTailProperties, EmptySeq, LenProperties
  <1>2. /\ \A i \in 1 .. Len(s) : i = 1 \/ i - 1 \in 1 .. Len(s) - 1
        /\ \A i \in 1 .. Len(s) - 1 : i + 1 \in 1 .. Len(s) /\ i + 1 # 1
        /\ \A i \in 1 .. Len(s) : (i - 1) + 1 = i
        /\ 1 \in 1 .. Len(s)
    BY <1>1
  <1>3. \A i \in 1 .. Len(s) : i # 1 => Tail(s)[i - 1] = s[i]
    BY <1>1, <1>2
  <1>4. Elements(s) = Elements(Tail(s)) \cup {Head(s)}
    <2>1. ASSUME NEW i \in 1 .. Len(s)
          PROVE  s[i] = Head(s) \/ s[i] \in Elements(Tail(s))
      BY <1>1, <1>2, <1>3 DEF Elements
    <2>2. ASSUME NEW i \in 1 .. Len(Tail(s))
          PROVE  Tail(s)[i] \in Elements(s)
      BY <1>1, <1>2 DEF Elements
    <2>3. Head(s) \in Elements(s)
      BY <1>1, <1>2 DEF Elements
    <2>4. Elements(s) \subseteq Elements(Tail(s)) \cup {Head(s)}
      BY <2>1 DEF Elements
    <2>5. Elements(Tail(s)) \subseteq Elements(s)
      BY <2>2 DEF Elements
    <2> QED
      BY <2>3, <2>4, <2>5
  <1>5. NoRepeat(s) => NoRepeat(Tail(s)) /\ Head(s) \notin Elements(Tail(s))
    <2> SUFFICES ASSUME NoRepeat(s) PROVE NoRepeat(Tail(s)) /\ Head(s) \notin Elements(Tail(s))
      OBVIOUS
    <2>1. Head(s) \notin Elements(Tail(s))
      BY <1>1, <1>2 DEF NoRepeat, Elements
    <2>2. ASSUME NEW i \in 1 .. Len(Tail(s)), NEW j \in 1 .. Len(Tail(s)),
                 Tail(s)[i] = Tail(s)[j]
          PROVE  i = j
      <3>1. i + 1 = j + 1
        BY <1>1, <1>2, <2>2 DEF NoRepeat
      <3> QED
        BY <1>1, <3>1
    <2> QED
      BY <2>1, <2>2 DEF NoRepeat
  <1> QED
    BY <1>1, <1>2, <1>4, <1>5 DEF Elements

\* The same for the tasks of messages.
TaskSeq(s) == [i \in 1 .. Len(s) |-> s[i].task]

LEMMA TaskSeqIs ==
    ASSUME NEW s \in Seq(ServerMessage)
    PROVE  /\ TaskSeq(s) \in Seq(Task)
           /\ TasksOf(s) = Elements(TaskSeq(s)) /\ NoRepeatTask(s) = NoRepeat(TaskSeq(s))
           /\ \A m \in ServerMessage : TaskSeq(Append(s, m)) = Append(TaskSeq(s), m.task)
           /\ s # <<>> => /\ TaskSeq(s) # <<>> /\ TaskSeq(Tail(s)) = Tail(TaskSeq(s))
                          /\ Head(TaskSeq(s)) = Head(s).task
  <1>0. Len(s) \in Nat /\ \A i \in 1 .. Len(s) : s[i] \in ServerMessage
    BY LenProperties, ElementOfSeq
  <1>1. ASSUME NEW u \in Seq(ServerMessage)
        PROVE  /\ TaskSeq(u) \in Seq(Task) /\ Len(TaskSeq(u)) = Len(u) /\ Len(u) \in Nat
               /\ \A i \in 1 .. Len(u) : TaskSeq(u)[i] = u[i].task
    <2>1. Len(u) \in Nat
      BY LenProperties
    <2>2. ASSUME NEW i \in 1 .. Len(u) PROVE u[i].task \in Task
      <3>1. u[i] \in ServerMessage
        BY ElementOfSeq
      <3> QED
        BY <3>1 DEF ServerMessage
    <2> QED
      BY <2>1, <2>2 DEF TaskSeq
  <1>2. TasksOf(s) = Elements(TaskSeq(s)) /\ NoRepeatTask(s) = NoRepeat(TaskSeq(s))
    BY <1>1 DEF TasksOf, Elements, NoRepeat, NoRepeatTask
  <1>3. ASSUME NEW m \in ServerMessage
        PROVE  TaskSeq(Append(s, m)) = Append(TaskSeq(s), m.task)
    <2>1. /\ Append(s, m) \in Seq(ServerMessage) /\ Len(Append(s, m)) = Len(s) + 1
          /\ \A i \in 1 .. Len(s) : Append(s, m)[i] = s[i]
          /\ Append(s, m)[Len(s) + 1] = m /\ m.task \in Task
      BY AppendProperties DEF ServerMessage
    <2> DEFINE v == TaskSeq(Append(s, m))
               w == Append(TaskSeq(s), m.task)
    <2>2. /\ v \in Seq(Task) /\ Len(v) = Len(s) + 1
          /\ \A i \in 1 .. Len(s) + 1 : v[i] = Append(s, m)[i].task
      BY <1>1, <2>1
    <2>3. /\ w \in Seq(Task) /\ Len(w) = Len(s) + 1
          /\ \A i \in 1 .. Len(s) : w[i] = s[i].task
          /\ w[Len(s) + 1] = m.task
      BY <1>1, <2>1, AppendProperties
    <2>4. \A i \in 1 .. Len(s) + 1 : i \in 1 .. Len(s) \/ i = Len(s) + 1
      BY <1>1
    <2>5. \A i \in 1 .. Len(v) : v[i] = w[i]
      BY <2>1, <2>2, <2>3, <2>4
    <2> QED
      BY <2>2, <2>3, <2>5, SeqEqual
  <1>4. ASSUME s # <<>>
        PROVE  /\ TaskSeq(s) # <<>> /\ TaskSeq(Tail(s)) = Tail(TaskSeq(s))
               /\ Head(TaskSeq(s)) = Head(s).task
    <2>1. Len(s) \in Nat \ {0} /\ Len(TaskSeq(s)) = Len(s) /\ TaskSeq(s) # <<>>
      BY <1>1, <1>4, EmptySeq
    <2>2. /\ Tail(s) \in Seq(ServerMessage) /\ Len(Tail(s)) = Len(s) - 1
          /\ \A i \in 1 .. Len(s) - 1 : Tail(s)[i] = s[i + 1]
          /\ Head(s) = s[1]
      BY <1>4, <2>1, HeadTailProperties
    <2> DEFINE v == TaskSeq(Tail(s))
               w == Tail(TaskSeq(s))
    <2>3. /\ v \in Seq(Task) /\ Len(v) = Len(s) - 1
          /\ \A i \in 1 .. Len(s) - 1 : v[i] = s[i + 1].task
      <3>1. /\ v \in Seq(Task) /\ Len(v) = Len(Tail(s))
            /\ \A i \in 1 .. Len(Tail(s)) : v[i] = Tail(s)[i].task
        BY <1>1, <2>2
      <3> QED
        BY <2>2, <3>1
    <2>4. /\ w \in Seq(Task) /\ Len(w) = Len(s) - 1
          /\ \A i \in 1 .. Len(s) - 1 : w[i] = TaskSeq(s)[i + 1]
          /\ Head(TaskSeq(s)) = TaskSeq(s)[1]
      BY <1>1, <2>1, HeadTailProperties
    <2>5. \A i \in 1 .. Len(s) - 1 : i + 1 \in 1 .. Len(s)
      BY <2>1
    <2>6. \A i \in 1 .. Len(v) : v[i] = w[i]
      BY <1>1, <2>3, <2>4, <2>5
    <2>7. v = w
      BY <2>3, <2>4, <2>6, SeqEqual
    <2>8. 1 \in 1 .. Len(s)
      BY <2>1
    <2> QED
      BY <1>1, <2>1, <2>2, <2>4, <2>7, <2>8
  <1> QED
    BY <1>1, <1>2, <1>3, <1>4

LEMMA MessageAppend ==
    ASSUME NEW s \in Seq(ServerMessage), NEW m \in ServerMessage
    PROVE  /\ TasksOf(Append(s, m)) = TasksOf(s) \cup {m.task}
           /\ NoRepeatTask(s) /\ m.task \notin TasksOf(s) => NoRepeatTask(Append(s, m))
  <1>1. m.task \in Task /\ Append(s, m) \in Seq(ServerMessage)
    BY AppendProperties DEF ServerMessage
  <1>2. /\ TaskSeq(s) \in Seq(Task) /\ TaskSeq(Append(s, m)) = Append(TaskSeq(s), m.task)
        /\ TasksOf(s) = Elements(TaskSeq(s)) /\ NoRepeatTask(s) = NoRepeat(TaskSeq(s))
    BY TaskSeqIs
  <1>3. /\ TasksOf(Append(s, m)) = Elements(TaskSeq(Append(s, m)))
        /\ NoRepeatTask(Append(s, m)) = NoRepeat(TaskSeq(Append(s, m)))
    BY <1>1, TaskSeqIs
  <1>4. /\ Elements(Append(TaskSeq(s), m.task)) = Elements(TaskSeq(s)) \cup {m.task}
        /\ NoRepeat(TaskSeq(s)) /\ m.task \notin Elements(TaskSeq(s))
              => NoRepeat(Append(TaskSeq(s), m.task))
    BY <1>1, <1>2, AppendHolds
  <1> QED
    BY <1>2, <1>3, <1>4

LEMMA MessageTail ==
    ASSUME NEW s \in Seq(ServerMessage), s # <<>>
    PROVE  /\ Head(s).task \in TasksOf(s) /\ Head(s) \in ServerMessage
           /\ NoRepeatTask(s) => /\ NoRepeatTask(Tail(s))
                                 /\ TasksOf(Tail(s)) = TasksOf(s) \ {Head(s).task}
  <1>1. Tail(s) \in Seq(ServerMessage) /\ Head(s) \in ServerMessage
    BY HeadTailProperties
  <1>2. /\ TaskSeq(s) \in Seq(Task) /\ TaskSeq(s) # <<>>
        /\ TaskSeq(Tail(s)) = Tail(TaskSeq(s)) /\ Head(TaskSeq(s)) = Head(s).task
        /\ TasksOf(s) = Elements(TaskSeq(s)) /\ NoRepeatTask(s) = NoRepeat(TaskSeq(s))
    BY TaskSeqIs
  <1>3. /\ TasksOf(Tail(s)) = Elements(TaskSeq(Tail(s)))
        /\ NoRepeatTask(Tail(s)) = NoRepeat(TaskSeq(Tail(s)))
    BY <1>1, TaskSeqIs
  <1>4. /\ Head(TaskSeq(s)) \in Elements(TaskSeq(s))
        /\ NoRepeat(TaskSeq(s)) =>
             /\ NoRepeat(Tail(TaskSeq(s)))
             /\ Elements(Tail(TaskSeq(s))) = Elements(TaskSeq(s)) \ {Head(TaskSeq(s))}
    BY <1>2, TailHolds
  <1> QED
    BY <1>1, <1>2, <1>3, <1>4

LEMMA MessageOne ==
    ASSUME NEW m
    PROVE  TasksOf(<<m>>) = {m.task} /\ TasksOf(<<>>) = {} /\ Elements(<<>>) = {}
  BY DEF TasksOf, Elements

LEMMA EmptyHolds == /\ TasksOf(<<>>) = {} /\ Elements(<<>>) = {}
                    /\ NoRepeat(<<>>) /\ NoRepeatTask(<<>>)
  BY DEF TasksOf, Elements, NoRepeat, NoRepeatTask

----------------------------------------------------------------------------
(* Every step carries tasks to one spot, or loses some.                    *)

Inv2 == Inv1 /\ AllUp /\ Disjoint /\ HeldIssued /\ Distinct

AnsweredSpot == <<"answered", "pool">>
Inside == Spot \ {AnsweredSpot}

\* The tasks T go to the spot dst from wherever they were.
Transfer(T, dst) ==
    /\ Held(dst)' = Held(dst) \cup T
    /\ \A x \in Spot \ {dst} : Held(x)' = Held(x) \ T

\* The four kinds of steps.
Starts == \E t \in Task \ issued : \E dst \in Inside :
    issued' = issued \cup {t} /\ Transfer({t}, dst) /\ answered' = answered
Passes == \E T \in SUBSET issued : \E dst \in Inside :
    /\ \A t \in T : \E x \in Inside : t \in Held(x)
    /\ Transfer(T, dst)
    /\ UNCHANGED <<issued, answered>>
Ends == \E x \in Inside : \E t \in Held(x) :
    Transfer({t}, AnsweredSpot) /\ issued' = issued
Loses ==
    /\ ~ Faultless
    /\ \A x \in Spot : Held(x)' \subseteq Held(x)
    /\ UNCHANGED <<issued, answered>>

LEMMA HeldIs ==
    /\ \A c \in Conn : /\ Held(<<"chan", c>>) = TasksOf(chan[c])
                       /\ Held(<<"hand", c>>) = TasksOf(writer[c].msg)
                       /\ Held(<<"unflushed", c>>) = Elements(unflushed[c])
                       /\ Held(<<"wire", c>>) = Elements(wire[c])
                       /\ Held(<<"replies", c>>) = Elements(replies[c])
                       /\ Held(<<"task", c>>) = reader[c].task
                       /\ Held(<<"resp", c>>) = reader[c].resp
    /\ \A p \in Scheduler : Held(<<"scheduler", p>>) = sched[p].task
    /\ Held(<<"queue", "pool">>) = queue
    /\ Held(<<"answered", "pool">>) = answered
  BY DEF Held

LEMMA HeldIsNext ==
    /\ \A c \in Conn : /\ Held(<<"chan", c>>)' = TasksOf(chan'[c])
                       /\ Held(<<"hand", c>>)' = TasksOf(writer'[c].msg)
                       /\ Held(<<"unflushed", c>>)' = Elements(unflushed'[c])
                       /\ Held(<<"wire", c>>)' = Elements(wire'[c])
                       /\ Held(<<"replies", c>>)' = Elements(replies'[c])
                       /\ Held(<<"task", c>>)' = reader'[c].task
                       /\ Held(<<"resp", c>>)' = reader'[c].resp
    /\ \A p \in Scheduler : Held(<<"scheduler", p>>)' = sched'[p].task
    /\ Held(<<"queue", "pool">>)' = queue'
    /\ Held(<<"answered", "pool">>)' = answered'
  BY DEF Held

LEMMA SpotIs ==
    ASSUME NEW x \in Spot
    PROVE  \/ \E c \in Conn : \/ x = <<"chan", c>> \/ x = <<"hand", c>>
                             \/ x = <<"unflushed", c>> \/ x = <<"wire", c>>
                             \/ x = <<"replies", c>> \/ x = <<"task", c>>
                             \/ x = <<"resp", c>>
           \/ \E p \in Scheduler : x = <<"scheduler", p>>
           \/ x = <<"queue", "pool">> \/ x = <<"answered", "pool">>
  BY DEF Spot

LEMMA SpotHas ==
    /\ \A c \in Conn : {<<"chan", c>>, <<"hand", c>>, <<"unflushed", c>>, <<"wire", c>>,
                        <<"replies", c>>, <<"task", c>>, <<"resp", c>>} \subseteq Spot
    /\ \A p \in Scheduler : <<"scheduler", p>> \in Spot
    /\ <<"queue", "pool">> \in Spot /\ <<"answered", "pool">> \in Spot
  BY DEF Spot

\* One task goes from one spot to another.
LEMMA Carried ==
    ASSUME Inv2, NEW src \in Inside, NEW dst \in Inside, src # dst, NEW t \in Held(src),
           Held(src)' = Held(src) \ {t}, Held(dst)' = Held(dst) \cup {t},
           \A x \in Spot \ {src, dst} : Held(x)' = Held(x),
           UNCHANGED <<issued, answered>>
    PROVE  Passes
  <1>1. \A x \in Spot : x # src => t \notin Held(x)
    BY DEF Inv2, Disjoint, Inside
  <1>2. Transfer({t}, dst)
    BY <1>1 DEF Transfer
  <1>3. {t} \in SUBSET issued
    BY DEF Inv2, HeldIssued, Inside
  <1> QED
    BY <1>2, <1>3 DEF Passes

\* Nothing moves if every spot keeps what it holds.
LEMMA NothingCarried ==
    ASSUME \A x \in Spot : Held(x)' = Held(x), UNCHANGED <<issued, answered>>
    PROVE  Passes
  <1>1. <<"queue", "pool">> \in Inside
    BY SpotHas DEF Inside, AnsweredSpot
  <1>2. Transfer({}, <<"queue", "pool">>)
    BY DEF Transfer, Spot
  <1> QED
    BY <1>1, <1>2 DEF Passes

LEMMA InsideHas ==
    /\ \A c \in Conn : {<<"chan", c>>, <<"hand", c>>, <<"unflushed", c>>, <<"wire", c>>,
                        <<"replies", c>>, <<"task", c>>, <<"resp", c>>} \subseteq Inside
    /\ \A p \in Scheduler : <<"scheduler", p>> \in Inside
    /\ <<"queue", "pool">> \in Inside
  <1>1. \A x \in Spot : x[1] # "answered" => x \in Inside
    BY DEF Inside, AnsweredSpot
  <1> QED
    BY <1>1, SpotHas

\* The spots outside of K hold what they held if their variables are the same.
LEMMA Unmoved ==
    ASSUME NEW K,
           \A c \in Conn : <<"chan", c>> \notin K => chan'[c] = chan[c],
           \A c \in Conn : <<"hand", c>> \notin K => writer'[c].msg = writer[c].msg,
           \A c \in Conn : <<"unflushed", c>> \notin K => unflushed'[c] = unflushed[c],
           \A c \in Conn : <<"wire", c>> \notin K => wire'[c] = wire[c],
           \A c \in Conn : <<"replies", c>> \notin K => replies'[c] = replies[c],
           \A c \in Conn : <<"task", c>> \notin K => reader'[c].task = reader[c].task,
           \A c \in Conn : <<"resp", c>> \notin K => reader'[c].resp = reader[c].resp,
           \A p \in Scheduler : <<"scheduler", p>> \notin K => sched'[p].task = sched[p].task,
           <<"queue", "pool">> \notin K => queue' = queue,
           <<"answered", "pool">> \notin K => answered' = answered
    PROVE  \A x \in Spot \ K : Held(x)' = Held(x)
  <1> SUFFICES ASSUME NEW x \in Spot, x \notin K PROVE Held(x)' = Held(x)
    OBVIOUS
  <1>1. CASE \E c \in Conn : x = <<"chan", c>>
    BY <1>1 DEF Held
  <1>2. CASE \E c \in Conn : x = <<"hand", c>>
    BY <1>2 DEF Held
  <1>3. CASE \E c \in Conn : x = <<"unflushed", c>>
    BY <1>3 DEF Held
  <1>4. CASE \E c \in Conn : x = <<"wire", c>>
    BY <1>4 DEF Held
  <1>5. CASE \E c \in Conn : x = <<"replies", c>>
    BY <1>5 DEF Held
  <1>6. CASE \E c \in Conn : x = <<"task", c>>
    BY <1>6 DEF Held
  <1>7. CASE \E c \in Conn : x = <<"resp", c>>
    BY <1>7 DEF Held
  <1>8. CASE \E p \in Scheduler : x = <<"scheduler", p>>
    BY <1>8 DEF Held
  <1>9. CASE x = <<"queue", "pool">> \/ x = <<"answered", "pool">>
    BY <1>9 DEF Held
  <1> QED
    BY <1>1, <1>2, <1>3, <1>4, <1>5, <1>6, <1>7, <1>8, <1>9, SpotIs

LEMMA IssueMoves ==
    ASSUME Inv2, NEW p \in Scheduler, NEW t \in Task, Issue(p, t)
    PROVE  Starts /\ Distinct'
  <1> DEFINE dst == <<"scheduler", p>>
  <1>1. /\ sched \in [Scheduler -> SchedulerState] /\ sched[p].task = {}
        /\ t \notin issued /\ issued' = issued \cup {t}
        /\ UNCHANGED <<queue, reader, chan, writer, unflushed, wire, replies, answered>>
    BY DEF Issue, Inv2, Inv1, TypeOK, HandsOK
  <1>2. /\ sched'[p].task = {t}
        /\ \A q \in Scheduler : q # p => sched'[q] = sched[q]
    BY <1>1 DEF Issue
  <1>3. \A x \in Spot \ {dst} : Held(x)' = Held(x)
    BY <1>1, <1>2, Unmoved
  <1>4. Held(dst) = {} /\ Held(dst)' = {t}
    BY <1>1, <1>2, HeldIs, HeldIsNext
  <1>5. dst \in Inside /\ \A x \in Spot : t \notin Held(x)
    BY <1>1, InsideHas DEF Inv2, HeldIssued
  <1>6. Transfer({t}, dst)
    <2> HIDE DEF dst
    <2> QED
      BY <1>3, <1>4, <1>5 DEF Transfer
  <1> QED
    BY <1>1, <1>5, <1>6 DEF Inv2, Distinct, Starts

LEMMA LookMoves ==
    ASSUME Inv2, NEW p \in Scheduler, Look(p)
    PROVE  Passes /\ Distinct'
  <1>1. PICK s \in SchedulerState :
          sched' = [sched EXCEPT ![p] = s] /\ s.task = sched[p].task
    BY NextWorkerTypes DEF Look, Inv2, Inv1
  <1>2. \A q \in Scheduler : sched'[q].task = sched[q].task
    BY <1>1 DEF Inv2, Inv1, TypeOK
  <1>3. UNCHANGED <<issued, queue, reader, chan, writer, unflushed, wire, replies, answered>>
    BY DEF Look
  <1>4. \A x \in Spot \ {} : Held(x)' = Held(x)
    BY <1>2, <1>3, Unmoved
  <1> QED
    BY <1>3, <1>4, NothingCarried DEF Inv2, Distinct

LEMMA SendToWorkerMoves ==
    ASSUME Inv2, NEW p \in Scheduler, SendToWorker(p)
    PROVE  Passes /\ Distinct'
  <1>0. /\ sched[p].to \in Worker /\ workers[sched[p].to].conn \in Conn
        /\ writer[workers[sched[p].to].conn].pc # "dead"
        /\ \E t \in Task : sched[p].task = {t}
    BY SendTarget DEF Inv2, SendToWorker
  <1>1. PICK w \in Worker, c \in Conn : /\ w = sched[p].to /\ c = workers[w].conn
                                      /\ writer[c].pc # "dead"
    BY <1>0
  <1>2. PICK t \in Task : sched[p].task = {t}
    BY <1>0
  <1> DEFINE m == [name |-> w, task |-> t]
             src == <<"scheduler", p>>
             dst == <<"chan", c>>
  <1>3. /\ chan' = [chan EXCEPT ![c] = Append(@, m)]
        /\ sched' = [sched EXCEPT ![p] = Dispatched]
        /\ UNCHANGED <<issued, queue, reader, writer, unflushed, wire, replies, answered>>
    BY <1>1, <1>2 DEF SendToWorker, AfterSend
  <1>4. m \in ServerMessage /\ m.task = t
    BY <1>1 DEF ServerMessage
  <1>5. /\ chan \in [Conn -> Seq(ServerMessage)] /\ sched \in [Scheduler -> SchedulerState]
        /\ chan[c] \in Seq(ServerMessage) /\ NoRepeatTask(chan[c])
    BY <1>1 DEF Inv2, Inv1, TypeOK, Distinct
  <1> HIDE DEF m
  <1>6. src \in Inside /\ dst \in Inside /\ src # dst /\ t \in Held(src)
    BY <1>1, <1>2, HeldIs, InsideHas
  <1>7. t \notin TasksOf(chan[c])
    BY <1>1, <1>6, HeldIs DEF Inv2, Disjoint, Inside
  <1>8. /\ TasksOf(chan'[c]) = TasksOf(chan[c]) \cup {t} /\ NoRepeatTask(chan'[c])
        /\ \A d \in Conn : d # c => chan'[d] = chan[d]
    BY <1>1, <1>3, <1>4, <1>5, <1>7, MessageAppend
  <1>9. sched'[p].task = {} /\ \A q \in Scheduler : q # p => sched'[q] = sched[q]
    BY <1>3, <1>5 DEF Dispatched
  <1>10. Held(src)' = Held(src) \ {t} /\ Held(dst)' = Held(dst) \cup {t}
    <2>1. Held(src)' = sched'[p].task /\ Held(src) = sched[p].task
      BY HeldIs, HeldIsNext
    <2>2. Held(dst)' = TasksOf(chan'[c]) /\ Held(dst) = TasksOf(chan[c])
      BY <1>1, HeldIs, HeldIsNext
    <2> QED
      BY <1>2, <1>8, <1>9, <2>1, <2>2
  <1>11. \A x \in Spot \ {src, dst} : Held(x)' = Held(x)
    BY <1>3, <1>8, <1>9, Unmoved
  <1>12. Passes
    <2> HIDE DEF src, dst
    <2> QED
      BY <1>3, <1>6, <1>10, <1>11, Carried
  <1>13. Distinct'
    BY <1>3, <1>8 DEF Inv2, Distinct
  <1> QED
    BY <1>12, <1>13

LEMMA PushToQueueMoves ==
    ASSUME Inv2, NEW p \in Scheduler, PushToQueue(p)
    PROVE  Passes /\ Distinct'
  <1> DEFINE src == <<"scheduler", p>>
             dst == <<"queue", "pool">>
  <1>1. PICK t \in Task : sched[p].task = {t}
    BY DEF PushToQueue, Inv2, Inv1, HandsOK
  <1>2. /\ queue' = queue \cup {t} /\ sched \in [Scheduler -> SchedulerState]
        /\ sched' = [sched EXCEPT ![p] = Dispatched]
        /\ UNCHANGED <<issued, reader, chan, writer, unflushed, wire, replies, answered>>
    BY <1>1 DEF PushToQueue, Inv2, Inv1, TypeOK
  <1>3. sched'[p].task = {} /\ \A q \in Scheduler : q # p => sched'[q] = sched[q]
    BY <1>2 DEF Dispatched
  <1>4. src \in Inside /\ dst \in Inside /\ src # dst /\ t \in Held(src)
    BY <1>1, HeldIs, InsideHas
  <1>5. Held(src)' = Held(src) \ {t} /\ Held(dst)' = Held(dst) \cup {t}
    <2>1. Held(src)' = sched'[p].task /\ Held(src) = sched[p].task
      BY HeldIs, HeldIsNext
    <2>2. Held(dst)' = queue' /\ Held(dst) = queue
      BY HeldIs, HeldIsNext
    <2> QED
      BY <1>1, <1>2, <1>3, <2>1, <2>2
  <1>6. \A x \in Spot \ {src, dst} : Held(x)' = Held(x)
    BY <1>2, <1>3, Unmoved
  <1>7. Passes
    <2> HIDE DEF src, dst
    <2> QED
      BY <1>2, <1>4, <1>5, <1>6, Carried
  <1> QED
    BY <1>2, <1>7 DEF Inv2, Distinct

LEMMA ReadResponseMoves ==
    ASSUME Inv2, NEW c \in Conn, ReadResponse(c)
    PROVE  Passes /\ Distinct'
  <1>0. replies[c] \in Seq(Task) /\ replies[c] # <<>> /\ NoRepeat(replies[c])
    BY DEF ReadResponse, Inv2, Inv1, TypeOK, Distinct
  <1>1. PICK t \in Task : t = Head(replies[c])
    BY <1>0
  <1> DEFINE src == <<"replies", c>>
             dst == <<"resp", c>>
  <1>2. /\ t \in Elements(replies[c]) /\ NoRepeat(Tail(replies[c]))
        /\ Elements(Tail(replies[c])) = Elements(replies[c]) \ {t}
    BY <1>0, <1>1, TailHolds
  <1>3. /\ reader[c].resp = {} /\ reader \in [Conn -> ReaderState]
        /\ replies \in [Conn -> Seq(Task)]
    BY DEF ReadResponse, Inv2, Inv1, TypeOK, HandsOK
  <1>4. /\ replies'[c] = Tail(replies[c])
        /\ \A d \in Conn : d # c => replies'[d] = replies[d]
        /\ \A d \in Conn : reader'[d].task = reader[d].task
        /\ \A d \in Conn : reader'[d].resp = IF d = c THEN {t} ELSE reader[d].resp
        /\ UNCHANGED <<issued, sched, queue, chan, writer, unflushed, wire, answered>>
    BY <1>1, <1>3 DEF ReadResponse, ReaderState
  <1>5. src \in Inside /\ dst \in Inside /\ src # dst /\ t \in Held(src)
    BY <1>2, HeldIs, InsideHas
  <1>6. Held(src)' = Held(src) \ {t} /\ Held(dst)' = Held(dst) \cup {t}
    <2>1. Held(src)' = Elements(replies'[c]) /\ Held(src) = Elements(replies[c])
      BY HeldIs, HeldIsNext
    <2>2. Held(dst)' = reader'[c].resp /\ Held(dst) = reader[c].resp
      BY HeldIs, HeldIsNext
    <2> QED
      BY <1>2, <1>3, <1>4, <2>1, <2>2
  <1>7. \A x \in Spot \ {src, dst} : Held(x)' = Held(x)
    BY <1>4, Unmoved
  <1>8. Passes
    <2> HIDE DEF src, dst
    <2> QED
      BY <1>4, <1>5, <1>6, <1>7, Carried
  <1> QED
    BY <1>2, <1>4, <1>8 DEF Inv2, Distinct

LEMMA TakeTaskMoves ==
    ASSUME Inv2, NEW c \in Conn, TakeTask(c)
    PROVE  Passes /\ Distinct'
  <1> DEFINE src == <<"queue", "pool">>
             dst == <<"task", c>>
  <1>1. /\ queue \in SUBSET Task /\ reader \in [Conn -> ReaderState] /\ reader[c].task = {}
        /\ UNCHANGED <<issued, sched, chan, writer, unflushed, wire, replies, answered>>
    BY DEF TakeTask, Inv2, Inv1, TypeOK, HandsOK
  <1>2. CASE queue = {}
    <2>1. /\ queue' = queue
          /\ \A d \in Conn : /\ reader'[d].task = reader[d].task
                             /\ reader'[d].resp = reader[d].resp
      BY <1>1, <1>2 DEF TakeTask, ReaderState
    <2>2. \A x \in Spot \ {} : Held(x)' = Held(x)
      BY <1>1, <2>1, Unmoved
    <2> QED
      BY <1>1, <2>2, NothingCarried DEF Inv2, Distinct
  <1>3. CASE queue # {}
    <2>1. PICK t \in queue : t = Least(queue)
      BY <1>1, <1>3, LeastIs
    <2>2. /\ queue' = queue \ {t}
          /\ \A d \in Conn : reader'[d].resp = reader[d].resp
          /\ \A d \in Conn : reader'[d].task = IF d = c THEN {t} ELSE reader[d].task
      BY <1>1, <1>3, <2>1 DEF TakeTask, Pop, ReaderState
    <2>3. src \in Inside /\ dst \in Inside /\ src # dst /\ t \in Held(src)
      BY <2>1, HeldIs, InsideHas
    <2>4. Held(src)' = Held(src) \ {t} /\ Held(dst)' = Held(dst) \cup {t}
      <3>1. Held(src)' = queue' /\ Held(src) = queue
        BY HeldIs, HeldIsNext
      <3>2. Held(dst)' = reader'[c].task /\ Held(dst) = reader[c].task
        BY HeldIs, HeldIsNext
      <3> QED
        BY <1>1, <2>2, <3>1, <3>2
    <2>5. \A x \in Spot \ {src, dst} : Held(x)' = Held(x)
      BY <1>1, <2>2, Unmoved
    <2>6. Passes
      <3> HIDE DEF src, dst
      <3> QED
        BY <1>1, <2>3, <2>4, <2>5, Carried
    <2> QED
      BY <1>1, <2>6 DEF Inv2, Distinct
  <1> QED
    BY <1>2, <1>3

\* What is emptied is lost, and nothing else.
LEMMA EmptiedLoses ==
    ASSUME Inv2, ~ Faultless, UNCHANGED <<issued, sched, queue, answered>>,
           \A d \in Conn : /\ chan'[d] \in {<<>>, chan[d]}
                           /\ writer'[d].msg \in {<<>>, writer[d].msg}
                           /\ unflushed'[d] \in {<<>>, unflushed[d]}
                           /\ wire'[d] \in {<<>>, wire[d]}
                           /\ replies'[d] \in {<<>>, replies[d]}
                           /\ reader'[d].task \subseteq reader[d].task
                           /\ reader'[d].resp \subseteq reader[d].resp
    PROVE  Loses /\ Distinct'
  <1>1. ASSUME NEW x \in Spot PROVE Held(x)' \subseteq Held(x)
    <2>1. ASSUME NEW d \in Conn
          PROVE  /\ Held(<<"chan", d>>)' \subseteq Held(<<"chan", d>>)
                 /\ Held(<<"hand", d>>)' \subseteq Held(<<"hand", d>>)
                 /\ Held(<<"unflushed", d>>)' \subseteq Held(<<"unflushed", d>>)
                 /\ Held(<<"wire", d>>)' \subseteq Held(<<"wire", d>>)
                 /\ Held(<<"replies", d>>)' \subseteq Held(<<"replies", d>>)
                 /\ Held(<<"task", d>>)' \subseteq Held(<<"task", d>>)
                 /\ Held(<<"resp", d>>)' \subseteq Held(<<"resp", d>>)
      <3>1. /\ Held(<<"chan", d>>)' = TasksOf(chan'[d])
            /\ Held(<<"hand", d>>)' = TasksOf(writer'[d].msg)
            /\ Held(<<"unflushed", d>>)' = Elements(unflushed'[d])
            /\ Held(<<"wire", d>>)' = Elements(wire'[d])
            /\ Held(<<"replies", d>>)' = Elements(replies'[d])
            /\ Held(<<"task", d>>)' = reader'[d].task
            /\ Held(<<"resp", d>>)' = reader'[d].resp
        BY HeldIsNext
      <3>2. /\ Held(<<"chan", d>>) = TasksOf(chan[d])
            /\ Held(<<"hand", d>>) = TasksOf(writer[d].msg)
            /\ Held(<<"unflushed", d>>) = Elements(unflushed[d])
            /\ Held(<<"wire", d>>) = Elements(wire[d])
            /\ Held(<<"replies", d>>) = Elements(replies[d])
            /\ Held(<<"task", d>>) = reader[d].task
            /\ Held(<<"resp", d>>) = reader[d].resp
        BY HeldIs
      <3>3. TasksOf(<<>>) = {} /\ Elements(<<>>) = {}
        BY DEF TasksOf, Elements
      <3> QED
        BY <3>1, <3>2, <3>3
    <2>2. ASSUME NEW p \in Scheduler
          PROVE  Held(<<"scheduler", p>>)' = Held(<<"scheduler", p>>)
      BY HeldIs, HeldIsNext
    <2>3. /\ Held(<<"queue", "pool">>)' = Held(<<"queue", "pool">>)
          /\ Held(<<"answered", "pool">>)' = Held(<<"answered", "pool">>)
      BY HeldIs, HeldIsNext
    <2> QED
      BY <2>1, <2>2, <2>3, SpotIs
  <1>2. Distinct'
    BY EmptyHolds DEF Inv2, Distinct
  <1> QED
    BY <1>1, <1>2 DEF Loses

LEMMA HangupLoses ==
    ASSUME Inv2, ~ Faultless, NEW c \in Conn, Hangup(c),
           UNCHANGED <<issued, sched, queue, chan, writer, unflushed, answered>>
    PROVE  Loses /\ Distinct'
  <1>1. /\ reader \in [Conn -> ReaderState] /\ wire \in [Conn -> Seq(Task)]
        /\ replies \in [Conn -> Seq(Task)]
    BY DEF Inv2, Inv1, TypeOK
  <1>2. \A d \in Conn : /\ reader'[d].task \subseteq reader[d].task
                        /\ reader'[d].resp \subseteq reader[d].resp
                        /\ wire'[d] \in {<<>>, wire[d]} /\ replies'[d] \in {<<>>, replies[d]}
    BY <1>1 DEF Hangup, CloseIfLast, Close
  <1> QED
    BY <1>2, EmptiedLoses

LEMMA SendTaskMoves ==
    ASSUME Inv2, NEW c \in Conn, SendTask(c)
    PROVE  (Passes \/ Loses) /\ Distinct'
  <1> DEFINE src == <<"task", c>>
             dst == <<"chan", c>>
  <1>0. /\ reader[c].pc \in {"sendFirst", "sendNext"}
        /\ UNCHANGED <<issued, sched, queue, writer, unflushed, answered>>
    BY DEF SendTask
  <1>1. CASE writer[c].pc = "dead"
    <2>1. ~ Faultless
      BY <1>0, <1>1, UpIsRegistered DEF Inv2
    <2> QED
      BY <1>0, <1>1, <2>1, HangupLoses DEF SendTask
  <1>2. CASE writer[c].pc # "dead"
    <2>1. PICK t \in Task : reader[c].task = {t}
      BY <1>0 DEF Inv2, Inv1, HandsOK
    <2>0. [name |-> NameToMark(c), task |-> t] \in ServerMessage
      BY PoolAssumption DEF NameToMark, ServerMessage
    <2>2. PICK m \in ServerMessage : m = [name |-> NameToMark(c), task |-> t]
      BY <2>0
    <2>3. /\ reader \in [Conn -> ReaderState] /\ chan \in [Conn -> Seq(ServerMessage)]
          /\ chan[c] \in Seq(ServerMessage) /\ NoRepeatTask(chan[c])
      BY DEF Inv2, Inv1, TypeOK, Distinct
    <2>4. /\ chan' = [chan EXCEPT ![c] = Append(@, m)]
          /\ \A d \in Conn : reader'[d].resp = reader[d].resp
          /\ \A d \in Conn : reader'[d].task = IF d = c THEN {} ELSE reader[d].task
          /\ UNCHANGED <<wire, replies>>
      BY <1>0, <1>2, <2>1, <2>2, <2>3 DEF SendTask, ReaderState
    <2>5. src \in Inside /\ dst \in Inside /\ src # dst /\ t \in Held(src)
      BY <2>1, HeldIs, InsideHas
    <2>6. t \notin TasksOf(chan[c])
      BY <2>5, HeldIs DEF Inv2, Disjoint, Inside
    <2>7. /\ TasksOf(chan'[c]) = TasksOf(chan[c]) \cup {t} /\ NoRepeatTask(chan'[c])
          /\ \A d \in Conn : d # c => chan'[d] = chan[d]
      <3>1. m.task = t
        BY <2>2
      <3>2. chan'[c] = Append(chan[c], m)
        BY <2>3, <2>4
      <3> QED
        BY <2>3, <2>4, <2>6, <3>1, <3>2, MessageAppend
    <2>8. Held(src)' = Held(src) \ {t} /\ Held(dst)' = Held(dst) \cup {t}
      <3>1. Held(src)' = reader'[c].task /\ Held(src) = reader[c].task
        BY HeldIs, HeldIsNext
      <3>2. Held(dst)' = TasksOf(chan'[c]) /\ Held(dst) = TasksOf(chan[c])
        BY HeldIs, HeldIsNext
      <3> QED
        BY <2>1, <2>4, <2>7, <3>1, <3>2
    <2>9. \A x \in Spot \ {src, dst} : Held(x)' = Held(x)
      BY <1>0, <2>4, <2>7, Unmoved
    <2>10. Passes
      <3> HIDE DEF src, dst
      <3> QED
        BY <1>0, <2>5, <2>8, <2>9, Carried
    <2>11. Distinct'
      BY <1>0, <2>4, <2>7 DEF Inv2, Distinct
    <2> QED
      BY <2>10, <2>11
  <1> QED
    BY <1>1, <1>2

LEMMA SetIdleMoves ==
    ASSUME Inv2, NEW c \in Conn, SetIdle(c)
    PROVE  (Passes \/ Loses) /\ Distinct'
  <1>0. /\ reader[c].pc = "setIdle"
        /\ UNCHANGED <<issued, sched, queue, chan, writer, unflushed, answered>>
    BY DEF SetIdle
  <1>1. CASE ~ Registered(Owner[c])
    <2>1. ~ Faultless
      BY <1>0, <1>1, UpIsRegistered DEF Inv2
    <2> QED
      BY <1>0, <1>1, <2>1, HangupLoses DEF SetIdle
  <1>2. CASE Registered(Owner[c])
    <2>0. UNCHANGED <<wire, replies>> /\ reader' = [reader EXCEPT ![c].pc = "deliver"]
      BY <1>2 DEF SetIdle
    <2>1. /\ UNCHANGED <<wire, replies>>
          /\ \A d \in Conn : /\ reader'[d].task = reader[d].task
                             /\ reader'[d].resp = reader[d].resp
      BY <2>0 DEF Inv2, Inv1, TypeOK, ReaderState
    <2>2. \A x \in Spot \ {} : Held(x)' = Held(x)
      BY <1>0, <2>1, Unmoved
    <2> QED
      BY <1>0, <2>1, <2>2, NothingCarried DEF Inv2, Distinct
  <1> QED
    BY <1>1, <1>2

LEMMA ExitMoves ==
    ASSUME Inv2, NEW c \in Conn, Exit(c)
    PROVE  Loses /\ Distinct'
  <1>1. /\ ~ Faultless /\ Hangup(c)
        /\ UNCHANGED <<issued, sched, queue, chan, writer, unflushed, answered>>
    BY DEF Exit, Faultless
  <1> QED
    BY <1>1, HangupLoses

LEMMA RegisterMoves ==
    ASSUME Inv2, NEW c \in Conn, Register(c)
    PROVE  Passes /\ Distinct'
  <1>1. /\ \A d \in Conn : reader'[d].task = reader[d].task /\ reader'[d].resp = reader[d].resp
        /\ UNCHANGED <<issued, sched, queue, chan, writer, unflushed, wire, replies,
                       answered>>
    BY DEF Register, Inv2, Inv1, TypeOK, ReaderState
  <1>2. \A x \in Spot \ {} : Held(x)' = Held(x)
    BY <1>1, Unmoved
  <1> QED
    BY <1>1, <1>2, NothingCarried DEF Inv2, Distinct

LEMMA DeliverMoves ==
    ASSUME Inv2, NEW c \in Conn, Deliver(c)
    PROVE  Ends /\ Distinct'
  <1> DEFINE src == <<"resp", c>>
             dst == AnsweredSpot
  <1>1. PICK t \in Task : reader[c].resp = {t}
    BY DEF Deliver, Inv2, Inv1, HandsOK
  <1>2. /\ answered' = answered \cup {t} /\ reader \in [Conn -> ReaderState]
        /\ UNCHANGED <<issued, sched, queue, chan, writer, unflushed, wire, replies>>
    BY <1>1 DEF Deliver, Inv2, Inv1, TypeOK
  <1>3. /\ \A d \in Conn : reader'[d].task = reader[d].task
        /\ \A d \in Conn : reader'[d].resp = IF d = c THEN {} ELSE reader[d].resp
    BY <1>2 DEF Deliver, ReaderState
  <1>4. src \in Inside /\ dst \in Spot /\ src # dst /\ t \in Held(src)
    BY <1>1, HeldIs, InsideHas, SpotHas DEF AnsweredSpot
  <1>5. Held(src)' = Held(src) \ {t} /\ Held(dst)' = Held(dst) \cup {t}
    <2>1. Held(src)' = reader'[c].resp /\ Held(src) = reader[c].resp
      BY HeldIs, HeldIsNext
    <2>2. Held(dst)' = answered' /\ Held(dst) = answered
      BY HeldIs, HeldIsNext DEF AnsweredSpot
    <2> QED
      BY <1>1, <1>2, <1>3, <2>1, <2>2
  <1>6. \A x \in Spot \ {src, dst} : Held(x)' = Held(x)
    BY <1>2, <1>3, Unmoved DEF AnsweredSpot
  <1>7. Transfer({t}, AnsweredSpot)
    <2>1. \A x \in Spot : x # src => t \notin Held(x)
      BY <1>4 DEF Inv2, Disjoint, Inside
    <2> HIDE DEF src
    <2> QED
      BY <1>4, <1>5, <1>6, <2>1 DEF Transfer
  <1> QED
    BY <1>2, <1>4, <1>7 DEF Inv2, Distinct, Ends

LEMMA ReceiveMessageMoves ==
    ASSUME Inv2, NEW c \in Conn, ReceiveMessage(c)
    PROVE  Passes /\ Distinct'
  <1>0. /\ chan \in [Conn -> Seq(ServerMessage)] /\ writer \in [Conn -> WriterState]
        /\ writer[c].msg = <<>> /\ writer[c].pc = "recv"
        /\ chan[c] \in Seq(ServerMessage) /\ chan[c] # <<>> /\ NoRepeatTask(chan[c])
    BY DEF ReceiveMessage, Inv2, Inv1, TypeOK, HandsOK, Distinct
  <1>1. PICK m \in ServerMessage : m = Head(chan[c])
    BY <1>0
  <1>2. PICK t \in Task : t = m.task
    BY DEF ServerMessage
  <1> DEFINE src == <<"chan", c>>
             dst == <<"hand", c>>
  <1>3. /\ t \in TasksOf(chan[c]) /\ NoRepeatTask(Tail(chan[c]))
        /\ TasksOf(Tail(chan[c])) = TasksOf(chan[c]) \ {t}
    BY <1>0, <1>1, <1>2, MessageTail
  <1>4. /\ chan'[c] = Tail(chan[c]) /\ writer'[c].msg = <<m>>
        /\ \A d \in Conn : d # c => chan'[d] = chan[d] /\ writer'[d] = writer[d]
        /\ UNCHANGED <<issued, sched, queue, reader, unflushed, wire, replies, answered>>
    BY <1>0, <1>1 DEF ReceiveMessage, WriterGoesOn, AfterStep
  <1>5. src \in Inside /\ dst \in Inside /\ src # dst /\ t \in Held(src)
    BY <1>3, HeldIs, InsideHas
  <1>6. Held(src)' = Held(src) \ {t} /\ Held(dst)' = Held(dst) \cup {t}
    <2>1. Held(src)' = TasksOf(chan'[c]) /\ Held(src) = TasksOf(chan[c])
      BY HeldIs, HeldIsNext
    <2>2. Held(dst)' = TasksOf(writer'[c].msg) /\ Held(dst) = TasksOf(writer[c].msg)
      BY HeldIs, HeldIsNext
    <2>3. TasksOf(<<m>>) = {t} /\ TasksOf(<<>>) = {}
      BY <1>2, MessageOne
    <2> QED
      BY <1>0, <1>3, <1>4, <2>1, <2>2, <2>3
  <1>7. \A x \in Spot \ {src, dst} : Held(x)' = Held(x)
    BY <1>4, Unmoved
  <1>8. Passes
    <2> HIDE DEF src, dst
    <2> QED
      BY <1>4, <1>5, <1>6, <1>7, Carried
  <1> QED
    BY <1>3, <1>4, <1>8 DEF Inv2, Distinct

LEMMA MarkBusyMoves ==
    ASSUME Inv2, NEW c \in Conn, MarkBusy(c)
    PROVE  (Passes \/ Loses) /\ Distinct'
  <1>0. /\ writer[c].pc = "mark" /\ reader[c].pc # "new"
        /\ writer[c].msg[1].name = Owner[c] /\ writer[c].msg = <<writer[c].msg[1]>>
        /\ UNCHANGED <<issued, sched, queue, reader, replies, answered>>
    BY MessageInHand DEF MarkBusy, Inv2
  <1>1. /\ writer \in [Conn -> WriterState] /\ chan \in [Conn -> Seq(ServerMessage)]
        /\ unflushed \in [Conn -> Seq(Task)] /\ wire \in [Conn -> Seq(Task)]
    BY DEF Inv2, Inv1, TypeOK
  <1>2. CASE ~ Registered(Owner[c])
    <2>1. ~ Faultless
      BY <1>0, <1>2, UpIsRegistered DEF Inv2
    <2>2. \A d \in Conn : /\ chan'[d] \in {<<>>, chan[d]}
                          /\ writer'[d].msg \in {<<>>, writer[d].msg}
                          /\ unflushed'[d] \in {<<>>, unflushed[d]}
                          /\ wire'[d] \in {<<>>, wire[d]}
      BY <1>0, <1>1, <1>2 DEF MarkBusy, CloseIfLast, Close
    <2> QED
      BY <1>0, <2>1, <2>2, EmptiedLoses
  <1>3. CASE Registered(Owner[c])
    <2>1. UNCHANGED <<chan, unflushed, wire>> /\ \A d \in Conn : writer'[d].msg = writer[d].msg
      <3>1. /\ UNCHANGED <<chan, unflushed, wire>>
            /\ writer' = [writer EXCEPT ![c] = [pc |-> "write", msg |-> <<writer[c].msg[1]>>]]
        BY <1>0, <1>3 DEF MarkBusy, WriterGoesOn, AfterStep
      <3> QED
        BY <1>0, <1>1, <3>1
    <2>2. \A x \in Spot \ {} : Held(x)' = Held(x)
      BY <1>0, <2>1, Unmoved
    <2> QED
      BY <1>0, <2>1, <2>2, NothingCarried DEF Inv2, Distinct
  <1> QED
    BY <1>2, <1>3

LEMMA WriterExitMoves ==
    ASSUME Inv2, NEW c \in Conn, WriterExit(c)
    PROVE  Loses /\ Distinct'
  <1>1. ~ Faultless
    BY DEF WriterExit, Inv2, AllUp
  <1>2. /\ writer \in [Conn -> WriterState] /\ unflushed \in [Conn -> Seq(Task)]
        /\ wire \in [Conn -> Seq(Task)]
        /\ UNCHANGED <<issued, sched, queue, reader, chan, replies, answered>>
    BY DEF WriterExit, Inv2, Inv1, TypeOK
  <1>3. \A d \in Conn : /\ writer'[d].msg = writer[d].msg
                        /\ unflushed'[d] \in {<<>>, unflushed[d]}
                        /\ wire'[d] \in {<<>>, wire[d]}
    BY <1>2 DEF WriterExit, WriterState, Close
  <1> QED
    BY <1>1, <1>2, <1>3, EmptiedLoses

LEMMA DecryptMoves ==
    ASSUME Inv2, NEW c \in Conn, Decrypt(c), reader[c].pc # "dead"
    PROVE  Passes /\ Distinct'
  <1>0. /\ wire \in [Conn -> Seq(Task)] /\ replies \in [Conn -> Seq(Task)]
        /\ wire[c] \in Seq(Task) /\ wire[c] # <<>> /\ NoRepeat(wire[c])
        /\ replies[c] \in Seq(Task) /\ NoRepeat(replies[c])
    BY DEF Decrypt, Inv2, Inv1, TypeOK, Distinct
  <1>1. PICK t \in Task : t = Head(wire[c])
    BY <1>0
  <1> DEFINE src == <<"wire", c>>
             dst == <<"replies", c>>
  <1>2. /\ t \in Elements(wire[c]) /\ NoRepeat(Tail(wire[c]))
        /\ Elements(Tail(wire[c])) = Elements(wire[c]) \ {t}
    BY <1>0, <1>1, TailHolds
  <1>3. /\ wire'[c] = Tail(wire[c]) /\ replies'[c] = Append(replies[c], t)
        /\ \A d \in Conn : d # c => wire'[d] = wire[d] /\ replies'[d] = replies[d]
        /\ UNCHANGED <<issued, sched, queue, reader, chan, writer, unflushed, answered>>
    BY <1>0, <1>1 DEF Decrypt
  <1>4. src \in Inside /\ dst \in Inside /\ src # dst /\ t \in Held(src)
    BY <1>2, HeldIs, InsideHas
  <1>5. t \notin Elements(replies[c])
    BY <1>4, HeldIs DEF Inv2, Disjoint, Inside
  <1>6. /\ Elements(replies'[c]) = Elements(replies[c]) \cup {t}
        /\ NoRepeat(replies'[c])
    BY <1>0, <1>3, <1>5, AppendHolds
  <1>7. Held(src)' = Held(src) \ {t} /\ Held(dst)' = Held(dst) \cup {t}
    <2>1. Held(src)' = Elements(wire'[c]) /\ Held(src) = Elements(wire[c])
      BY HeldIs, HeldIsNext
    <2>2. Held(dst)' = Elements(replies'[c]) /\ Held(dst) = Elements(replies[c])
      BY HeldIs, HeldIsNext
    <2> QED
      BY <1>2, <1>3, <1>6, <2>1, <2>2
  <1>8. \A x \in Spot \ {src, dst} : Held(x)' = Held(x)
    BY <1>3, Unmoved
  <1>9. Passes
    <2> HIDE DEF src, dst
    <2> QED
      BY <1>3, <1>4, <1>7, <1>8, Carried
  <1> QED
    BY <1>2, <1>3, <1>6, <1>9 DEF Inv2, Distinct

\* What is decrypted for a reader that is gone is lost.
LEMMA DecryptLoses ==
    ASSUME Inv2, NEW c \in Conn, Decrypt(c), reader[c].pc = "dead"
    PROVE  Loses /\ Distinct'
  <1>0. ~ Faultless
    BY DEF Inv2, AllUp
  <1>1. /\ wire \in [Conn -> Seq(Task)] /\ wire[c] \in Seq(Task) /\ wire[c] # <<>>
        /\ NoRepeat(wire[c])
    BY DEF Decrypt, Inv2, Inv1, TypeOK, Distinct
  <1>2. /\ wire'[c] = Tail(wire[c])
        /\ \A d \in Conn : d # c => wire'[d] = wire[d]
        /\ UNCHANGED <<issued, sched, queue, reader, chan, writer, unflushed, replies, answered>>
    BY <1>1 DEF Decrypt
  <1>3. NoRepeat(wire'[c]) /\ Elements(wire'[c]) \subseteq Elements(wire[c])
    BY <1>1, <1>2, TailHolds
  <1>4. \A x \in Spot \ {<<"wire", c>>} : Held(x)' = Held(x)
    BY <1>2, Unmoved
  <1>5. Held(<<"wire", c>>)' \subseteq Held(<<"wire", c>>)
    BY <1>3, HeldIs, HeldIsNext
  <1>6. \A x \in Spot : Held(x)' \subseteq Held(x)
    BY <1>4, <1>5
  <1> QED
    BY <1>0, <1>2, <1>3, <1>6 DEF Loses, Inv2, Distinct

LEMMA BreakMoves ==
    ASSUME Inv2, NEW c \in Conn, Break(c)
    PROVE  Loses /\ Distinct'
  <1>1. /\ ~ Faultless /\ wire \in [Conn -> Seq(Task)]
        /\ UNCHANGED <<issued, sched, queue, reader, chan, writer, unflushed, replies,
                       answered>>
    BY DEF Break, Faultless, Inv2, Inv1, TypeOK
  <1>2. \A d \in Conn : wire'[d] \in {<<>>, wire[d]}
    BY <1>1 DEF Break, Close
  <1> QED
    BY <1>1, <1>2, EmptiedLoses

LEMMA RestartMoves ==
    ASSUME Inv2, NEW w \in Worker, Restart(w)
    PROVE  Passes /\ Distinct'
  <1>1. UNCHANGED <<issued, sched, queue, reader, chan, writer, unflushed, wire, replies,
                    answered>>
    BY DEF Restart
  <1>2. \A x \in Spot \ {} : Held(x)' = Held(x)
    BY <1>1, Unmoved
  <1> QED
    BY <1>1, <1>2, NothingCarried DEF Inv2, Distinct

LEMMA FlushOlderMoves ==
    ASSUME Inv2, NEW c \in Conn, FlushOlder(c)
    PROVE  Passes /\ Distinct'
  <1>0. /\ wire \in [Conn -> Seq(Task)] /\ unflushed \in [Conn -> Seq(Task)]
        /\ wire[c] \in Seq(Task) /\ NoRepeat(wire[c])
        /\ unflushed[c] \in Seq(Task) /\ NoRepeat(unflushed[c]) /\ unflushed[c] # <<>>
    BY DEF FlushOlder, Inv2, Inv1, TypeOK, Distinct
  <1>1. PICK t \in Task : t = Head(unflushed[c])
    BY <1>0
  <1> DEFINE src == <<"unflushed", c>>
             dst == <<"wire", c>>
  <1>2. /\ t \in Elements(unflushed[c]) /\ NoRepeat(Tail(unflushed[c]))
        /\ Elements(Tail(unflushed[c])) = Elements(unflushed[c]) \ {t}
    BY <1>0, <1>1, TailHolds
  <1>3. /\ unflushed'[c] = Tail(unflushed[c]) /\ wire'[c] = Append(wire[c], t)
        /\ \A d \in Conn : d # c => wire'[d] = wire[d] /\ unflushed'[d] = unflushed[d]
        /\ UNCHANGED <<issued, sched, queue, reader, chan, writer, replies, answered>>
    BY <1>0, <1>1 DEF FlushOlder
  <1>4. src \in Inside /\ dst \in Inside /\ src # dst /\ t \in Held(src)
    BY <1>2, HeldIs, InsideHas
  <1>5. t \notin Elements(wire[c])
    BY <1>4, HeldIs DEF Inv2, Disjoint, Inside
  <1>6. Elements(wire'[c]) = Elements(wire[c]) \cup {t} /\ NoRepeat(wire'[c])
    BY <1>0, <1>3, <1>5, AppendHolds
  <1>7. Held(src)' = Held(src) \ {t} /\ Held(dst)' = Held(dst) \cup {t}
    <2>1. Held(src)' = Elements(unflushed'[c]) /\ Held(src) = Elements(unflushed[c])
      BY HeldIs, HeldIsNext
    <2>2. Held(dst)' = Elements(wire'[c]) /\ Held(dst) = Elements(wire[c])
      BY HeldIs, HeldIsNext
    <2> QED
      BY <1>2, <1>3, <1>6, <2>1, <2>2
  <1>8. \A x \in Spot \ {src, dst} : Held(x)' = Held(x)
    BY <1>3, Unmoved
  <1>9. Passes
    <2> HIDE DEF src, dst
    <2> QED
      BY <1>3, <1>4, <1>7, <1>8, Carried
  <1> QED
    BY <1>2, <1>3, <1>6, <1>9 DEF Inv2, Distinct

LEMMA WriteRequestMoves ==
    ASSUME Inv2, NEW c \in Conn, WriteRequest(c)
    PROVE  (Passes \/ Loses) /\ Distinct'
  <1>0. /\ writer[c].pc = "write" /\ writer[c].msg[1] \in ServerMessage
        /\ writer[c].msg = <<writer[c].msg[1]>> /\ reader[c].pc # "new"
    BY MessageInHand DEF WriteRequest, Inv2
  <1>1. PICK t \in Task : t = writer[c].msg[1].task
    BY <1>0 DEF ServerMessage
  <1> DEFINE hand == <<"hand", c>>
             left == <<"unflushed", c>>
             sent == <<"wire", c>>
  <1>2. /\ writer \in [Conn -> WriterState] /\ wire \in [Conn -> Seq(Task)]
        /\ unflushed \in [Conn -> Seq(Task)]
        /\ wire[c] \in Seq(Task) /\ unflushed[c] \in Seq(Task)
        /\ NoRepeat(wire[c]) /\ NoRepeat(unflushed[c])
    BY DEF Inv2, Inv1, TypeOK, Distinct
  <1>3. /\ writer' = [writer EXCEPT ![c] = [pc |-> "recv", msg |-> <<>>]]
        /\ UNCHANGED <<issued, sched, queue, reader, chan, replies, answered>>
    BY <1>0 DEF WriteRequest, WriterGoesOn, AfterStep, AfterTimeout
  <1>4. writer'[c].msg = <<>> /\ \A d \in Conn : d # c => writer'[d] = writer[d]
    BY <1>2, <1>3
  <1>5. /\ hand \in Inside /\ left \in Inside /\ sent \in Inside
        /\ hand # left /\ hand # sent /\ left # sent
    BY InsideHas
  <1>6. /\ Held(hand) = TasksOf(writer[c].msg) /\ Held(left) = Elements(unflushed[c])
        /\ Held(sent) = Elements(wire[c])
    BY HeldIs
  <1>7. /\ Held(hand)' = TasksOf(writer'[c].msg) /\ Held(left)' = Elements(unflushed'[c])
        /\ Held(sent)' = Elements(wire'[c])
    BY HeldIsNext
  <1>8. Held(hand) = {t} /\ Held(hand)' = {} /\ Elements(<<>>) = {}
    BY <1>0, <1>1, <1>4, <1>6, <1>7, MessageOne
  <1>9. /\ Held(hand) \cap Held(left) = {} /\ Held(hand) \cap Held(sent) = {}
        /\ Held(left) \cap Held(sent) = {}
    BY <1>5 DEF Inv2, Disjoint, Inside
  <1>10. CASE (SendMayTimeOut \/ c \notin open) /\ wire' = wire /\ unflushed' = unflushed
    <2>1. ~ Faultless
      BY <1>0, <1>10 DEF Faultless, Inv2, AllUp
    <2> QED
      BY <1>3, <1>4, <1>10, <2>1, EmptiedLoses
  <1>11. CASE wire' = wire /\ unflushed' = [unflushed EXCEPT ![c] = Append(@, t)]
    <2>1. /\ unflushed'[c] = Append(unflushed[c], t)
          /\ \A d \in Conn : d # c => unflushed'[d] = unflushed[d]
      BY <1>2, <1>11
    <2>2. Held(left)' = Held(left) \cup {t} /\ NoRepeat(unflushed'[c])
      <3>1. t \notin Elements(unflushed[c])
        BY <1>6, <1>8, <1>9
      <3> QED
        BY <1>2, <1>6, <1>7, <2>1, <3>1, AppendHolds
    <2>3. \A x \in Spot \ {hand, left} : Held(x)' = Held(x)
      BY <1>3, <1>4, <1>11, <2>1, Unmoved
    <2>4. Passes
      <3> HIDE DEF hand, left, sent
      <3> QED
        BY <1>3, <1>5, <1>8, <2>2, <2>3, Carried
    <2> QED
      BY <1>3, <1>11, <2>1, <2>2, <2>4 DEF Inv2, Distinct
  <1>12. CASE wire' = [wire EXCEPT ![c] = Append(@, t)] /\ unflushed' = unflushed
    <2>1. /\ wire'[c] = Append(wire[c], t)
          /\ \A d \in Conn : d # c => wire'[d] = wire[d]
      BY <1>2, <1>12
    <2>2. Held(sent)' = Held(sent) \cup {t} /\ NoRepeat(wire'[c])
      <3>1. t \notin Elements(wire[c])
        BY <1>6, <1>8, <1>9
      <3> QED
        BY <1>2, <1>6, <1>7, <2>1, <3>1, AppendHolds
    <2>3. \A x \in Spot \ {hand, sent} : Held(x)' = Held(x)
      BY <1>3, <1>4, <1>12, <2>1, Unmoved
    <2>4. Passes
      <3> HIDE DEF hand, left, sent
      <3> QED
        BY <1>3, <1>5, <1>8, <2>2, <2>3, Carried
    <2> QED
      BY <1>3, <1>12, <2>1, <2>2, <2>4 DEF Inv2, Distinct
  <1>13. \/ (SendMayTimeOut \/ c \notin open) /\ wire' = wire /\ unflushed' = unflushed
         \/ wire' = wire /\ unflushed' = [unflushed EXCEPT ![c] = Append(@, t)]
         \/ wire' = [wire EXCEPT ![c] = Append(@, t)] /\ unflushed' = unflushed
    BY <1>1 DEF WriteRequest
  <1> QED
    BY <1>10, <1>11, <1>12, <1>13

LEMMA StepMoves ==
    ASSUME Inv2, [Next]_vars
    PROVE  (Starts \/ Passes \/ Ends \/ Loses) /\ Distinct'
  <1>1. CASE UNCHANGED vars
    <2>1. UNCHANGED <<issued, sched, queue, reader, chan, writer, unflushed, wire, replies,
                      answered>>
      BY <1>1 DEF vars
    <2>2. \A x \in Spot \ {} : Held(x)' = Held(x)
      BY <2>1, Unmoved
    <2> QED
      BY <2>1, <2>2, NothingCarried DEF Inv2, Distinct
  <1>2. ASSUME NEW p \in Scheduler, NEW t \in Task, Issue(p, t)
        PROVE  Starts /\ Distinct'
    BY <1>2, IssueMoves
  <1>3. ASSUME NEW p \in Scheduler, SchedulerStep(p)
        PROVE  Passes /\ Distinct'
    BY <1>3, LookMoves, SendToWorkerMoves, PushToQueueMoves DEF SchedulerStep
  <1>4. ASSUME NEW c \in Conn, ReaderStep(c)
        PROVE  (Passes \/ Ends \/ Loses) /\ Distinct'
    BY <1>4, ReadResponseMoves, TakeTaskMoves, SendTaskMoves, SetIdleMoves, DeliverMoves
    DEF ReaderStep
  <1>5. ASSUME NEW c \in Conn, WriterStep(c)
        PROVE  (Passes \/ Loses) /\ Distinct'
    BY <1>5, ReceiveMessageMoves, MarkBusyMoves, FlushOlderMoves, WriteRequestMoves,
       WriterExitMoves
    DEF WriterStep
  <1>6. ASSUME NEW c \in Conn, Register(c) \/ Exit(c) \/ Decrypt(c) \/ Break(c)
        PROVE  (Passes \/ Loses) /\ Distinct'
    BY <1>6, RegisterMoves, ExitMoves, DecryptMoves, DecryptLoses, BreakMoves
  <1>7. ASSUME NEW w \in Worker, Restart(w)
        PROVE  Passes /\ Distinct'
    BY <1>7, RestartMoves
  <1> QED
    BY <1>1, <1>2, <1>3, <1>4, <1>5, <1>6, <1>7 DEF Next

LEMMA TransferKeeps ==
    ASSUME Disjoint, HeldIssued, NEW T \in SUBSET issued', NEW dst \in Spot,
           Transfer(T, dst), issued \subseteq issued'
    PROVE  Disjoint' /\ HeldIssued'
  <1>1. ASSUME NEW x \in Spot, NEW y \in Spot, x # y
        PROVE  Held(x)' \cap Held(y)' = {}
    <2>1. Held(x) \cap Held(y) = {}
      BY <1>1 DEF Disjoint
    <2> QED
      BY <1>1, <2>1 DEF Transfer
  <1>2. ASSUME NEW x \in Spot PROVE Held(x)' \subseteq issued'
    <2>1. Held(x) \subseteq issued
      BY DEF HeldIssued
    <2> QED
      BY <2>1 DEF Transfer
  <1> QED
    BY <1>1, <1>2 DEF Disjoint, HeldIssued

LEMMA InitInv2 == Init => Inv2
  <1> SUFFICES ASSUME Init PROVE Inv2
    OBVIOUS
  <1>1. Inv1 /\ AllUp
    BY InitInv1, InitAllUp
  <1>2. ASSUME NEW x \in Spot PROVE Held(x) = {}
    <2>1. ASSUME NEW c \in Conn
          PROVE  /\ Held(<<"chan", c>>) = {} /\ Held(<<"hand", c>>) = {}
                 /\ Held(<<"unflushed", c>>) = {} /\ Held(<<"wire", c>>) = {}
                 /\ Held(<<"replies", c>>) = {} /\ Held(<<"task", c>>) = {}
                 /\ Held(<<"resp", c>>) = {}
      BY HeldIs, EmptyHolds DEF Init
    <2>2. ASSUME NEW p \in Scheduler PROVE Held(<<"scheduler", p>>) = {}
      BY HeldIs DEF Init, Dispatched
    <2>3. Held(<<"queue", "pool">>) = {} /\ Held(<<"answered", "pool">>) = {}
      BY HeldIs DEF Init
    <2> QED
      BY <2>1, <2>2, <2>3, SpotIs
  <1>3. Distinct
    BY EmptyHolds DEF Init, Distinct
  <1> QED
    BY <1>1, <1>2, <1>3 DEF Inv2, Disjoint, HeldIssued

LEMMA NextInv2 == Inv2 /\ [Next]_vars => Inv2'
  <1> SUFFICES ASSUME Inv2, [Next]_vars PROVE Inv2'
    OBVIOUS
  <1>1. Inv1' /\ AllUp' /\ Distinct'
    BY NextInv1, NextAllUp, StepMoves DEF Inv2
  <1>2. CASE Starts
    <2>1. PICK t \in Task \ issued, dst \in Inside :
            issued' = issued \cup {t} /\ Transfer({t}, dst)
      BY <1>2 DEF Starts
    <2> QED
      BY <1>1, <2>1, TransferKeeps DEF Inv2, Inside
  <1>3. CASE Passes
    <2>1. PICK T \in SUBSET issued, dst \in Inside : Transfer(T, dst) /\ issued' = issued
      BY <1>3 DEF Passes
    <2> QED
      BY <1>1, <2>1, TransferKeeps DEF Inv2, Inside
  <1>4. CASE Ends
    <2>1. PICK x \in Inside : \E t \in Held(x) : Transfer({t}, AnsweredSpot) /\ issued' = issued
      BY <1>4 DEF Ends
    <2>2. PICK t \in Held(x) : Transfer({t}, AnsweredSpot) /\ issued' = issued
      BY <2>1
    <2>3. t \in issued /\ AnsweredSpot \in Spot
      BY <2>1, SpotHas DEF Inv2, HeldIssued, Inside, AnsweredSpot
    <2> QED
      BY <1>1, <2>2, <2>3, TransferKeeps DEF Inv2
  <1>5. CASE Loses
    BY <1>1, <1>5 DEF Inv2, Loses, Disjoint, HeldIssued
  <1> QED
    BY <1>2, <1>3, <1>4, <1>5, StepMoves

\* The inductive invariant: types, hands and names, and every task in at most
\* one spot of the pool.
THEOREM Invariant == Spec => []Inv2
  BY InitInv2, NextInv2, PTL DEF Spec

----------------------------------------------------------------------------
(* What follows from it.                                                   *)

\* Each variable of the pool has its type; the reader and the writer of every
\* connection have in hand what their place in the code says, and the
\* scheduler that waits for room in a channel waits for a registered worker.
THEOREM TypeCorrect == Spec => []TypeOK
  <1>1. Inv2 => TypeOK
    BY DEF Inv2, Inv1
  <1> QED
    BY <1>1, Invariant, PTL

\* The workers map never leads to a writer that has ended, so that the error
\* branch of the dispatch loop's router.send is never taken.
THEOREM EntriesAreLive == Spec => []EntryIsLive
  <1>1. Inv2 => EntryIsLive
    BY DEF Inv2, Inv1
  <1> QED
    BY <1>1, Invariant, PTL

LEMMA AtMostOne ==
    ASSUME NEW n \in Nat, NEW S \in SUBSET (1 .. n), \A i, j \in S : i = j
    PROVE  Cardinality(S) = IF S = {} THEN 0 ELSE 1
  <1>1. CASE S = {}
    BY <1>1, FS_EmptySet
  <1>2. CASE S # {}
    <2>1. PICK i \in S : S = {i}
      BY <1>2
    <2> QED
      BY <1>2, <2>1, FS_Singleton
  <1> QED
    BY <1>1, <1>2

LEMMA OccurrencesIs ==
    ASSUME NEW s \in Seq(Task), NoRepeat(s), NEW t \in Task
    PROVE  Occurrences(s, t) = In(t, Elements(s))
  <1> DEFINE S == {i \in 1 .. Len(s) : s[i] = t}
  <1>1. Len(s) \in Nat /\ S \in SUBSET (1 .. Len(s)) /\ \A i, j \in S : i = j
    BY LenProperties DEF NoRepeat
  <1>2. S = {} <=> t \notin Elements(s)
    BY DEF Elements
  <1>3. Occurrences(s, t) = Cardinality(S)
    BY DEF Occurrences
  <1> HIDE DEF S
  <1> QED
    BY <1>1, <1>2, <1>3, AtMostOne DEF In

LEMMA InChannelIs ==
    ASSUME NEW s \in Seq(ServerMessage), NoRepeatTask(s), NEW t \in Task
    PROVE  InChannel(s, t) = In(t, TasksOf(s))
  <1> DEFINE S == {i \in 1 .. Len(s) : s[i].task = t}
  <1>1. Len(s) \in Nat /\ S \in SUBSET (1 .. Len(s)) /\ \A i, j \in S : i = j
    BY LenProperties DEF NoRepeatTask
  <1>2. S = {} <=> t \notin TasksOf(s)
    BY DEF TasksOf
  <1>3. InChannel(s, t) = Cardinality(S)
    BY DEF InChannel
  <1> HIDE DEF S
  <1> QED
    BY <1>1, <1>2, <1>3, AtMostOne DEF In

AtConn(c) == {<<"chan", c>>, <<"hand", c>>, <<"unflushed", c>>, <<"wire", c>>,
              <<"replies", c>>, <<"task", c>>, <<"resp", c>>}

\* The copies on a connection are the spots of the connection that hold it.
LEMMA CopiesAre ==
    ASSUME Inv2, NEW c \in Conn, NEW t \in Task
    PROVE  /\ CopiesAt(c, t) \in {0, 1}
           /\ CopiesAt(c, t) > 0 <=> \E x \in AtConn(c) : t \in Held(x)
  <1> DEFINE n1 == In(t, Held(<<"chan", c>>))
             n2 == In(t, Held(<<"hand", c>>))
             n3 == In(t, Held(<<"unflushed", c>>))
             n4 == In(t, Held(<<"wire", c>>))
             n5 == In(t, Held(<<"replies", c>>))
             n6 == In(t, Held(<<"task", c>>))
             n7 == In(t, Held(<<"resp", c>>))
  <1>1. /\ chan[c] \in Seq(ServerMessage) /\ writer[c].msg \in Seq(ServerMessage)
        /\ unflushed[c] \in Seq(Task) /\ wire[c] \in Seq(Task) /\ replies[c] \in Seq(Task)
        /\ NoRepeatTask(chan[c]) /\ NoRepeat(unflushed[c]) /\ NoRepeat(wire[c])
        /\ NoRepeat(replies[c]) /\ Len(writer[c].msg) <= 1
    BY DEF Inv2, Inv1, TypeOK, WriterState, Distinct
  <1>2. NoRepeatTask(writer[c].msg)
    BY <1>1 DEF NoRepeatTask
  <1>3. CopiesAt(c, t) = n1 + n2 + n3 + n4 + n5 + n6 + n7
    <2>1. InChannel(chan[c], t) = n1 /\ InChannel(writer[c].msg, t) = n2
      BY <1>1, <1>2, InChannelIs, HeldIs
    <2>2. /\ Occurrences(unflushed[c], t) = n3 /\ Occurrences(wire[c], t) = n4
          /\ Occurrences(replies[c], t) = n5
      BY <1>1, OccurrencesIs, HeldIs
    <2>3. In(t, reader[c].task) = n6 /\ In(t, reader[c].resp) = n7
      BY HeldIs
    <2> QED
      BY <2>1, <2>2, <2>3 DEF CopiesAt
  <1>4. ASSUME NEW x \in AtConn(c), NEW y \in AtConn(c), t \in Held(x), t \in Held(y)
        PROVE  x = y
    <2>1. x \in Spot /\ y \in Spot
      BY SpotHas DEF AtConn
    <2> QED
      BY <1>4, <2>1 DEF Inv2, Disjoint
  <1>5. /\ n1 = 1 <=> t \in Held(<<"chan", c>>)
        /\ n2 = 1 <=> t \in Held(<<"hand", c>>)
        /\ n3 = 1 <=> t \in Held(<<"unflushed", c>>)
        /\ n4 = 1 <=> t \in Held(<<"wire", c>>)
        /\ n5 = 1 <=> t \in Held(<<"replies", c>>)
        /\ n6 = 1 <=> t \in Held(<<"task", c>>)
        /\ n7 = 1 <=> t \in Held(<<"resp", c>>)
        /\ {n1, n2, n3, n4, n5, n6, n7} \subseteq {0, 1}
    BY DEF In
  <1>6. (\E x \in AtConn(c) : t \in Held(x))
           <=> n1 = 1 \/ n2 = 1 \/ n3 = 1 \/ n4 = 1 \/ n5 = 1 \/ n6 = 1 \/ n7 = 1
    BY <1>5 DEF AtConn
  <1>7. /\ n1 = 1 => n2 # 1 /\ n3 # 1 /\ n4 # 1 /\ n5 # 1 /\ n6 # 1 /\ n7 # 1
        /\ n2 = 1 => n3 # 1 /\ n4 # 1 /\ n5 # 1 /\ n6 # 1 /\ n7 # 1
        /\ n3 = 1 => n4 # 1 /\ n5 # 1 /\ n6 # 1 /\ n7 # 1
        /\ n4 = 1 => n5 # 1 /\ n6 # 1 /\ n7 # 1
        /\ n5 = 1 => n6 # 1 /\ n7 # 1
        /\ n6 = 1 => n7 # 1
    <2>1. \A x, y \in AtConn(c) : x # y => ~ (t \in Held(x) /\ t \in Held(y))
      BY <1>4
    <2> HIDE DEF n1, n2, n3, n4, n5, n6, n7
    <2> QED
      BY <1>5, <2>1 DEF AtConn
  <1> HIDE DEF n1, n2, n3, n4, n5, n6, n7
  <1>8. CopiesAt(c, t) \in {0, 1}
        /\ (CopiesAt(c, t) > 0 <=>
              n1 = 1 \/ n2 = 1 \/ n3 = 1 \/ n4 = 1 \/ n5 = 1 \/ n6 = 1 \/ n7 = 1)
    BY <1>3, <1>5, <1>7
  <1> QED
    BY <1>6, <1>8

\* The places of a task are the spots that hold it.
LEMMA PlacesAre ==
    ASSUME Inv2, NEW t \in Task
    PROVE  /\ Places(t) # {} <=> \E x \in Inside : t \in Held(x)
           /\ \E y : Places(t) \subseteq {y}
  <1>1. ASSUME NEW pl \in Places(t)
        PROVE  \E x \in Inside : /\ t \in Held(x)
                                 /\ \/ \E c \in Conn : pl = <<"connection", c>> /\ x \in AtConn(c)
                                    \/ \E p \in Scheduler : pl = x /\ x = <<"scheduler", p>>
                                    \/ pl = <<"queue">> /\ x = <<"queue", "pool">>
    <2>1. CASE \E c \in Conn : pl = <<"connection", c>> /\ CopiesAt(c, t) > 0
      <3>1. PICK c \in Conn : pl = <<"connection", c>> /\ CopiesAt(c, t) > 0
        BY <2>1
      <3>2. PICK x \in AtConn(c) : t \in Held(x)
        BY <3>1, CopiesAre
      <3> QED
        BY <3>1, <3>2, InsideHas DEF AtConn
    <2>2. CASE \E p \in Scheduler : pl = <<"scheduler", p>> /\ t \in sched[p].task
      BY <2>2, InsideHas, HeldIs
    <2>3. CASE pl = <<"queue">> /\ t \in queue
      BY <2>3, InsideHas, HeldIs
    <2> QED
      BY <2>1, <2>2, <2>3 DEF Places
  <1>2. ASSUME NEW x \in Inside, t \in Held(x)
        PROVE  Places(t) # {}
    <2>1. CASE \E c \in Conn : x \in AtConn(c)
      <3>1. PICK c \in Conn : CopiesAt(c, t) > 0
        BY <1>2, <2>1, CopiesAre
      <3> QED
        BY <3>1 DEF Places
    <2>2. CASE \E p \in Scheduler : x = <<"scheduler", p>>
      BY <1>2, <2>2, HeldIs DEF Places
    <2>3. CASE x = <<"queue", "pool">>
      BY <1>2, <2>3, HeldIs DEF Places
    <2> QED
      BY <2>1, <2>2, <2>3, SpotIs DEF AtConn, Inside, AnsweredSpot
  <1>3. \A x, y \in Inside : t \in Held(x) /\ t \in Held(y) => x = y
    BY DEF Inv2, Disjoint, Inside
  <1>4. ASSUME NEW pl \in Places(t), NEW pk \in Places(t) PROVE pl = pk
    <2>1. PICK x \in Inside : /\ t \in Held(x)
                              /\ \/ \E c \in Conn : pl = <<"connection", c>> /\ x \in AtConn(c)
                                 \/ \E p \in Scheduler : pl = x /\ x = <<"scheduler", p>>
                                 \/ pl = <<"queue">> /\ x = <<"queue", "pool">>
      BY <1>1
    <2>2. PICK y \in Inside : /\ t \in Held(y)
                              /\ \/ \E c \in Conn : pk = <<"connection", c>> /\ y \in AtConn(c)
                                 \/ \E p \in Scheduler : pk = y /\ y = <<"scheduler", p>>
                                 \/ pk = <<"queue">> /\ y = <<"queue", "pool">>
      BY <1>1
    <2>3. x = y
      BY <1>3, <2>1, <2>2
    <2>4. \A c \in Conn : x \in AtConn(c) => x[2] = c /\ x[1] \notin {"scheduler", "queue"}
      BY DEF AtConn
    <2> QED
      BY <2>1, <2>2, <2>3, <2>4
  <1> QED
    BY <1>1, <1>2, <1>4

\* A task is in one place at a time, however connections break, sends time out
\* and workers restart, and an answered task is in none.
THEOREM InOnePlace == Spec => []OnePlace
  <1>1. ASSUME Inv2 PROVE OnePlace
    <2>1. ASSUME NEW t \in Task PROVE Cardinality(Places(t)) <= 1
      <3>1. PICK y : Places(t) \subseteq {y}
        BY <1>1, PlacesAre
      <3>2. Places(t) = {} \/ Places(t) = {y}
        BY <3>1
      <3>3. Cardinality({}) = 0 /\ Cardinality({y}) = 1
        BY FS_EmptySet, FS_Singleton
      <3> QED
        BY <3>2, <3>3
    <2>2. ASSUME NEW t \in Task, t \in answered PROVE Places(t) = {}
      <3>1. t \in Held(AnsweredSpot) /\ AnsweredSpot \in Spot
        BY <2>2, HeldIs, SpotHas DEF AnsweredSpot
      <3>2. \A x \in Inside : t \notin Held(x)
        BY <1>1, <3>1 DEF Inv2, Disjoint, Inside
      <3> QED
        BY <1>1, <3>2, PlacesAre
    <2>3. ASSUME NEW t \in Task, NEW c \in Conn PROVE CopiesAt(c, t) <= 1
      <3>1. CopiesAt(c, t) \in {0, 1}
        BY <1>1, CopiesAre
      <3> QED
        BY <3>1
    <2> QED
      BY <2>1, <2>2, <2>3 DEF OnePlace
  <1> QED
    BY <1>1, Invariant, PTL

----------------------------------------------------------------------------
(* The pool implements TaskPool.                                           *)

\* What is in the pool is what the spots hold.
PoolIsHeld == /\ InPool \subseteq Task
              /\ \A t \in Task : t \in InPool <=> \E x \in Inside : t \in Held(x)

LEMMA InPoolIs == Inv2 => PoolIsHeld
  BY PlacesAre DEF InPool, PoolIsHeld

LEMMA InsideIssued ==
    ASSUME Inv2, NEW x \in Inside
    PROVE  /\ Held(x) \subseteq issued /\ Held(x) \subseteq Task
           /\ Held(x) \cap answered = {}
  <1>1. x \in Spot /\ x # AnsweredSpot /\ AnsweredSpot \in Spot /\ Held(AnsweredSpot) = answered
    BY HeldIs, SpotHas DEF Inside, AnsweredSpot
  <1> QED
    BY <1>1 DEF Inv2, Inv1, TypeOK, HeldIssued, Disjoint

LEMMA InitIsPoolInit == Init => Pool!Init
  <1> SUFFICES ASSUME Init PROVE Pool!Init
    OBVIOUS
  <1>1. issued = {} /\ answered = {} /\ Inv2
    BY InitInv2 DEF Init
  <1>2. InPool = {}
    BY <1>1, InPoolIs, InsideIssued DEF PoolIsHeld
  <1> QED
    BY <1>1, <1>2 DEF Pool!Init

LEMMA NextIsPoolNext ==
    ASSUME Inv2, PoolIsHeld, PoolIsHeld', [Next]_vars
    PROVE  [Pool!Next]_<<InPool, answered>>
  <1>0. /\ InPool \subseteq Task /\ InPool' \subseteq Task
        /\ \A t \in Task : t \in InPool <=> \E x \in Inside : t \in Held(x)
        /\ \A t \in Task : t \in InPool' <=> \E x \in Inside : t \in Held(x)'
    BY DEF PoolIsHeld
  <1>1. CASE Starts
    <2>1. PICK t \in Task \ issued, dst \in Inside : Transfer({t}, dst) /\ answered' = answered
      BY <1>1 DEF Starts
    <2>2. t \notin InPool /\ t \notin answered
      <3>1. answered \subseteq issued
        BY HeldIs, SpotHas DEF Inv2, HeldIssued
      <3>2. \A x \in Inside : Held(x) \subseteq issued
        BY InsideIssued
      <3> QED
        BY <1>0, <2>1, <3>1, <3>2
    <2>3. InPool' = InPool \cup {t}
      BY <1>0, <2>1 DEF Transfer, Inside
    <2>4. Pool!HandOver(t)
      BY <2>1, <2>2, <2>3 DEF Pool!HandOver
    <2> QED
      BY <2>1, <2>4 DEF Pool!Next
  <1>2. CASE Passes
    <2>1. PICK T \in SUBSET issued, dst \in Inside :
            /\ \A t \in T : \E x \in Inside : t \in Held(x)
            /\ Transfer(T, dst) /\ answered' = answered
      BY <1>2 DEF Passes
    <2>2. \A t : (\E x \in Inside : t \in Held(x)) <=> (\E x \in Inside : t \in Held(x)')
      BY <2>1 DEF Transfer, Inside
    <2> QED
      BY <1>0, <2>1, <2>2
  <1>3. CASE Ends
    <2>1. PICK x \in Inside : \E t \in Held(x) : Transfer({t}, AnsweredSpot)
      BY <1>3 DEF Ends
    <2>2. PICK t \in Held(x) : Transfer({t}, AnsweredSpot)
      BY <2>1
    <2>3. t \in Task /\ t \in InPool
      BY <1>0, <2>1, <2>2, InsideIssued
    <2>4. answered' = answered \cup {t}
      BY <2>2, HeldIs, HeldIsNext DEF Transfer, AnsweredSpot
    <2>5. InPool' = InPool \ {t}
      BY <1>0, <2>2 DEF Transfer, Inside
    <2>6. Pool!Answer(t)
      BY <2>3, <2>4, <2>5 DEF Pool!Answer
    <2> QED
      BY <2>3, <2>6 DEF Pool!Next
  <1>4. CASE Loses
    <2>1. InPool' \subseteq InPool /\ answered' = answered
      BY <1>0, <1>4 DEF Loses, Inside
    <2> DEFINE ts == InPool \ InPool'
    <2>2. CASE ts = {}
      BY <2>1, <2>2
    <2>3. CASE ts # {}
      <3>1. Pool!Lose(ts) /\ ts \in SUBSET InPool
        BY <2>1, <2>3 DEF Pool!Lose
      <3> QED
        BY <3>1 DEF Pool!Next
    <2> QED
      BY <2>2, <2>3
  <1> QED
    BY <1>1, <1>2, <1>3, <1>4, StepMoves

\* The contract that ScanManager relies on: whatever the queue, the channels,
\* the timeouts and the connections do, a task that scheduling_tasks was given
\* comes back to update_account at most once, or it is lost.
THEOREM PoolIsTaskPool == Spec => PoolContract
  <1>1. Inv2 /\ PoolIsHeld /\ PoolIsHeld' /\ [Next]_vars
        => [Pool!Next]_<<InPool, answered>>
    BY NextIsPoolNext
  <1> QED
    BY <1>1, InitIsPoolInit, InPoolIs, Invariant, PTL DEF Spec, PoolContract, Pool!Spec

----------------------------------------------------------------------------
(* Without faults nothing is lost, and a busy worker has work.             *)

LEMMA NextAllHeld ==
    ASSUME Inv2, AllHeld, [Next]_vars
    PROVE  AllHeld'
  <1> SUFFICES ASSUME Faultless, NEW t \in issued'
               PROVE  \E x \in Spot : t \in Held(x)'
    BY DEF AllHeld, Faultless
  <1>1. ASSUME NEW T, NEW dst \in Spot, Transfer(T, dst), t \in issued \cup T
        PROVE  \E x \in Spot : t \in Held(x)'
    <2>1. CASE t \in T
      BY <1>1, <2>1 DEF Transfer
    <2>2. CASE t \notin T
      <3>1. PICK x \in Spot : t \in Held(x)
        BY <1>1, <2>2 DEF AllHeld
      <3> QED
        BY <1>1, <2>2, <3>1 DEF Transfer
    <2> QED
      BY <2>1, <2>2
  <1>2. CASE Starts
    <2>1. PICK u \in Task \ issued, dst \in Inside :
            issued' = issued \cup {u} /\ Transfer({u}, dst)
      BY <1>2 DEF Starts
    <2> QED
      BY <1>1, <2>1 DEF Inside
  <1>3. CASE Passes
    <2>1. PICK T \in SUBSET issued, dst \in Inside : Transfer(T, dst) /\ issued' = issued
      BY <1>3 DEF Passes
    <2> QED
      BY <1>1, <2>1 DEF Inside
  <1>4. CASE Ends
    <2>1. PICK u : Transfer({u}, AnsweredSpot) /\ issued' = issued
      BY <1>4 DEF Ends
    <2>2. AnsweredSpot \in Spot
      BY SpotHas DEF AnsweredSpot
    <2> QED
      BY <1>1, <2>1, <2>2
  <1>5. ~ Loses
    BY DEF Loses
  <1> QED
    BY <1>2, <1>3, <1>4, <1>5, StepMoves

LEMMA InitAllHeld == Init => AllHeld
  BY DEF Init, AllHeld

\* As long as no connection breaks and no send times out, every task that was
\* handed over and not answered is somewhere on its way.
THEOREM NoTaskLost ==
    ASSUME Faultless
    PROVE  Spec => []NothingLost
  <1>1. ASSUME Inv2, AllHeld PROVE NothingLost
    <2>1. ASSUME NEW t \in issued \ answered PROVE Places(t) # {}
      <3>1. PICK x \in Spot : t \in Held(x)
        BY <1>1, <2>1 DEF AllHeld
      <3>2. x # AnsweredSpot
        BY <2>1, <3>1, HeldIs DEF AnsweredSpot
      <3>3. t \in Task /\ x \in Inside
        BY <1>1, <2>1, <3>2 DEF Inv2, Inv1, TypeOK, Inside
      <3> QED
        BY <1>1, <3>1, <3>3, PlacesAre
    <2> QED
      BY <2>1 DEF NothingLost
  <1>2. Inv2 /\ AllHeld /\ [Next]_vars => AllHeld'
    BY NextAllHeld
  <1> QED
    BY <1>1, <1>2, Invariant, InitAllHeld, PTL DEF Spec

LEMMA InitBusyInFlight == Init => BusyInFlight
  BY DEF Init, BusyInFlight, NoEntry, Busy

LEMMA BusyNow ==
    ASSUME BusyInFlight, Inv1, Faultless, NEW w \in Worker, workers[w].status = Busy
    PROVE  \E c \in Conn : /\ c = workers[w].conn /\ Owner[c] = w /\ reader[c].pc # "new"
                           /\ Working(c)
  <1>1. workers[w] \in Entry /\ Registered(w)
    BY DEF Inv1, TypeOK, NoEntry, Busy, Registered
  <1> QED
    BY <1>1 DEF Entry, Inv1, NamesOK, BusyInFlight

LEMMA BusyNext ==
    ASSUME Faultless =>
             \A w \in Worker : workers'[w].status = Busy =>
                \E c \in Conn : c = workers'[w].conn /\ Working(c)'
    PROVE  BusyInFlight'
  BY DEF BusyInFlight, Faultless, Working, InFlight

\* If no entry changes and no connection loses its work.
LEMMA KeepsBusy ==
    ASSUME BusyInFlight, Inv1, UNCHANGED workers,
           \A d \in Conn : Faultless /\ reader[d].pc # "new" /\ Working(d) => Working(d)'
    PROVE  BusyInFlight'
  BY BusyNow, BusyNext

LEMMA SchedulerBusy ==
    ASSUME Inv1, AllUp, BusyInFlight, NEW p \in Scheduler,
           SchedulerStep(p) \/ \E t \in Task : Issue(p, t)
    PROVE  BusyInFlight'
  <1>1. UNCHANGED <<workers, reader, writer, wire, replies>>
    BY DEF SchedulerStep, Issue, Look, SendToWorker, PushToQueue
  <1>2. ASSUME NEW d \in Conn, chan[d] # <<>> PROVE chan'[d] # <<>>
    <2>1. CASE chan' = chan
      BY <1>2, <2>1
    <2>2. CASE SendToWorker(p) /\ chan' # chan
      <3>1. PICK c \in Conn : \E m : chan' = [chan EXCEPT ![c] = Append(@, m)]
        BY <2>2, SendTarget DEF SendToWorker
      <3>2. PICK m : chan' = [chan EXCEPT ![c] = Append(@, m)]
        BY <3>1
      <3>3. chan \in [Conn -> Seq(ServerMessage)]
        BY DEF Inv1, TypeOK
      <3> QED
        BY <1>2, <3>2, <3>3
    <2> QED
      BY <2>1, <2>2 DEF SchedulerStep, Issue, Look, PushToQueue
  <1> QED
    BY <1>1, <1>2, KeepsBusy DEF Working, InFlight

LEMMA RegisterBusy ==
    ASSUME Inv1, BusyInFlight, NEW c \in Conn, Register(c)
    PROVE  BusyInFlight'
  <1>1. /\ workers \in [Worker -> Entry \cup {NoEntry}] /\ reader \in [Conn -> ReaderState]
        /\ workers' = [workers EXCEPT ![Owner[c]] = [conn |-> c, status |-> Idle]]
        /\ \A d \in Conn \ {c} : reader'[d].pc = reader[d].pc
        /\ reader[c].pc = "new" /\ UNCHANGED <<chan, writer, wire, replies>>
        /\ Owner \in [Conn -> Worker]
    BY PoolAssumption DEF Register, Inv1, TypeOK, ReaderState
  <1> SUFFICES ASSUME Faultless, NEW w \in Worker, workers'[w].status = Busy
               PROVE  \E d \in Conn : d = workers'[w].conn /\ Working(d)'
    BY BusyNext
  <1>2. w # Owner[c] /\ workers'[w] = workers[w]
    BY <1>1 DEF Idle, Busy
  <1>3. PICK d \in Conn : /\ d = workers[w].conn /\ Owner[d] = w /\ reader[d].pc # "new"
                         /\ Working(d)
    BY <1>2, BusyNow
  <1>4. d # c
    BY <1>1, <1>3
  <1> QED
    BY <1>1, <1>2, <1>3, <1>4 DEF Working, InFlight

LEMMA ReaderBusy ==
    ASSUME Inv1, AllUp, BusyInFlight, NEW c \in Conn, ReaderStep(c) \/ Exit(c)
    PROVE  BusyInFlight'
  <1> SUFFICES ASSUME Faultless PROVE BusyInFlight'
    BY DEF BusyInFlight, Faultless
  <1>1. /\ ~ Exit(c) /\ ReaderStep(c) /\ UNCHANGED writer
        /\ reader[c].pc # "new" /\ Registered(Owner[c]) /\ writer[c].pc # "dead"
        /\ workers[Owner[c]].conn = c
    <2>1. ~ Exit(c) /\ ReaderStep(c)
      BY DEF Exit, Faultless
    <2>2. reader[c].pc # "new" /\ UNCHANGED writer
      BY <2>1 DEF ReaderStep, ReadResponse, TakeTask, SendTask, SetIdle, Deliver
    <2> QED
      BY <2>1, <2>2, UpIsRegistered DEF AllUp
  <1>2. /\ reader \in [Conn -> ReaderState] /\ workers \in [Worker -> Entry \cup {NoEntry}]
        /\ chan \in [Conn -> Seq(ServerMessage)] /\ replies \in [Conn -> Seq(Task)]
        /\ Owner \in [Conn -> Worker]
    BY PoolAssumption DEF Inv1, TypeOK
  <1>3. CASE ReadResponse(c)
    <2>1. /\ UNCHANGED <<workers, chan, writer, wire>> /\ reader'[c].pc = "takeNext"
          /\ \A d \in Conn \ {c} : reader'[d] = reader[d] /\ replies'[d] = replies[d]
      BY <1>2, <1>3 DEF ReadResponse, ReaderState
    <2> QED
      BY <2>1, KeepsBusy DEF Working, InFlight
  <1>4. CASE TakeTask(c)
    <2>1. /\ UNCHANGED <<workers, chan, writer, wire, replies>>
          /\ reader[c].pc \in {"takeFirst", "takeNext"}
          /\ reader[c].pc = "takeNext" => reader'[c].pc \in {"sendNext", "setIdle"}
          /\ \A d \in Conn \ {c} : reader'[d] = reader[d]
      BY <1>2, <1>4 DEF TakeTask, OnEmptyQueue, ReaderState
    <2> QED
      BY <2>1, KeepsBusy DEF Working, InFlight
  <1>5. CASE SendTask(c)
    <2>0. PICK t \in Task : chan' = [chan EXCEPT ![c] =
                                Append(@, [name |-> NameToMark(c), task |-> t])]
      BY <1>1, <1>2, <1>5 DEF SendTask, ReaderState
    <2>1. PICK m \in ServerMessage : chan' = [chan EXCEPT ![c] = Append(@, m)]
      <3>1. [name |-> NameToMark(c), task |-> t] \in ServerMessage
        BY PoolAssumption DEF NameToMark, ServerMessage
      <3> QED
        BY <2>0, <3>1
    <2>3. chan'[c] # <<>> /\ \A d \in Conn \ {c} : chan'[d] = chan[d]
      BY <1>2, <2>1
    <2>2. /\ UNCHANGED <<workers, writer, wire, replies>> /\ chan'[c] # <<>>
          /\ \A d \in Conn \ {c} : reader'[d] = reader[d] /\ chan'[d] = chan[d]
      BY <1>1, <1>2, <1>5, <2>3 DEF SendTask, ReaderState
    <2> QED
      BY <2>2, KeepsBusy DEF Working, InFlight
  <1>6. CASE SetIdle(c)
    <2>1. /\ workers' = [workers EXCEPT ![Owner[c]].status = Idle]
          /\ reader' = [reader EXCEPT ![c].pc = "deliver"]
          /\ UNCHANGED <<chan, writer, wire, replies>>
      BY <1>1, <1>6 DEF SetIdle
    <2>2. ASSUME NEW w \in Worker, workers'[w].status = Busy
          PROVE  \E d \in Conn : d = workers'[w].conn /\ Working(d)'
      <3>1. workers[Owner[c]] \in Entry
        BY <1>1, <1>2 DEF Registered
      <3>2. w # Owner[c] /\ workers'[w] = workers[w]
        BY <1>2, <2>1, <2>2, <3>1 DEF Entry, Idle, Busy
      <3>3. PICK d \in Conn : d = workers[w].conn /\ Owner[d] = w /\ Working(d)
        BY <2>2, <3>2, BusyNow
      <3>4. d # c
        BY <3>2, <3>3
      <3> QED
        BY <1>2, <2>1, <3>2, <3>3, <3>4 DEF Working, InFlight
    <2> QED
      BY <2>2, BusyNext
  <1>7. CASE Deliver(c)
    <2>1. /\ UNCHANGED <<workers, chan, writer, wire, replies>> /\ reader[c].pc = "deliver"
          /\ \A d \in Conn \ {c} : reader'[d] = reader[d]
      BY <1>2, <1>7 DEF Deliver, ReaderState
    <2> QED
      BY <2>1, KeepsBusy DEF Working, InFlight
  <1> QED
    BY <1>1, <1>3, <1>4, <1>5, <1>6, <1>7 DEF ReaderStep

LEMMA WriterBusy ==
    ASSUME Inv1, AllUp, BusyInFlight, NEW c \in Conn, WriterStep(c)
    PROVE  BusyInFlight'
  <1> SUFFICES ASSUME Faultless PROVE BusyInFlight'
    BY DEF BusyInFlight, Faultless
  <1>1. /\ writer \in [Conn -> WriterState] /\ workers \in [Worker -> Entry \cup {NoEntry}]
        /\ chan \in [Conn -> Seq(ServerMessage)] /\ wire \in [Conn -> Seq(Task)]
        /\ unflushed \in [Conn -> Seq(Task)] /\ Owner \in [Conn -> Worker]
    BY PoolAssumption DEF Inv1, TypeOK
  <1>2. CASE ReceiveMessage(c)
    <2>1. /\ UNCHANGED <<workers, reader, wire, replies>> /\ writer'[c].msg # <<>>
          /\ \A d \in Conn \ {c} : writer'[d] = writer[d] /\ chan'[d] = chan[d]
      BY <1>1, <1>2 DEF ReceiveMessage, WriterGoesOn, AfterStep
    <2> QED
      BY <2>1, KeepsBusy DEF Working, InFlight
  <1>3. CASE MarkBusy(c)
    <2>1. /\ writer[c].msg[1].name = Owner[c] /\ Registered(Owner[c])
          /\ writer[c].msg = <<writer[c].msg[1]>> /\ writer[c].pc = "mark"
          /\ workers[Owner[c]].conn = c
      BY <1>3, MessageInHand, UpIsRegistered DEF MarkBusy, AllUp
    <2>2. /\ workers' = [workers EXCEPT ![Owner[c]].status = Busy]
          /\ writer' = [writer EXCEPT ![c] = [pc |-> "write", msg |-> <<writer[c].msg[1]>>]]
          /\ UNCHANGED <<reader, chan, wire, replies>>
      BY <1>3, <2>1 DEF MarkBusy, WriterGoesOn, AfterStep
    <2>3. \A d \in Conn : writer'[d].msg = writer[d].msg
      BY <1>1, <2>1, <2>2
    <2>4. ASSUME NEW w \in Worker, workers'[w].status = Busy
          PROVE  \E d \in Conn : d = workers'[w].conn /\ Working(d)'
      <3>1. workers[Owner[c]] \in Entry
        BY <1>1, <2>1 DEF Registered
      <3>2. CASE w = Owner[c]
        <4>1. workers'[w].conn = c /\ writer'[c].msg # <<>>
          BY <1>1, <2>1, <2>2, <3>1, <3>2 DEF Entry
        <4> QED
          BY <4>1 DEF Working, InFlight
      <3>3. CASE w # Owner[c]
        <4>1. workers'[w] = workers[w]
          BY <1>1, <2>2, <3>3
        <4>2. PICK d \in Conn : d = workers[w].conn /\ Working(d)
          BY <2>4, <4>1, BusyNow
        <4> QED
          BY <2>2, <2>3, <4>1, <4>2 DEF Working, InFlight
      <3> QED
        BY <3>2, <3>3
    <2> QED
      BY <2>4, BusyNext
  <1>4. CASE WriteRequest(c)
    <2>1. reader[c].pc # "new" /\ c \in open /\ ~ SendMayTimeOut
      BY <1>4, MessageInHand DEF WriteRequest, AllUp, Faultless
    <2>0. writer[c].msg[1].task \in Task
      BY <1>4, MessageInHand DEF WriteRequest, ServerMessage
    <2>2. PICK t \in Task : wire' = [wire EXCEPT ![c] = Append(@, t)]
      BY <1>4, <2>0, <2>1 DEF WriteRequest
    <2>3. wire'[c] # <<>>
      <3>1. wire'[c] = Append(wire[c], t) /\ wire[c] \in Seq(Task)
        BY <1>1, <2>2
      <3> QED
        BY <3>1
    <2>4. /\ UNCHANGED <<workers, reader, chan, replies>>
          /\ \A d \in Conn \ {c} : writer'[d] = writer[d] /\ wire'[d] = wire[d]
      BY <1>1, <1>4, <2>1, <2>2 DEF WriteRequest, WriterGoesOn
    <2> QED
      BY <2>3, <2>4, KeepsBusy DEF Working, InFlight
  <1>5. ~ WriterExit(c) /\ ~ FlushOlder(c)
    BY DEF WriterExit, FlushOlder, AllUp
  <1> QED
    BY <1>2, <1>3, <1>4, <1>5 DEF WriterStep

LEMMA NextBusyInFlight == Inv2 /\ BusyInFlight /\ [Next]_vars => BusyInFlight'
  <1> SUFFICES ASSUME Inv2, BusyInFlight, [Next]_vars PROVE BusyInFlight'
    OBVIOUS
  <1>1. CASE UNCHANGED vars
    BY <1>1, KeepsBusy DEF Inv2, vars, Working, InFlight
  <1>2. ASSUME NEW c \in Conn, Decrypt(c) PROVE BusyInFlight'
    <2> SUFFICES ASSUME Faultless PROVE BusyInFlight'
      BY DEF BusyInFlight, Faultless
    <2>0. reader[c].pc # "dead"
      BY DEF Inv2, AllUp
    <2>2. /\ wire \in [Conn -> Seq(Task)] /\ replies \in [Conn -> Seq(Task)]
          /\ wire[c] # <<>> /\ Head(wire[c]) \in Task
      BY <1>2 DEF Decrypt, Inv2, Inv1, TypeOK
    <2>3. replies' = [replies EXCEPT ![c] = Append(@, Head(wire[c]))]
      BY <1>2, <2>0 DEF Decrypt
    <2>4. replies'[c] = Append(replies[c], Head(wire[c])) /\ replies[c] \in Seq(Task)
      BY <2>2, <2>3
    <2>5. replies'[c] # <<>>
      BY <2>2, <2>4, AppendIsLonger
    <2>1. /\ replies'[c] # <<>> /\ UNCHANGED <<workers, reader, chan, writer>>
          /\ \A d \in Conn \ {c} : replies'[d] = replies[d] /\ wire'[d] = wire[d]
      BY <1>2, <2>2, <2>3, <2>5 DEF Decrypt
    <2> QED
      BY <2>1, KeepsBusy DEF Working, InFlight, Inv2
  <1>3. ASSUME NEW c \in Conn, Break(c) PROVE BusyInFlight'
    BY <1>3 DEF Break, BusyInFlight, Faultless
  <1>4. ASSUME NEW w \in Worker, Restart(w) PROVE BusyInFlight'
    BY <1>4, KeepsBusy DEF Restart, Working, InFlight, Inv2
  <1> QED
    BY <1>1, <1>2, <1>3, <1>4, SchedulerBusy, RegisterBusy, ReaderBusy, WriterBusy
    DEF Next, Inv2

\* As long as no connection breaks and no send times out, a worker that is
\* registered as busy has a request or a response under way: somebody will
\* make it idle, or give it a queued task.
THEOREM BusyWorkersWork ==
    ASSUME Faultless
    PROVE  Spec => []BusyHasWork
  <1>1. ASSUME Inv2, BusyInFlight PROVE BusyHasWork
    BY <1>1 DEF BusyInFlight, BusyHasWork, Working, InFlight
  <1>2. Inv2 /\ BusyInFlight /\ [Next]_vars => BusyInFlight'
    BY NextBusyInFlight
  <1> QED
    BY <1>1, <1>2, Invariant, InitBusyInFlight, PTL DEF Spec
----------------------------------------------------------------------------
(* What a standstill takes.                                                *)

\* A scheduler that waits for room with the lock in hand and a writer that waits
\* for the lock stop the pool for good only if the pool holds the tasks of a full
\* channel and two more: with a channel of 1024 places the dispatch loop's send
\* under the lock is safe as long as at most 1025 tasks are under way.
THEOREM StandstillsNeedTasks == Spec => []StandstillNeedsTasks
  <1>1. ASSUME Inv2, Standstill PROVE Cardinality(InPool) >= Capacity + 2
    <2>1. PICK p \in Scheduler :
            /\ sched[p].pc = "send"
            /\ Len(chan[workers[sched[p].to].conn]) = Capacity
            /\ writer[workers[sched[p].to].conn].pc = "mark"
      BY <1>1 DEF Standstill
    <2>2. PICK c \in Conn, t \in Task :
            c = workers[sched[p].to].conn /\ sched[p].task = {t}
      BY <1>1, <2>1, SendTarget DEF Inv2
    <2>3. PICK u \in Task : Held(<<"hand", c>>) = {u}
      <3>1. writer[c].msg = <<writer[c].msg[1]>> /\ writer[c].msg[1] \in ServerMessage
        BY <1>1, <2>1, <2>2, MessageInHand DEF Inv2
      <3>2. TasksOf(writer[c].msg) = {writer[c].msg[1].task} /\ writer[c].msg[1].task \in Task
        BY <3>1, MessageOne DEF ServerMessage
      <3> QED
        BY <3>2, HeldIs
    <2>4. /\ Held(<<"scheduler", p>>) = {t} /\ Held(<<"chan", c>>) = TasksOf(chan[c])
          /\ {<<"scheduler", p>>, <<"hand", c>>, <<"chan", c>>} \subseteq Inside
      BY <2>2, HeldIs, InsideHas
    <2>5. t # u /\ t \notin TasksOf(chan[c]) /\ u \notin TasksOf(chan[c])
      <3>1. /\ <<"scheduler", p>> # <<"hand", c>> /\ <<"scheduler", p>> # <<"chan", c>>
            /\ <<"hand", c>> # <<"chan", c>>
        OBVIOUS
      <3> QED
        BY <1>1, <2>3, <2>4, <3>1 DEF Inv2, Disjoint, Inside
    <2>6. {t, u} \cup TasksOf(chan[c]) \subseteq InPool
      <3>1. TasksOf(chan[c]) \subseteq Task
        BY <1>1, <2>4, InsideIssued
      <3> QED
        BY <1>1, <2>3, <2>4, <3>1, InPoolIs DEF PoolIsHeld
    <2>7. IsFiniteSet(InPool)
      <3>1. InPool \subseteq 1 .. MaxTask
        BY <1>1, InPoolIs DEF PoolIsHeld, Task
      <3>2. 1 \in Int /\ MaxTask \in Int
        BY PoolAssumption
      <3>3. IsFiniteSet(1 .. MaxTask)
        BY <3>2, FS_Interval
      <3> QED
        BY <3>1, <3>3, FS_Subset
    <2> DEFINE rest == (InPool \ {t}) \ {u}
               f == [i \in 1 .. Capacity |-> chan[c][i].task]
    <2>8. IsFiniteSet(rest) /\ Cardinality(InPool) = Cardinality(rest) + 2
      <3>1. /\ IsFiniteSet(InPool \ {t})
            /\ Cardinality(InPool \ {t}) = Cardinality(InPool) - 1
        BY <2>6, <2>7, FS_RemoveElement
      <3>2. IsFiniteSet(rest) /\ Cardinality(rest) = Cardinality(InPool \ {t}) - 1
        BY <2>5, <2>6, <3>1, FS_RemoveElement
      <3>3. Cardinality(InPool) \in Int
        BY <2>7, FS_CardinalityType
      <3> QED
        BY <3>1, <3>2, <3>3
    <2>9. f \in Injection(1 .. Capacity, rest)
      <3>1. \A i \in 1 .. Capacity : f[i] \in TasksOf(chan[c])
        BY <2>1, <2>2 DEF TasksOf
      <3>2. f \in [1 .. Capacity -> rest]
        BY <2>5, <2>6, <3>1
      <3>3. \A i, j \in 1 .. Capacity : f[i] = f[j] => i = j
        BY <1>1, <2>1, <2>2 DEF Inv2, Distinct, NoRepeatTask
      <3> HIDE DEF f, rest
      <3> QED
        BY <3>2, <3>3 DEF Injection, IsInjective
    <2> HIDE DEF f, rest
    <2>10. Cardinality(1 .. Capacity) <= Cardinality(rest)
      BY <2>8, <2>9, FS_Injection
    <2>11. Cardinality(1 .. Capacity) = Capacity /\ Capacity \in Nat
      BY PoolAssumption, FS_Interval
    <2>12. Cardinality(rest) \in Nat
      BY <2>8, FS_CardinalityType
    <2> QED
      BY <2>8, <2>10, <2>11, <2>12
  <1>2. Inv2 => StandstillNeedsTasks
    BY <1>1 DEF StandstillNeedsTasks
  <1> QED
    BY <1>2, Invariant, PTL
=============================================================================

----------------------------- MODULE WorkerPool -----------------------------
(***************************************************************************)
(* The scanner's pool of decryption workers: the dispatch loop of          *)
(* scheduling_tasks, the reader and writer task of every connection        *)
(* (handle_stream), the workers map with its lock, task_queue, and the     *)
(* dworker processes at the other end.                                     *)
(*                                                                         *)
(* The tasks of ScanManager are here the numbers of their block sequence,  *)
(* which is also their priority.  Steps between two awaits that touch no   *)
(* shared state are one action.                                            *)
(***************************************************************************)
EXTENDS Integers, FiniteSets, Sequences

CONSTANTS
    Worker,         \* dworker processes, and the names they register
    Conn,           \* connections, each used once
    Owner,          \* [Conn -> Worker]: who opens the connection
    Scheduler,      \* the tasks that call scheduling_tasks
    MaxTask,        \* tasks are 1 .. MaxTask
    Capacity,       \* of a connection's channel, 1024 in the code
    SendMayTimeOut, \* may a worker fail to read for 3 s?
    ConnMayFail,    \* may connections break and workers crash?
    RestartAllowed, \* is a dworker restarted from outside?
    NoWorker,       \* ServerMessage.name: None
    NoConn

Task == 1 .. MaxTask

ASSUME PoolAssumption ==
    /\ Owner \in [Conn -> Worker]
    /\ MaxTask \in Nat /\ Capacity \in Nat \ {0}
    /\ {SendMayTimeOut, ConnMayFail, RestartAllowed} \subseteq BOOLEAN
    /\ NoWorker \notin Worker /\ NoConn \notin Conn

VARIABLES
    issued,     \* tasks scheduling_tasks has been called with
    sched,      \* each scheduler inside the dispatch loop
    workers,    \* the workers map: at most one entry per name
    queue,      \* task_queue
    reader,     \* the reader task of each connection
    chan,       \* its mpsc channel
    writer,     \* its writer task
    unflushed,  \* frames left in the FramedWrite buffer by a timed out send
    wire,       \* requests on the socket or at the worker
    replies,    \* responses on the socket
    open,       \* the connections the worker processes have
    stopped,    \* the workers whose start_worker has left its loop
    answered    \* tasks whose response reached update_account

vars == <<issued, sched, workers, queue, reader, chan, writer, unflushed,
          wire, replies, open, stopped, answered>>

Idle == 1
Busy == 2

NoEntry == [conn |-> NoConn, status |-> 0]
Entry == [conn : Conn, status : {Idle, Busy}]

\* ServerMessage: with the worker's name if the writer has to mark it busy.
ServerMessage == [name : Worker \cup {NoWorker}, task : Task]

SchedulerState == [pc : {"next", "lock", "send", "push"}, task : SUBSET Task,
                   tried : SUBSET Worker, to : Worker \cup {NoWorker},
                   behind : SUBSET (Conn \X {"reader", "writer"})]
ReaderState == [pc : {"new", "takeFirst", "sendFirst", "read", "takeNext",
                      "sendNext", "setIdle", "deliver", "dead"},
                task : SUBSET Task, resp : SUBSET Task]
WriterState == [pc : {"recv", "mark", "write", "dead"}, msg : Seq(ServerMessage)]

Registered(w) == workers[w] # NoEntry

\* scheduling_tasks keeps the read lock while it waits for room in a channel.
WorkersAlwaysUnlocked == TRUE       \* fault variant: released before the send
WorkersUnlocked == \A p \in Scheduler : sched[p].pc # "send"

\* The tasks that wait for the write lock: it is fair, so that a reader does
\* not overtake a writer that waited before it.
WaitingReaders == {c \in Conn : reader[c].pc = "setIdle"}
WaitingWriters == {c \in Conn : writer[c].pc = "mark"}

Connected(w) == \E c \in open : Owner[c] = w

\* PriorityQueue with Reverse(sequence): the lowest sequence comes first.
Least(q) == CHOOSE t \in q : \A u \in q : t <= u

Dispatched == [pc |-> "next", task |-> {}, tried |-> {}, behind |-> {},
               to |-> NoWorker]

Init ==
    /\ issued = {}
    /\ sched = [p \in Scheduler |-> Dispatched]
    /\ workers = [w \in Worker |-> NoEntry]
    /\ queue = {}
    /\ reader = [c \in Conn |-> [pc |-> "new", task |-> {}, resp |-> {}]]
    /\ chan = [c \in Conn |-> <<>>]
    /\ writer = [c \in Conn |-> [pc |-> "recv", msg |-> <<>>]]
    /\ unflushed = [c \in Conn |-> <<>>]
    /\ wire = [c \in Conn |-> <<>>]
    /\ replies = [c \in Conn |-> <<>>]
    /\ open = {} /\ stopped = {}
    /\ answered = {}

----------------------------------------------------------------------------
(* scheduling_tasks: find a worker for one task, or queue it.              *)

Issue(p, t) ==
    /\ sched[p].pc = "next"
    /\ t \notin issued
    /\ issued' = issued \cup {t}
    /\ sched' = [sched EXCEPT ![p] =
            [pc |-> "lock", task |-> {t}, tried |-> {}, to |-> NoWorker,
             behind |-> (WaitingReaders \X {"reader"})
                            \cup (WaitingWriters \X {"writer"})]]
    /\ UNCHANGED <<workers, queue, reader, chan, writer, unflushed, wire,
                   replies, open, stopped, answered>>

\* Goes on to an idle worker not tried before; the map has no order.
NextWorkerForgets(p, tried) ==      \* fault variant: does not queue the task
    LET idle == {w \in Worker \ tried : workers[w].status = Idle}
    IN  IF idle = {}
          THEN sched' = [sched EXCEPT ![p] = Dispatched]
          ELSE \E w \in idle :
                 sched' = [sched EXCEPT ![p].pc = "send", ![p].tried = tried \cup {w},
                                        ![p].to = w]
NextWorker(p, tried) ==
    LET idle == {w \in Worker \ tried : workers[w].status = Idle}
    IN  IF idle = {}
          THEN sched' = [sched EXCEPT ![p].pc = "push", ![p].tried = {}]
          ELSE \E w \in idle :
                 sched' = [sched EXCEPT ![p].pc = "send", ![p].tried = tried \cup {w},
                                        ![p].to = w]

\* workers.read().await
Look(p) ==
    /\ sched[p].pc = "lock"
    /\ sched[p].behind \cap ((WaitingReaders \X {"reader"})
                                \cup (WaitingWriters \X {"writer"})) = {}
    /\ NextWorker(p, {})
    /\ UNCHANGED <<issued, workers, queue, reader, chan, writer, unflushed,
                   wire, replies, open, stopped, answered>>

\* task_sent: the loop goes on with the next task.
FallsThrough(p) == [sched[p] EXCEPT !.pc = "push"]  \* fault variant: queues it too
AfterSend(p) == Dispatched

\* router.send(..).await: waits for room, fails if the writer is gone.
SendToWorker(p) ==
    /\ sched[p].pc = "send"
    /\ LET w == sched[p].to
           c == workers[w].conn
       IN  \/ /\ writer[c].pc # "dead"
              /\ Len(chan[c]) < Capacity
              /\ \E t \in sched[p].task :
                    chan' = [chan EXCEPT ![c] = Append(@, [name |-> w, task |-> t])]
              /\ sched' = [sched EXCEPT ![p] = AfterSend(p)]
           \/ /\ writer[c].pc = "dead"
              /\ NextWorker(p, sched[p].tried)
              /\ chan' = chan
    /\ UNCHANGED <<issued, workers, queue, reader, writer, unflushed, wire,
                   replies, open, stopped, answered>>

\* No idle worker: the read lock is released before the task is queued.
PushToQueue(p) ==
    /\ sched[p].pc = "push"
    /\ queue' = queue \cup sched[p].task
    /\ sched' = [sched EXCEPT ![p] = Dispatched]
    /\ UNCHANGED <<issued, workers, reader, chan, writer, unflushed, wire,
                   replies, open, stopped, answered>>

----------------------------------------------------------------------------
(* The reader task of a connection.                                        *)

\* A connection and its first RegisterWorker: the name's entry is replaced.
Register(c) ==
    /\ reader[c].pc = "new"
    /\ Owner[c] \notin stopped /\ ~ Connected(Owner[c])
    /\ WorkersUnlocked
    /\ workers' = [workers EXCEPT ![Owner[c]] = [conn |-> c, status |-> Idle]]
    /\ reader' = [reader EXCEPT ![c].pc = "takeFirst"]
    /\ open' = open \cup {c}
    /\ UNCHANGED <<issued, sched, queue, chan, writer, unflushed, wire,
                   replies, stopped, answered>>

ReadResponse(c) ==
    /\ reader[c].pc = "read"
    /\ replies[c] # <<>>
    /\ replies' = [replies EXCEPT ![c] = Tail(@)]
    /\ reader' = [reader EXCEPT ![c].pc = "takeNext", ![c].resp = {Head(replies[c])}]
    /\ UNCHANGED <<issued, sched, workers, queue, chan, writer, unflushed,
                   wire, open, stopped, answered>>

PopPeeks(q) == q                    \* fault variant: the task stays in the queue
Pop(q) == q \ {Least(q)}

\* After a response that finds the queue empty the worker becomes idle.
NeverIdleAgain(pc) == IF pc = "takeFirst" THEN "read" ELSE "deliver" \* fault variant
OnEmptyQueue(pc) == IF pc = "takeFirst" THEN "read" ELSE "setIdle"

\* task_queue.pop(), after a registration and after a response.
TakeTask(c) ==
    /\ reader[c].pc \in {"takeFirst", "takeNext"}
    /\ IF queue # {}
         THEN /\ queue' = Pop(queue)
              /\ reader' = [reader EXCEPT ![c].task = {Least(queue)},
                    ![c].pc = IF @ = "takeFirst" THEN "sendFirst" ELSE "sendNext"]
         ELSE /\ queue' = queue
              /\ reader' = [reader EXCEPT ![c].pc = OnEmptyQueue(@)]
    /\ UNCHANGED <<issued, sched, workers, chan, writer, unflushed, wire,
                   replies, open, stopped, answered>>

\* After a response the worker stays busy, so the message carries no name.
NameToMark(c) == IF reader[c].pc = "sendFirst" THEN Owner[c] ELSE NoWorker

\* The end of a connection: a dworker that loses it leaves its loop.
Close(c) ==
    /\ wire' = [wire EXCEPT ![c] = <<>>]
    /\ open' = open \ {c}
    /\ stopped' = IF c \in open THEN stopped \cup {Owner[c]} ELSE stopped

\* The scanner closes the socket when both halves are dropped, of which the
\* reader and the writer task have one each.
CloseIfLast(c, other) ==
    IF other = "dead" THEN Close(c) ELSE UNCHANGED <<wire, open, stopped>>

\* The reader ends; nobody reads the replies any more.
Hangup(c) ==
    /\ reader' = [reader EXCEPT ![c] = [pc |-> "dead", task |-> {}, resp |-> {}]]
    /\ replies' = [replies EXCEPT ![c] = <<>>]
    /\ CloseIfLast(c, writer[c].pc)

\* tx.send(..).await.unwrap()
SendTask(c) ==
    /\ reader[c].pc \in {"sendFirst", "sendNext"}
    /\ \/ /\ writer[c].pc # "dead"
          /\ Len(chan[c]) < Capacity
          /\ \E t \in reader[c].task :
                chan' = [chan EXCEPT ![c] =
                            Append(@, [name |-> NameToMark(c), task |-> t])]
          /\ reader' = [reader EXCEPT ![c].task = {},
                ![c].pc = IF @ = "sendFirst" THEN "read" ELSE "deliver"]
          /\ UNCHANGED <<wire, replies, open, stopped>>
       \/ /\ writer[c].pc = "dead"
          /\ Hangup(c)
          /\ chan' = chan
    /\ UNCHANGED <<issued, sched, workers, queue, writer, unflushed, answered>>

\* workers.write().get_mut(&worker_name).unwrap().status = 1
SetIdle(c) ==
    /\ reader[c].pc = "setIdle"
    /\ WorkersUnlocked
    /\ \/ /\ Registered(Owner[c])
          /\ workers' = [workers EXCEPT ![Owner[c]].status = Idle]
          /\ reader' = [reader EXCEPT ![c].pc = "deliver"]
          /\ UNCHANGED <<wire, replies, open, stopped>>
       \/ /\ ~ Registered(Owner[c])
          /\ Hangup(c)
          /\ workers' = workers
    /\ UNCHANGED <<issued, sched, queue, chan, writer, unflushed, answered>>

\* update_account(response)
Deliver(c) ==
    /\ reader[c].pc = "deliver"
    /\ answered' = answered \cup reader[c].resp
    /\ reader' = [reader EXCEPT ![c].pc = "read", ![c].resp = {}]
    /\ UNCHANGED <<issued, sched, workers, queue, chan, writer, unflushed,
                   wire, replies, open, stopped>>

\* End of stream, a bad message, or no message for 300 s: the entry under the
\* worker's name is removed, whichever connection it belongs to by now.
Exit(c) ==
    /\ reader[c].pc = "read"
    /\ ConnMayFail
    /\ WorkersUnlocked
    /\ workers' = [workers EXCEPT ![Owner[c]] = NoEntry]
    /\ Hangup(c)
    /\ UNCHANGED <<issued, sched, queue, chan, writer, unflushed, answered>>

----------------------------------------------------------------------------
(* The writer task of a connection.                                        *)

\* A message with a name is marked before it is sent.
SendsFirst(pc, m) ==                \* fault variant: marked after it is sent
    CASE pc = "recv"  -> "write"
      [] pc = "write" -> IF m.name = NoWorker THEN "recv" ELSE "mark"
      [] pc = "mark"  -> "recv"
AfterStep(pc, m) ==
    CASE pc = "recv"  -> IF m.name = NoWorker THEN "write" ELSE "mark"
      [] pc = "mark"  -> "write"
      [] pc = "write" -> "recv"

WriterGoesOn(c, m) ==
    LET pc == AfterStep(writer[c].pc, m)
    IN  writer' = [writer EXCEPT ![c] =
                      [pc |-> pc, msg |-> IF pc = "recv" THEN <<>> ELSE <<m>>]]

ReceiveMessage(c) ==
    /\ writer[c].pc = "recv"
    /\ chan[c] # <<>>
    /\ WriterGoesOn(c, Head(chan[c]))
    /\ chan' = [chan EXCEPT ![c] = Tail(@)]
    /\ UNCHANGED <<issued, sched, workers, queue, reader, unflushed, wire,
                   replies, open, stopped, answered>>

\* workers.write().get_mut(&name).unwrap().status = 2; a panic drops the
\* receiver and with it the messages of the channel.
MarkBusy(c) ==
    /\ writer[c].pc = "mark"
    /\ WorkersUnlocked
    /\ LET w == writer[c].msg[1].name
       IN  \/ /\ Registered(w)
              /\ workers' = [workers EXCEPT ![w].status = Busy]
              /\ WriterGoesOn(c, writer[c].msg[1])
              /\ UNCHANGED <<chan, unflushed, wire, open, stopped>>
           \/ /\ ~ Registered(w)
              /\ writer' = [writer EXCEPT ![c] = [pc |-> "dead", msg |-> <<>>]]
              /\ chan' = [chan EXCEPT ![c] = <<>>]
              /\ unflushed' = [unflushed EXCEPT ![c] = <<>>]
              /\ CloseIfLast(c, reader[c].pc)
              /\ workers' = workers
    /\ UNCHANGED <<issued, sched, queue, reader, replies, answered>>

WriterGivesUp(c) ==                 \* fault variant: a timeout ends the writer
    writer' = [writer EXCEPT ![c] = [pc |-> "dead", msg |-> <<>>]]
AfterTimeout(c) == WriterGoesOn(c, writer[c].msg[1])

\* A send writes what is left of earlier ones first, and may time out after any
\* of it.  (A frame that is on the socket in part is in the buffer here, and
\* Framing's matter.)
FlushOlder(c) ==
    /\ writer[c].pc = "write"
    /\ c \in open /\ unflushed[c] # <<>>
    /\ wire' = [wire EXCEPT ![c] = Append(@, Head(unflushed[c]))]
    /\ unflushed' = [unflushed EXCEPT ![c] = Tail(@)]
    /\ UNCHANGED <<issued, sched, workers, queue, reader, chan, writer, replies,
                   open, stopped, answered>>

\* Send with a 3 s timeout: the frame of a send that times out stays in the
\* buffer, or with a full buffer never gets there.  What is sent on a broken
\* connection is lost.
WriteRequest(c) ==
    /\ writer[c].pc = "write"
    /\ LET t == writer[c].msg[1].task
       IN  \/ /\ c \in open /\ unflushed[c] = <<>>
              /\ wire' = [wire EXCEPT ![c] = Append(@, t)]
              /\ unflushed' = unflushed
              /\ WriterGoesOn(c, writer[c].msg[1])
           \/ /\ SendMayTimeOut
              /\ unflushed' \in {unflushed,
                                 [unflushed EXCEPT ![c] = Append(@, t)]}
              /\ unflushed[c] = <<>> => unflushed' # unflushed
              /\ wire' = wire
              /\ AfterTimeout(c)
           \/ /\ c \notin open
              /\ WriterGoesOn(c, writer[c].msg[1])
              /\ UNCHANGED <<wire, unflushed>>
    /\ UNCHANGED <<issued, sched, workers, queue, reader, chan, replies,
                   open, stopped, answered>>

\* recv() returns None once every sender is dropped and the channel is empty;
\* until then the connection stays open.
WriterExit(c) ==
    /\ writer[c].pc = "recv"
    /\ chan[c] = <<>>
    /\ reader[c].pc = "dead"
    /\ \A w \in Worker : workers[w].conn # c
    /\ writer' = [writer EXCEPT ![c].pc = "dead"]
    /\ unflushed' = [unflushed EXCEPT ![c] = <<>>]
    /\ Close(c)
    /\ UNCHANGED <<issued, sched, workers, queue, reader, chan, replies, answered>>

----------------------------------------------------------------------------
(* The dworker processes.                                                  *)

\* One request after the other is decrypted and answered, also if the reader of
\* the connection is gone.
Decrypt(c) ==
    /\ c \in open
    /\ wire[c] # <<>>
    /\ replies' = IF reader[c].pc = "dead" THEN replies
                  ELSE [replies EXCEPT ![c] = Append(@, Head(wire[c]))]
    /\ wire' = [wire EXCEPT ![c] = Tail(@)]
    /\ UNCHANGED <<issued, sched, workers, queue, reader, chan, writer,
                   unflushed, open, stopped, answered>>

\* The connection breaks or the process dies, and the scanner has not noticed yet.
Break(c) ==
    /\ ConnMayFail
    /\ c \in open
    /\ Close(c)
    /\ UNCHANGED <<issued, sched, workers, queue, reader, chan, writer,
                   unflushed, replies, answered>>

Restart(w) ==
    /\ RestartAllowed
    /\ w \in stopped
    /\ stopped' = stopped \ {w}
    /\ UNCHANGED <<issued, sched, workers, queue, reader, chan, writer,
                   unflushed, wire, replies, open, answered>>

----------------------------------------------------------------------------

SchedulerStep(p) == Look(p) \/ SendToWorker(p) \/ PushToQueue(p)

ReaderStep(c) ==
    \/ ReadResponse(c) \/ TakeTask(c) \/ SendTask(c) \/ SetIdle(c) \/ Deliver(c)

WriterStep(c) ==
    \/ ReceiveMessage(c) \/ MarkBusy(c) \/ FlushOlder(c) \/ WriteRequest(c)
    \/ WriterExit(c)

Next ==
    \/ \E p \in Scheduler : \E t \in Task : Issue(p, t)
    \/ \E p \in Scheduler : SchedulerStep(p)
    \/ \E c \in Conn : Register(c)
    \/ \E c \in Conn : ReaderStep(c)
    \/ \E c \in Conn : Exit(c)
    \/ \E c \in Conn : WriterStep(c)
    \/ \E c \in Conn : Decrypt(c)
    \/ \E c \in Conn : Break(c)
    \/ \E w \in Worker : Restart(w)

Spec == Init /\ [][Next]_vars

\* The tasks of the scanner and the worker processes keep running.  Neither
\* faults nor restarts from outside are promised.
Fairness ==
    /\ \A p \in Scheduler : WF_vars(SchedulerStep(p))
    /\ \A c \in Conn : /\ WF_vars(Register(c)) /\ WF_vars(ReaderStep(c))
                       /\ WF_vars(WriterStep(c)) /\ WF_vars(Decrypt(c))

FairSpec == Spec /\ Fairness

----------------------------------------------------------------------------
(* Properties.                                                             *)

Elements(s) == {s[i] : i \in 1 .. Len(s)}

\* Every queue and local variable holds what the code puts there; above all a
\* scheduler that waits for room in a channel waits for a worker that is in
\* the map: it holds the read lock, so that nobody removes the entry.
TypeOK ==
    /\ issued \subseteq Task /\ answered \subseteq Task /\ queue \subseteq Task
    /\ sched \in [Scheduler -> SchedulerState]
    /\ \A p \in Scheduler :
         sched[p].pc = "send" => sched[p].to \in Worker /\ Registered(sched[p].to)
    /\ workers \in [Worker -> Entry \cup {NoEntry}]
    /\ reader \in [Conn -> ReaderState]
    /\ chan \in [Conn -> Seq(ServerMessage)]
    /\ writer \in [Conn -> WriterState]
    /\ \A c \in Conn : Len(chan[c]) <= Capacity /\ Len(writer[c].msg) <= 1
    /\ {unflushed, wire, replies} \subseteq [Conn -> Seq(Task)]
    /\ open \subseteq Conn /\ stopped \subseteq Worker

\* How many copies of task t there are on connection c, with a scheduler, and
\* in all: the queue, channels, buffers, sockets and the hands of the tasks.
Occurrences(s, t) == Cardinality({i \in 1 .. Len(s) : s[i] = t})
InChannel(s, t) == Cardinality({i \in 1 .. Len(s) : s[i].task = t})
In(t, S) == IF t \in S THEN 1 ELSE 0

CopiesAt(c, t) ==
    InChannel(chan[c], t) + InChannel(writer[c].msg, t)
    + Occurrences(unflushed[c], t) + Occurrences(wire[c], t)
    + Occurrences(replies[c], t) + In(t, reader[c].task) + In(t, reader[c].resp)

Places(t) ==
    {<<"connection", c>> : c \in {d \in Conn : CopiesAt(d, t) > 0}}
    \cup {<<"scheduler", p>> : p \in {q \in Scheduler : t \in sched[q].task}}
    \cup (IF t \in queue THEN {<<"queue">>} ELSE {})

\* A task is in one place at a time: it is never both sent and queued, taken
\* from the queue twice, or in two channels, buffers or sockets, whatever
\* breaks; an answered task is nowhere else.
OnePlace ==
    \A t \in Task : /\ Cardinality(Places(t)) <= 1
                    /\ t \in answered => Places(t) = {}
                    /\ \A c \in Conn : CopiesAt(c, t) <= 1

\* Without faults no task disappears on its way.
NothingLost == \A t \in issued \ answered : Places(t) # {}

\* A worker that is registered as busy has a request to answer, in the
\* channel, in the writer's hand, on the socket or at the worker, or its
\* reader is dealing with a response; or else nobody would ever make it idle.
BusyHasWork ==
    \A w \in Worker : workers[w].status = Busy =>
        LET c == workers[w].conn
        IN  \/ chan[c] # <<>> \/ writer[c].msg # <<>>
            \/ wire[c] # <<>> \/ replies[c] # <<>>
            \/ reader[c].pc \notin {"read", "dead"}

\* The channel of a registered worker has a receiver, so that the scheduler's
\* error branch is never taken: a task is not passed over to another worker
\* because of a dead one, it is rather sent to a connection that is gone.
EntryIsLive ==
    \A w \in Worker : Registered(w) => writer[workers[w].conn].pc # "dead"

\* The pool keeps the contract that ScanManager relies on.
InPool == {t \in Task : Places(t) # {}}
Pool == INSTANCE TaskPool WITH pending <- InPool
PoolContract == Pool!Spec

\* manager.rs 248: the unwrap of the writer asserts that the worker of the
\* message is registered.
MarkedIsRegistered ==
    \A c \in Conn : writer[c].pc = "mark" => Registered(writer[c].msg[1].name)

\* A scheduler keeps the workers map locked and waits for room in a full channel,
\* while the writer task that would make room waits for the lock to mark its
\* worker busy.  Neither ever goes on, and in the end nobody else does.
Standstill ==
    \E p \in Scheduler :
        /\ sched[p].pc = "send"
        /\ LET c == workers[sched[p].to].conn
           IN  Len(chan[c]) = Capacity /\ writer[c].pc = "mark"

\* lib.rs 79 sends with the lock in hand, and only the size of the channel keeps
\* that from stopping the scanner: for a standstill the pool must hold more than
\* Capacity + 1 tasks at once, one with the scheduler, one with the writer and a
\* full channel.  (With that many there are standstills.)
StandstillNeedsTasks == Standstill => Cardinality(InPool) >= Capacity + 2

\* In the end a task is answered, with two exceptions.  One is the queue: a task
\* that got there when every worker had already looked waits until some other
\* task makes a worker look again.  The other is the standstill.  Nothing else
\* about a scheduler, a channel, the lock or the order of the tasks holds a task
\* up for ever.
TaskSettles ==
    \A t \in Task :
        t \in issued ~> \/ t \in answered
                        \/ [](t \in queue /\ \A w \in Worker : workers[w].status # Busy)
                        \/ []Standstill

\* "can't connect to dservice, reconnect after 30 seconds" (dworker/src/lib.rs
\* 208): a worker that lost its connection tries until it has one.
WorkerReconnects ==
    \A w \in Worker : (\E c \in Conn : Owner[c] = w /\ reader[c].pc = "dead")
                            ~> Connected(w)
=============================================================================

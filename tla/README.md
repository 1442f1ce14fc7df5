# Formal models of the OreoWallet services

TLA+ models of the services in `crates/`: the scanner with its pool of
decryption workers and its block table, the account handlers of the server, and
the two framings of byte streams under them.  TLC checks them on small
instances; TLAPS proves central invariants for every instance.  `PROJECT.json`
lists the runs, the lines every definition stands for, the hazards, the findings
and the theorems.

    tlc -workers 2 -config scan_rounds.cfg ScanManagerMC
    tlapm ScanCompleteProofs.tla

## 1. The system

| Component | Source | State | Operations |
|---|---|---|---|
| Scan manager | `scanner/src/lib.rs`, `manager.rs` | `accounts_to_scan`, `account_mappling` (one `AccountInfo` with `remaining_task` and the found blocks per running scan), `task_mapping` | `POST /scanAccount`; the primary task (one round: fix the end, take every queued account, create one task per account and block); the secondary task (reissue tasks that are 600 s old); `update_account` (count an answer, submit a finished scan) |
| Worker pool | the same | the `workers` map with a read-write lock, `task_queue`, one channel, one reader and one writer task per connection | dispatch loop of `scheduling_tasks`; registration, responses, timer, writer of `handle_stream` |
| Decryption worker | `dworker/src/lib.rs` | its connection | register, decrypt and answer one request after the other, reconnect |
| Account server | `server/src/handlers.rs` | none of its own; the account table and the node | `/import`, `/remove`, `/rescan`, `/updateScan`, and read-only requests |
| Database | `db_handler` | `wallet.account` (primary key: the address), `wallet.blocks` | single statements, no transactions over several of them |
| Ironfish node | external | accounts, whether it scans them, their heads | RPC calls with a 30 s timeout |
| Block loader | `scanner/src/main.rs` | its place in the chain | `load_blocks`: copy the blocks up to the checkpoint into `wallet.blocks` |
| Codec, stream reader | `networking` | read and write buffers, a cursor | frames that end with a newline, items that end with a form feed |
| RPC and HTTP clients | `networking` | none | one call each, JSON |
| Prover | `prover` | none | one proof request |
| Parameters, errors, command line, signatures | `params`, `oreo_errors`, `utils` | none | conversions |

How they interact.  A client imports or rescans an account at the server; the
server tells the node to stop scanning it and sends the scanner a request.  The
primary task of the scanner creates tasks, the pool sends them to workers, and
each answer runs `update_account` in the reader task of its connection.  The
answer that brings `remaining_task` to 0 submits the scan to `/updateScan` of
the server, which sets the account's head at the node in chunks, lets the node
scan again and takes `need_scan` back.

What is hard here: all tasks of the scanner share maps whose locks are taken
anew for every access, so that a decision and its effect are separate steps;
answers can be late, lost or duplicated by the reissue; connections end while
messages are on the way; the server changes the database and the node without a
transaction.  `PROJECT.json` "hazards" names each of these with its line.

What makes the components correct:

* *Scan manager*: a scan is submitted once, and only when each block of its
  range was answered; no block is forgotten; a queued account is scanned.
* *Worker pool*: a task is in one place; it is answered at most once; a worker
  that is busy has work; who waits for ever is known.
* *Account server*: the node and the database agree; a paused account is
  resumed; the requests that set a head cover the response.
* *Codec and stream reader*: whatever pieces the bytes come in, the messages
  are those that were sent, in order; nothing is held back; an error has a cause.
* *Block loader*: the primary task finds every local block it reads.

## 2. The modules

| Module | Models |
|---|---|
| `BlocksRange` | `blocks_range` of `crates/utils`: groups of heights, and their reading as inclusive |
| `ScanManager` | the scan manager; the pool is reduced to: a task is answered at most once, in any order, or lost |
| `ScanService` | what the server expects of the scanner; `ScanManager` implements it, `AccountServer` uses it |
| `ScanManagerMC` | instances of `ScanManager` |
| `ScanManagerProofs` | type correctness; no block is forgotten |
| `ScanCompleteProofs` | what is submitted is complete; the counter is exact; a scan only grows; one reader finishes it; what it may miss; the refinement of `ScanService` |
| `TaskPool` | that contract of the pool, as a specification of its own |
| `WorkerPool` | dispatch loop, lock, channels, readers, writers, queue and workers; it implements `TaskPool` |
| `WorkerPoolMC` | instances of it |
| `WorkerPoolProofs` | a task is in one place, none is lost without a fault, busy workers have work, what a standstill takes, and the refinement |
| `AccountServer` | the handlers that change accounts, with the node, the table and the scanner's submission |
| `AccountServerMC` | its instance |
| `AccountServerProofs` | no account is forgotten, imports are new, the stores agree, the requests that set a head meet |
| `AccountHead` | `AccountServer` with the chain, the node's heads and the heights that handlers carry from call to call |
| `AccountHeadMC`, `AccountHeadProofs` | its instance; no block below a head is left out, no height is above the chain |
| `Framing` | one direction of a worker's connection: `DMessageCodec` with `FramedWrite` and `FramedRead` |
| `MessageChannel` | what both ends expect of that connection; `Framing` implements it |
| `FramingMC`, `FramingProofs` | its instance; messages arrive in order, and the refinement |
| `RpcStream`, `RpcStreamMC` | `StreamReader` and `get_transactions`; its instance |
| `RpcStreamProofs` | the items are the ones sent, success is whole, errors have causes |
| `BlockStore` | `load_blocks`, `save_blocks`, `get_blocks` and the reads of the primary task |
| `BlockStoreProofs` | the primary task dies of failed loads only |

### ScanManager

| Variable | Code |
|---|---|
| `toScan` | `accounts_to_scan`, a stack |
| `account[a]` | `account_mappling[a]`: `start`, `end`, `remaining` (a `u64`, here modulo `Word`), `blocks`; `NoAccount` if there is none |
| `taskMap` | `task_mapping`; the uuid of a request is `nonce` |
| `primary`, `secondary`, `job` | program counters and local variables of the two tasks and of the `scheduling_tasks` call each one is in |
| `handler[c]` | the reader task of connection `c` inside `update_account` |
| `rest[k]` | HTTP handlers between `should_skip_request` and the push |
| `issued`, `sent` | uuids drawn so far; tasks at the pool |
| `counted`, `overtaken`, `dropped` | history: which blocks were counted, which tasks were reissued although their answer was being counted, which blocks were dropped by a failed fetch or left out of an answer of the node |

An action goes from one `await` on shared state to the next.  The primary task
is `PrimaryWake`, `PrimaryTip`, `PrimaryPop`, `PrimaryPopDone`, `PrimaryFetch`,
`PrimaryDone`; the secondary `SecondaryWake` to `SecondaryDone`; a call of
`scheduling_tasks` is `ScheduleAccount`, `CreateTask`, `Dispatch`; an answer is
`Receive`, `UpdateAccount`, `CloneAccount`, `RemoveAccount`, `Submit`,
`ForgetTask`.  Time is left out: `SecondaryWake` takes any set of tasks as
600 s old.  Of those, at most `MaxLate` may still be on their way to an answer.

Panics of the primary task (`unwrap` of an RPC) are the state `"dead"`.  The
blocks of a group that the node does not return (`lib.rs:206`) are accepted in
silence: they are never issued, and the scans that need them never end.
`PrimaryFetch` has any such answer (`Returned`), and records what is missing in
`dropped`.

`ShouldSkip` is one step, though `should_skip_request` reads one map after the
other.  A call that passes both reads while the account is taken up between them
pushes a request that the primary task then finds to be a duplicate; so does a
call that is slow between its check and its push, which the model has.

`IsScanService` states that this implements `ScanService`: the scans owed for an
account are its requests between `should_skip_request` and the push, those in
`accounts_to_scan` and its entry in `account_mappling`; its results are the
reader tasks inside `submit_scan_response`.  A push is `Take`, the duplicate that
the primary task drops is `Merge`, the removal from `account_mappling` is `Finish`
and the end of a submission `Settle`; everything else is a stutter.

### WorkerPool

`sched[p]` is a task inside the dispatch loop: `"lock"` waits for
`workers.read()`, `"send"` holds it and waits for room in a channel.  The lock
of tokio is fair; `behind` are the writers that came before.  `reader[c]`,
`chan[c]`, `writer[c]` are the two tasks of a connection and the channel
between them, `unflushed[c]` the frames a timed out `send` leaves in
`FramedWrite`, `wire[c]` and `replies[c]` the socket.  A connection is used
once; a worker that reconnects uses another one under the same name.

A send flushes what earlier ones have left first (`FlushOlder`, a frame at a
time), and may time out after any of it.  The reader and the writer task have one
half of the socket each: it closes with the second of them (`CloseIfLast`), so
that a writer whose reader has ended still sends what its channel holds, and the
worker answers it to nobody.  `Break` is the end of a connection that the scanner
has not seen yet.

`Standstill` is a state the pool does not leave: a scheduler holds the read lock
and waits for room in a channel (`lib.rs:79`), whose writer waits for the write
lock to mark its worker busy (`manager.rs:244`).  The code rests on 1024 being
enough room; `StandstillNeedsTasks` says what enough means, `TaskSettles` that
there is no other way for the pool to stop.

`PoolContract` states that this implements `TaskPool` with `pending` mapped to
the tasks that are anywhere in the pool.  `Receive` and `Lose` of `ScanManager`
are the steps `Answer` and `Lose` of `TaskPool`.

### AccountServer

A handler is the list of its calls (`Import`, `Remove`, `Rescan`, `Update`) and
does one of them per step.  The routes of `Remove` and `Rescan` start with
`auth`, a read of the row.  A call is accepted, refused, or it fails, with or
without its effect.  A handler that is dropped by the 60 s `TimeoutLayer`
ends at an `await`, which is a call of the database, and so as if that failed:
the calls of the node block their thread.  Any set of accounts may exist at the
start.

The scanner is `ScanService`: `scans[a]` is what it owes for an account.
`SubmitScanRequest` is `Take`, or the request is skipped; `MergeScans` is `Merge`;
`FinishScan` is `Finish` with the beginning of a submission, which is tried three
times at most; a restart (`ScannerCrash`) forgets what is owed.  `SubmitAgain` is
the 60 s limit on reading an answer: the scanner submits the response again
while the handler of the first submission goes on, so that two handlers work on
one response.  `Response` are the responses there may be, `HeadRequest` one
request of the loop in `update_scan_status`.

### AccountHead

`AccountHead` extends `AccountServer`; each of its actions is one of `AccountServer`
with what it does to the new variables, or leaves the old ones alone
(`NodeScans`, `Grow`).

| Variable | Code |
|---|---|
| `chain` | the latest block |
| `head[a]`, `seen[a]` | the node's head of an account, and the blocks that were looked at for it since its last reset |
| `missed[a]` | history: the blocks that a response was set over although no answer of its scan had looked at them |
| `local[h]` | `latest_height` and `head` in the handlers |
| `request[a]` | the head in each request the scanner owes |
| `fresh` | history: handlers whose head was read since the account was reset, and the submissions that go back to such a head |
| `astray` | history: accounts whose head was set by a handler that is not fresh, above the first block |

Three orders of steps make an account go astray, and they are in the code:

* an import reads the head (`handlers.rs:72`) and then resets the account
  (`:85`), but submits the head from before (`:94`).  If the node has moved it,
  which `latest_height - head.sequence` (`:80`) allows also when the account is up
  to date and the chain has grown in between, since the difference of two `u64`
  wraps round, the scan starts above blocks that were thrown away;
* a rescan during a scan resets the account, and its own request is skipped; the
  scan that goes on sets a head counted from its old start;
* a reset between two chunks of `update_scan_status` throws the first one away.

No comment or test of the repository says what should happen then, so that there
is no run that expects a violation.

Nor does a response cover its range in any case: `scan_incomplete` shows one that
is submitted as complete with a block nobody looked at.  So `HeadSet` does not take
the range of a request for seen.  Any of its blocks that is not in the response
may have been passed over by the scan, and is then in `missed`.  `HeadIsCovered`
says that, those two aside, no order of the calls of the handlers and the node
makes a block missing; how many blocks a scan passes over is
`CompleteUnlessOvertaken` and `MissesAtMostLate` of `ScanManager`.

### Framing

A byte is its number in all that is ever encoded, and `End[n]` the newline of
message n, so that lost, doubled and moved bytes are all seen.  `sender` and `out`
are the `FramedWrite`, `buffer`, `cursor` and `reader` the `FramedRead` with the
codec, `socket` what is on the way.  `TimeOut` is the 3 s limit of a send, which
leaves bytes in `out`: the next send goes on with them.  The writer of
`dworker` is the same without `TimeOut`.

`IsChannel` states that this implements `MessageChannel`: the messages on the way
are those whose newline is in `buffer`, `socket` or, while the connection is up,
`out`.  Accepting a message is `Send`, its return from `decode` is `Deliver`, and
the break of the connection keeps the messages that are whole on the reader's
side.  So `WorkerPool` may take `wire`, `unflushed` and `replies` as queues of
messages.

### RpcStream

The same numbering of bytes for the body of one response.  `buffer` is the
`BufReader`, `item` the `Vec` of `read_item`, `returned` that of
`get_transactions`, which `collect` leaves at the first error.

### BlockStore

`rows` are the sequences in `wallet.blocks`, `loader` is `load_blocks` and
`primary` one round of the primary task, reduced to its reads.  `whole` is history:
no insert failed and no response was short since the start.  `InsertBlock`
is a statement of its own: the transaction that `save_blocks` opens and rolls
back is on another connection of the pool.  `ReadGroup` that finds a gap is
`PrimaryFetch` of `ScanManager` with a failure.

The test `get_blocks_should_work_pg` (`pg_handler.rs:355`) unwraps
`get_blocks(9, 11)` although only block 10 is saved; `get_blocks` refuses that, as
`HasRows` does.

## 3. What is checked

| Run | Instance | Shows |
|---|---|---|
| `scan_rounds` | 2 addresses, 2 clients, 2 requests, height 2, one late reissue, failing RPCs and submissions, short answers of the node | `TypeOK`; `RemainingIsUncounted`: the counter is the number of uncounted blocks; `CompleteUnlessOvertaken`: a submitted scan is complete unless an answer was overtaken; `MissesAtMostLate`: it misses one block for each task that was found expired too early, at most; `OneFinisher`: two answers never finish the same scan; `ScanOnlyGrows`: a running scan is not replaced; `IsScanService` |
| `scan_live` | 2 addresses, height 2 in groups of one block, failing RPCs and submissions, short answers of the node, one loss | `BlockConservation`: every block of a running scan is counted, on its way, still to be issued, or was dropped by a failed fetch or a short answer; `QueuedIsScanned`, `ScanIsSubmitted`: a queued account is scanned, over any number of rounds, and its result submitted, up to a dead primary task or a dropped block |
| `pool_steady` | 2 schedulers, 2 workers, 3 tasks, channels with room for one, no faults | `NothingLost`; `BusyHasWork`; `StandstillNeedsTasks`: a standstill takes two tasks more than a channel holds; `TaskSettles`: a task is answered, or stays in the queue with idle workers, or the pool stands still |
| `pool_faults` | 2 schedulers, one name with 2 connections, 2 tasks, timeouts, breaks and restarts | `TypeOK`, `OnePlace`, `EntryIsLive`, `PoolContract` |
| `server_faults` | 1 address, new or known, 2 client requests, 2 submissions, 2 failures, crashes or repeated submissions | `TypeOK`, `NodeImpliesRow`, `ImportIsNew`, `QuietMeansEqual`, `HeadsMeet`; `ScanningResumes` and `NeedScanSettles`: without failures a paused account is resumed; `RescanRecovers`: a rescan makes up for what failures and restarts have lost |
| `account_head` | the same, with heights up to 3 and chunks of 2 blocks | `HeadTypeOK`: no height is above the chain, and whoever submits has read a head; `HeadIsCovered`: every block up to a head was looked at or passed over by the scan itself, except in accounts astray |
| `framing` | 3 messages, a socket that holds 3 bytes, timeouts, a break | `TypeOK`; `InOrder`: the messages returned are the first ones encoded; `Delivered`: none is held back; `IsChannel` |
| `rpc_stream` | up to 3 items and a status, ended anywhere | `Unmangled`: the items are the first ones sent; `OkIsWhole`: success means all of them, but for a body that ends with an item; `ErrorHasCause`; `Answered` |
| `block_store` | checkpoint 4, groups of 3, node up to 7 blocks, 2 failures or restarts | `TypeOK`; `OnlyGapsKill`: a missing block kills the primary task only after a failed insert or a short response |

Runs that are expected to be violated, each stating what a comment, message or
assertion of the repository says: `scan_incomplete`, `pool_unwrap`,
`pool_reconnect`.  `PROJECT.json` "findings" quotes the lines.

**Bounds.** In `scan_live` each block is a group of its own, so that a round over
both has two groups, and tasks of the first may be answered, lost and reissued while
the second is fetched or scheduled.  In `scan_rounds` groups have two blocks: a
round has one group, which for a scan that starts at the last block reaches one
height past the end.  No run of the scan manager has several groups of several
blocks; cut groups behind whole ones are in `block_store`, and all sizes in the
proof of `BlockConservation`.  Two addresses are enough for a round that serves more
than one account and for one that holds up the other, and two clients for requests
that race.  `Word` is 8, more than the blocks of a scan, so that a counter below 0
is seen.  `MaxSubmits`, `RescheduleLimit` stand for 3 and 20000.  One loss and one
late answer are enough for a task to be reissued and counted twice.  In `WorkerPool`
two tasks more than workers reach the queue, and two connections under one name the
confusion of the old one with the new one.  In `AccountServer` every two of import,
removal and rescan meet, on an account that is new or known, and two submissions: of
two scans, or of one response that is submitted again.  Two failures are enough to
lose a submission and the rescan after it, or to crash both processes; addresses do
not interact.  `Response` has one that fills a chunk of `Limit` blocks, one that
needs two and does not fill the last, and one that fills both.  In `AccountHead` the
responses have any range, with all its blocks or none, so that they are set in one
chunk or two; `Lag` is 0 instead of 1000 and `Word` 8, above every height, so that
the subtraction may wrap round and the difference decide either way.  The properties
of `account_head` and of `scan_rounds` are safety properties, for which the symmetry
of handlers, connections, clients and addresses is sound.  In `Framing` the frames
have 3, 5 and 2 bytes: the second does not fit into the socket, and the third is so
short that a cursor left over from the second would skip it.  In `RpcStream` a read
returns up to 5 bytes, which can hold two items.  In `BlockStore` the checkpoint
does not end a group (on both networks it does), and rounds start at any height, so
that the groups of the primary task are not those of the loader.

The channel of a worker holds 1024 messages.  `pool_steady` has `Capacity = 1` and
three tasks, the fewest with which the hazard at `scanner/src/lib.rs:79` occurs:
one scheduler or a reader has filled the channel, the writer waits to mark its
worker busy, and another scheduler waits for room with the lock in hand.  TLC reaches it
there (the exception of `TaskSettles` is needed), so that the bound of
`StandstillNeedsTasks` is tight.

**Deadlock** is not checked: the scanner idles when all requests are served,
and stops when its primary task is dead; the property is liveness.

**Fairness.** Weak fairness of each task of the scanner, of each connection's reader
and writer, of workers and of handlers: tokio runs every task that is ready, and the
lock is fair (a writer that waits is not overtaken, which `behind` states, so that
weak fairness is enough).  Losses, crashes, restarts and failures are not fair, and
a task of the pool may be lost for ever: it is the secondary task that reissues it.
Tasks become 600 s old if they are not answered.  In `AccountServer` handlers go on,
since each of their calls has a timeout, and the scanner ends its scans: that is
`QueuedIsScanned` and `ScanIsSubmitted` of `ScanManager`, and so it assumes that the
primary task is alive and no block was dropped; no client has to send anything.  In
`Framing` and `RpcStream` the sockets make progress and the readers run; nobody has
to send.

## 4. What is proved

`ScanManagerProofs!TypeCorrect`: `Spec => []TypeOK`, for any set of addresses,
connections and clients and any bounds, under `ScanAssumption` and
`NoTaskAssumption` (the sets are what they seem, `Batch` and `Word` positive).

`ScanManagerProofs!Conservation`: `Spec => []BlockConservation`.  It is not
inductive: a block that is not counted must have a task, and that task must not
be answered as one of an earlier scan.  The inductive invariant is

    IInv == TypeOK /\ FreshIssue /\ RoundEnd /\ BlockConservation

`FreshIssue`: no task at the pool or being answered has a uuid that was not
drawn yet, so that a task that is entered in `task_mapping` is not one whose
answer has been dealt with.  `RoundEnd`: the accounts of a round end where the
primary task will stop issuing blocks, so that it covers their whole range when
they are popped.  The proof has a lemma for each task of the program with a step
per action; the largest, `PrimaryConserves`, uses that each height of the span
belongs to a group of `blocks_range` that is still to be fetched or is the one
being scheduled, unless the node's answer lacked it (`FetchIs`).

`FreshAndRoundEnd` states the two strengthening parts.

`ScanCompleteProofs`: `CompleteScans`: `Spec => []CompleteUnlessOvertaken` and
`CounterIsExact`: `Spec => []RemainingIsUncounted`, for any accounts, workers,
losses, late answers and reissues and every `Word` above `MaxHeight`.  Conservation
says that a block has at least one way left to be counted; here it must not have
two.  `Source(k, x, a, h)` names the ways: block `h` of `a` is in front of the
primary task, in a call of `scheduling_tasks`, a pair of it still to issue, a live
task, or a task in one of the two lists of the secondary task.  On top of `IInv` the
inductive invariant `SInv` has, for accounts that are not overtaken,

* `SoleSources`: a block of a scan has at most one source, and none once it is
  counted.  Each step moves a block from one source to the next (`Moves`) or leaves
  its sources alone (`Keeps`), and `SourcesKept` draws the conclusion for both;
* `Owned`: tasks and pairs belong to a scan in the map and lie in its range, so that
  nothing of an earlier scan is left over when the account is popped again.  `Round`
  says that the primary task calls `scheduling_tasks` between two groups only;
* `Tally`: the blocks found are the relevant ones of those counted;
* `Finishers`: who clones or removes an account is alone, and all of it is counted;
* `Holders`: a request is in one place, so that an answer is counted by one reader.

An answer that counts is then the first for its block (`CountsOnce`), the
subtraction does not wrap, and 0 is reached when nothing is left.  The exception is
sharp: `scan_incomplete` shows an incomplete scan of an overtaken account.
`FinishersAlone` and `RequestsInOnePlace` state `Finishers` and `Holders`.
`ScansOnlyGrow`: `Spec => ScanOnlyGrows`, an action property, needs the types only:
a pop adds an account that was not there, and a reader adds or removes.

**Overtaken scans.**  The second half of `ScanCompleteProofs` has no exception for
them.  When a task is taken after its answer was counted, its block is counted
twice; `remaining_task` then reaches 0 with a block missing, and goes below 0 if
another answer comes before the account is removed.  Could it reach 0 again, so
that two readers finish one scan?  Neither `SoleSources` nor the exact counter
helps here.  Instead the proof counts *claims*: what may still lower the counter
of an account.  `Claims(a)` are its live tasks, the tasks and pairs at the two
schedulers, the blocks in front of the primary task, the blocks that were dropped
by a failed fetch or left out by the node (`GivesUp`),
and one more claim (`"early"`) for each task that was found 600 s old while its
request or its answer is still on the way.  The invariant is

    Paid(a) == IsFiniteSet(Claims(a)) /\ Cardinality(Claims(a)) <= Left(a) + late

where `Left(a)` is `remaining_task` read as a number with a sign, and `late` counts
the tasks found expired too early.  A step loses claims (`Holds`), trades one for
another (`Swaps`), gives one up and lowers `Left` (an answer that counts), pays for
a new scan with its `remaining_task` (a pop), or pays for its new claims with `late`
(`SecondaryWake`).  The rest of the invariant `CInv` says that uuids in the map were
drawn, that a block leaves the primary task's span before it is in a call of
`scheduling_tasks`, that no scan runs when a round begins, and that `Left` is not
above 0 for the account of a finisher (`FinishersOwe`).  So

* `FinisherIsAlone`: `Spec => []OneFinisher`: the answer that leaves 0 found 1, but
  another finisher of the account would mean there was none left already;
* `LossIsBounded`: `Spec => []MissesAtMostLate`: by `BlockConservation` each block
  that is not counted has a claim of its own, and with nothing left there are at
  most `late` claims when the message is made;
* `ScannerIsService`: `Spec => IsScanService`: by `OneFinisher` a removal ends a
  scan that is there, each push takes one request off a client and puts one on the
  stack, and the rest is arithmetic on the sizes of these sets (`Becomes`).  That
  only finitely many clients and connections are in use at a time (`InUse`) is an
  invariant, not an assumption on `Client` and `Conn`.

The three have the hypothesis

    WordHoldsLate == MaxLate \in Nat /\ Word > MaxHeight + MaxLate

that the counter can tell a number below 0 from one above.  In the code `Word` is
2^64, and the blocks of a scan and the tasks that a scanner issues before it is
restarted stay far below that; the instances satisfy it with `Word` 8.

`WorkerPoolProofs`, for any workers, connections, schedulers, tasks and capacity.
`Held(x)` are the tasks in a spot `x`: a channel, a buffer, a socket, a hand of a
reader, a writer or a scheduler, the queue, the answered ones.  Every step is shown
to carry tasks from some spots to one (`Passes`), to take in new ones (`Starts`), to
answer one (`Ends`) or to lose some (`Loses`); what follows is said once of these
four.  The invariant is

    Inv1 == TypeOK /\ HandsOK /\ NamesOK /\ NewIsEmpty /\ EntryIsLive
    Inv2 == Inv1 /\ AllUp /\ Disjoint /\ HeldIssued /\ Distinct

`HandsOK` is what each task of the program has in hand where, `NamesOK` that the
name of a worker stands for a connection of that worker, `NewIsEmpty` that a
connection that was not opened is empty; `Disjoint`, `Distinct` and `HeldIssued`
that no task is in two spots, twice in one, or there before it was handed over.
From it: `TypeCorrect`, `InOnePlace`: `Spec => []OnePlace`, `EntriesAreLive`: `Spec =>
[]EntryIsLive` and `PoolIsTaskPool`: `Spec => PoolContract`.  `NoTaskLost`: `Spec =>
[]NothingLost` and `BusyWorkersWork`: `Spec => []BusyHasWork` have the hypothesis
`Faultless`: no connection breaks and no send times out, which is what `pool_steady`
sets.  With faults tasks do get lost, and the secondary task reissues them.
`StandstillsNeedTasks`: `Spec => []StandstillNeedsTasks`: the tasks of a scheduler, of a
writer and of a full channel are different ones by `Disjoint` and `Distinct`, and all
in the pool, faults or not: with fewer than 1026 tasks in the pool the scanner
does not stand still.
`AllUp` says that then nobody dies, `AllHeld` and `BusyInFlight` that each task and
the work of each busy worker is somewhere.

`AccountServerProofs`: `TypeCorrect`, `NoAccountIsForgotten`: `Spec =>
[]NodeImpliesRow`, `ImportsAreNew`: `Spec => []ImportIsNew` and `StoresAgree`: `Spec =>
[]QuietMeansEqual`, for any accounts, clients, submissions and failures.
`NodeImpliesRow` is not inductive: an import could reach the node while a removal
is about to delete the row.  A handler is *between* the stores if its next call
is the import at the node or the deletion of the row, and the invariant adds

* `BetweenIsExclusive`: then the row is there, the node does not have the account,
  and no other handler is between the stores for it.

It holds because the insertion of a row and the removal at the node each
succeed for one of several handlers only; and because the next call of a
handler is the next one of its plan, which `NextCall` and `Linked` state of the
lists.  For `StoresAgree`, `EqualOrBetween` says that without failures a row without
an account belongs to a handler between the two.
`RequestsMeet`: `Spec => []HeadsMeet` rests on `ResponsesOK`: up to its last request a
submission goes on where the last one ended (`Reached`), what it has told the node
and what is left are the blocks of the response, and after the last all are told.
A batch has the `Limit` lowest blocks that are left, or all of them (`Batch`).

`AccountHeadProofs!HeadIsServer`: `HeadSpec => Spec`: every behaviour with heights is
one of `AccountServer`, so that the theorems above hold of it.
`HeadTypeCorrect`: `HeadSpec => []HeadTypeOK` rests on `TInv`: the node has looked at
blocks of the chain only and each head is among them; what a handler has read is
not above the chain, which only grows; who has still to submit has read a head
(`LocalsOK`); a response ends below the latest block, and so does each chunk of it
(`MessagesOK`); and a client has at most one request with the scanner, each for one
scan owed (`RequestsOK`).  `HeadAssumption` has `1 <= MaxHeight`: a chain has its
genesis block.

`AccountHeadProofs!HeadsAreCovered`: `HeadSpec => []HeadIsCovered`, for any length of
the chain, any responses, chunks and number of handlers, and whichever blocks the scans
passed over.  On top of the invariant
of `AccountServerProofs` (each step of `HeadNext` is one of `Next` or leaves its
variables alone) the inductive invariant has

* `PlansOK`: what a submission may have left to do, so that only a submission sets
  heads and none reads them;
* `FreshIsLooked`: all blocks up to the head that a fresh handler has read, that is
  in a fresh request or that a fresh response starts from were looked at or passed
  over by a scan (`seen` and `missed`), and so were those below the next chunk.
  This is what a reset would destroy for those that have read the head before it,
  and why it makes them stale.

That the last block of a chunk exists (`LastBlock`) follows from the least element
of a set of naturals.

`FramingProofs`: `TypeCorrect`, `MessagesInOrder`: `Spec => []InOrder` and
`FramingIsChannel`: `Spec => IsChannel`, for any
number and length of messages, any window and boundary, with timeouts and
breaks.  The inductive invariant adds to these

* `BytesInOrder`: what was read, `buffer`, `socket` and `out` are consecutive
  numbers, and end at the last byte encoded while the connection is up;
* `CursorIsScanned`: there is no newline before the cursor;
* `SenderNeedsUp`: nothing is sent on a broken connection.

The first newline behind the cursor is then that of the next message, and what
stands before it is its body.  For the refinement, the last message that is whole
on the way exists, as the least element of a set (`WholeExists`), and each step
of `Framing` changes it as a step of `MessageChannel` does, or not at all.

`RpcStreamProofs`: `ItemsAreUnmangled`, `SuccessIsWhole` and `ErrorsHaveCauses`, for
any items and sizes of reads.  The invariant adds `BytesInOrder`: while an item is
read, it and the buffer are the bytes that follow the items returned (`InStep`),
unless the last one was returned without its form feed (`PastEnd`); an item that
is parsed was ended by its form feed (`Ended`) or by the body (`CutOff`).

`BlockStoreProofs`: `TypeCorrect` and `MissingBlocksAreGaps`, `Spec =>
[]OnlyGapsKill`, for any checkpoint and group size.  The invariant says that after a
whole load up to some group all heights before it have rows
(`GroupsBefore`), that of the group in work each height has a row or is still to
be saved (`GroupInWork`), and that the primary task waits for the load.  A
local group has only heights from 1 to the checkpoint, and the load is
past the checkpoint when it is read.

Only model-checked:

* the liveness properties `QueuedIsScanned`, `ScanIsSubmitted`, `TaskSettles`,
  `ScanningResumes`, `RescanRecovers`, `NeedScanSettles`, `Delivered` and
  `Answered`: there is no rule here for fairness with the `ENABLED` of these
  actions.  Every other property of a passing run is a theorem.

The assumptions of the theorems are the named ASSUMEs of the modules, which TLC
evaluates on the instances, and nothing else but `Faultless` and `WordHoldsLate` where
they are named.
Induction over data is out of reach of the prover, and so are RECURSIVE operators,
which the modules do not use; where a smallest or a last element is needed its
existence follows from the well-foundedness of the naturals.

## 5. What is not modelled

* Read-only requests, and the creation and broadcast of transactions: a look at
  the account's row and a single call of the node; nothing is kept.
* The redis handler, which is deprecated and refuses what the scanner and a
  rescan need; the table of first-seen addresses.
* The prover, which keeps nothing; signatures, tokens, message formats.
* Heart beats of a worker after the first.
* A restart of the scanner inside `ScanManager`, which keeps nothing and starts from
  `Init`; what it means for the server is `ScannerCrash` of `AccountServer`.
* What the server does when the primary task is dead or a dropped block keeps a scan
  from ending: the fairness of `AccountServer` assumes that neither happens.
* Account names: the name is the first ten characters of the address, and two
  addresses could share them; here names differ.

## 6. Plan

Done: `BlocksRange`, `ScanManager` with proofs and its refinement of `ScanService`,
`TaskPool` and `WorkerPool`, `AccountServer` and `AccountHead`, `Framing` with its
refinement of `MessageChannel`, `RpcStream` and `BlockStore`, all with proofs of their
safety properties and refinements.  What could follow: `Wallet`, `AccountServer` and
`ScanManager` in one module, instead of through `ScanService`, if an instance small
enough for TLC still has several rounds.

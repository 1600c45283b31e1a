# Specifications of the services in this repository

The repository collects several programs of one author: the laboratories of a
distributed-systems course in Go (`6.824/`), a small message queue in Go
(`nsq/`), a key/value server in C++ with replication (`ssdb/`), a C event loop
with a thread pool (`cnm/`) and some exercises. This directory holds TLA+
specifications of the parts with a protocol in them, TLC models that check them
on small instances and TLAPS proofs that hold for all of them.

## 1. Inventory

| part | state | operations | interacts with | what is hard |
|---|---|---|---|---|
| `6.824/src/paxos` | per peer: map of instances (`n_p`, `n_a`, `v_a`, state), table of Done() arguments; per goroutine: the round it is in | handlers Prepare, Accept, Decide; Start, Done, Min, Max, Status; the proposer loop | peers call each other; applications call Start, Status, Done | duelling proposers, lost and late calls, forgetting while others still propose |
| `6.824/src/viewservice` | the view, the number its primary acknowledged, ticks of the last pings | handlers Ping, Get; tick | p/b servers and clerks ping it | acknowledgements against time-outs, restarts, late pings |
| `6.824/src/pbservice` | server: database, view; clerk: view | handlers Get, PutAppend, ProcessForward; tick; the clerk's Get, Put, Append | calls the view service; forwards between servers | retries, fail-over, state transfer, a mutex held across calls |
| `6.824/src/lockservice` | set of held locks | Lock; Unlock is a stub | clerk calls primary, then backup | replies lost by `DeafConn` |
| `6.824/src/mapreduce` | input splits, registration channel, jobs of a phase, files | Split, Register, DoJob, RunMaster, Merge | master calls workers, workers register | workers that fail in a job, the barrier between phases |
| `nsq/src/nsqd` | topics, channels, memory and disk queues, in-flight messages, clients; message numbers | PUB, SUB, FIN; message pumps; the guid factory | goroutines over channels | bounded and unbuffered channels, messages lost with a client |
| `ssdb/src` replication | binlog, sequence numbers, the slave's saved status | set/del transactions; copy and sync phases; slave's proc | master thread per slave, slave thread | a restart between two writes, copy against concurrent writes |
| `ssdb/src/net`, `proc_kv.cpp` | input buffer, kind of the last request, keys and hashes | onRead, recv_req, proc, send_resp | event loop; the store | requests cut anywhere, two protocols on one connection |
| `ssdb/src/util/thread.h` | queue of jobs, queue of results with a pipe | push, pop, start, stop | worker threads, the thread that reads the results | wake-ups, a full pipe, cancelled threads |
| `ssdb/src/util/json.hpp` | a document | access, modifiers, iterators, (de)serialisation, pointers, patches | read by the server's configuration | widths, indexes, nesting |
| `cnm/util` | task queue, idle count | submit, worker loop | threads over one mutex and condition | lost wake-ups |
| `cnm/net` ae, tree.h | file event table, red-black tree of timers | create and process events | callbacks make timers | a callback that changes what is being walked |
| `algorithm` | a binary search tree, a B-tree | insert, delete, search | — | rebalancing, parent pointers |
| `kvpaxos`, `shardmaster`, `shardkv`, `diskv` | — | handlers are empty | — | — |
| exercises, `ragel`, `Cipher`, `DistributedSystemTest` | — | single-threaded or generated | — | — |

What makes each part correct:

* paxos: peers that report a decision report the same one; nothing an
  application still needs is forgotten; what nobody needs is forgotten.
* viewservice: views are numbered one by one, a number means one view, the
  primary comes out of the view before, an acknowledgement is the primary's.
* pbservice: an update takes effect at most once; an answered update is seen by
  later reads; the database moves from the primary to the backup.
* mapreduce: the output is that of the sequential program whatever workers die;
  the run ends while a worker survives.
* nsqd: a published message reaches every channel once; it is lost with a
  connection only; numbers of messages are unique and increase.
* ssdb: the slave's data follow the master's up to the sequence number it has
  saved.
* thread pools: no task waits while all workers sleep; none is lost or run twice.
* ssdb connection: what is read does not depend on how the bytes are cut; every
  request has its reply.
* json: what is written is read back; a patch made by diff() leads to its target.
* trees, heap, timers: the structure holds what was put in, in order and balanced;
  a timer that is due runs.

## 2. Modules

| module | models | kind |
|---|---|---|
| `Consensus` | what the paxos library promises | abstract specification |
| `Paxos` | `paxos/paxos.go` | component; implements `Consensus` |
| `MCPaxos` | bounds and symmetry | TLC |
| `PaxosProof` | — | proofs |
| `ViewService` | `viewservice/server.go`, `client.go` | component |
| `MCViewService`, `ViewServiceProof` | — | TLC, proofs |
| `PBService` | `pbservice/server.go`, `client.go` | component, composed with `ViewService` by INSTANCE |
| `MCPBService`, `PBServiceProof` | — | TLC, proofs |
| `Replication` | `ssdb/src`: `ssdb_impl.cpp`, `binlog.cpp`, `backend_sync.cpp`, `slave.cpp` | component |
| `MCReplication`, `ReplicationProof` | — | TLC, proofs |
| `MapReduce` | `6.824/src/mapreduce` | component |
| `MCMapReduce`, `MapReduceProof` | — | TLC, proofs |
| `Nsqd` | `nsq/src/nsqd`: topic, channel, protocol | component |
| `MCNsqd`, `NsqdProof` | — | TLC, proofs |
| `WorkerPool` | `ssdb/src/util/thread.h` | component |
| `ThreadPool` | `cnm/util/threadpool.c`, `queue.h` | component |
| `MCPools`, `PoolsProof` | both pools, one of them per behaviour | TLC, proofs |
| `JsonValue`, `JsonIterator`, `JsonBinary`, `JsonPointer`, `JsonText` | `ssdb/src/util/json.hpp` | operators |
| `JsonDocument`, `MCJson` | a document under edit | component, TLC |
| `Trees` | `cnm/net/tree.h`, `algorithm/tree.c`, `algorithm/btree.c` | operators |
| `TimerLoop` | the timers of `cnm/net/ae.c` and the pass over them | component; with an ordered set in place of the tree, an abstract specification |
| `EventLoop` | `cnm/net/ae.c` on `tree.h` | `TimerLoop` composed with `Trees` |
| `InFlightQueue`, `Guid` | `nsqd/in_flight_pqueue.go`, `guid.go` | components |
| `Link` | `ssdb/src/net`: link and its buffer; `proc_kv.cpp`, `ssdb_impl.cpp` | component |
| `MCLibrary` | the trees and the components after them, one per behaviour | TLC |
| `LibraryProof` | `InFlightQueue`, `Guid`, `TimerLoop` | proofs |

Operators whose comment begins with "Mutant:" are not part of the
specifications. Each is the definition after it with a plausible mistake, to
show that a property notices the mistake when it replaces the definition.

### Paxos

`inst[p][s]` is `px.instances[s]` of peer p, with state `"Absent"` for a missing
entry; `dones[p]` is `px.dones`; `prop[g]` holds the local variables of a proposer
goroutine. Steps are the sections under `px.mu`: each handler, each half of
`Status()` (which locks twice), the local part of `sendDecide()`. `sendDecide()`
reads `px.dones` just after it has released the mutex; the step includes the
read, since `Done()` touches nothing else the section uses and may equally well
have run before it.

A call that is answered is one step with its handler: the caller does nothing in
between. A call that fails leaves its request in `net`, from where it may be
executed at any later moment or never. This covers a connection that cannot be
made, the two kinds of unreliability that `Make()` simulates (request discarded,
reply discarded) and a handler that runs after the caller has seen an
end-of-file. Nobody looks at the reply of a Decide, so all Decides go to `net`.

Proposal numbers are clock readings as decimal strings with the peer's index.
The model keeps what the protocol uses: they are distinct (assumed: nothing keeps two
goroutines of a peer from reading the same nanosecond, or a clock from being set
back) and ordered. Which of
the unused numbers a round draws is left open, so nothing rests on clocks that
agree or on the order of strings that differ in length.

`votes`, `mp` and `proposed` are history variables: accepted proposals that no
earlier promise forbade, the highest number promised, and the proposals sent out.

### ViewService

The cases of `Ping()` are one action each, with the guards of the else-if chain
spelled out. Ticks of the last pings are kept as ages, which stop at `DeadPings`.
`known[c]` is the view a server or a clerk has; a server whose Ping() fails takes
the zero `View` that comes with the error, a clerk keeps its own. Clerks ping
under the empty name, as `pbservice.MakeClerk(vshost, "")` makes them do, and the
service treats the empty name as any other; so a clerk may become the "primary" of
view 1. `Get()` reads the view and is not an action. `views` and `told` are
history variables.

### PBService

One key; its value is the sequence of the updates it consists of. The database
also holds an entry per applied update, which is how the code recognises a
retry. `mu[s]` is the forward that server s is in while it holds `pb.mu`: a
PutAppend() or a tick() that has to forward is two steps, all others one. Nothing
else happens on s in between, but everything may happen elsewhere, such as a
forward in the opposite direction. The view service is `VS == INSTANCE
ViewService` on shared variables; `tick(s)` and `updateView(c)` contain its Ping.
A restart loses the database and the requests that were on their way to the
server.

### Replication

The master's data and log change in one step, as they are one leveldb batch under
the mutex of the `Transaction`. The thread the master runs for a slave takes a
step per log entry that sync() looks at, one to read the value of the entry and
send it, and one per item that copy() visits; writes and the slave run between any
two. An iterator is the snapshot leveldb gives it; it always stands at `last_key`,
so there is no separate position. The channel is ordered; a broken connection
keeps any prefix of it. The slave redoes a message, saves `last_key`, saves
`last_seq`: three steps, with a restart possible between them.

`lost` is a history variable. It holds the keys of which the protocol itself has
given up the last write, and the model says at each place why:

* a redo failed, and nothing later for the key is on its way (`RedoFails`);
* raw_get() failed on the master when the value of a log entry was to be sent: the
  entry is passed over, and the log has no later one of the key (`ReadFails`);
* the iterator of a copy failed: it is no longer valid, which copy() takes for the
  end, and the keys it has not visited are sent only if the log has them (`IterFails`);
* a copy was broken off: the slave comes back with a sequence number, so the
  master only follows the log, and the keys beyond the slave's `last_key` are not
  sent until they are written again (`GivenUp`);
* a slave that redid the first items of a copy and stopped before it had saved
  anything is copied to from the start, but a key that has been deleted on the
  master meanwhile stays on the slave (`GivenUp`);
* the log was empty at the first sync(), and more keys than one chunk were written
  before copy() opened its iterator: the next sync() calls find_last() and passes
  over all entries but one (`Skipped`), which the comment in `_run_thread()` warns of.

A key leaves `lost` when it is sent again. `copying` is a history variable too: a
copy has begun and not ended.

### MapReduce

`task[t]` is the goroutine that RunMaster() starts for job t, `worker[w]` the place
of a process in RunWorker() with the calls it will still take, `job[w]` the job it is
executing, how many of its files it has written and whether it has created the next. The unbuffered
`registerChannel` is a rendezvous: a goroutine takes a worker from a registration
(`TakeRegistered`) or from another goroutine that hands its own back
(`TakeReturned`). A job creates a file in one step and writes it in the next, so a
worker may die between any two. A
line is its number and its length, which is all that Split() and the partition
look at. RunSingle(), the sequential program, is what `OutputIsSequential` compares with.

### Nsqd

One topic. A queue is `[mem, back]`, the Go channel of bounded capacity and the disk
queue behind it; a select takes the head of either. `chans` is the pump's copy of
`channelMap`; `pump` the message it is copying and the channels still to be given
it, one step each. A SUB is three steps: GetChannel() under the lock, the hand-over
to the topic's pump on the unbuffered `channelUpdateChan`, the put into
`SubEventChan`. `client[k]` has the place of the IOLoop(), the subscribed channel,
the message in the hands of the pump, those the client `got`, and the state of the
connection, which the two goroutines learn of separately. `due` and `known` are
history variables: the channels a message was copied to, and those the pump knew
when it was published.

### WorkerPool, ThreadPool

A step is what a thread does under a mutex up to a point where it blocks or may be
cancelled. Waiting threads may wake without a signal; a signal wakes any one.
stop() may cancel a worker in pop(), in proc() or in write(); one that is cancelled in
proc() takes its job with it, and the record keeps the job so that the invariant can say
that no job goes in any other way.
WorkerPool's result queue writes a byte to a pipe of bounded capacity while it
holds the mutex. ThreadPool keeps the two links of every `ngx_queue_t`; `order` is
a history variable, the works in the list in the order of submission.

### Json

A value is `<<m_type, m_value>>`, 64-bit numbers are their eight bytes. Modifiers,
encoders and parsers are operators; an exception is a value. JsonDocument applies
every modifier to one document in any order and asks of each document reached
that the other operations agree on it.

### Trees, TimerLoop, EventLoop

Trees are records of pointers, and the macros of tree.h, which are written twice for
left and right, once with the side as a parameter. TimerLoop is ae.c without the tree:
`pass` is the loop of aeProcessTimeEvents(), interleaved with what the callbacks do, and
what the loop asks of the tree, `RB_MIN` and `RB_NEXT`, is a parameter of its actions.
`TimerSpec` gives them the answers of an ordered set; EventLoop gives them those of a
tree that is walked while it changes, and `TimerTreeKept` says that the answers are the
same. Timers that are in no tree any more keep their memory, as in the code.

### InFlightQueue, Guid, Link

The loops of `up()` and `down()` are recursive functions over the turns, of which there
are at most as many as the place in the heap allows; a turn that the code breaks off
changes nothing. `DueTime` is the field `pri`, with which messages are put in. Guid has
the bit layout of the code in smaller widths, with a NODEID that overlaps the time as
topic.go's does; an OR is taken bit by bit over `WordBits` bits. Link gets its bytes in
pieces of any size; a byte is a string, a command's name one byte.

## 3. Runs

`pass` runs must find no error; `violation` runs show a disagreement of the code
with its own comments or tests, and what they find is in section 6.

| run | checks | result |
|---|---|---|
| PaxosAgree | `Agreement`, `BrokenPromiseBacked` | pass |
| PaxosForget | `TypeOK`, `DonesNeverAhead`, `Implements` | pass |
| ViewService | `OneViewPerNumber`, `AckMeansTold`, `PrimaryFromPreviousView`, `LeftOnlyWhenTold` | pass |
| PBService | `AtMostOnce`, `OkMeansForwarded` | pass |
| Replication | `CaughtUp`, `ResumeSafe`, `CatchesUp` | pass |
| MapReduce | `WorkerHasOneJob`, `OutputIsSequential`, `Finishes` | pass |
| Nsqd | `OneCopyPerChannel`, `NoChannelForgotten`, `LostOnlyWithConnection`, `Drains`, `SubAnswered` | pass |
| Pools | `JobInOnePlace`, `ByteMeansResult`, `NoLostWakeup`, `EveryJobComesOut`; `ListIsQueue`, `IdleAndAwake`, `EveryWorkTaken` | pass |
| Library | `TreesKept`, `DueTimersRun`, `InFlightHeap`, `IdsIncrease`, `Answered`, `CutAnywhere` | pass |
| Json | `BinaryRoundTrip`, `TextRoundTrip`, `PointersAgree`, `OrderedDocuments`, `IteratorsAgree` | pass |
| PaxosPanic | `NoPanic` | violation |
| PBStale | `NoStaleGet` | violation |

Bounds and why they are enough for the cases in question:

* PaxosAgree: three peers, the smallest number with majorities that overlap in
  one peer; two proposers with one number each and two values; one prepare or
  accept request outstanding (`MaxLate`), any number of Decides. It contains the
  duel in which each proposer gets a different majority and the second has to
  take over the first one's value, and a Decide that arrives after a higher
  promise. Done() is never called (`MaxDone = 0`).
* PaxosForget: two peers, three proposal numbers, Done() on both. It contains
  instances that are decided, forgotten, re-created by late requests and
  proposed again.
* ViewService: two servers and a clerk, `DeadPings = 2` so that a server may miss
  a tick and live, views up to 4 (first primary, backup, fail-over, return of the
  old primary), one late ping.
* PBService: two servers and a clerk with one operation of any kind,
  `DeadPings = 1`, views up to 3 (primary, backup, fail-over), one request
  outstanding, a ping or a call to a server (`MaxOutstanding`). What more clerks,
  servers and operations could do is covered by the theorems.
* Replication: two KV keys and a hash key, three writes (`MaxLog`), one item per
  copy() call (`Chunk`; 1000 in the code), so that sync() runs between any two
  items, and two faults (`MaxFaults`), so that a restart can follow a failed read or
  redo, a broken connection or another restart. One value is enough to tell a stale
  value from a current one, as keys are deleted too; with two values, four writes
  and one fault the invariants hold as well.
* MapReduce: two jobs in each phase, so that goroutines compete for workers and hand
  them to each other; one worker that stays, one that leaves after two calls, one
  that may die anywhere; inputs with lines of different lengths, the last too short
  for two splits.
* Nsqd: two channels, a client that subscribes twice and one that leaves, two
  messages of which one is too long for the disk, memory queues of one message.
* Pools: two workers, two pushers, four jobs and a pipe of two bytes; three threads
  and three works that are submitted again and again.
* Library: trees of up to seven nodes (all shapes of removal occur, and splits of the
  root and below it), four timers, heaps of seven messages with pairs of equal times (`Halves`) that grow and
  shrink, a clock of nine values and words of six bits, in which the largest number fits, connections with two or three requests out of those that differ in
  form, line end, command, and keys and values that look like protocol; buffers of
  4 bytes that grow to 32 and a packet limit that one request passes.
* Json: every sequence of edits from documents with numbers and lengths on both sides
  of each border of the encodings, as long as the document has at most four nodes; each
  is compared with documents among which are numbers of the three types, so that signed
  and unsigned ones meet.

Symmetry sets are the goroutines and values of Paxos and the servers and clerks of
the others; the liveness-free properties checked are symmetric in them.

Deadlock is checked in the runs of ViewService, PBService and Json. In the others a
state without successors is legitimate: the goroutines have ended and no request is
left, the bounded proposal numbers, writes, messages or jobs are used up, a pool has
been stopped, the script of a connection is at its end.

Replication assumes weak fairness of the master's thread, of the slave and of the
slave's connection attempt: the thread loops and sleeps 300 ms at most, the slave
is called back by its event loop for whatever arrives, and a connect is either
made or the slave has stopped. `CatchesUp` needs no more, as the writes that make
the copy start again are bounded.

MapReduce assumes weak fairness of the master, of each goroutine and of each worker
process: the Go scheduler and the system run what can run, and nothing makes a
worker die. Nsqd assumes it of the pumps and of an IOLoop() whose channel
has room; Pools of the threads. No wake-up without a signal is assumed, and the
threads that submit work to cnm's pool may stop. A select with two ready cases is not
assumed to be fair.

No other run assumes fairness. For Paxos none should be: two proposers may outbid
each other for ever.

## 4. Proofs

All theorems hold for any value of the constants under the ASSUMEs of the
modules, which TLC evaluates on every run. They say what the code takes for
granted and what the model's own values need: N, `DeadPings`, the capacities, the
chunk and the numbers of jobs are positive; sequence numbers, proposal numbers and
lengths of lines are naturals; `Ops` are the three operations; there are finitely
many threads in a pool; a timer's interval is not negative; and the model values for nil, no file, no worker, no iterator
and the empty name are not values, files, workers, iterators or names, nor a clerk a
server. No assumption
bounds the number of peers, clients, workers, keys, messages or failures.

The one assumption that is more than a type is `GuidAssumption`: the numbers fit into a
word, and NODEID has not all of the bits in which it overlaps the time. In the source
`NODEID` is 123456 = 120 * 2^10 + 576, so it has 120 of the 127 in the seven bits of the
overlap; with all of them a factory could be refused once more than the property allows.

* `PaxosProof!TypeCorrect`. The types alone are not inductive: a proposer sends
  `rv`, which is `NoValue` for an idle goroutine, and takes over `v_a`, which is nil
  in a fresh instance. `WellFormed` says when they are values.
* `PaxosProof!AgreementHolds`, `BrokenPromiseBackedHolds`, `ImplementsHolds`, from
  the inductive invariant `AgreeInv`. The classical argument, in which a promise is
  kept for ever, does not apply to this code: Decide() lowers `n_p` and `n_a`, and
  Min() deletes instances. The invariant therefore speaks of `mp`, the highest
  promise ever given, and of votes that kept it; an instance whose `n_p` has been
  lowered is `Backed`: a value was chosen at or below that number, and it is the
  one the instance holds. Then a later proposer that reads it takes over the
  chosen value, which is all the protocol needs. Everything is said of `Open`
  sequence numbers only, those some application has not passed to Done();
  `DonesInv` is what makes an open instance safe from Min(). The refinement maps
  the abstract `chosen` to the values with a majority of votes and `open` to `Open`.
* `PaxosProof!DonesNeverAheadHolds`: the table entries for other peers, and the
  Decides on their way, never exceed what the peer itself has recorded.
* `ViewServiceProof`: `TypeCorrect`, `OneViewPerNumberHolds`, `AckMeansToldHolds`,
  `BackupIsAnotherHolds`, `PrimaryFromPreviousViewHolds`, `LeftOnlyWhenToldHolds`, from
  `Inv`: numbers of past
  views are distinct and at most the current one (`ViewsInv`); a process, or a late
  ping, that carries the number of a view it is the primary of proves that the
  primary was told (`ToldInv`). The two action properties follow from what a step may
  do to the view (`Stay`, `Move`), the second with `AckMeansTold`.
* `PBServiceProof!AtMostOnceHolds`, from `Inv`: every database, those on their way
  included, remembers each update its value contains (`Remembered`), and every
  update sent has a uid (`Started`). The values may still lose updates, see below:
  the theorem is "at most", and no more.
* `PBServiceProof!OkMeansForwardedHolds`, from `WaitInv`: a server that is in a forward
  for a clerk has the clerk's update in its value and still takes itself for the
  primary, with the receiver as its backup, and a clerk waits for one server only.
  It is inductive because `pb.mu` is held: a late forward, another update or a ping of
  the server would change its value or its view, and each needs the mutex.
* `PBServiceProof!TypeCorrect`, from `TypeInv`. That late requests and forwards go to
  servers does not follow from the types (those of the view service are kept because
  every step is one of ViewService or leaves it alone, `ViewServiceStep`): `Locks` adds that a server which is in a
  forward to nobody is in none, and `IInv` that a clerk which calls has a uid.

* `ReplicationProof!CaughtUpHolds`, `ResumeSafeHolds`, `TypeCorrect`, from `IInv`. Neither
  property is inductive: both speak of states in which nothing is on its way. What
  the slave will hold is what it holds now with the messages in the channel redone,
  and since the connection may break after any of them, `Resumes` says of every
  prefix that each key not in `lost` is then right, or has a log entry behind the
  sequence number the slave will have, or is still to be copied. `AllCovered` says the
  same of the whole channel and of what the master's thread has yet to look at;
  `SnapshotOK` that the open iterator is stale only for keys with an entry that
  sync() will find, which is where the drop of entries ahead of the copy is paid
  for. The rest orders things: the channel follows the log and the keys (`ChanOK`),
  the thread is ahead of the channel (`ClientOK`), memory of what is saved (`SavedOK`),
  and the newest entry of a key says whether the key exists (`LogOK`).
* `MapReduceProof!WorkerHasOneJobHolds`, `OutputIsSequentialHolds`, from `IInv`: a worker
  is held by one goroutine and works for it (`Holding`), the jobs of a phase begin
  when those before it are done (`Phases`), and the files are those of a sequential
  run where a job is done, or where the attempt that is going on has finished them;
  the one it has open is empty, whatever the attempt before it left (`MapFiles`,
  `ReduceFiles`). What the sequential run writes, `MergeOf`, is shown to have every
  line once by induction over the lines: `OffsetIs` and `FileOfIs` for the loop of
  Split(), which never makes more than nMap files; `WrittenIs` for the loops that
  write some of the lines; `FlattenIs` for those that write file after file.
* `NsqdProof!OneCopyPerChannelHolds`, `NoChannelForgottenHolds`,
  `LostOnlyWithConnectionHolds`, `TypeCorrect`, from `IInv`. The property counts copies; the
  invariant says it with sets: what a channel has queued, in flight, or about to be
  put by the topic's pump is what the pump owed it (`DueOK`), these are disjoint, and
  no queue has a message twice (`ChannelsOK`). The topic's queue has what the pump
  has not taken (`TopicOK`), and the pump never forgets a channel (`KnownOK`).
* `PoolsProof!JobInOnePlaceHolds`, `ByteMeansResultHolds`, `NoLostWakeupHolds`, from
  `PoolInv`: the jobs in the places are disjoint and make up all that were pushed, with
  those of workers that were cancelled inside proc() (`OnePlace`), whoever holds the mutex of the results is the one that has a
  byte to write (`HolderOK`), and each byte has its result (`Bytes`).
  `ListIsQueueHolds`, `IdleAndAwakeHolds`, from `TPInv`: with a queue in which no work is
  twice, the links can be followed; the other two parts are inductive with it.
  Each pool leaves the variables of the other alone.
* `LibraryProof!InFlightHeapHolds`, from `QueueInv`: the messages know their places
  (`Knowing`) and none is before its parent (`Sorted`). Within a call this does not
  hold. `UpLoop` and `DownLoop` rest on what every turn keeps: all is in order but for one
  place, which may be too early for its parent (`SortedBut`) or too late for its children
  (`SortedAbove`), and what is below the place is in order with its parent. Remove() calls
  both: `down` leaves at most the place it began at too early, and `up` mends that.
* `LibraryProof!GuidsIncrease`, from `GuidInv`. An OR is at least each of its arguments
  and at most their sum (`OrBounds`, by induction over the bits), so a number lies between
  the time's part and that plus what NODEID and the sequence can add. A refused call
  therefore means that the time has gone on by fewer steps than the overlap has values
  since the last number (`NearLast`), which bounds the times at which it can be refused
  (`SinceLast`). That numbers increase needs no more than the check in the code.
* `LibraryProof!DueTimersRunHolds`, from `TimerInv`. The property speaks of the timer the
  walk stands at; in a callback that timer is about to go, and what must be right is
  `next`, read before the callback: it is not the timer that goes, and no later than any
  timer still owed (`Ahead`), however many are put in before it. That a timer which makes
  itself again in the same pass does no harm rests on places in the order that no two
  timers share, which is what the comparison of addresses is for. This is proved of
  `TimerSpec`; that the tree answers as the ordered set does is model-checked.

**Induction.** The library's induction theorems take an operator as a parameter, and
no installed prover instantiates one. `MapReduceProof` and `LibraryProof` do induction
without them: that
the order of the numbers is well founded is a theorem without a parameter, so a set
of numbers that lacks one lacks a least one (`LeastNumber`), and a set with 0 and, with
every number, the next has all (`UpTo`). From this follows that a function can be
defined by recursion (`Recursion`), which gives the recursive functions of the model
their equations. It works for recursive functions over numbers, not for RECURSIVE
operators, which tlapm cannot read.

Only model-checked:

* `CatchesUp`, `Finishes`, `Drains`, `SubAnswered`, `EveryJobComesOut`, `EveryWorkTaken`:
  liveness under fairness, which is out of the prover's reach.
* the json properties, `TreesKept`, `Answered` and `CutAnywhere`: what they say is
  computed by RECURSIVE operators over documents, trees and byte strings, from which
  tlapm cannot prove a theorem, and their induction is over data and not over numbers.

## 5. Properties

* `Agreement` — peers whose Status() is Decided agree, for open sequence numbers.
* `BrokenPromiseBacked` — see section 4.
* `DonesNeverAhead` — no peer forgets on the strength of a Done() that was not called.
* `Implements` — Paxos implements Consensus.
* `OneViewPerNumber` — processes told the same number were told the same view.
* `AckMeansTold` — what counts as acknowledged, the primary was told of.
* `LeftOnlyWhenTold` — no view is left before its primary was told of it, but for one
  way the code has of doing so, see section 6.
* `PrimaryFromPreviousView` — the service's own promise; that no server is its own
  backup (`BackupIsAnother`) is part of `Inv`.
* `AtMostOnce` — no update twice in a value, across retries and fail-over.
* `OkMeansForwarded` — at the moment an update is answered with OK, the server that took
  it has it, and so has the backup it knows, unless the forward failed, whose error
  nobody looks at: then it is still under way. It says nothing of later moments, when a
  late forward of an older database may replace the value.
* `CaughtUp` — when nothing is left to send or to redo, the slave's data are the
  master's, but for `lost`. It takes the drop of log entries ahead of the copy, the
  new snapshot after a drop and the late read of values together.
* `ResumeSafe` — from wherever the slave stops, the log after its saved point and
  the rest of the copy cover all that it lacks.
* `CatchesUp` — a slave that stays connected comes to that point.
* `WorkerHasOneJob` — a worker handed on through the channel is given one job at a time.
* `OutputIsSequential` — half-written files and jobs done twice leave no trace.
* `Finishes` — the master ends while one worker stays and every job has its split.
* `OneCopyPerChannel`, `NoChannelForgotten`, `LostOnlyWithConnection` — messages are
  conserved: from the topic to each channel, while channels come, and to the client.
* `Drains`, `SubAnswered` — queues with a reader empty; subscribers are let through.
* `JobInOnePlace`, `ByteMeansResult`, `NoLostWakeup`, `EveryJobComesOut` — the pool of
  ssdb. The exception of the last one, `Jammed`, is reachable: see section 6.
* `ListIsQueue`, `IdleAndAwake`, `EveryWorkTaken` — the pool of cnm: the links refine
  a queue, the idle count does not miss a sleeper.
* `TreesKept`, `InFlightHeap` — each of the four kinds of trees, the timers' tree, and the
  heap, against its definition after any sequence of operations: order, balance, parent
  pointers, the first and the next, the place every message knows, the earliest first.
* `DueTimersRun` — callbacks that make timers do not lead the pass astray, and a pass
  ends with none that was due left over. `TreesKept` has the tree under it.
* `IdsIncrease` — numbers of messages increase with a clock that is set back, and
  the factory does not refuse for ever.
* `Answered` — replies are well-formed, in order, and what the earlier requests call
  for; the size kept with a hash is right. `CutAnywhere` — what is read does not
  depend on how it is cut, and all of it is read.
* `BinaryRoundTrip`, `TextRoundTrip`, `PointersAgree` — the equations the documentation
  of json.hpp gives, and that a cut message is refused. `OrderedDocuments` — of two
  documents one is less or they are equal, and less is transitive unless a signed integer
  meets an unsigned one of 2^63 or more, see section 6. `IteratorsAgree` — iterators and
  ranges are consistent with each other.

The inductive invariants (`Inv` of ViewService, `Inv` and `WaitInv` of PBService) and the
`TypeOK` of ViewService, PBService, Replication and Nsqd hold on the same instances; the runs ask for what
they are there to support.

## 6. Where the code disagrees with its comments and tests

Two have a run:

* PaxosPanic: a proposer with a majority of accepts is slow; another decides the
  number, both applications are done, Min() deletes the instance, and
  `sendDecide()` dereferences it.
* PBStale: an old primary that has not pinged since the fail-over answers a Get()
  from its own database, which lacks an append already answered by the new one.

The following were met while modelling. The models contain them, and the properties
are stated so as to be true with them:

* paxos: Decides of one peer that arrive in the wrong order lower the Done() argument
  recorded for it; Min() goes down, though paxos.go:398 defines it by the highest
  argument ever.
* viewservice: in view 0 nothing is acknowledged but the counters are equal, so
  `DeadPings` ticks before the first ping move the service to view 1 without a
  primary. No server's ping leaves that state, as only view 0 takes a first primary; a
  clerk's can, since clerks ping under the empty name and so acknowledge the view.
* viewservice: common.go:29 says that a view is not left before its primary has
  acknowledged it. When a primary that has not pings 0, after a restart or after a failed
  Ping(), its backup takes over at once, and need not have the database: the primary may
  never have been told that there is a backup. `LeftOnlyWhenTold` says that this is the
  only way.
* pbservice: a primary that has missed the fail-over pings, becomes the backup, and
  sends its database "to the backup" because it was primary in its old view: to
  itself, with its mutex held.
* ssdb: the slave goes on after a redo that failed, and its saved sequence number
  passes it; `doc/ssdb.md:19` says that it stops. Likewise the master goes on after a
  read that failed, and takes an iterator that failed for the end of the copy.
* mapreduce: Split() may make fewer files than nMap (mapreduce.go:22 says it makes
  nMap), and the missing ones end every worker that is given their job.
* nsqd: a third SUB on a connection blocks its IOLoop() for ever. A message too long
  for the disk queue is dropped where a short one would overflow to disk. FIN does
  nothing, so what is in flight stays there.
* thread.h: `SelectableQueue::push()` writes to the pipe with the mutex held. When the
  pipe is full and the reader has read its byte, each waits for the other.
* json.hpp:11643 says `j == j.flatten().unflatten()`; an object with a key "0" comes
  back as an array. A callback that refuses the start of a container is told depths
  that are one too high from then on.
* json.hpp:176 asks of the class what LessThanComparable asks. Of a signed and an unsigned
  number operator< converts the unsigned one, so that `-1 < 1u < 18446744073709551615u` but
  `-1 == 18446744073709551615u`, and even `0 < 1u < 18446744073709551615u < 0` for a signed
  0. A std::sort or a std::map of such numbers is not covered.
* ssdb connection: a native request is answered in the redis form of the request
  before it. `set` with an empty key is answered ok and stores nothing.
* paxos: a late Prepare re-creates a forgotten instance as Pending, which Min() never
  deletes again.
* pbservice: the clerk never looks at `reply.Err`, so an update answered
  ErrWrongServer is reported as made.

## 7. Not modelled

* `paxos.Max()` and `viewservice.Get()` change no state.
* Starvation by skewed clocks or by the string order of proposal numbers (Paxos
  leaves the order open and claims no termination).
* Values and keys beyond what properties tell apart; encoding of calls.
* ssdb: writes on the slave itself, a master that loses unsynced writes when its
  machine crashes, mirror mode, the migration of the old status format, log entries that
  cannot be read or decoded.
* mapreduce: lines of 64 KB or more, at which the Scanner of Split() stops without a word.
* nsqd: the map of topics (topics share nothing), the format of the disk queue.
* ssdb connection: what libuv does; commands that are not registered; that the
  buffer is bounded, which the code does not see to.
* json: floating-point numbers as text, streams, conversions from C++ types.
* cnm: file events, which are only ever added to a table; epoll and socket calls; the
  write of `ae_init_threads()` beyond its array.
* lockservice: Lock() is one test-and-set under a mutex, Unlock() a stub.
* The other parts listed as not modelled in `PROJECT.json`, for the reasons given
  there.

## 8. Plan

Modelled and checked: everything above. Proved: every safety property that a passing
run checks of Paxos, ViewService, PBService, Replication, MapReduce, Nsqd, the two
pools, the in-flight queue, the guid factory and the pass over the timers, and the types
of all that have a `TypeOK`. What is left, in this order:

1. Trees: that a rotation keeps the order of the keys is a step towards `TreesKept`, with
   the order of the nodes kept as a sequence beside the pointers instead of computed by
   recursion over subtrees. With it `DueTimersRunHolds` carries over to EventLoop.
2. Link: `CutAnywhere` for a parser given by what it does with a prefix, so that the
   loop of onRead() can be proved apart from the formats.
3. More of the code: conversions of json from and to C++ types, the file events of cnm.

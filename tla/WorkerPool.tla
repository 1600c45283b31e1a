----------------------------- MODULE WorkerPool -----------------------------
(* thread.h of ssdb: WorkerPool, its Queue of jobs (mutex and condition      *)
(* variable) and its SelectableQueue of results (mutex and pipe).            *)
(*                                                                           *)
(* What a thread does while it holds a mutex, up to a point where it may     *)
(* block or be cancelled, is one step.  A mutex is held across steps only by *)
(* a worker in write(), and for ever by a worker cancelled with it.          *)
EXTENDS Naturals, Sequences, SequencesExt, FiniteSets

CONSTANTS PoolWorkers, Pushers,
          MaxJobs,      \* the jobs 1..MaxJobs are pushed
          PipeCapacity  \* bytes the pipe holds

Nobody == 0

ASSUME PoolAssumption == MaxJobs \in Nat /\ PipeCapacity \in Nat \ {0}
ASSUME PoolThreadsAssumption ==
  IsFiniteSet(PoolWorkers) /\ IsFiniteSet(Pushers) /\ Nobody \notin PoolWorkers

VARIABLES
  jobs,     \* Queue::items, and whether a cancelled worker holds its mutex
  pushing,  \* per pusher, "idle" or "signal": unlocked but not yet signalled
  pushed,   \* number of jobs pushed
  worker,   \* per worker, its place in _run_worker() and its job
  results,  \* SelectableQueue: items, bytes in the pipe, holder of the mutex
  reading,  \* has the reader of the results taken a byte?
  popped,   \* the jobs pop() has returned
  stopped   \* has stop() been called?

poolVars == <<jobs, pushing, pushed, worker, results, reading, popped, stopped>>

PoolInit ==
  /\ jobs = [items |-> <<>>, stuck |-> FALSE]
  /\ pushing = [p \in Pushers |-> "idle"]
  /\ pushed = 0
  /\ worker = [w \in PoolWorkers |-> [pc |-> "pop", job |-> Nobody]]
  /\ results = [items |-> <<>>, pipe |-> 0, holder |-> Nobody]
  /\ reading = FALSE
  /\ popped = <<>>
  /\ stopped = FALSE

Waiting == {w \in PoolWorkers : worker[w].pc = "wait"}

(* Queue::push(): the lock is released before the signal is sent.            *)
Push(p) ==
  /\ pushing[p] = "idle" /\ pushed < MaxJobs /\ ~jobs.stuck
  /\ pushed' = pushed + 1
  /\ jobs' = [jobs EXCEPT !.items = Append(@, pushed + 1)]
  /\ pushing' = [pushing EXCEPT ![p] = "signal"]
  /\ UNCHANGED <<worker, results, reading, popped, stopped>>

\* Mutant: the signal is sent to nobody when more than one job waits.
SignalFirstOnly(p) ==
  /\ pushing[p] = "signal"
  /\ pushing' = [pushing EXCEPT ![p] = "idle"]
  /\ \/ (Waiting = {} \/ Len(jobs.items) > 1) /\ UNCHANGED worker
     \/ Len(jobs.items) =< 1 /\ \E w \in Waiting : worker' = [worker EXCEPT ![w].pc = "pop"]
  /\ UNCHANGED <<jobs, pushed, results, reading, popped, stopped>>

Signal(p) ==
  /\ pushing[p] = "signal"
  /\ pushing' = [pushing EXCEPT ![p] = "idle"]
  /\ \/ Waiting = {} /\ UNCHANGED worker
     \/ \E w \in Waiting : worker' = [worker EXCEPT ![w].pc = "pop"]
  /\ UNCHANGED <<jobs, pushed, results, reading, popped, stopped>>

SpuriousWakeup(w) ==
  /\ w \in Waiting
  /\ worker' = [worker EXCEPT ![w].pc = "pop"]
  /\ UNCHANGED <<jobs, pushing, pushed, results, reading, popped, stopped>>

\* Mutant: a worker that was waiting does not look at the queue again.
PopWithoutLoop(w) ==
  /\ worker[w].pc = "pop" /\ ~jobs.stuck
  /\ IF jobs.items = <<>> THEN
       /\ worker' = [worker EXCEPT ![w].job = IF pushed = 0 THEN Nobody ELSE pushed,
                                   ![w].pc = IF pushed = 0 THEN "wait" ELSE "proc"]
       /\ UNCHANGED jobs
     ELSE
       /\ worker' = [worker EXCEPT ![w] = [pc |-> "proc", job |-> Head(jobs.items)]]
       /\ jobs' = [jobs EXCEPT !.items = Tail(@)]
  /\ UNCHANGED <<pushing, pushed, results, reading, popped, stopped>>

(* Queue::pop(): one turn of its loop, with the mutex.                       *)
Pop(w) ==
  /\ worker[w].pc = "pop" /\ ~jobs.stuck
  /\ IF jobs.items = <<>> THEN
       /\ worker' = [worker EXCEPT ![w].pc = "wait"]
       /\ UNCHANGED jobs
     ELSE
       /\ worker' = [worker EXCEPT ![w] = [pc |-> "proc", job |-> Head(jobs.items)]]
       /\ jobs' = [jobs EXCEPT !.items = Tail(@)]
  /\ UNCHANGED <<pushing, pushed, results, reading, popped, stopped>>

(* proc() is done: SelectableQueue::push() locks and appends the job ...     *)
PushResult(w) ==
  /\ worker[w].pc = "proc" /\ results.holder = Nobody
  /\ results' = [results EXCEPT !.items = Append(@, worker[w].job), !.holder = w]
  /\ worker' = [worker EXCEPT ![w].pc = "write"]
  /\ UNCHANGED <<jobs, pushing, pushed, reading, popped, stopped>>

\* Mutant: the pipe does not block, and the byte that does not fit is lost.
WriteByteNonblocking(w) ==
  /\ worker[w].pc = "write"
  /\ results' = [results EXCEPT !.holder = Nobody,
                                !.pipe = IF @ < PipeCapacity THEN @ + 1 ELSE @]
  /\ worker' = [worker EXCEPT ![w] = [pc |-> "pop", job |-> Nobody]]
  /\ UNCHANGED <<jobs, pushing, pushed, reading, popped, stopped>>

(* ... and writes a byte, waiting for room in the pipe with the mutex held.  *)
WriteByte(w) ==
  /\ worker[w].pc = "write" /\ results.pipe < PipeCapacity
  /\ results' = [results EXCEPT !.pipe = @ + 1, !.holder = Nobody]
  /\ worker' = [worker EXCEPT ![w] = [pc |-> "pop", job |-> Nobody]]
  /\ UNCHANGED <<jobs, pushing, pushed, reading, popped, stopped>>

(* SelectableQueue::pop(): a byte, then the mutex and the front.             *)
ReadByte ==
  /\ ~reading /\ results.pipe > 0
  /\ results' = [results EXCEPT !.pipe = @ - 1]
  /\ reading' = TRUE
  /\ UNCHANGED <<jobs, pushing, pushed, worker, popped, stopped>>

PopResult ==
  /\ reading /\ results.holder = Nobody
  /\ popped' = popped \o SubSeq(results.items, 1, 1)
  /\ results' = [results EXCEPT !.items = IF @ = <<>> THEN @ ELSE Tail(@)]
  /\ reading' = FALSE
  /\ UNCHANGED <<jobs, pushing, pushed, worker, stopped>>

stop ==
  /\ ~stopped
  /\ stopped' = TRUE
  /\ UNCHANGED <<jobs, pushing, pushed, worker, results, reading, popped>>

(* After stop(), pthread_cancel() ends a worker in pthread_cond_wait(), which has  *)
(* taken the mutex again, or in write(): the mutex stays locked.  Inside     *)
(* proc(), which does what it likes, the job goes with the worker.           *)
Cancel(w) ==
  /\ stopped
  /\ \/ /\ worker[w].pc = "wait" /\ ~jobs.stuck
        /\ jobs' = [jobs EXCEPT !.stuck = TRUE]
        /\ worker' = [worker EXCEPT ![w].pc = "cancelled"]
     \/ /\ worker[w].pc = "write"
        /\ worker' = [worker EXCEPT ![w].pc = "cancelled"]
        /\ UNCHANGED jobs
     \/ /\ worker[w].pc = "proc"
        /\ worker' = [worker EXCEPT ![w].pc = "lost"]
        /\ UNCHANGED jobs
  /\ UNCHANGED <<pushing, pushed, results, reading, popped, stopped>>

RunWorker(w) == Pop(w) \/ PushResult(w) \/ WriteByte(w)
Reader == ReadByte \/ PopResult

PoolNext ==
  \/ \E p \in Pushers : Push(p) \/ Signal(p)
  \/ \E w \in PoolWorkers : RunWorker(w) \/ SpuriousWakeup(w) \/ Cancel(w)
  \/ Reader \/ stop

----------------------------------------------------------------------------
(* The workers that have taken j and not passed it on.                      *)
Holders(j) == {w \in PoolWorkers : worker[w].pc \in {"proc", "lost"} /\ worker[w].job = j}

(* A job is in one place at a time: in the queue, with one worker, among the *)
(* results or returned, whoever wakes up and whoever is cancelled.  So none  *)
(* is done twice, and only a worker cancelled inside proc(), after stop(),   *)
(* takes one with it (thread.h, Queue::pop(), _run_worker(), stop()).        *)
JobInOnePlace ==
  \A j \in 1..pushed :
    Cardinality({i \in DOMAIN jobs.items : jobs.items[i] = j})
    + Cardinality(Holders(j))
    + Cardinality({i \in DOMAIN results.items : results.items[i] = j})
    + Cardinality({i \in DOMAIN popped : popped[i] = j}) = 1

(* Every byte stands for a result: the reader that got one never finds the   *)
(* queue empty, and with nobody in between the two are equal in number.      *)
ByteMeansResult ==
  Len(results.items) =
    results.pipe + (IF reading THEN 1 ELSE 0)
    + Cardinality({w \in PoolWorkers : worker[w].pc \in {"write", "cancelled"}
                                       /\ results.holder = w})

(* No wake-up is lost: while workers wait, there are as many workers on      *)
(* their way to the queue, or signals about to be sent, as jobs in it.       *)
NoLostWakeup ==
  Waiting # {} =>
    Cardinality({w \in PoolWorkers : worker[w].pc = "pop"})
    + Cardinality({p \in Pushers : pushing[p] = "signal"}) >= Len(jobs.items)

(* push() waits for room in the pipe with the mutex that the reader, which   *)
(* has taken a byte already, is waiting for.                                 *)
Jammed == reading /\ results.pipe = PipeCapacity /\ results.holder # Nobody

(* Every job pushed comes out, unless the pool is stopped or the results     *)
(* outgrow the pipe: a jam is the only way in which the threads of the pool  *)
(* and its reader can wait for each other.                                   *)
EveryJobComesOut == []<>(Len(popped) = pushed \/ stopped \/ Jammed)
=============================================================================

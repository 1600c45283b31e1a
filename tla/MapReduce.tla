----------------------------- MODULE MapReduce -----------------------------
(* The MapReduce library of 6.824 (mapreduce.go, master.go, worker.go,       *)
(* common.go): the split of the input, the goroutines of RunMaster(), one    *)
(* per job, that share the workers through the unbuffered registerChannel,   *)
(* and workers that leave after nRPC calls or die in the middle of a job.    *)
(*                                                                           *)
(* A line of the input is its number and its length; its key is its number.  *)
(* A file is the sequence of the lines written to it.  Names of files, JSON  *)
(* and the user's Map() and Reduce() (both keep every line) are left out.    *)
EXTENDS Integers, Sequences, SequencesExt, FiniteSets

CONSTANTS NMap, NReduce,  \* mr.nMap, mr.nReduce
          Workers,        \* the processes that call RunWorker()
          NRPC,           \* worker -> its nRPC argument; negative: no limit
          Mortal,         \* the workers that may die at any time
          Inputs,         \* the inputs tried: sequences of lengths of lines
          None            \* no worker, no file

ASSUME JobsAssumption == NMap \in Nat \ {0} /\ NReduce \in Nat \ {0}
ASSUME WorkersAssumption == NRPC \in [Workers -> Int] /\ None \notin Workers
ASSUME InputsAssumption == Inputs \subseteq Seq(Nat) /\ None \notin Seq(Nat)

VARIABLES
  input,    \* the lines of mr.file
  split,    \* the files that Split() makes
  phase,    \* where Run() is
  task,     \* per job, its goroutine in RunMaster()
  worker,   \* per worker, its place in RunWorker() and the calls it will take
  job,      \* per worker, the job it is executing and the files it has begun
  mapFile,  \* what ReduceName(file, i, j) holds
  resFile,  \* what MergeName(file, j) holds
  out       \* what Merge() writes

vars == <<input, split, phase, task, worker, job, mapFile, resFile, out>>

MapJobs == {<<"Map", i>> : i \in 0..NMap-1}
ReduceJobs == {<<"Reduce", j>> : j \in 0..NReduce-1}
Jobs == MapJobs \cup ReduceJobs

Lines == 1..Len(input)

(* The bytes before every line, and behind the last, which Split() counts in *)
(* i.                                                                        *)
Offset(lens) ==
  LET i[k \in 0..Len(lens)] == IF k = 0 THEN 0 ELSE i[k-1] + lens[k]
  IN i

(* A new file is begun at the first line that starts behind nchunk*m, where  *)
(* m is the number of files there are.                                       *)
NextFile(i, nchunk, m) == IF i > nchunk * m THEN m + 1 ELSE m

(* The number of the file that a line is written to.                         *)
FileOf(lens) ==
  LET size == Offset(lens)[Len(lens)]
      nchunk == size \div NMap + 1
      m[k \in 0..Len(lens)] ==
        IF k = 0 THEN 1 ELSE NextFile(Offset(lens)[k-1], nchunk, m[k-1])
  IN m

(* A loop over lines that writes those of a set.                             *)
Written(lines, s) ==
  LET w[k \in 0..Len(lines)] ==
        IF k = 0 THEN <<>>
        ELSE IF lines[k] \in s THEN Append(w[k-1], lines[k]) ELSE w[k-1]
  IN w[Len(lines)]

(* Lines are shorter than the 64 KB a bufio.Scanner takes: at a longer one Scan() *)
(* would say no more, and Split() end there without a word.                      *)
Split(lens) ==
  LET ks == 1..Len(lens) IN
  [m \in 1..FileOf(lens)[Len(lens)] |->
     Written([k \in ks |-> k], {k \in ks : FileOf(lens)[k] = m})]

(* ihash(key) % nreduce, for the key of a line.                              *)
Partition(k) == k % NReduce

Init ==
  /\ input \in Inputs
  /\ split = <<>>
  /\ phase = "split"
  /\ task = [t \in Jobs |-> [pc |-> "none", worker |-> None]]
  /\ worker = [w \in Workers |-> [pc |-> "start", nRPC |-> NRPC[w]]]
  /\ job = [w \in Workers |-> None]
  /\ mapFile = [i \in 0..NMap-1 |-> [j \in 0..NReduce-1 |-> None]]
  /\ resFile = [j \in 0..NReduce-1 |-> None]
  /\ out = None

Started(js) == [t \in Jobs |-> IF t \in js THEN [task[t] EXCEPT !.pc = "select"]
                               ELSE task[t]]

(* Every goroutine has sent its number on mapChan or on reduceChan.          *)
AllSent(js) == \A t \in js : task[t].pc \in {"offer", "end"}

(* Run() and RunMaster().  KillWorkers() walks mr.Workers, which nothing     *)
(* fills: it calls nobody.                                                   *)
RunSplit ==
  /\ phase = "split"
  /\ split' = Split(input)
  /\ phase' = "map"
  /\ task' = Started(MapJobs)
  /\ UNCHANGED <<input, worker, job, mapFile, resFile, out>>

RunReduce ==
  /\ phase = "map" /\ AllSent(MapJobs)
  /\ phase' = "reduce"
  /\ task' = Started(ReduceJobs)
  /\ UNCHANGED <<input, split, worker, job, mapFile, resFile, out>>

Content(f) == IF f = None THEN <<>> ELSE f

Merge ==
  /\ phase = "reduce" /\ AllSent(ReduceJobs)
  /\ phase' = "merged"
  /\ out' = FlattenSeq([j \in 1..NReduce |-> Content(resFile[j-1])])
  /\ UNCHANGED <<input, split, task, worker, job, mapFile, resFile>>

(* The registration server stops accepting, then DoneChannel <- true.        *)
CleanupRegistration ==
  /\ phase = "merged"
  /\ phase' = "done"
  /\ UNCHANGED <<input, split, task, worker, job, mapFile, resFile, out>>

----------------------------------------------------------------------------
(* RunWorker() registers: the handler in the master waits for a goroutine    *)
(* that takes the worker, and the worker for the handler.                    *)
Register(w) ==
  /\ worker[w].pc = "start"
  /\ worker' = [worker EXCEPT ![w].pc =
                  IF phase = "done" THEN "serving" ELSE "registering"]
  /\ UNCHANGED <<input, split, phase, task, job, mapFile, resFile, out>>

TakeRegistered(t, w) ==
  /\ task[t].pc = "select" /\ worker[w].pc = "registering"
  /\ task' = [task EXCEPT ![t] = [pc |-> "call", worker |-> w]]
  /\ worker' = [worker EXCEPT ![w].pc = "serving"]
  /\ UNCHANGED <<input, split, phase, job, mapFile, resFile, out>>

\* Mutant: the goroutine goes on offering the worker it has handed over.
TakeReturnedTwice(t, u) ==
  /\ task[t].pc = "select" /\ task[u].pc = "offer"
  /\ task' = [task EXCEPT ![t] = [pc |-> "call", worker |-> task[u].worker]]
  /\ UNCHANGED <<input, split, phase, worker, job, mapFile, resFile, out>>

(* A goroutine whose job is done hands its worker to one that waits.         *)
TakeReturned(t, u) ==
  /\ task[t].pc = "select" /\ task[u].pc = "offer"
  /\ task' = [task EXCEPT ![t] = [pc |-> "call", worker |-> task[u].worker],
                          ![u] = [pc |-> "end", worker |-> None]]
  /\ UNCHANGED <<input, split, phase, worker, job, mapFile, resFile, out>>

(* The accept loop of RunWorker(): one call fewer, and a goroutine for it.   *)
Accept(t) ==
  LET w == task[t].worker IN
  /\ task[t].pc = "call" /\ worker[w].pc = "serving" /\ worker[w].nRPC # 0
  /\ task' = [task EXCEPT ![t].pc = "wait"]
  /\ worker' = [worker EXCEPT ![w].nRPC = IF @ < 0 THEN @ ELSE @ - 1]
  /\ job' = [job EXCEPT ![w] = [task |-> t, file |-> 0, open |-> FALSE]]
  /\ UNCHANGED <<input, split, phase, mapFile, resFile, out>>

(* The loop is left, and with it the process: a call that is being served is *)
(* lost if its reply has not been sent.                                      *)
Exit(w) ==
  /\ worker[w].pc = "serving" /\ worker[w].nRPC = 0
  /\ worker' = [worker EXCEPT ![w].pc = "gone"]
  /\ job' = [job EXCEPT ![w] = None]
  /\ UNCHANGED <<input, split, phase, task, mapFile, resFile, out>>

Die(w) ==
  /\ w \in Mortal /\ worker[w].pc \notin {"start", "gone"}
  /\ worker' = [worker EXCEPT ![w].pc = "gone"]
  /\ job' = [job EXCEPT ![w] = None]
  /\ UNCHANGED <<input, split, phase, task, mapFile, resFile, out>>

\* Mutant: the goroutine returns when its call has failed.
CallFailsGivesUp(t) ==
  /\ task[t].pc \in {"call", "wait"} /\ worker[task[t].worker].pc = "gone"
  /\ task' = [task EXCEPT ![t] = [pc |-> "end", worker |-> None]]
  /\ UNCHANGED <<input, split, phase, worker, job, mapFile, resFile, out>>

(* call() returns false: nobody listens, or the connection is lost.          *)
CallFails(t) ==
  /\ task[t].pc \in {"call", "wait"}
  /\ LET w == task[t].worker IN
       \/ worker[w].pc = "gone"
       \/ task[t].pc = "call" /\ worker[w].nRPC = 0
  /\ task' = [task EXCEPT ![t] = [pc |-> "select", worker |-> None]]
  /\ UNCHANGED <<input, split, phase, worker, job, mapFile, resFile, out>>

----------------------------------------------------------------------------
(* What a job of kind "Map" or "Reduce" writes to a file, and how many files *)
(* it writes.                                                                *)
MapOutput(i, j) == Written(split[i + 1], {k \in Lines : Partition(k) = j})
ReduceOutput(j) ==
  FlattenSeq([i \in 1..NMap |-> Content(mapFile[i-1][j])])
Files(t) == IF t[1] = "Map" THEN NReduce ELSE 1

\* Mutant: the file is opened for appending.
CreatedAppend(old) == Content(old)

(* os.Create() empties the file a failed attempt may have left.              *)
Created(old) == <<>>

(* log.Fatal() in DoMap() or in DoReduce(): the file to read is missing.     *)
Readable(t) ==
  IF t[1] = "Map" THEN t[2] + 1 \in DOMAIN split
  ELSE \A i \in 0..NMap-1 : mapFile[i][t[2]] # None

Fatal(w) ==
  /\ job[w] # None /\ ~Readable(job[w].task)
  /\ worker' = [worker EXCEPT ![w].pc = "gone"]
  /\ job' = [job EXCEPT ![w] = None]
  /\ UNCHANGED <<input, split, phase, task, mapFile, resFile, out>>

DoMap(w) ==
  LET i == job[w].task[2]  j == job[w].file IN
  /\ job[w].task \in MapJobs /\ j < NReduce
  /\ mapFile' = [mapFile EXCEPT ![i][j] =
       IF job[w].open THEN @ \o MapOutput(i, j) ELSE Created(@)]
  /\ job' = [job EXCEPT ![w].open = ~job[w].open,
                        ![w].file = IF job[w].open THEN @ + 1 ELSE @]
  /\ UNCHANGED resFile

DoReduce(w) ==
  LET j == job[w].task[2] IN
  /\ job[w].task \in ReduceJobs /\ job[w].file = 0
  /\ resFile' = [resFile EXCEPT ![j] =
       IF job[w].open THEN @ \o ReduceOutput(j) ELSE Created(@)]
  /\ job' = [job EXCEPT ![w].open = ~job[w].open,
                        ![w].file = IF job[w].open THEN @ + 1 ELSE @]
  /\ UNCHANGED mapFile

DoJob(w) ==
  /\ job[w] # None /\ Readable(job[w].task)
  /\ DoMap(w) \/ DoReduce(w)
  /\ UNCHANGED <<input, split, phase, task, worker, out>>

(* The reply arrives: the goroutine reports on its buffered channel and      *)
(* offers the worker on registerChannel.                                     *)
Reply(w) ==
  /\ job[w] # None /\ job[w].file = Files(job[w].task)
  /\ task' = [task EXCEPT ![job[w].task].pc = "offer"]
  /\ job' = [job EXCEPT ![w] = None]
  /\ UNCHANGED <<input, split, phase, worker, mapFile, resFile, out>>

Master == RunSplit \/ RunReduce \/ Merge \/ CleanupRegistration
Goroutine(t) ==
  \/ \E w \in Workers : TakeRegistered(t, w)
  \/ \E u \in Jobs : TakeReturned(t, u)
  \/ Accept(t) \/ CallFails(t)
Process(w) == Register(w) \/ Exit(w) \/ Fatal(w) \/ DoJob(w) \/ Reply(w)

Next ==
  \/ Master
  \/ \E t \in Jobs : Goroutine(t)
  \/ \E w \in Workers : Process(w) \/ Die(w)

(* Goroutines and processes that can run do; nothing makes a worker die.     *)
Fairness ==
  /\ WF_vars(Master)
  /\ \A t \in Jobs : WF_vars(Goroutine(t))
  /\ \A w \in Workers : WF_vars(Process(w))

Spec == Init /\ [][Next]_vars /\ Fairness

----------------------------------------------------------------------------
(* A worker is in one place: with one goroutine, registering, or lost.       *)
(* registerChannel hands a worker from one job to the next, and two jobs at  *)
(* one worker would write over each other's progress.                        *)
WorkerHasOneJob ==
  \A w \in Workers :
    LET holders == {t \in Jobs : task[t].worker = w} IN
    /\ Cardinality(holders) =< 1
    /\ worker[w].pc \in {"start", "registering"} => holders = {}
    /\ job[w] # None => task[job[w].task] = [pc |-> "wait", worker |-> w]

(* What Merge() writes is the work of RunSingle(): every line of the input   *)
(* once, however often a job was begun, left half-written by a worker that   *)
(* died and begun again elsewhere.                                           *)
OutputIsSequential ==
  out # None => /\ Len(out) = Len(input)
                /\ ToSet(out) = Lines

(* RunMaster() ends when the input has a split for every job, as long as one *)
(* worker stays: lost workers, and goroutines left waiting to hand back a    *)
(* worker, do not hold it up.                                                *)
Finishes ==
  (phase = "map" /\ Len(split) = NMap /\ \E w \in Workers : NRPC[w] < 0 /\ w \notin Mortal)
    ~> (phase = "done")
=============================================================================

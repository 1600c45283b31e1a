----------------------------- MODULE PoolsProof -----------------------------
(* Proofs about the two thread pools, for any number of threads and jobs.    *)
(*                                                                           *)
(* The properties count: how often a job is somewhere, how many threads are  *)
(* on their way.  That a job is in one place is kept as a statement about    *)
(* sequences without duplicates and disjoint sets, from which the counts     *)
(* follow at the end; the threads are counted by adding and taking away one  *)
(* thread at a time.                                                         *)
EXTENDS MCPools, FiniteSetTheorems, SequenceTheorems, TLAPS

-----------------------------------------------------------------------------
(* Sequences without duplicates and sets without one element *)

Distinct(s) == \A i, j \in DOMAIN s : s[i] = s[j] => i = j

\* What is appended is new to the sequence.
LEMMA AppendDistinct ==
  ASSUME NEW S, NEW s \in Seq(S), NEW x \in S
  PROVE  /\ Append(s, x) \in Seq(S) /\ Len(Append(s, x)) = Len(s) + 1 /\ Len(s) \in Nat
         /\ ToSet(Append(s, x)) = ToSet(s) \cup {x}
         /\ Distinct(s) /\ x \notin ToSet(s) => Distinct(Append(s, x))
<1> DEFINE a == Append(s, x)
<1>1. /\ a \in Seq(S) /\ Len(a) = Len(s) + 1 /\ Len(s) \in Nat
      /\ DOMAIN a = 1..(Len(s) + 1) /\ DOMAIN s = 1..Len(s)
      /\ \A i \in 1..Len(s) : a[i] = s[i]
      /\ a[Len(s) + 1] = x
  OBVIOUS
<1> HIDE DEF a
<1>2. ToSet(a) = ToSet(s) \cup {x}
  BY <1>1 DEF ToSet
<1>3. ASSUME Distinct(s), x \notin ToSet(s) PROVE Distinct(a)
  BY <1>1, <1>3 DEF Distinct, ToSet
<1>4. QED
  BY <1>1, <1>2, <1>3 DEF a

\* Taking the first element takes it out of the set.
LEMMA TailDistinct ==
  ASSUME NEW S, NEW s \in Seq(S), s # <<>>, Distinct(s)
  PROVE  /\ Tail(s) \in Seq(S) /\ Len(Tail(s)) = Len(s) - 1 /\ Len(s) \in Nat /\ Len(s) >= 1
         /\ Head(s) \in S /\ Head(s) \in ToSet(s)
         /\ ToSet(Tail(s)) = ToSet(s) \ {Head(s)}
         /\ Distinct(Tail(s))
<1> DEFINE t == Tail(s)
<1>1. /\ t \in Seq(S) /\ Len(t) = Len(s) - 1 /\ Len(s) \in Nat /\ Len(s) >= 1
      /\ DOMAIN t = 1..(Len(s) - 1) /\ DOMAIN s = 1..Len(s)
      /\ Head(s) = s[1] /\ s[1] \in S
      /\ \A i \in 1..(Len(s) - 1) : t[i] = s[i + 1]
  OBVIOUS
<1> HIDE DEF t
<1>2. Head(s) \in ToSet(s)
  BY <1>1 DEF ToSet
<1>3. ToSet(t) \subseteq ToSet(s) \ {Head(s)}
  BY <1>1 DEF ToSet, Distinct
<1>4. ASSUME NEW y \in ToSet(s), y # Head(s) PROVE y \in ToSet(t)
  <2>1. PICK i \in 1..Len(s) : y = s[i]
    BY <1>1 DEF ToSet
  <2>2. i - 1 \in 1..(Len(s) - 1) /\ (i - 1) + 1 = i
    BY <1>1, <1>4, <2>1
  <2>3. t[i - 1] = y
    BY <1>1, <2>1, <2>2
  <2>4. QED
    BY <1>1, <2>2, <2>3 DEF ToSet
<1>5. Distinct(t)
  <2> SUFFICES ASSUME NEW i \in DOMAIN t, NEW j \in DOMAIN t, t[i] = t[j] PROVE i = j
    BY DEF Distinct
  <2>1. i + 1 \in DOMAIN s /\ j + 1 \in DOMAIN s /\ s[i + 1] = s[j + 1]
    BY <1>1
  <2>2. i + 1 = j + 1
    BY <2>1 DEF Distinct
  <2>3. QED
    BY <1>1, <2>2
<1>6. QED
  BY <1>1, <1>2, <1>3, <1>4, <1>5 DEF t

\* The sequence of the first element.
LEMMA FirstOf ==
  ASSUME NEW S, NEW s \in Seq(S), Len(s) >= 1
  PROVE  SubSeq(s, 1, 1) = <<Head(s)>>
<1>1. /\ SubSeq(s, 1, 1) \in Seq(S) /\ Len(SubSeq(s, 1, 1)) = 1 /\ SubSeq(s, 1, 1)[1] = s[1]
      /\ Head(s) = s[1] /\ s[1] \in S
  OBVIOUS
<1>2. <<s[1]>> \in Seq(S) /\ Len(<<s[1]>>) = 1 /\ <<s[1]>>[1] = s[1]
  BY <1>1
<1>3. \A i \in 1..1 : SubSeq(s, 1, 1)[i] = <<s[1]>>[i]
  BY <1>1, <1>2
<1> DEFINE a == SubSeq(s, 1, 1)
           b == <<s[1]>>
<1>4. a \in Seq(S) /\ b \in Seq(S) /\ Len(a) = Len(b) /\ \A i \in 1..Len(a) : a[i] = b[i]
  BY <1>1, <1>2, <1>3
<1> HIDE DEF a, b
<1>5. a = b
  BY <1>4, SeqEqual
<1>6. QED
  BY <1>1, <1>5 DEF a, b

\* An element is in such a sequence once or not at all.
LEMMA CountDistinct ==
  ASSUME NEW s, Distinct(s), NEW x
  PROVE  Cardinality({i \in DOMAIN s : s[i] = x}) = IF x \in ToSet(s) THEN 1 ELSE 0
<1> DEFINE P == {i \in DOMAIN s : s[i] = x}
<1>1. CASE x \in ToSet(s)
  <2>1. PICK i \in DOMAIN s : s[i] = x
    BY <1>1 DEF ToSet
  <2>2. P = {i}
    BY <2>1 DEF Distinct
  <2>3. QED
    BY <1>1, <2>2, FS_Singleton
<1>2. CASE x \notin ToSet(s)
  <2>1. P = {}
    BY <1>2 DEF ToSet
  <2>2. QED
    BY <1>2, <2>1, FS_EmptySet
<1>3. QED
  BY <1>1, <1>2

\* One more member, or one less, is counted as one.
LEMMA CountChange ==
  ASSUME NEW S, IsFiniteSet(S), NEW x
  PROVE  /\ Cardinality(S) \in Nat
         /\ x \notin S => Cardinality(S \cup {x}) = Cardinality(S) + 1
         /\ x \in S => Cardinality(S \ {x}) = Cardinality(S) - 1 /\ Cardinality(S) >= 1
<1>1. Cardinality(S) \in Nat /\ Cardinality(S \ {x}) \in Nat
  BY FS_CardinalityType, FS_RemoveElement
<1>2. QED
  BY <1>1, FS_AddElement, FS_RemoveElement

-----------------------------------------------------------------------------
(* ssdb's WorkerPool *)

PoolPc == {"pop", "wait", "proc", "write", "cancelled", "lost"}
PoolTypeOK ==
  /\ jobs \in [items : Seq(Nat), stuck : BOOLEAN]
  /\ pushing \in [Pushers -> {"idle", "signal"}]
  /\ pushed \in Nat
  /\ worker \in [PoolWorkers -> [pc : PoolPc, job : Nat]]
  /\ results \in [items : Seq(Nat), pipe : Nat, holder : PoolWorkers \cup {Nobody}]
  /\ reading \in BOOLEAN
  /\ popped \in Seq(Nat)
  /\ stopped \in BOOLEAN

Busy == {w \in PoolWorkers : worker[w].pc \in {"proc", "lost"}}
HandJobs == {worker[w].job : w \in Busy}

\* The four places of a job have nothing in common, none holds a job twice, and
\* together they hold all jobs.
OnePlace ==
  /\ Distinct(jobs.items) /\ Distinct(results.items) /\ Distinct(popped)
  /\ \A v, w \in Busy : worker[v].job = worker[w].job => v = w
  /\ ToSet(jobs.items) \cap HandJobs = {}
  /\ ToSet(jobs.items) \cap ToSet(results.items) = {}
  /\ ToSet(jobs.items) \cap ToSet(popped) = {}
  /\ HandJobs \cap ToSet(results.items) = {}
  /\ HandJobs \cap ToSet(popped) = {}
  /\ ToSet(results.items) \cap ToSet(popped) = {}
  /\ ToSet(jobs.items) \cup HandJobs \cup ToSet(results.items) \cup ToSet(popped) = 1..pushed

\* The mutex of the results is held by the worker in write(), or was when that
\* worker was cancelled.
HolderOK ==
  /\ \A w \in PoolWorkers : worker[w].pc = "write" => results.holder = w
  /\ results.holder # Nobody => worker[results.holder].pc \in {"write", "cancelled"}

Bytes ==
  Len(results.items) = results.pipe + (IF reading THEN 1 ELSE 0)
                       + (IF results.holder # Nobody THEN 1 ELSE 0)

Coming == {w \in PoolWorkers : worker[w].pc = "pop"}
Signalling == {p \in Pushers : pushing[p] = "signal"}

PoolInv == PoolTypeOK /\ OnePlace /\ HolderOK /\ Bytes /\ NoLostWakeup

\* The threads can be counted.
LEMMA ComingFinite ==
  /\ IsFiniteSet(Coming) /\ Cardinality(Coming) \in Nat
  /\ IsFiniteSet(Signalling) /\ Cardinality(Signalling) \in Nat
<1>1. Coming \in SUBSET PoolWorkers /\ Signalling \in SUBSET Pushers
  BY DEF Coming, Signalling
<1>2. QED
  BY <1>1, PoolThreadsAssumption, FS_Subset, FS_CardinalityType

\* A step of a worker changes the record of that worker.
LEMMA WorkerChange ==
  ASSUME PoolTypeOK, NEW w \in PoolWorkers, NEW c \in PoolPc, NEW j \in Nat,
         \/ worker' = [worker EXCEPT ![w].pc = c] /\ j = worker[w].job
         \/ worker' = [worker EXCEPT ![w] = [pc |-> c, job |-> j]]
  PROVE  /\ worker' \in [PoolWorkers -> [pc : PoolPc, job : Nat]]
         /\ worker'[w].pc = c /\ worker'[w].job = j
         /\ \A v \in PoolWorkers : v # w => worker'[v] = worker[v]
<1>1. worker \in [PoolWorkers -> [pc : PoolPc, job : Nat]]
  BY DEF PoolTypeOK
<1>2. QED
  BY <1>1

\* A step of a worker that takes and gives no job.
LEMMA HandsKept ==
  ASSUME PoolTypeOK, OnePlace, NEW w \in PoolWorkers, w \notin Busy,
         worker'[w].pc \notin {"proc", "lost"},
         \A v \in PoolWorkers : v # w => worker'[v] = worker[v]
  PROVE  /\ Busy' = Busy /\ HandJobs' = HandJobs
         /\ (\A v, x \in Busy : worker[v].job = worker[x].job => v = x)'
<1>1. Busy' = Busy /\ \A v \in Busy : worker'[v] = worker[v]
  BY DEF Busy
<1>2. HandJobs' = HandJobs
  BY <1>1 DEF HandJobs
<1>3. QED
  BY <1>1, <1>2 DEF OnePlace

\* push(): the job is new, and a signal is on its way with it.
LEMMA PushStep ==
  ASSUME PoolInv, NEW p \in Pushers, Push(p)
  PROVE  PoolInv'
<1> USE DEF PoolInv
<1>1. /\ UNCHANGED <<worker, results, reading, popped, stopped>>
      /\ pushing[p] = "idle" /\ pushed' = pushed + 1 /\ pushed \in Nat
      /\ pushing' = [pushing EXCEPT ![p] = "signal"]
      /\ jobs.items \in Seq(Nat) /\ jobs'.items = Append(jobs.items, pushed + 1)
      /\ jobs' \in [items : Seq(Nat), stuck : BOOLEAN]
  <2>1. /\ jobs \in [items : Seq(Nat), stuck : BOOLEAN] /\ pushed \in Nat
        /\ Append(jobs.items, pushed + 1) \in Seq(Nat)
    BY DEF PoolTypeOK
  <2>2. jobs' = [jobs EXCEPT !.items = Append(jobs.items, pushed + 1)]
    BY DEF Push
  <2>3. jobs'.items = Append(jobs.items, pushed + 1) /\ jobs' \in [items : Seq(Nat), stuck : BOOLEAN]
    BY <2>1, <2>2
  <2>4. QED
    BY <2>1, <2>3 DEF Push
<1>2. PoolTypeOK'
  BY <1>1 DEF PoolTypeOK
<1>3. OnePlace'
  <2>1. pushed + 1 \in Nat /\ pushed + 1 \notin 1..pushed
        /\ 1..(pushed + 1) = (1..pushed) \cup {pushed + 1}
    BY <1>1
  <2>2. ToSet(jobs'.items) = ToSet(jobs.items) \cup {pushed + 1}
    BY <1>1, <2>1, AppendDistinct
  <2>3. pushed + 1 \notin ToSet(jobs.items) /\ pushed + 1 \notin HandJobs
        /\ pushed + 1 \notin ToSet(results.items) /\ pushed + 1 \notin ToSet(popped)
    BY <2>1 DEF OnePlace
  <2>4. Distinct(jobs'.items)
    BY <1>1, <2>1, <2>3, AppendDistinct DEF OnePlace
  <2>5. Busy' = Busy /\ HandJobs' = HandJobs
    BY <1>1 DEF Busy, HandJobs
  <2>6. /\ Distinct(results'.items) /\ Distinct(popped')
        /\ \A v, w \in Busy' : worker'[v].job = worker'[w].job => v = w
    BY <1>1, <2>5 DEF OnePlace
  <2>7. QED
    BY <1>1, <2>1, <2>2, <2>3, <2>4, <2>5, <2>6 DEF OnePlace
<1>4. HolderOK' /\ Bytes'
  BY <1>1 DEF HolderOK, Bytes
<1>5. NoLostWakeup'
  <2>1. Coming' = Coming /\ Waiting' = Waiting
    BY <1>1 DEF Coming, Waiting
  <2>2. Signalling' = Signalling \cup {p} /\ p \notin Signalling
    BY <1>1 DEF Signalling, PoolTypeOK
  <2>3. Cardinality(Signalling') = Cardinality(Signalling) + 1
    BY <2>2, ComingFinite, CountChange
  <2>4. Len(jobs'.items) = Len(jobs.items) + 1 /\ Len(jobs.items) \in Nat
    BY <1>1, AppendDistinct
  <2>5. Waiting # {} => Cardinality(Coming) + Cardinality(Signalling) >= Len(jobs.items)
    BY DEF NoLostWakeup, Coming, Signalling
  <2>6. Waiting' # {} => Cardinality(Coming') + Cardinality(Signalling') >= Len(jobs'.items)
    BY <2>1, <2>3, <2>4, <2>5, ComingFinite
  <2>7. QED
    BY <2>6 DEF NoLostWakeup, Coming, Signalling
<1>6. QED
  BY <1>2, <1>3, <1>4, <1>5

\* A worker that wakes up, by a signal or without one, is on its way.
LEMMA WakeStep ==
  ASSUME PoolInv, NEW w \in Waiting, worker' = [worker EXCEPT ![w].pc = "pop"],
         \/ pushing' = pushing
         \/ \E p \in Pushers : pushing[p] = "signal" /\ pushing' = [pushing EXCEPT ![p] = "idle"],
         UNCHANGED <<jobs, pushed, results, reading, popped, stopped>>
  PROVE  PoolInv'
<1> USE DEF PoolInv
<1>1. w \in PoolWorkers /\ worker[w].pc = "wait" /\ worker[w].job \in Nat
  BY DEF Waiting, PoolTypeOK
<1>2. /\ worker' \in [PoolWorkers -> [pc : PoolPc, job : Nat]]
      /\ worker'[w].pc = "pop"
      /\ \A v \in PoolWorkers : v # w => worker'[v] = worker[v]
  <2>1. "pop" \in PoolPc
    BY DEF PoolPc
  <2>2. QED
    BY <1>1, <2>1, WorkerChange
<1>3. PoolTypeOK'
  BY <1>2 DEF PoolTypeOK
<1>4. OnePlace'
  <2>1. /\ Busy' = Busy /\ HandJobs' = HandJobs
        /\ (\A v, x \in Busy : worker[v].job = worker[x].job => v = x)'
    BY <1>1, <1>2, HandsKept DEF Busy
  <2>2. QED
    BY <2>1 DEF OnePlace
<1>5. HolderOK' /\ Bytes'
  <2>1. Bytes'
    BY DEF Bytes
  <2>2. HolderOK'
    BY <1>1, <1>2 DEF HolderOK, PoolTypeOK
  <2>3. QED
    BY <2>1, <2>2
<1>6. NoLostWakeup'
  <2>1. Coming' = Coming \cup {w} /\ w \notin Coming
    BY <1>1, <1>2 DEF Coming
  <2>2. Cardinality(Coming') = Cardinality(Coming) + 1
    BY <2>1, ComingFinite, CountChange
  <2>3. Cardinality(Signalling') \in Nat /\ Cardinality(Signalling') >= Cardinality(Signalling) - 1
    <3>1. CASE pushing' = pushing
      BY <3>1, ComingFinite DEF Signalling
    <3>2. ASSUME NEW p \in Pushers, pushing[p] = "signal", pushing' = [pushing EXCEPT ![p] = "idle"]
          PROVE  /\ Cardinality(Signalling') \in Nat
                 /\ Cardinality(Signalling') >= Cardinality(Signalling) - 1
      <4>1. Signalling' = Signalling \ {p} /\ p \in Signalling
        BY <3>2 DEF Signalling, PoolTypeOK
      <4>2. QED
        BY <4>1, ComingFinite, CountChange
    <3>3. QED
      BY <3>1, <3>2
  <2>4. Cardinality(Coming) + Cardinality(Signalling) >= Len(jobs.items) /\ Len(jobs.items) \in Nat
    BY DEF NoLostWakeup, Coming, Signalling, PoolTypeOK
  <2>5. QED
    BY <2>2, <2>3, <2>4, ComingFinite DEF NoLostWakeup, Coming, Signalling
<1>7. QED
  BY <1>3, <1>4, <1>5, <1>6

\* A signal that nobody waits for is not needed.
LEMMA SignalNobodyStep ==
  ASSUME PoolInv, NEW p \in Pushers, pushing' = [pushing EXCEPT ![p] = "idle"], Waiting = {},
         UNCHANGED <<worker, jobs, pushed, results, reading, popped, stopped>>
  PROVE  PoolInv'
<1> USE DEF PoolInv
<1>1. PoolTypeOK'
  BY DEF PoolTypeOK
<1>2. OnePlace'
  BY DEF OnePlace, HandJobs, Busy
<1>3. HolderOK' /\ Bytes' /\ NoLostWakeup'
  BY DEF HolderOK, Bytes, NoLostWakeup, Waiting
<1>4. QED
  BY <1>1, <1>2, <1>3

\* A worker finds the queue empty and waits: there is no job to be woken for.
LEMMA PopNothingStep ==
  ASSUME PoolInv, NEW w \in PoolWorkers, worker[w].pc = "pop", jobs.items = <<>>,
         worker' = [worker EXCEPT ![w].pc = "wait"],
         UNCHANGED <<jobs, pushing, pushed, results, reading, popped, stopped>>
  PROVE  PoolInv'
<1> USE DEF PoolInv
<1>1. /\ worker' \in [PoolWorkers -> [pc : PoolPc, job : Nat]]
      /\ worker'[w].pc = "wait"
      /\ \A v \in PoolWorkers : v # w => worker'[v] = worker[v]
  <2>1. "wait" \in PoolPc /\ worker[w].job \in Nat
    BY DEF PoolPc, PoolTypeOK
  <2>2. QED
    BY <2>1, WorkerChange
<1>2. PoolTypeOK'
  BY <1>1 DEF PoolTypeOK
<1>3. OnePlace'
  <2>1. /\ Busy' = Busy /\ HandJobs' = HandJobs
        /\ (\A v, x \in Busy : worker[v].job = worker[x].job => v = x)'
    BY <1>1, HandsKept DEF Busy
  <2>2. QED
    BY <2>1 DEF OnePlace
<1>4. Bytes'
  BY DEF Bytes
<1>5. HolderOK'
  BY <1>1 DEF HolderOK, PoolTypeOK
<1>6. NoLostWakeup'
  <2>1. Len(jobs'.items) = 0
    OBVIOUS
  <2>2. Coming' \in SUBSET PoolWorkers /\ Signalling' = Signalling
    BY DEF Coming, Signalling
  <2>3. Cardinality(Coming') \in Nat
    BY <2>2, PoolThreadsAssumption, FS_Subset, FS_CardinalityType
  <2>4. Cardinality(Coming') + Cardinality(Signalling') >= Len(jobs'.items)
    BY <2>1, <2>2, <2>3, ComingFinite
  <2>5. QED
    BY <2>4 DEF NoLostWakeup, Coming, Signalling
<1>7. QED
  BY <1>2, <1>3, <1>4, <1>5, <1>6

\* A worker takes the first job: one job less, one worker less on its way.
LEMMA PopJobStep ==
  ASSUME PoolInv, NEW w \in PoolWorkers, worker[w].pc = "pop", jobs.items # <<>>,
         worker' = [worker EXCEPT ![w] = [pc |-> "proc", job |-> Head(jobs.items)]],
         jobs' = [jobs EXCEPT !.items = Tail(jobs.items)],
         UNCHANGED <<pushing, pushed, results, reading, popped, stopped>>
  PROVE  PoolInv'
<1> USE DEF PoolInv
<1> DEFINE h == Head(jobs.items)
<1>1. jobs \in [items : Seq(Nat), stuck : BOOLEAN] /\ jobs.items \in Seq(Nat)
  BY DEF PoolTypeOK
<1>2. /\ Tail(jobs.items) \in Seq(Nat) /\ Len(Tail(jobs.items)) = Len(jobs.items) - 1
      /\ Len(jobs.items) \in Nat /\ Len(jobs.items) >= 1
      /\ h \in Nat /\ h \in ToSet(jobs.items)
      /\ ToSet(Tail(jobs.items)) = ToSet(jobs.items) \ {h}
      /\ Distinct(Tail(jobs.items))
  BY <1>1, TailDistinct DEF OnePlace
<1>3. jobs' \in [items : Seq(Nat), stuck : BOOLEAN] /\ jobs'.items = Tail(jobs.items)
  BY <1>1, <1>2
<1> HIDE DEF h
<1>4. /\ worker' \in [PoolWorkers -> [pc : PoolPc, job : Nat]]
      /\ worker'[w].pc = "proc" /\ worker'[w].job = h
      /\ \A v \in PoolWorkers : v # w => worker'[v] = worker[v]
  <2>1. "proc" \in PoolPc
    BY DEF PoolPc
  <2>2. QED
    BY <1>2, <2>1, WorkerChange DEF h
<1>5. PoolTypeOK'
  BY <1>3, <1>4 DEF PoolTypeOK
<1>6. OnePlace'
  <2>1. Busy' = Busy \cup {w} /\ w \notin Busy /\ \A v \in Busy : worker'[v] = worker[v]
    BY <1>4 DEF Busy
  <2>2. HandJobs' = HandJobs \cup {h}
    BY <1>4, <2>1 DEF HandJobs
  <2>3. h \notin HandJobs /\ h \notin ToSet(results.items) /\ h \notin ToSet(popped)
    BY <1>2 DEF OnePlace
  <2>4. \A v, x \in Busy' : worker'[v].job = worker'[x].job => v = x
    <3>1. \A v \in Busy : worker[v].job # h
      BY <2>3 DEF HandJobs
    <3>2. \A v, x \in Busy : worker[v].job = worker[x].job => v = x
      BY DEF OnePlace
    <3>3. QED
      BY <1>4, <2>1, <3>1, <3>2
  <2>5. QED
    BY <1>2, <1>3, <2>2, <2>3, <2>4 DEF OnePlace
<1>7. Bytes'
  BY DEF Bytes
<1>8. HolderOK'
  BY <1>4 DEF HolderOK, PoolTypeOK
<1>9. NoLostWakeup'
  <2>1. Coming' = Coming \ {w} /\ w \in Coming /\ Signalling' = Signalling /\ Waiting' = Waiting
    BY <1>4 DEF Coming, Signalling, Waiting
  <2>2. Cardinality(Coming') = Cardinality(Coming) - 1
    BY <2>1, ComingFinite, CountChange
  <2>3. Waiting # {} => Cardinality(Coming) + Cardinality(Signalling) >= Len(jobs.items)
    BY DEF NoLostWakeup, Coming, Signalling
  <2>4. Waiting' # {} => Cardinality(Coming') + Cardinality(Signalling') >= Len(jobs'.items)
    BY <1>2, <1>3, <2>1, <2>2, <2>3, ComingFinite
  <2>5. QED
    BY <2>4 DEF NoLostWakeup, Coming, Signalling
<1>10. QED
  BY <1>5, <1>6, <1>7, <1>8, <1>9

\* A worker appends its job to the results and holds their mutex.
LEMMA PushResultStep ==
  ASSUME PoolInv, NEW w \in PoolWorkers, PushResult(w)
  PROVE  PoolInv'
<1> USE DEF PoolInv
<1> DEFINE j == worker[w].job
<1>1. /\ worker[w].pc = "proc" /\ results.holder = Nobody
      /\ UNCHANGED <<jobs, pushing, pushed, reading, popped, stopped>>
      /\ worker' = [worker EXCEPT ![w].pc = "write"]
      /\ results' = [results EXCEPT !.items = Append(results.items, j), !.holder = w]
  BY DEF PushResult
<1>2. /\ results \in [items : Seq(Nat), pipe : Nat, holder : PoolWorkers \cup {Nobody}]
      /\ results.items \in Seq(Nat) /\ j \in Nat /\ w \in Busy /\ j \in HandJobs
      /\ results.pipe \in Nat
  BY <1>1 DEF PoolTypeOK, Busy, HandJobs
<1> HIDE DEF j
<1>3. j \notin ToSet(jobs.items) /\ j \notin ToSet(results.items) /\ j \notin ToSet(popped)
  BY <1>2 DEF OnePlace
<1>4. /\ Append(results.items, j) \in Seq(Nat)
      /\ Len(Append(results.items, j)) = Len(results.items) + 1 /\ Len(results.items) \in Nat
      /\ ToSet(Append(results.items, j)) = ToSet(results.items) \cup {j}
      /\ Distinct(Append(results.items, j))
  BY <1>2, <1>3, AppendDistinct DEF OnePlace
<1>5. /\ results' \in [items : Seq(Nat), pipe : Nat, holder : PoolWorkers \cup {Nobody}]
      /\ results'.items = Append(results.items, j) /\ results'.holder = w
      /\ results'.pipe = results.pipe
  BY <1>1, <1>2, <1>4
<1>6. /\ worker' \in [PoolWorkers -> [pc : PoolPc, job : Nat]]
      /\ worker'[w].pc = "write"
      /\ \A v \in PoolWorkers : v # w => worker'[v] = worker[v]
  <2>1. "write" \in PoolPc
    BY DEF PoolPc
  <2>2. QED
    BY <1>1, <1>2, <2>1, WorkerChange DEF j
<1>7. PoolTypeOK'
  BY <1>1, <1>5, <1>6 DEF PoolTypeOK
<1>8. OnePlace'
  <2>1. Busy' = Busy \ {w} /\ \A v \in Busy' : worker'[v] = worker[v]
    BY <1>6 DEF Busy
  <2>2. \A v, x \in Busy : worker[v].job = worker[x].job => v = x
    BY DEF OnePlace
  <2>3. HandJobs' = HandJobs \ {j}
    BY <1>2, <2>1, <2>2 DEF HandJobs, j
  <2>4. \A v, x \in Busy' : worker'[v].job = worker'[x].job => v = x
    BY <2>1, <2>2
  <2>5. QED
    BY <1>1, <1>2, <1>3, <1>4, <1>5, <2>3, <2>4 DEF OnePlace
<1>9. Bytes'
  <2>1. w # Nobody
    BY PoolThreadsAssumption
  <2>2. QED
    BY <1>1, <1>2, <1>4, <1>5, <2>1 DEF Bytes
<1>10. HolderOK'
  BY <1>1, <1>5, <1>6, PoolThreadsAssumption DEF HolderOK
<1>11. NoLostWakeup'
  <2>1. Coming' = Coming /\ Signalling' = Signalling /\ Waiting' = Waiting
    BY <1>1, <1>6 DEF Coming, Signalling, Waiting
  <2>2. Waiting # {} => Cardinality(Coming) + Cardinality(Signalling) >= Len(jobs.items)
    BY DEF NoLostWakeup, Coming, Signalling
  <2>3. Waiting' # {} => Cardinality(Coming') + Cardinality(Signalling') >= Len(jobs'.items)
    BY <1>1, <2>1, <2>2
  <2>4. QED
    BY <2>3 DEF NoLostWakeup, Coming, Signalling
<1>12. QED
  BY <1>7, <1>8, <1>9, <1>10, <1>11

\* The byte is written, the mutex is released and the worker is on its way again.
LEMMA WriteByteStep ==
  ASSUME PoolInv, NEW w \in PoolWorkers, WriteByte(w)
  PROVE  PoolInv'
<1> USE DEF PoolInv
<1>1. /\ worker[w].pc = "write" /\ results.holder = w
      /\ UNCHANGED <<jobs, pushing, pushed, reading, popped, stopped>>
      /\ worker' = [worker EXCEPT ![w] = [pc |-> "pop", job |-> Nobody]]
      /\ results' = [results EXCEPT !.pipe = results.pipe + 1, !.holder = Nobody]
  BY DEF WriteByte, HolderOK
<1>2. /\ results \in [items : Seq(Nat), pipe : Nat, holder : PoolWorkers \cup {Nobody}]
      /\ results.pipe \in Nat /\ w # Nobody
  BY PoolThreadsAssumption DEF PoolTypeOK
<1>3. /\ results' \in [items : Seq(Nat), pipe : Nat, holder : PoolWorkers \cup {Nobody}]
      /\ results'.items = results.items /\ results'.holder = Nobody
      /\ results'.pipe = results.pipe + 1
  <2>1. results.pipe + 1 \in Nat /\ Nobody \in PoolWorkers \cup {Nobody}
    BY <1>2
  <2>2. QED
    BY <1>1, <1>2, <2>1
<1>4. /\ worker' \in [PoolWorkers -> [pc : PoolPc, job : Nat]]
      /\ worker'[w].pc = "pop"
      /\ \A v \in PoolWorkers : v # w => worker'[v] = worker[v]
  <2>1. "pop" \in PoolPc /\ Nobody \in Nat
    BY DEF PoolPc, Nobody
  <2>2. QED
    BY <1>1, <2>1, WorkerChange
<1>5. PoolTypeOK'
  BY <1>1, <1>3, <1>4 DEF PoolTypeOK
<1>6. OnePlace'
  <2>1. /\ Busy' = Busy /\ HandJobs' = HandJobs
        /\ (\A v, x \in Busy : worker[v].job = worker[x].job => v = x)'
    BY <1>1, <1>4, HandsKept DEF Busy
  <2>2. QED
    BY <1>1, <1>3, <2>1 DEF OnePlace
<1>7. Bytes'
  BY <1>1, <1>2, <1>3 DEF Bytes
<1>8. HolderOK'
  BY <1>1, <1>3, <1>4 DEF HolderOK
<1>9. NoLostWakeup'
  <2>1. /\ Coming' = Coming \cup {w} /\ w \notin Coming /\ Signalling' = Signalling
        /\ Waiting' = Waiting
    BY <1>1, <1>4 DEF Coming, Signalling, Waiting
  <2>2. Cardinality(Coming') = Cardinality(Coming) + 1 /\ Len(jobs.items) \in Nat
    BY <2>1, ComingFinite, CountChange DEF PoolTypeOK
  <2>3. Waiting # {} => Cardinality(Coming) + Cardinality(Signalling) >= Len(jobs.items)
    BY DEF NoLostWakeup, Coming, Signalling
  <2>4. Waiting' # {} => Cardinality(Coming') + Cardinality(Signalling') >= Len(jobs'.items)
    BY <1>1, <2>1, <2>2, <2>3, ComingFinite
  <2>5. QED
    BY <2>4 DEF NoLostWakeup, Coming, Signalling
<1>10. QED
  BY <1>5, <1>6, <1>7, <1>8, <1>9

\* What the steps of the reader leave alone.
LEMMA ReaderFrame ==
  ASSUME PoolInv, UNCHANGED <<jobs, pushing, pushed, worker, stopped>>,
         results'.holder = results.holder
  PROVE  HolderOK' /\ NoLostWakeup' /\ Busy' = Busy /\ HandJobs' = HandJobs
<1>1. HolderOK'
  BY DEF PoolInv, HolderOK
<1>2. NoLostWakeup'
  BY DEF PoolInv, NoLostWakeup, Waiting
<1>3. QED
  BY <1>1, <1>2 DEF HandJobs, Busy

\* The reader takes a byte.
LEMMA ReadByteStep ==
  ASSUME PoolInv, ReadByte
  PROVE  PoolInv'
<1> USE DEF PoolInv
<1>1. /\ UNCHANGED <<jobs, pushing, pushed, worker, popped, stopped>>
      /\ reading = FALSE /\ reading' = TRUE /\ results.pipe > 0
      /\ results' = [results EXCEPT !.pipe = results.pipe - 1]
  BY DEF ReadByte, PoolTypeOK
<1>2. /\ results \in [items : Seq(Nat), pipe : Nat, holder : PoolWorkers \cup {Nobody}]
      /\ results.pipe \in Nat /\ results.pipe - 1 \in Nat
  BY <1>1 DEF PoolTypeOK
<1>3. /\ results' \in [items : Seq(Nat), pipe : Nat, holder : PoolWorkers \cup {Nobody}]
      /\ results'.items = results.items /\ results'.holder = results.holder
      /\ results'.pipe = results.pipe - 1
  BY <1>1, <1>2
<1>4. HolderOK' /\ NoLostWakeup' /\ Busy' = Busy /\ HandJobs' = HandJobs
  BY <1>1, <1>3, ReaderFrame
<1>5. PoolTypeOK'
  BY <1>1, <1>3 DEF PoolTypeOK
<1>6. OnePlace'
  BY <1>1, <1>3, <1>4 DEF OnePlace
<1>7. Bytes'
  BY <1>1, <1>2, <1>3 DEF Bytes
<1>8. QED
  BY <1>4, <1>5, <1>6, <1>7

\* The reader that has a byte finds a result.
LEMMA PopResultStep ==
  ASSUME PoolInv, PopResult
  PROVE  PoolInv'
<1> USE DEF PoolInv
<1> DEFINE h == Head(results.items)
<1>1. /\ UNCHANGED <<jobs, pushing, pushed, worker, stopped>>
      /\ reading = TRUE /\ reading' = FALSE /\ results.holder = Nobody
  BY DEF PopResult, PoolTypeOK
<1>2. /\ results \in [items : Seq(Nat), pipe : Nat, holder : PoolWorkers \cup {Nobody}]
      /\ results.items \in Seq(Nat) /\ results.pipe \in Nat /\ popped \in Seq(Nat)
  BY DEF PoolTypeOK
<1>3. Len(results.items) = results.pipe + 1
  BY <1>1, <1>2 DEF Bytes
<1>4. results.items # <<>> /\ SubSeq(results.items, 1, 1) = <<h>>
  <2>1. Len(results.items) >= 1 /\ results.items # <<>>
    BY <1>2, <1>3
  <2>2. QED
    BY <1>2, <2>1, FirstOf
<1>5. /\ Tail(results.items) \in Seq(Nat) /\ Len(Tail(results.items)) = Len(results.items) - 1
      /\ h \in Nat /\ h \in ToSet(results.items)
      /\ ToSet(Tail(results.items)) = ToSet(results.items) \ {h}
      /\ Distinct(Tail(results.items))
  BY <1>2, <1>4, TailDistinct DEF OnePlace
<1> HIDE DEF h
<1>6. popped' = Append(popped, h)
  <2>1. popped' = popped \o <<h>>
    BY <1>4 DEF PopResult
  <2>2. QED
    BY <1>2, <1>5, <2>1
<1>7. results' = [results EXCEPT !.items = Tail(results.items)]
  BY <1>4 DEF PopResult
<1>8. /\ results' \in [items : Seq(Nat), pipe : Nat, holder : PoolWorkers \cup {Nobody}]
      /\ results'.items = Tail(results.items) /\ results'.holder = results.holder
      /\ results'.pipe = results.pipe
  BY <1>2, <1>5, <1>7
<1>9. HolderOK' /\ NoLostWakeup' /\ Busy' = Busy /\ HandJobs' = HandJobs
  BY <1>1, <1>8, ReaderFrame
<1>10. h \notin ToSet(jobs.items) /\ h \notin HandJobs /\ h \notin ToSet(popped)
  BY <1>5 DEF OnePlace
<1>11. popped' \in Seq(Nat) /\ ToSet(popped') = ToSet(popped) \cup {h} /\ Distinct(popped')
  BY <1>2, <1>5, <1>6, <1>10, AppendDistinct DEF OnePlace
<1>12. PoolTypeOK'
  BY <1>1, <1>8, <1>11 DEF PoolTypeOK
<1>13. OnePlace'
  <2>1. \A v, x \in Busy' : worker'[v].job = worker'[x].job => v = x
    BY <1>1, <1>9 DEF OnePlace
  <2>2. QED
    BY <1>1, <1>5, <1>8, <1>9, <1>10, <1>11, <2>1 DEF OnePlace
<1>14. Bytes'
  BY <1>1, <1>2, <1>3, <1>5, <1>8 DEF Bytes
<1>15. QED
  BY <1>9, <1>12, <1>13, <1>14

\* A cancelled worker keeps the mutex or the job it holds, and was not on its way.
LEMMA CancelStep ==
  ASSUME PoolInv, NEW w \in PoolWorkers, Cancel(w)
  PROVE  PoolInv'
<1> USE DEF PoolInv
<1> DEFINE c == IF worker[w].pc = "proc" THEN "lost" ELSE "cancelled"
<1>1. /\ worker[w].pc \in {"wait", "write", "proc"}
      /\ UNCHANGED <<pushing, pushed, results, reading, popped, stopped>>
      /\ worker' = [worker EXCEPT ![w].pc = c]
      /\ jobs' = jobs \/ jobs' = [jobs EXCEPT !.stuck = TRUE]
  BY DEF Cancel
<1>2. jobs' \in [items : Seq(Nat), stuck : BOOLEAN] /\ jobs'.items = jobs.items
  <2>1. jobs \in [items : Seq(Nat), stuck : BOOLEAN]
    BY DEF PoolTypeOK
  <2>2. QED
    BY <1>1, <2>1
<1>3. /\ worker' \in [PoolWorkers -> [pc : PoolPc, job : Nat]]
      /\ worker'[w].pc = c /\ worker'[w].job = worker[w].job
      /\ \A v \in PoolWorkers : v # w => worker'[v] = worker[v]
  <2>1. c \in PoolPc /\ worker[w].job \in Nat
    BY DEF PoolPc, PoolTypeOK
  <2> HIDE DEF c
  <2>2. QED
    BY <1>1, <2>1, WorkerChange
<1>4. PoolTypeOK'
  BY <1>1, <1>2, <1>3 DEF PoolTypeOK
<1>5. OnePlace'
  <2>1. /\ Busy' = Busy /\ HandJobs' = HandJobs
        /\ (\A v, x \in Busy : worker[v].job = worker[x].job => v = x)'
    <3>1. CASE worker[w].pc = "proc"
      <4>1. Busy' = Busy /\ \A v \in Busy : worker'[v].job = worker[v].job
        BY <1>3, <3>1 DEF Busy
      <4>2. QED
        BY <4>1 DEF HandJobs, OnePlace
    <3>2. CASE worker[w].pc # "proc"
      BY <1>1, <1>3, <3>2, HandsKept DEF Busy
    <3>3. QED
      BY <3>1, <3>2
  <2>2. QED
    BY <1>1, <1>2, <2>1 DEF OnePlace
<1>6. Bytes'
  BY <1>1 DEF Bytes
<1>7. HolderOK'
  BY <1>1, <1>3 DEF HolderOK, PoolTypeOK
<1>8. NoLostWakeup'
  <2>1. Coming' = Coming /\ Signalling' = Signalling /\ Waiting' \subseteq Waiting
    BY <1>1, <1>3 DEF Coming, Signalling, Waiting
  <2>2. Waiting # {} => Cardinality(Coming) + Cardinality(Signalling) >= Len(jobs.items)
    BY DEF NoLostWakeup, Coming, Signalling
  <2>3. Waiting' # {} => Cardinality(Coming') + Cardinality(Signalling') >= Len(jobs'.items)
    BY <1>2, <2>1, <2>2
  <2>4. QED
    BY <2>3 DEF NoLostWakeup, Coming, Signalling
<1>9. QED
  BY <1>4, <1>5, <1>6, <1>7, <1>8

\* Nothing the invariant is about changes.
LEMMA PoolStutter ==
  ASSUME PoolInv, UNCHANGED <<jobs, pushing, pushed, worker, results, reading, popped>>,
         stopped' \in BOOLEAN
  PROVE  PoolInv'
<1> USE DEF PoolInv
<1>1. PoolTypeOK'
  BY DEF PoolTypeOK
<1>2. OnePlace'
  BY DEF OnePlace, HandJobs, Busy
<1>3. HolderOK' /\ Bytes' /\ NoLostWakeup'
  BY DEF HolderOK, Bytes, NoLostWakeup, Waiting
<1>4. QED
  BY <1>1, <1>2, <1>3

\* The invariant of the pool holds at the start.
LEMMA PoolInvInit == PoolInit => PoolInv
<1> SUFFICES ASSUME PoolInit PROVE PoolInv
  OBVIOUS
<1>1. <<>> \in Seq(Nat) /\ ToSet(<<>>) = {} /\ Distinct(<<>>) /\ Len(<<>>) = 0 /\ 1..0 = {}
  BY DEF ToSet, Distinct
<1>2. PoolTypeOK
  BY <1>1 DEF PoolInit, PoolTypeOK, PoolPc, Nobody
<1>3. \A w \in PoolWorkers : worker[w].pc = "pop"
  BY DEF PoolInit
<1>4. Busy = {} /\ HandJobs = {} /\ Waiting = {}
  BY <1>3 DEF Busy, HandJobs, Waiting
<1>5. OnePlace
  BY <1>1, <1>4 DEF PoolInit, OnePlace
<1>6. HolderOK /\ NoLostWakeup
  BY <1>3, <1>4 DEF PoolInit, HolderOK, NoLostWakeup
<1>7. Bytes
  BY <1>1 DEF PoolInit, Bytes
<1>8. QED
  BY <1>2, <1>5, <1>6, <1>7 DEF PoolInv

\* Every step of the pool keeps it.
LEMMA PoolInvStep == PoolInv /\ PoolNext => PoolInv'
<1> SUFFICES ASSUME PoolInv, PoolNext PROVE PoolInv'
  OBVIOUS
<1>1. ASSUME NEW p \in Pushers, Signal(p) PROVE PoolInv'
  BY <1>1, WakeStep, SignalNobodyStep DEF Signal
<1>2. ASSUME NEW w \in PoolWorkers, Pop(w) PROVE PoolInv'
  BY <1>2, PopNothingStep, PopJobStep DEF Pop
<1>3. ASSUME NEW w \in PoolWorkers, SpuriousWakeup(w) PROVE PoolInv'
  BY <1>3, WakeStep DEF SpuriousWakeup
<1>4. stop => PoolInv'
  BY PoolStutter DEF stop
<1>5. QED
  BY <1>1, <1>2, <1>3, <1>4, PushStep, PushResultStep, WriteByteStep, ReadByteStep, PopResultStep,
     CancelStep DEF PoolNext, RunWorker, Reader

-----------------------------------------------------------------------------
(* cnm's thread pool *)

TPTypeOK ==
  /\ link \in [Node -> [prev : Node, next : Node]]
  /\ idle_threads \in Nat
  /\ thread \in [Threads -> Works \cup {"lock", "wait", "woken"}]
  /\ order \in Seq(Works)

Idle == {t \in Threads : thread[t] \in {"wait", "woken"}}
Awake == {t \in Threads : thread[t] \in {"lock", "woken"}}

TPInv == TPTypeOK /\ Distinct(order) /\ ListIsQueue /\ IdleAndAwake

\* The threads that sleep, and those on their way, can be counted.
LEMMA IdleFinite ==
  /\ IsFiniteSet(Idle) /\ Cardinality(Idle) \in Nat
  /\ IsFiniteSet(Awake) /\ Cardinality(Awake) \in Nat
<1>1. Idle \in SUBSET Threads /\ Awake \in SUBSET Threads
  BY DEF Idle, Awake
<1>2. QED
  BY <1>1, ThreadsAssumption, FS_Subset, FS_CardinalityType

\* The nodes of the list.
LEMMA AtFacts ==
  ASSUME TPTypeOK
  PROVE  /\ Len(order) \in Nat /\ DOMAIN order = 1..Len(order)
         /\ \A i \in 1..Len(order) : order[i] \in Works /\ order[i] # wq /\ At(i) = order[i]
         /\ At(0) = wq /\ At(Len(order) + 1) = wq
         /\ \A i \in Nat : At(i) \in Node
         /\ Works \subseteq Node /\ wq \in Node
<1>1. /\ Len(order) \in Nat /\ DOMAIN order = 1..Len(order)
      /\ \A i \in 1..Len(order) : order[i] \in Works
  BY DEF TPTypeOK
<1>2. QED
  BY <1>1, WqAssumption DEF At, Node

\* The list is empty when its head says so.
LEMMA EmptyList ==
  ASSUME TPInv
  PROVE  ngx_queue_empty(link) <=> Len(order) = 0
<1>1. Len(order) \in Nat /\ Len(order) \in 0..Len(order) /\ link[wq].prev = At(Len(order))
  BY AtFacts DEF TPInv, ListIsQueue
<1>2. Len(order) = 0 => At(Len(order)) = wq
  BY AtFacts DEF TPInv
<1>3. Len(order) # 0 => At(Len(order)) # wq
  BY <1>1, AtFacts DEF TPInv
<1>4. QED
  BY <1>1, <1>2, <1>3 DEF ngx_queue_empty

Links == [Node -> [prev : Node, next : Node]]
AssignPrev(l, a, b) == [l EXCEPT ![a].prev = b]

\* An assignment to the prev of a node changes nothing else.
LEMMA AssignPrevFacts ==
  ASSUME NEW l \in Links, NEW a \in Node, NEW b \in Node
  PROVE  /\ AssignPrev(l, a, b) \in Links
         /\ AssignPrev(l, a, b)[a].prev = b
         /\ \A y \in Node : /\ AssignPrev(l, a, b)[y].next = l[y].next
                            /\ y # a => AssignPrev(l, a, b)[y].prev = l[y].prev
<1> DEFINE q == [l[a] EXCEPT !.prev = b]
<1>1. l[a] \in [prev : Node, next : Node]
  BY DEF Links
<1>2. q \in [prev : Node, next : Node] /\ q.prev = b /\ q.next = l[a].next
  BY <1>1
<1>3. AssignPrev(l, a, b) = [l EXCEPT ![a] = q]
  BY DEF AssignPrev
<1> HIDE DEF q
<1>4. QED
  BY <1>2, <1>3 DEF Links

AssignNext(l, a, b) == [l EXCEPT ![a].next = b]

\* An assignment to the next of a node changes nothing else.
LEMMA AssignNextFacts ==
  ASSUME NEW l \in Links, NEW a \in Node, NEW b \in Node
  PROVE  /\ AssignNext(l, a, b) \in Links
         /\ AssignNext(l, a, b)[a].next = b
         /\ \A y \in Node : /\ AssignNext(l, a, b)[y].prev = l[y].prev
                            /\ y # a => AssignNext(l, a, b)[y].next = l[y].next
<1> DEFINE q == [l[a] EXCEPT !.next = b]
<1>1. l[a] \in [prev : Node, next : Node]
  BY DEF Links
<1>2. q \in [prev : Node, next : Node] /\ q.next = b /\ q.prev = l[a].prev
  BY <1>1
<1>3. AssignNext(l, a, b) = [l EXCEPT ![a] = q]
  BY DEF AssignNext
<1> HIDE DEF q
<1>4. QED
  BY <1>2, <1>3 DEF Links

\* The four assignments of insert_tail taken together.
LEMMA InsertChain ==
  ASSUME NEW l \in Links, NEW x \in Works, NEW last \in Node, last # x
  PROVE  LET r == AssignPrev(AssignNext(AssignNext(AssignPrev(l, x, last), last, x), x, wq), wq, x) IN
         /\ r \in Links
         /\ r[x].prev = last /\ r[x].next = wq /\ r[last].next = x /\ r[wq].prev = x
         /\ \A y \in Node : y # x /\ y # last => r[y].next = l[y].next
         /\ \A y \in Node : y # x /\ y # wq => r[y].prev = l[y].prev
<1> DEFINE l1 == AssignPrev(l, x, last)
           l2 == AssignNext(l1, last, x)
           l3 == AssignNext(l2, x, wq)
           r == AssignPrev(l3, wq, x)
<1>0. x \in Node /\ wq \in Node /\ x # wq
  BY WqAssumption DEF Node
<1>2. /\ l1 \in Links /\ l1[x].prev = last
      /\ \A y \in Node : l1[y].next = l[y].next /\ (y # x => l1[y].prev = l[y].prev)
  BY <1>0, AssignPrevFacts
<1> HIDE DEF l1
<1>3. /\ l2 \in Links /\ l2[last].next = x
      /\ \A y \in Node : l2[y].prev = l1[y].prev /\ (y # last => l2[y].next = l1[y].next)
  BY <1>0, <1>2, AssignNextFacts
<1> HIDE DEF l2
<1>4. /\ l3 \in Links /\ l3[x].next = wq
      /\ \A y \in Node : l3[y].prev = l2[y].prev /\ (y # x => l3[y].next = l2[y].next)
  BY <1>0, <1>3, AssignNextFacts
<1> HIDE DEF l3
<1>5. /\ r \in Links /\ r[wq].prev = x
      /\ \A y \in Node : r[y].next = l3[y].next /\ (y # wq => r[y].prev = l3[y].prev)
  BY <1>0, <1>4, AssignPrevFacts
<1> HIDE DEF r
<1>6. /\ r[x].prev = last /\ r[x].next = wq /\ r[last].next = x
      /\ \A y \in Node : y # x /\ y # last => r[y].next = l[y].next
      /\ \A y \in Node : y # x /\ y # wq => r[y].prev = l[y].prev
  BY <1>0, <1>2, <1>3, <1>4, <1>5
<1>7. QED
  BY <1>5, <1>6 DEF r, l3, l2, l1

\* What insert_tail does to the links.
LEMMA InsertFacts ==
  ASSUME NEW l \in Links, NEW x \in Works, l[wq].prev # x
  PROVE  LET r == ngx_queue_insert_tail(l, x)
             last == l[wq].prev IN
         /\ r \in Links
         /\ r[x].prev = last /\ r[x].next = wq /\ r[last].next = x /\ r[wq].prev = x
         /\ \A y \in Node : y # x /\ y # last => r[y].next = l[y].next
         /\ \A y \in Node : y # x /\ y # wq => r[y].prev = l[y].prev
<1> DEFINE last == l[wq].prev
<1>1. last \in Node
  BY DEF Links, Node
<1>2. ngx_queue_insert_tail(l, x)
        = AssignPrev(AssignNext(AssignNext(AssignPrev(l, x, last), last, x), x, wq), wq, x)
  BY DEF ngx_queue_insert_tail, AssignPrev, AssignNext
<1> HIDE DEF last
<1>3. last # x
  BY DEF last
<1>4. QED
  BY <1>1, <1>2, <1>3, InsertChain DEF last

\* The two assignments of remove taken together, for the first node of a list.
LEMMA RemoveChain ==
  ASSUME NEW l \in Links, NEW nx \in Node
  PROVE  LET r == AssignNext(AssignPrev(l, nx, wq), wq, nx) IN
         /\ r \in Links
         /\ r[wq].next = nx /\ r[nx].prev = wq
         /\ \A y \in Node : y # wq => r[y].next = l[y].next
         /\ \A y \in Node : y # nx => r[y].prev = l[y].prev
<1> DEFINE l1 == AssignPrev(l, nx, wq)
           r == AssignNext(l1, wq, nx)
<1>0. wq \in Node
  BY DEF Node
<1>1. /\ l1 \in Links /\ l1[nx].prev = wq
      /\ \A y \in Node : l1[y].next = l[y].next /\ (y # nx => l1[y].prev = l[y].prev)
  BY <1>0, AssignPrevFacts
<1> HIDE DEF l1
<1>4. /\ r \in Links /\ r[wq].next = nx
      /\ \A y \in Node : r[y].prev = l1[y].prev /\ (y # wq => r[y].next = l1[y].next)
  BY <1>0, <1>1, AssignNextFacts
<1> HIDE DEF r
<1>5. QED
  BY <1>0, <1>1, <1>4 DEF r, l1

\* What remove does to the links, for the first node of a list.
LEMMA RemoveFacts ==
  ASSUME NEW l \in Links, NEW x \in Works, l[x].prev = wq, l[x].next # x
  PROVE  LET r == ngx_queue_remove(l, x)
             nx == l[x].next IN
         /\ r \in Links
         /\ r[wq].next = nx /\ r[nx].prev = wq
         /\ \A y \in Node : y # wq => r[y].next = l[y].next
         /\ \A y \in Node : y # nx => r[y].prev = l[y].prev
<1> DEFINE nx == l[x].next
           l1 == AssignPrev(l, nx, wq)
<1>0. x \in Node /\ wq \in Node /\ x # wq /\ nx \in Node
  BY WqAssumption DEF Node, Links
<1>1. l1 = [l EXCEPT ![l[x].next].prev = l[x].prev]
  BY DEF AssignPrev
<1> HIDE DEF nx
<1>2. l1[x].prev = wq /\ l1[x].next = nx
  <2>1. nx # x /\ l[x].next = nx
    BY DEF nx
  <2>0. \A y \in Node : l1[y].next = l[y].next /\ (y # nx => l1[y].prev = l[y].prev)
    BY <1>0, AssignPrevFacts
  <2>2. l1[x].prev = l[x].prev /\ l1[x].next = l[x].next
    BY <1>0, <2>0, <2>1
  <2>3. QED
    BY <2>1, <2>2
<1> HIDE DEF l1
<1>3. ngx_queue_remove(l, x) = AssignNext(l1, wq, nx)
  BY <1>1, <1>2 DEF ngx_queue_remove, AssignNext
<1>4. LET r == AssignNext(l1, wq, nx) IN
      /\ r \in Links
      /\ r[wq].next = nx /\ r[nx].prev = wq
      /\ \A y \in Node : y # wq => r[y].next = l[y].next
      /\ \A y \in Node : y # nx => r[y].prev = l[y].prev
  BY <1>0, RemoveChain DEF l1
<1>5. QED
  BY <1>3, <1>4 DEF nx

\* A work that is not in the list becomes its last.
LEMMA InsertStep ==
  ASSUME TPInv, NEW x \in Works, x \notin ToSet(order),
         link' = ngx_queue_insert_tail(link, x), order' = Append(order, x)
  PROVE  /\ link' \in Links /\ order' \in Seq(Works)
         /\ Distinct(order') /\ ListIsQueue' /\ Len(order') = Len(order) + 1
<1> USE DEF TPInv
<1> DEFINE n == Len(order)
           last == At(n)
<1>1. /\ n \in Nat /\ DOMAIN order = 1..n
      /\ \A i \in 1..n : order[i] \in Works /\ order[i] # wq /\ At(i) = order[i]
      /\ At(0) = wq /\ At(n + 1) = wq
      /\ \A i \in Nat : At(i) \in Node
  BY AtFacts
<1>2. link[wq].prev = last /\ last \in Node
  BY <1>1 DEF ListIsQueue
<1>3. \A i \in 0..n : At(i) # x
  BY <1>1, WqAssumption DEF ToSet
<1>4. /\ order' \in Seq(Works) /\ Len(order') = n + 1 /\ Distinct(order')
      /\ \A i \in 1..n : order'[i] = order[i]
      /\ order'[n + 1] = x
  <2>1. order \in Seq(Works)
    BY DEF TPTypeOK
  <2>2. /\ order' \in Seq(Works) /\ Len(order') = n + 1 /\ Distinct(order')
    BY <2>1, AppendDistinct
  <2>3. QED
    BY <2>1, <2>2
<1>5. /\ \A i \in 0..n : At(i)' = At(i)
      /\ \A i \in Nat : i = n + 1 => At(i)' = x
      /\ \A i \in Nat : i = n + 2 => At(i)' = wq
  BY <1>1, <1>4 DEF At
<1> HIDE DEF last
<1>6. /\ link' \in Links
      /\ link'[x].prev = last /\ link'[x].next = wq /\ link'[last].next = x /\ link'[wq].prev = x
      /\ \A y \in Node : y # x /\ y # last => link'[y].next = link[y].next
      /\ \A y \in Node : y # x /\ y # wq => link'[y].prev = link[y].prev
  <2>1. link \in Links
    BY DEF TPTypeOK, Links
  <2>2. last # x
    BY <1>1, <1>3 DEF last
  <2>3. QED
    BY <1>2, <2>1, <2>2, InsertFacts
<1>7. ASSUME NEW i \in 0..(n + 1)
      PROVE  link'[At(i)'].next = At(i + 1)' /\ link'[At(i + 1)'].prev = At(i)'
  <2>1. CASE i = n + 1
    <3>1. At(i)' = x /\ At(i + 1)' = wq
      BY <1>1, <1>5, <2>1
    <3>2. QED
      BY <1>6, <3>1
  <2>2. CASE i = n
    <3>1. At(i)' = last /\ At(i + 1)' = x
      BY <1>1, <1>5, <2>2 DEF last
    <3>2. QED
      BY <1>6, <3>1
  <2>3. CASE i \in 0..n /\ i # n
    <3>0. n \in Nat /\ i \in 0..n /\ i # n
      BY <1>1, <2>3
    <3> HIDE DEF n
    <3>a. n \in 1..n /\ i + 1 \in 1..n /\ i \in 0..n /\ i + 1 \in 0..n /\ (i = 0 \/ i \in 1..n)
      BY <3>0
    <3>1. At(i)' = At(i) /\ At(i + 1)' = At(i + 1) /\ i + 1 \in 1..n
      BY <1>5, <3>a
    <3>2. At(i) # last
      <4>1. n \in 1..n
        BY <3>a
      <4>2. CASE i = 0
        BY <1>1, <4>1, <4>2 DEF last
      <4>3. CASE i \in 1..n
        BY <1>1, <2>3, <4>1, <4>3 DEF last, Distinct
      <4>4. QED
        BY <3>a, <4>2, <4>3
    <3>3. link[At(i)].next = At(i + 1) /\ link[At(i + 1)].prev = At(i)
      BY <3>a DEF ListIsQueue, n
    <3>4. At(i) # x /\ At(i + 1) # x /\ At(i + 1) # wq /\ At(i) \in Node /\ At(i + 1) \in Node
      BY <1>1, <1>3, <3>a
    <3>5. QED
      BY <1>6, <3>1, <3>2, <3>3, <3>4
  <2>4. i = n + 1 \/ i = n \/ (i \in 0..n /\ i # n)
    <3>1. n \in Nat /\ i \in 0..(n + 1)
      BY <1>1
    <3> HIDE DEF n
    <3>2. QED
      BY <3>1
  <2>5. QED
    BY <2>1, <2>2, <2>3, <2>4
<1>8. ListIsQueue'
  BY <1>4, <1>7 DEF ListIsQueue
<1>9. QED
  BY <1>4, <1>6, <1>8

\* The first work leaves the list.
LEMMA RemoveStep ==
  ASSUME TPInv, ~ngx_queue_empty(link),
         link' = ngx_queue_remove(link, link[wq].next), order' = Tail(order)
  PROVE  /\ link' \in Links /\ order' \in Seq(Works) /\ link[wq].next \in Works
         /\ Distinct(order') /\ ListIsQueue'
         /\ Len(order) \in Nat /\ Len(order') = Len(order) - 1 /\ Len(order) >= 1
<1> DEFINE n == Len(order)
           x == At(1)
           nx == At(2)
<1>1. /\ n \in Nat /\ DOMAIN order = 1..n
      /\ \A i \in 1..n : order[i] \in Works /\ order[i] # wq /\ At(i) = order[i]
      /\ At(0) = wq /\ At(n + 1) = wq
      /\ \A i \in Nat : At(i) \in Node
  BY AtFacts DEF TPInv
<1>2. n >= 1 /\ 1 \in 1..n
  <2>1. n # 0
    BY EmptyList
  <2>2. n \in Nat
    BY <1>1
  <2> HIDE DEF n
  <2>3. QED
    BY <2>1, <2>2
<1>3. \A i \in 0..n : link[At(i)].next = At(i + 1) /\ link[At(i + 1)].prev = At(i)
  BY DEF TPInv, ListIsQueue
<1>4. x \in Works /\ x # wq /\ nx \in Node /\ order[1] = x
  BY <1>1, <1>2
<1>5. /\ order \in Seq(Works) /\ order # <<>> /\ Distinct(order) /\ link \in Links
  BY <1>2 DEF TPInv, TPTypeOK, Links
<1>6. /\ order' \in Seq(Works) /\ Len(order') = n - 1 /\ Distinct(order')
      /\ \A i \in 1..(n - 1) : order'[i] = order[i + 1]
  BY <1>1, <1>5, TailDistinct
<1>7. n = 1 => nx = wq
  <2>1. n = 1 => n + 1 = 2
    BY <1>1
  <2>2. QED
    BY <1>1, <2>1
<1>8. ASSUME NEW k \in 2..(n + 1) PROVE At(k) # x /\ (k # 2 => At(k) # nx)
  <2>0. n \in Nat /\ n >= 1 /\ (k = n + 1 \/ (k \in 1..n /\ 2 \in 1..n)) /\ k # 1
    <3>1. n \in Nat /\ n >= 1 /\ k \in 2..(n + 1)
      BY <1>1, <1>2
    <3> HIDE DEF n
    <3>2. QED
      BY <3>1
  <2>1. CASE k = n + 1
    <3>1. At(k) = wq
      BY <1>1, <2>1
    <3>2. k # 2 => 2 \in 1..n
      <4>1. n \in Nat /\ n >= 1 /\ k = n + 1
        BY <2>0, <2>1
      <4> HIDE DEF n
      <4>2. QED
        BY <4>1
    <3>3. QED
      BY <1>1, <1>4, <3>1, <3>2
  <2>2. CASE k \in 1..n /\ 2 \in 1..n
    <3>1. At(k) = order[k] /\ nx = order[2]
      BY <1>1, <2>2
    <3>2. k \in DOMAIN order /\ 2 \in DOMAIN order /\ 1 \in DOMAIN order
      BY <1>1, <1>2, <2>2
    <3>3. QED
      BY <1>4, <1>5, <2>0, <3>1, <3>2 DEF Distinct
  <2>3. QED
    BY <2>0, <2>1, <2>2
<1>9. link[wq].next = x /\ link[x].prev = wq /\ link[x].next = nx
  <2>1. 0 \in 0..n /\ 1 \in 0..n /\ 0 + 1 = 1 /\ 1 + 1 = 2
    BY <1>1, <1>2
  <2>2. QED
    BY <1>1, <1>3, <2>1
<1>10. nx # x
  <2>1. 2 \in 2..(n + 1)
    BY <1>1, <1>2
  <2>2. QED
    BY <1>8, <2>1
<1>11. At(0)' = wq /\ \A i \in 1..n : At(i)' = At(i + 1)
  <2>1. At(0)' = wq
    BY <1>1, <1>6 DEF At
  <2>2. ASSUME NEW i \in 1..n PROVE At(i)' = At(i + 1)
    <3>1. n \in Nat /\ (i \in 1..(n - 1) => i + 1 \in 1..n) /\ (i \notin 1..(n - 1) => i = n)
      <4>1. n \in Nat /\ i \in 1..n
        BY <1>1
      <4> HIDE DEF n
      <4>2. QED
        BY <4>1
    <3>2. CASE i \in 1..(n - 1)
      BY <1>1, <1>6, <3>1, <3>2 DEF At
    <3>3. CASE i \notin 1..(n - 1)
      BY <1>1, <1>6, <3>1, <3>3 DEF At
    <3>4. QED
      BY <3>2, <3>3
  <2>3. QED
    BY <2>1, <2>2
<1> HIDE DEF x, nx
<1>12. /\ link' \in Links /\ link'[wq].next = nx /\ link'[nx].prev = wq
       /\ \A y \in Node : y # wq => link'[y].next = link[y].next
       /\ \A y \in Node : y # nx => link'[y].prev = link[y].prev
  <2>1. link' = ngx_queue_remove(link, x)
    BY <1>9
  <2>2. QED
    BY <1>4, <1>5, <1>9, <1>10, <2>1, RemoveFacts
<1>13. ASSUME NEW i \in 0..(n - 1)
       PROVE  link'[At(i)'].next = At(i + 1)' /\ link'[At(i + 1)'].prev = At(i)'
  <2>0. /\ n \in Nat /\ i \in Nat /\ i + 1 \in 1..n /\ (i = 0 \/ i \in 1..n)
        /\ i # 0 => i + 2 \in 2..(n + 1) /\ i + 2 # 2
        /\ (i + 1) + 1 = i + 2 /\ i + 1 \in 0..n
    <3>1. n \in Nat /\ n >= 1 /\ i \in 0..(n - 1)
      BY <1>1, <1>2
    <3> HIDE DEF n
    <3>2. QED
      BY <3>1
  <2>1. At(i + 1)' = At(i + 2)
    BY <1>11, <2>0
  <2>2. CASE i = 0
    <3>1. At(i)' = wq /\ At(i + 1)' = nx
      <4>1. i + 2 = 2
        BY <2>2
      <4>2. QED
        BY <1>11, <2>1, <2>2, <4>1 DEF nx
    <3>2. QED
      BY <1>12, <3>1
  <2>3. CASE i \in 1..n
    <3>1. At(i)' = At(i + 1)
      BY <1>11, <2>3
    <3>2. i # 0
      BY <2>3
    <3>3. At(i + 1) # wq /\ At(i + 2) # nx /\ At(i + 1) \in Node /\ At(i + 2) \in Node
      BY <1>1, <1>8, <2>0, <3>2 DEF nx
    <3>4. link[At(i + 1)].next = At(i + 2) /\ link[At(i + 2)].prev = At(i + 1)
      BY <1>3, <2>0
    <3>5. QED
      BY <1>12, <2>1, <3>1, <3>3, <3>4
  <2>4. QED
    BY <2>0, <2>2, <2>3
<1>14. ListIsQueue'
  BY <1>6, <1>13 DEF ListIsQueue
<1>15. QED
  BY <1>1, <1>2, <1>4, <1>6, <1>9, <1>12, <1>14

Counted ==
  /\ idle_threads = Cardinality(Idle)
  /\ Asleep # {} => Cardinality(Awake) >= Len(order)

\* The two ways to write the counts.
LEMMA CountedIs == IdleAndAwake <=> Counted
  BY DEF IdleAndAwake, Counted, Idle, Awake

\* One thread goes elsewhere.
LEMMA ThreadChange ==
  ASSUME TPTypeOK, NEW t \in Threads, NEW v \in Works \cup {"lock", "wait", "woken"},
         thread' = [thread EXCEPT ![t] = v]
  PROVE  /\ thread' \in [Threads -> Works \cup {"lock", "wait", "woken"}]
         /\ thread'[t] = v /\ \A u \in Threads : u # t => thread'[u] = thread[u]
  BY DEF TPTypeOK

\* A thread stops waiting: it is still counted as idle and now on its way.
LEMMA WokenCounts ==
  ASSUME TPInv, NEW t \in Asleep, thread' = [thread EXCEPT ![t] = "woken"],
         UNCHANGED idle_threads
  PROVE  /\ thread' \in [Threads -> Works \cup {"lock", "wait", "woken"}]
         /\ idle_threads' = Cardinality(Idle')
         /\ Cardinality(Awake') \in Nat /\ Cardinality(Awake') >= Len(order) + 1
<1>1. TPTypeOK /\ t \in Threads /\ thread[t] = "wait"
  BY DEF TPInv, Asleep
<1>2. /\ thread' \in [Threads -> Works \cup {"lock", "wait", "woken"}]
      /\ thread'[t] = "woken" /\ \A u \in Threads : u # t => thread'[u] = thread[u]
  BY <1>1, ThreadChange
<1>3. Idle' = Idle
  BY <1>1, <1>2 DEF Idle
<1>4. Awake' = Awake \cup {t} /\ t \notin Awake
  BY <1>1, <1>2 DEF Awake
<1>5. Cardinality(Awake') = Cardinality(Awake) + 1 /\ Cardinality(Awake) \in Nat
  BY <1>4, IdleFinite, CountChange
<1>6. idle_threads = Cardinality(Idle) /\ Cardinality(Awake) >= Len(order)
  BY CountedIs DEF TPInv, Counted
<1>7. Len(order) \in Nat
  BY <1>1, AtFacts
<1>8. QED
  BY <1>2, <1>3, <1>5, <1>6, <1>7

\* A work is submitted: if a thread sleeps, idle_threads says so and one is woken.
LEMMA SubmitStep == ASSUME TPInv, NEW w \in Works, ae_work_submit(w) PROVE TPInv'
<1>1. /\ link' \in Links /\ order' \in Seq(Works)
      /\ Distinct(order') /\ ListIsQueue' /\ Len(order') = Len(order) + 1
  <2>1. w \notin ToSet(order)
    BY DEF ae_work_submit, ToSet
  <2>2. QED
    BY <2>1, InsertStep DEF ae_work_submit
<1>2. TPTypeOK /\ idle_threads = Cardinality(Idle)
  BY CountedIs DEF TPInv, Counted
<1>3. CASE (~Signals \/ Asleep = {}) /\ UNCHANGED thread
  <2>1. Idle' = Idle /\ Asleep' = Asleep
    BY <1>3 DEF Idle, Asleep
  <2>2. Asleep = {}
    <3>1. ASSUME NEW t \in Asleep PROVE Signals
      <4>1. t \in Idle
        BY DEF Asleep, Idle
      <4>2. Cardinality(Idle) >= 1 /\ Cardinality(Idle) \in Nat
        BY <4>1, IdleFinite, CountChange
      <4>3. QED
        BY <1>2, <4>2 DEF Signals
    <3>2. QED
      BY <1>3, <3>1
  <2>3. Counted'
    BY <1>2, <2>1, <2>2 DEF Counted, ae_work_submit
  <2>4. TPTypeOK'
    BY <1>1, <1>2, <1>3 DEF TPTypeOK, Links, ae_work_submit
  <2>5. QED
    BY <1>1, <2>3, <2>4, CountedIs DEF TPInv, IdleAndAwake, Counted, Idle, Awake
<1>4. CASE \E t \in Asleep : thread' = [thread EXCEPT ![t] = "woken"]
  <2>1. PICK t \in Asleep : thread' = [thread EXCEPT ![t] = "woken"]
    BY <1>4
  <2>2. UNCHANGED idle_threads
    BY DEF ae_work_submit
  <2>3. /\ thread' \in [Threads -> Works \cup {"lock", "wait", "woken"}]
        /\ idle_threads' = Cardinality(Idle')
        /\ Cardinality(Awake') \in Nat /\ Cardinality(Awake') >= Len(order) + 1
    BY <2>1, <2>2, WokenCounts
  <2>4. TPTypeOK'
    BY <1>1, <1>2, <2>2, <2>3 DEF TPTypeOK, Links
  <2>5. Counted'
    BY <1>1, <2>3 DEF Counted
  <2>6. QED
    BY <1>1, <2>4, <2>5 DEF TPInv, IdleAndAwake, Counted, Idle, Awake
<1>5. QED
  BY <1>3, <1>4 DEF ae_work_submit

\* A thread wakes up with no signal sent to it.
LEMMA WakeupStep == ASSUME TPInv, NEW t \in Threads, Wakeup(t) PROVE TPInv'
<1>1. /\ t \in Asleep /\ thread' = [thread EXCEPT ![t] = "woken"]
      /\ UNCHANGED idle_threads /\ UNCHANGED link /\ UNCHANGED order
  BY DEF Wakeup
<1>2. /\ thread' \in [Threads -> Works \cup {"lock", "wait", "woken"}]
      /\ idle_threads' = Cardinality(Idle')
      /\ Cardinality(Awake') \in Nat /\ Cardinality(Awake') >= Len(order) + 1
  BY <1>1, WokenCounts
<1>3. Len(order) \in Nat /\ TPTypeOK
  BY AtFacts DEF TPInv
<1>4. TPTypeOK'
  BY <1>1, <1>2, <1>3 DEF TPTypeOK
<1>5. Counted'
  BY <1>1, <1>2, <1>3 DEF Counted
<1>6. Distinct(order') /\ ListIsQueue'
  BY <1>1 DEF TPInv, ListIsQueue, At
<1>7. QED
  BY <1>4, <1>5, <1>6 DEF TPInv, IdleAndAwake, Counted, Idle, Awake

\* A thread that leaves the wait is taken from the idle ones.
LEMMA IdleAfterIs ==
  ASSUME TPInv, NEW t \in Threads, thread[t] \in {"lock", "woken"}
  PROVE  /\ IdleAfter(t) = Cardinality(Idle \ {t}) /\ IdleAfter(t) \in Nat
         /\ IsFiniteSet(Idle \ {t})
<1>1. idle_threads = Cardinality(Idle)
  BY CountedIs DEF TPInv, Counted
<1>2. IsFiniteSet(Idle \ {t}) /\ Cardinality(Idle \ {t}) \in Nat
  BY IdleFinite, FS_RemoveElement, FS_CardinalityType
<1>3. CASE thread[t] = "woken"
  <2>1. t \in Idle
    BY <1>3 DEF Idle
  <2>2. Cardinality(Idle \ {t}) = Cardinality(Idle) - 1
    BY <2>1, IdleFinite, CountChange
  <2>3. QED
    BY <1>1, <1>2, <1>3, <2>2 DEF IdleAfter
<1>4. CASE thread[t] = "lock"
  <2>1. Idle \ {t} = Idle
    BY <1>4 DEF Idle
  <2>2. QED
    BY <1>1, <1>2, <1>4, <2>1, IdleFinite DEF IdleAfter
<1>5. QED
  BY <1>3, <1>4

\* A thread finds the list empty and waits.
LEMMA SleepStep == ASSUME TPInv, NEW t \in Threads, Sleep(t) PROVE TPInv'
<1>1. /\ thread[t] \in {"lock", "woken"} /\ ngx_queue_empty(link)
      /\ idle_threads' = IdleAfter(t) + 1 /\ thread' = [thread EXCEPT ![t] = "wait"]
      /\ UNCHANGED link /\ UNCHANGED order
  BY DEF Sleep
<1>2. TPTypeOK /\ Len(order) = 0
  BY <1>1, EmptyList DEF TPInv
<1>3. /\ thread' \in [Threads -> Works \cup {"lock", "wait", "woken"}]
      /\ thread'[t] = "wait" /\ \A u \in Threads : u # t => thread'[u] = thread[u]
  BY <1>1, <1>2, ThreadChange
<1>4. Idle' = (Idle \ {t}) \cup {t}
  BY <1>3 DEF Idle
<1>5. /\ IdleAfter(t) = Cardinality(Idle \ {t}) /\ IdleAfter(t) \in Nat
      /\ IsFiniteSet(Idle \ {t})
  BY <1>1, IdleAfterIs
<1>6. Cardinality((Idle \ {t}) \cup {t}) = Cardinality(Idle \ {t}) + 1
  <2>1. t \notin Idle \ {t}
    OBVIOUS
  <2>2. QED
    BY <1>5, <2>1, CountChange
<1>7. idle_threads' = Cardinality(Idle') /\ idle_threads' \in Nat
  BY <1>1, <1>4, <1>5, <1>6
<1>8. Cardinality(Awake') \in Nat
  <2>1. Awake' \in SUBSET Threads
    BY DEF Awake
  <2>2. QED
    BY <2>1, ThreadsAssumption, FS_Subset, FS_CardinalityType
<1>9. Counted'
  BY <1>1, <1>2, <1>7, <1>8 DEF Counted
<1>10. TPTypeOK'
  BY <1>1, <1>2, <1>3, <1>7 DEF TPTypeOK
<1>11. Distinct(order') /\ ListIsQueue'
  BY <1>1 DEF TPInv, ListIsQueue, At
<1>12. QED
  BY <1>9, <1>10, <1>11 DEF TPInv, IdleAndAwake, Counted, Idle, Awake

\* A thread takes the first work: one thread and one work less.
LEMMA TakeStep == ASSUME TPInv, NEW t \in Threads, Take(t) PROVE TPInv'
<1>1. /\ thread[t] \in {"lock", "woken"} /\ ~ngx_queue_empty(link)
      /\ link' = ngx_queue_remove(link, link[wq].next)
      /\ idle_threads' = IdleAfter(t) /\ thread' = [thread EXCEPT ![t] = link[wq].next]
      /\ order' = Tail(order)
  BY DEF Take
<1>2. /\ link' \in Links /\ order' \in Seq(Works) /\ link[wq].next \in Works
      /\ Distinct(order') /\ ListIsQueue'
      /\ Len(order) \in Nat /\ Len(order') = Len(order) - 1 /\ Len(order) >= 1
  BY <1>1, RemoveStep
<1>3. TPTypeOK
  BY DEF TPInv
<1>4. /\ thread' \in [Threads -> Works \cup {"lock", "wait", "woken"}]
      /\ thread'[t] \notin {"lock", "wait", "woken"}
      /\ \A u \in Threads : u # t => thread'[u] = thread[u]
  <2> DEFINE w == link[wq].next
  <2>1. w \in Works \cup {"lock", "wait", "woken"} /\ w \notin {"lock", "wait", "woken"}
    BY <1>2, ThreadsAssumption
  <2>2. thread' = [thread EXCEPT ![t] = w]
    BY <1>1
  <2> HIDE DEF w
  <2>3. QED
    BY <1>3, <2>1, <2>2, ThreadChange
<1>5. Idle' = Idle \ {t}
  BY <1>4 DEF Idle
<1>6. Awake' = Awake \ {t} /\ t \in Awake
  BY <1>1, <1>4 DEF Awake
<1>7. Asleep' = Asleep
  BY <1>1, <1>4 DEF Asleep
<1>8. idle_threads' = Cardinality(Idle') /\ idle_threads' \in Nat
  BY <1>1, <1>5, IdleAfterIs
<1>9. Cardinality(Awake') = Cardinality(Awake) - 1 /\ Cardinality(Awake) \in Nat
  BY <1>6, IdleFinite, CountChange
<1>10. Asleep # {} => Cardinality(Awake) >= Len(order)
  BY CountedIs DEF TPInv, Counted
<1>11. Counted'
  BY <1>2, <1>7, <1>8, <1>9, <1>10 DEF Counted
<1>12. TPTypeOK'
  BY <1>2, <1>4, <1>8 DEF TPTypeOK, Links
<1>13. QED
  BY <1>2, <1>11, <1>12 DEF TPInv, IdleAndAwake, Counted, Idle, Awake

\* A thread is done with a work and wants the lock again.
LEMMA WorkStep == ASSUME TPInv, NEW t \in Threads, Work(t) PROVE TPInv'
<1>1. /\ thread[t] \in Works /\ thread' = [thread EXCEPT ![t] = "lock"]
      /\ UNCHANGED link /\ UNCHANGED order /\ UNCHANGED idle_threads
  BY DEF Work
<1>2. TPTypeOK /\ thread[t] \notin {"lock", "wait", "woken"} /\ Len(order) \in Nat
  BY <1>1, ThreadsAssumption, AtFacts DEF TPInv
<1>3. /\ thread' \in [Threads -> Works \cup {"lock", "wait", "woken"}]
      /\ thread'[t] = "lock" /\ \A u \in Threads : u # t => thread'[u] = thread[u]
  BY <1>1, <1>2, ThreadChange
<1>4. Idle' = Idle /\ Asleep' = Asleep
  BY <1>2, <1>3 DEF Idle, Asleep
<1>5. Awake' = Awake \cup {t} /\ t \notin Awake
  BY <1>2, <1>3 DEF Awake
<1>6. Cardinality(Awake') = Cardinality(Awake) + 1 /\ Cardinality(Awake) \in Nat
  BY <1>5, IdleFinite, CountChange
<1>7. idle_threads = Cardinality(Idle) /\ (Asleep # {} => Cardinality(Awake) >= Len(order))
  BY CountedIs DEF TPInv, Counted
<1>8. Counted'
  BY <1>1, <1>2, <1>4, <1>6, <1>7 DEF Counted
<1>9. TPTypeOK'
  BY <1>1, <1>2, <1>3 DEF TPTypeOK
<1>10. Distinct(order') /\ ListIsQueue'
  BY <1>1 DEF TPInv, ListIsQueue, At
<1>11. QED
  BY <1>8, <1>9, <1>10 DEF TPInv, IdleAndAwake, Counted, Idle, Awake

\* Nothing changes in this pool.
LEMMA TPStutter == TPInv /\ UNCHANGED tpVars => TPInv'
<1> SUFFICES ASSUME TPInv, UNCHANGED tpVars PROVE TPInv'
  OBVIOUS
<1>1. link' = link /\ idle_threads' = idle_threads /\ thread' = thread /\ order' = order
  BY DEF tpVars
<1>2. TPTypeOK' /\ Distinct(order') /\ ListIsQueue' /\ IdleAndAwake'
  BY <1>1 DEF TPInv, TPTypeOK, ListIsQueue, At, IdleAndAwake, Asleep
<1>3. QED
  BY <1>2 DEF TPInv

\* The list is empty and no thread is idle at the start.
LEMMA TPInvInit == ae_init_threads => TPInv
<1> SUFFICES ASSUME ae_init_threads PROVE TPInv
  OBVIOUS
<1>1. TPTypeOK
  BY DEF ae_init_threads, TPTypeOK, ngx_queue_init, Node
<1>2. Len(order) = 0 /\ DOMAIN order = {} /\ thread = [t \in Threads |-> "lock"]
  BY DEF ae_init_threads
<1>3. Distinct(order)
  BY <1>2 DEF Distinct
<1>4. ListIsQueue
  <2>1. \A i \in Nat : At(i) = wq
    BY <1>2 DEF At
  <2>2. link[wq].prev = wq /\ link[wq].next = wq
    BY DEF ae_init_threads, ngx_queue_init, Node
  <2>3. QED
    BY <1>2, <2>1, <2>2 DEF ListIsQueue
<1>5. Idle = {} /\ Asleep = {}
  BY <1>2 DEF Idle, Asleep
<1>6. Counted
  BY <1>5, FS_EmptySet DEF Counted, ae_init_threads
<1>7. QED
  BY <1>1, <1>3, <1>4, <1>6, CountedIs DEF TPInv

\* Every step of the pool keeps the invariant.
LEMMA TPInvStep == TPInv /\ TPNext => TPInv'
  BY SubmitStep, WakeupStep, SleepStep, TakeStep, WorkStep DEF TPNext, Worker

-----------------------------------------------------------------------------
(* The specification of both pools *)

Inv == PoolInv /\ TPInv

\* Each pool keeps its invariant and leaves the other one alone.
LEMMA Invariance == Spec => []Inv
<1>1. Init => Inv
  BY PoolInvInit, TPInvInit DEF Init, Inv
<1>2. Inv /\ [Next]_vars => Inv'
  <2> SUFFICES ASSUME Inv, [Next]_vars PROVE Inv'
    OBVIOUS
  <2>1. PoolInv /\ TPInv
    BY DEF Inv
  <2>2. UNCHANGED poolVars => PoolInv'
    <3> SUFFICES ASSUME UNCHANGED poolVars PROVE PoolInv'
      OBVIOUS
    <3>1. UNCHANGED <<jobs, pushing, pushed, worker, results, reading, popped>>
      BY DEF poolVars
    <3>2. stopped' \in BOOLEAN
      BY <2>1 DEF poolVars, PoolInv, PoolTypeOK
    <3>3. QED
      BY <2>1, <3>1, <3>2, PoolStutter
  <2>3. UNCHANGED tpVars => TPInv'
    BY <2>1, TPStutter
  <2>4. CASE Ssdb(PoolNext)
    BY <2>1, <2>3, <2>4, PoolInvStep DEF Ssdb, Inv, tpVars
  <2>5. CASE Cnm(TPNext)
    BY <2>1, <2>2, <2>5, TPInvStep DEF Cnm, Inv, poolVars
  <2>6. CASE UNCHANGED vars
    BY <2>2, <2>3, <2>6 DEF vars, Inv
  <2>7. QED
    BY <2>4, <2>5, <2>6 DEF Next
<1>3. QED
  BY <1>1, <1>2, PTL DEF Spec

\* A job is counted once over its four places.
LEMMA OnePlaceCounts == PoolInv => JobInOnePlace
<1> SUFFICES ASSUME PoolInv, NEW j \in 1..pushed
             PROVE  Cardinality({i \in DOMAIN jobs.items : jobs.items[i] = j})
                    + Cardinality(Holders(j))
                    + Cardinality({i \in DOMAIN results.items : results.items[i] = j})
                    + Cardinality({i \in DOMAIN popped : popped[i] = j}) = 1
  BY DEF JobInOnePlace
<1>1. /\ Cardinality({i \in DOMAIN jobs.items : jobs.items[i] = j})
           = IF j \in ToSet(jobs.items) THEN 1 ELSE 0
      /\ Cardinality({i \in DOMAIN results.items : results.items[i] = j})
           = IF j \in ToSet(results.items) THEN 1 ELSE 0
      /\ Cardinality({i \in DOMAIN popped : popped[i] = j})
           = IF j \in ToSet(popped) THEN 1 ELSE 0
  BY CountDistinct DEF PoolInv, OnePlace
<1>2. Holders(j) = {w \in Busy : worker[w].job = j}
  BY DEF Holders, Busy
<1>3. Cardinality(Holders(j)) = IF j \in HandJobs THEN 1 ELSE 0
  <2>1. CASE j \in HandJobs
    <3>1. PICK w \in Busy : worker[w].job = j
      BY <2>1 DEF HandJobs
    <3>2. Holders(j) = {w}
      BY <1>2, <3>1 DEF PoolInv, OnePlace
    <3>3. QED
      BY <2>1, <3>2, FS_Singleton
  <2>2. CASE j \notin HandJobs
    <3>1. Holders(j) = {}
      BY <1>2, <2>2 DEF HandJobs
    <3>2. QED
      BY <2>2, <3>1, FS_EmptySet
  <2>3. QED
    BY <2>1, <2>2
<1>4. /\ j \in ToSet(jobs.items) \cup HandJobs \cup ToSet(results.items) \cup ToSet(popped)
      /\ ~(j \in ToSet(jobs.items) /\ j \in HandJobs)
      /\ ~(j \in ToSet(jobs.items) /\ j \in ToSet(results.items))
      /\ ~(j \in ToSet(jobs.items) /\ j \in ToSet(popped))
      /\ ~(j \in HandJobs /\ j \in ToSet(results.items))
      /\ ~(j \in HandJobs /\ j \in ToSet(popped))
      /\ ~(j \in ToSet(results.items) /\ j \in ToSet(popped))
  BY DEF PoolInv, OnePlace
<1>5. QED
  BY <1>1, <1>3, <1>4

\* The bytes are counted with the worker that holds the mutex.
LEMMA BytesCount == PoolInv => ByteMeansResult
<1> SUFFICES ASSUME PoolInv PROVE ByteMeansResult
  OBVIOUS
<1> DEFINE W == {w \in PoolWorkers : worker[w].pc \in {"write", "cancelled"} /\ results.holder = w}
<1>1. results.holder \in PoolWorkers \cup {Nobody} /\ Nobody \notin PoolWorkers
  BY PoolThreadsAssumption DEF PoolInv, PoolTypeOK
<1>2. Cardinality(W) = IF results.holder # Nobody THEN 1 ELSE 0
  <2>1. CASE results.holder # Nobody
    <3>1. W = {results.holder}
      BY <1>1, <2>1 DEF PoolInv, HolderOK
    <3>2. QED
      BY <2>1, <3>1, FS_Singleton
  <2>2. CASE results.holder = Nobody
    <3>1. W = {}
      BY <1>1, <2>2
    <3>2. QED
      BY <2>2, <3>1, FS_EmptySet
  <2>3. QED
    BY <2>1, <2>2
<1>3. Bytes
  BY DEF PoolInv
<1>4. QED
  BY <1>2, <1>3 DEF ByteMeansResult, Bytes

\* Whatever workers wake up, and whichever are cancelled in the middle of a
\* job, every job that was pushed is in the queue, with one worker, among the
\* results or returned by pop(), and in one of them only (thread.h, WorkerPool).
THEOREM JobInOnePlaceHolds == Spec => []JobInOnePlace
<1>1. Inv => JobInOnePlace
  BY OnePlaceCounts DEF Inv
<1>2. QED
  BY <1>1, Invariance, PTL

\* SelectableQueue never has a byte without its result: a reader that got one
\* does not find the queue empty, also when a worker was cancelled in write().
THEOREM ByteMeansResultHolds == Spec => []ByteMeansResult
<1>1. Inv => ByteMeansResult
  BY BytesCount DEF Inv
<1>2. QED
  BY <1>1, Invariance, PTL

\* Queue::push() signals after it has unlocked, and no wake-up is lost by that:
\* while workers wait there are enough others on their way for all jobs.
THEOREM NoLostWakeupHolds == Spec => []NoLostWakeup
<1>1. Inv => NoLostWakeup
  BY DEF Inv, PoolInv
<1>2. QED
  BY <1>1, Invariance, PTL

\* The links of cnm's list are those of the queue of works, whatever links a
\* work still has from its last submission (queue.h).
THEOREM ListIsQueueHolds == Spec => []ListIsQueue
<1>1. Inv => ListIsQueue
  BY DEF Inv, TPInv
<1>2. QED
  BY <1>1, Invariance, PTL

\* idle_threads is exact, and a signal sent only when it is positive is enough:
\* while a thread of cnm's pool sleeps, as many are on their way as there are
\* works (threadpool.c).
THEOREM IdleAndAwakeHolds == Spec => []IdleAndAwake
<1>1. Inv => IdleAndAwake
  BY DEF Inv, TPInv
<1>2. QED
  BY <1>1, Invariance, PTL
=============================================================================

----------------------------- MODULE ThreadPool -----------------------------
(* threadpool.c of cnm: threads that take work from an intrusive list        *)
(* (queue.h) under one mutex and one condition variable, with a count of the *)
(* idle threads.  A work has the two links of its ngx_queue_t and may be     *)
(* submitted again when a thread has taken it from the list.                 *)
EXTENDS Naturals, Sequences, FiniteSets

CONSTANTS Threads, Works,
          wq          \* the head of the list

ASSUME WqAssumption == wq \notin Works
ASSUME ThreadsAssumption ==
  IsFiniteSet(Threads) /\ Works \cap {"lock", "wait", "woken"} = {}

VARIABLES
  link,         \* per node, its prev and next
  idle_threads,
  thread,       \* per thread, "lock", "wait", "woken" or its work
  order         \* history: the works submitted and not taken, in order

tpVars == <<link, idle_threads, thread, order>>

Node == Works \cup {wq}

(* queue.h: the links are assigned one after the other.                      *)
ngx_queue_init(q) == [n \in Node |-> [prev |-> q, next |-> q]]
ngx_queue_empty(l) == l[wq].prev = wq

\* Mutant: the links of the new node are set after those of the head.
ngx_queue_insert_tail_late(l, x) ==
  LET l1 == [l EXCEPT ![wq].prev = x] IN
  [l1 EXCEPT ![x] = [prev |-> l1[wq].prev, next |-> wq], ![l1[wq].prev].next = x]

ngx_queue_insert_tail(l, x) ==
  LET last == l[wq].prev
      l1 == [l EXCEPT ![x].prev = last]
      l2 == [l1 EXCEPT ![last].next = x]
      l3 == [l2 EXCEPT ![x].next = wq]
  IN [l3 EXCEPT ![wq].prev = x]

ngx_queue_remove(l, x) ==
  LET l1 == [l EXCEPT ![l[x].next].prev = l[x].prev]
  IN [l1 EXCEPT ![l1[x].prev].next = l1[x].next]

(* ae_init_threads()                                                         *)
ae_init_threads ==
  /\ link = ngx_queue_init(wq)
  /\ idle_threads = 0
  /\ thread = [t \in Threads |-> "lock"]
  /\ order = <<>>

Asleep == {t \in Threads : thread[t] = "wait"}

\* Mutant: only the first work of a list is worth a signal.
SignalsWhenEmpty == idle_threads > 0 /\ ngx_queue_empty(link)

Signals == idle_threads > 0

ae_work_submit(w) ==
  /\ w \notin {order[i] : i \in DOMAIN order}
  /\ link' = ngx_queue_insert_tail(link, w)
  /\ order' = Append(order, w)
  /\ \/ (~Signals \/ Asleep = {}) /\ UNCHANGED thread
     \/ Signals /\ \E t \in Asleep : thread' = [thread EXCEPT ![t] = "woken"]
  /\ UNCHANGED idle_threads

Wakeup(t) ==
  /\ t \in Asleep
  /\ thread' = [thread EXCEPT ![t] = "woken"]
  /\ UNCHANGED <<link, idle_threads, order>>

(* worker(): from the lock, or from pthread_cond_wait(), to the next wait or *)
(* to the unlock with a work taken from the list.                            *)
IdleAfter(t) == idle_threads - (IF thread[t] = "woken" THEN 1 ELSE 0)

\* Mutant: the thread that goes to sleep is not counted.
SleepUncounted(t) ==
  /\ thread[t] \in {"lock", "woken"} /\ ngx_queue_empty(link)
  /\ thread' = [thread EXCEPT ![t] = "wait"]
  /\ UNCHANGED <<link, idle_threads, order>>

Sleep(t) ==
  /\ thread[t] \in {"lock", "woken"} /\ ngx_queue_empty(link)
  /\ idle_threads' = IdleAfter(t) + 1
  /\ thread' = [thread EXCEPT ![t] = "wait"]
  /\ UNCHANGED <<link, order>>

Take(t) ==
  LET w == link[wq].next IN
  /\ thread[t] \in {"lock", "woken"} /\ ~ngx_queue_empty(link)
  /\ link' = ngx_queue_remove(link, w)
  /\ idle_threads' = IdleAfter(t)
  /\ thread' = [thread EXCEPT ![t] = w]
  /\ order' = Tail(order)

Work(t) ==
  /\ thread[t] \in Works
  /\ thread' = [thread EXCEPT ![t] = "lock"]
  /\ UNCHANGED <<link, idle_threads, order>>

Worker(t) == Sleep(t) \/ Take(t) \/ Work(t)

TPNext ==
  \/ \E w \in Works : ae_work_submit(w)
  \/ \E t \in Threads : Worker(t) \/ Wakeup(t)

----------------------------------------------------------------------------
(* The node behind i others when one starts at the head.                     *)
At(i) == IF i \in 1..Len(order) THEN order[i] ELSE wq

(* The links are the list of the works submitted and not yet taken, in the   *)
(* order of submission, forwards and backwards: a work that is submitted     *)
(* again with its old links in it does not tear the list.                    *)
ListIsQueue ==
  \A i \in 0..Len(order) : link[At(i)].next = At(i + 1) /\ link[At(i + 1)].prev = At(i)

(* idle_threads counts the threads that sleep and those woken that have not  *)
(* run yet; a signal spent on one of the latter is not missed, because while *)
(* a thread sleeps there are at least as many on their way as works.         *)
IdleAndAwake ==
  /\ idle_threads = Cardinality({t \in Threads : thread[t] \in {"wait", "woken"}})
  /\ Asleep # {} =>
       Cardinality({t \in Threads : thread[t] \in {"lock", "woken"}}) >= Len(order)

(* Every work that is submitted is taken by a thread, however often the      *)
(* others are submitted again.                                               *)
EveryWorkTaken ==
  \A w \in Works : []<>(\A i \in DOMAIN order : order[i] # w)
=============================================================================

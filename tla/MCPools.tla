------------------------------ MODULE MCPools ------------------------------
(* The two thread pools, each on its own: which of them runs is chosen in    *)
(* the initial state.                                                        *)
EXTENDS WorkerPool, ThreadPool

VARIABLE pool

vars == <<pool, poolVars, tpVars>>

Init == pool \in {"ssdb", "cnm"} /\ PoolInit /\ ae_init_threads

Ssdb(A) == pool = "ssdb" /\ A /\ UNCHANGED <<pool, tpVars>>
Cnm(A) == pool = "cnm" /\ A /\ UNCHANGED <<pool, poolVars>>

Next == Ssdb(PoolNext) \/ Cnm(TPNext)

(* Threads that can run do; no wake-up without a signal may be counted on,   *)
(* and the threads that submit work to cnm's pool may stop.                  *)
Fairness ==
  /\ \A p \in Pushers : WF_vars(Ssdb(Push(p) \/ Signal(p)))
  /\ \A w \in PoolWorkers : WF_vars(Ssdb(RunWorker(w)))
  /\ WF_vars(Ssdb(Reader))
  /\ \A t \in Threads : WF_vars(Cnm(Worker(t)))

Spec == Init /\ [][Next]_vars /\ Fairness
=============================================================================

CONSTANTS
  PoolWorkers = {1, 2}
  Pushers = {p1, p2}
  MaxJobs = 4
  PipeCapacity = 2
  Threads = {t1, t2, t3}
  Works = {a, b, c}
  wq = wq
SPECIFICATION Spec
INVARIANT JobInOnePlace
INVARIANT ByteMeansResult
INVARIANT NoLostWakeup
INVARIANT ListIsQueue
INVARIANT IdleAndAwake
PROPERTY EveryJobComesOut
PROPERTY EveryWorkTaken
CHECK_DEADLOCK FALSE

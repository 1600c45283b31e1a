CONSTANTS
  w1 = w1
  w2 = w2
  w3 = w3
  None = None
  NMap = 2
  NReduce = 2
  Workers <- MCWorkers
  NRPC <- MCNRPC
  Mortal <- MCMortal
  Inputs <- MCInputs
SPECIFICATION Spec
INVARIANT WorkerHasOneJob
INVARIANT OutputIsSequential
PROPERTY Finishes
CHECK_DEADLOCK FALSE

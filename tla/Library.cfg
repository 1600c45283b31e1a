CONSTANTS
  N = 7
  MAX_NODE_KEY = 2
  MaxTimers = 4
  Intervals = {0, 1, 2}
  MaxTime = 3
  Messages = {1, 2, 3, 4, 5, 6, 7}
  DueTime <- Halves
  PQSIZE = 2
  ShrinkAbove = 3
  sequenceBits = 1
  nodeIDBits = 1
  NODEID = 5
  OverlapBits = 2
  WordBits = 6
  MaxClock = 9
  Scripts <- AllScripts
  INIT_BUFFER_SIZE = 4
  BEST_BUFFER_SIZE = 8
  LargeBuffer = 32
  MAX_PACKET_SIZE = 25
SPECIFICATION Spec
INVARIANT TreesKept
INVARIANT DueTimersRun
INVARIANT InFlightHeap
INVARIANT IdsIncrease
INVARIANT Answered
INVARIANT CutAnywhere
CHECK_DEADLOCK FALSE

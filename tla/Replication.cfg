SPECIFICATION FairSpec
CONSTANTS
  Key = {2, 3}
  Value = {a}
  NoVal = NoVal
  NoIter = NoIter
  Chunk = 1
  MaxLog = 3
  MaxFaults = 2
INVARIANTS CaughtUp ResumeSafe
PROPERTY CatchesUp
CHECK_DEADLOCK FALSE

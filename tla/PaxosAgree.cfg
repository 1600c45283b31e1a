SPECIFICATION Spec
CONSTANTS
  N = 3
  Seqs = {0}
  Value = {a, b}
  NoValue = NoValue
  PNum = {1, 2}
  Goroutine = {g1, g2}
  MaxLate = 1
  MaxDone = 0
SYMMETRY Symmetry
CONSTRAINT Bounded
INVARIANTS Agreement BrokenPromiseBacked
CHECK_DEADLOCK FALSE

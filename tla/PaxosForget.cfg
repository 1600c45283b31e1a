SPECIFICATION Spec
CONSTANTS
  N = 2
  Seqs = {0}
  Value = {a, b}
  NoValue = NoValue
  PNum = {1, 2, 3}
  Goroutine = {g1, g2}
  MaxLate = 1
  MaxDone = 2
SYMMETRY Symmetry
CONSTRAINT Bounded
INVARIANTS TypeOK DonesNeverAhead
PROPERTY Implements
CHECK_DEADLOCK FALSE

SPECIFICATION Spec
CONSTANTS
  Server = {s1, s2}
  Clerk = {c1}
  NoServer = NoServer
  DeadPings = 2
  MaxView = 4
  MaxLate = 1
SYMMETRY Symmetry
CONSTRAINT Bounded
INVARIANTS OneViewPerNumber AckMeansTold
PROPERTIES PrimaryFromPreviousView LeftOnlyWhenTold

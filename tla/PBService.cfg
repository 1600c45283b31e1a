SPECIFICATION Spec
CONSTANTS
  Server = {s1, s2}
  Clerk = {c1}
  NoServer = NoServer
  NoClerk = NoClerk
  DeadPings = 1
  Ops = {"Get", "Put", "Append"}
  MaxOps = 1
  MaxView = 3
  MaxLate = 1
  MaxOutstanding = 1
SYMMETRY Symmetry
CONSTRAINT Bounded
INVARIANT AtMostOnce
PROPERTY OkMeansForwarded

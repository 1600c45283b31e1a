SPECIFICATION Spec
CONSTANTS
  Server = {s1, s2}
  Clerk = {c1, c2}
  NoServer = NoServer
  NoClerk = NoClerk
  DeadPings = 1
  Ops = {"Get", "Append"}
  MaxOps = 2
  MaxView = 3
  MaxLate = 0
  MaxOutstanding = 0
SYMMETRY Symmetry
CONSTRAINT Bounded
INVARIANT NoStaleGet

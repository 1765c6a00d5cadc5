\* Two processes, four requests, kills and foreign files at every point.
SPECIFICATION FairSpec
CONSTANTS
  Procs = {p1, p2}
  NoProc = NoProc
  k1 = k1
  k2 = k2
  k3 = k3
  f1 = f1
  f2 = f2
  f3 = f3
  a = a
  b = b
  Paths = {f1, f2, f3}
  Contents = {a, b}
  Missing = Missing
  Keys = {k1, k2, k3}
  Requests <- SomeRequests
  NoRequest = NoRequest
INVARIANTS
  ReceiptMeansFiles
  ToldTruly
PROPERTIES
  Immutable
  WritesAreAtomic
  CallsEnd

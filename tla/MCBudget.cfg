CONSTANTS
  w2 = w2  d1 = d1  d2 = d2  s = s  a = a  b = b  x = x  y = y  z = z
  Domain = {d1}
  Url = {s, a, b, x, y}
  MaxJobs = 1
  Seed <- MCSeed
  RootOf <- MCRootOf
  Scope <- MCScope
  MaxDepth <- MC0
  Links <- MCBushy
  Caller = {c1}
  None = None
  Label = {"crawled", "blog", "other", "tld"}
  Removable = {}
  MaxFaults = 0
  Worker = {w1, w2}
  Handler = {h1, h2}
  Outcome = {"err", "page"}
  Batch = 1
  OnlyDomain <- MCAnyDomain
  GlobalCap <- MC0
  MaxPages <- MC2
  MaxLosses = 0
  MaxReclaimed = 1
SPECIFICATION Spec
SYMMETRY WorkerSymmetry
INVARIANTS BudgetBoundsQueue

CHECK_DEADLOCK FALSE

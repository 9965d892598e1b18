CONSTANTS
  w2 = w2  d1 = d1  d2 = d2  s = s  a = a  b = b  x = x  y = y  z = z
  Domain = {d1, d2}
  Url = {s, b, x, y}
  MaxJobs = 3
  Seed <- MCSeeds
  RootOf <- MCRootOf
  Scope <- MCTwoScopes
  MaxDepth <- MC0
  Links <- MCHosts
  Caller = {c1, c2}
  None = None
  Label = {"crawled", "blog", "other", "tld"}
  Removable = {}
  MaxFaults = 0
  Worker = {w1, w2}
  Handler = {h1, h2}
  Outcome = {"page"}
  Batch = 2
  OnlyDomain <- MCOneBound
  GlobalCap <- MC1
  MaxPages <- MC0
  MaxLosses = 0
  MaxReclaimed = 0
SPECIFICATION Spec

SYMMETRY JobSymmetry
INVARIANTS OneJobOwnsRows JobsSeeded ActiveJobsBounded CapOverrunBounded

CHECK_DEADLOCK FALSE

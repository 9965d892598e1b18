CONSTANTS
  w2 = w2  d1 = d1  d2 = d2  s = s  a = a  b = b  x = x  y = y  z = z
  Domain = {d1}
  Url = {s, a, b, y, z}
  MaxJobs = 1
  Seed <- MCSeed
  RootOf <- MCRootOf
  Scope <- MCScope
  MaxDepth <- MC2
  Links <- MCChain
  Caller = {c1}
  None = None
  Label = {"crawled", "blog", "other", "tld"}
  Removable = {}
  MaxFaults = 1
  Worker = {w1, w2}
  Handler = {h1, h2}
  Outcome = {"page"}
  Batch = 1
  OnlyDomain <- MCAnyDomain
  GlobalCap <- MC0
  MaxPages <- MC0
  MaxLosses = 1
  MaxReclaimed = 1
SPECIFICATION Spec
SYMMETRY Symmetry
INVARIANTS ExclusiveHandout ReachedByLinks
PROPERTIES FrontierSpec
CHECK_DEADLOCK FALSE

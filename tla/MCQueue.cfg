CONSTANTS
  w2 = w2  d1 = d1  d2 = d2  s = s  a = a  b = b  x = x  y = y  z = z
  Domain = {d1}
  Url = {s, a, b, z}
  MaxJobs = 1
  Seed <- MCSeed
  RootOf <- MCRootOf
  Scope <- MCScope
  MaxDepth <- MC0
  Links <- MCPair
  Caller = {c1}
  None = None
  Label = {"crawled", "blog", "other", "tld"}
  Removable = {d1}
  MaxFaults = 0
  Worker = {w1, w2}
  Handler = {h1, h2}
  Outcome = {"err", "page"}
  Batch = 2
  OnlyDomain <- MCAnyDomain
  GlobalCap <- MC0
  MaxPages <- MC0
  MaxLosses = 1
  MaxReclaimed = 1
SPECIFICATION Spec
SYMMETRY Symmetry
INVARIANTS TypeOK ExclusiveHandout OneResult NoLinkLost PagesMatchResults VerdictMatchesResults
PROPERTIES FirstDiscoveryWins
CHECK_DEADLOCK FALSE

CONSTANTS
  w2 = w2  d1 = d1  d2 = d2  s = s  a = a  b = b  x = x  y = y  z = z
  Domain = {d1}
  Url = {s, a}
  MaxJobs = 1
  Seed <- MCSeed
  RootOf <- MCRootOf
  Scope <- MCScope
  MaxDepth <- MC0
  Links <- MCPair
  Caller = {c1}
  None = None
  Label = {"crawled", "blog", "other", "tld"}
  Removable = {}
  MaxFaults = 1
  Worker = {w1, w2}
  Handler = {h1}
  Outcome = {"err", "page"}
  Batch = 1
  OnlyDomain <- MCAnyDomain
  GlobalCap <- MC1
  MaxPages <- MC0
  MaxLosses = 1
  MaxReclaimed = 2
SPECIFICATION FairSpec


PROPERTIES QueueDrains
CHECK_DEADLOCK FALSE

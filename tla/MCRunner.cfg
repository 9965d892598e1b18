CONSTANTS
  t1 = t1  t2 = t2  t3 = t3  host = host
  Task = {t1, t2, t3}
  Host = {host}
  HostOf <- MCHostOf
  Polite <- MCPolite
  Slots = 2
  Nobody = Nobody
  TTL = 0
  Delay = 2
  MaxTime = 3
  MaxBatches = 2
SPECIFICATION FairPace
INVARIANTS RunnerTypeOK SlotsBound RulesFresh PacedBySlots NeverStuck
PROPERTIES LoopSpec BatchEnds StopEnds
CHECK_DEADLOCK FALSE

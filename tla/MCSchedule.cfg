CONSTANTS
  Domain = {1, 2}
  Request = {r1, r2}
  Valid = {nightly, hourly}
  Invalid = {typo}
  Manual = manual
  Absent = absent
  MaxEntries = 4
  MaxRestarts = 1
SPECIFICATION Spec
SYMMETRY RequestSymmetry
INVARIANTS ScheduleTypeOK NoLostEntry ScheduleFollowsTable
PROPERTIES DeletedForGood
CHECK_DEADLOCK FALSE

SPECIFICATION Spec
CONSTANTS
  Client = {c1, c2}
  Server = {p1, p2}
  Address = {u1}
  Unset = Unset
  MaxTokens = 3
  MaxStarts = 3
  MaxFaults = 1
  MaxSets = 1
SYMMETRY Symmetry
CHECK_DEADLOCK FALSE
INVARIANTS TypeOK RevokedRefused BootstrapBounded PlaintextsKept ConfigKept

SPECIFICATION Spec
CONSTANTS
  Fetch = {f1, f2, f3}
  page = page  binary = binary  short = short  full = full  long = long
  Path = {page, binary}
  Html = {page}
  Body = {short, full, long}
  Size <- MCSize
  Limit = 2
  Hole = Hole  End = End
  MaxFaults = 1
SYMMETRY Symmetry
CHECK_DEADLOCK FALSE
INVARIANTS FilesTypeOK SavedFileWhole SameBodyAgrees

CONSTANTS
  k1 = k1  k2 = k2  r1 = r1  r2 = r2  r3 = r3
  Blob = {k1, k2}
  ResultRow = {r1, r2, r3}
  BlobOf <- MCBlobOf
  MaxRuns = 4
  MaxFaults = 3
SPECIFICATION Spec
INVARIANTS MigrationTypeOK BlobSafe MovedRowsReadable
PROPERTIES SkippingRunCompletes
CHECK_DEADLOCK FALSE

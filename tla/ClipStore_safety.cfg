SPECIFICATION Spec

CONSTANTS
  Jobs = {j1, j2}
  S3 = S3
  Drive = Drive
  Backends <- MCBackends
  Overwriting <- MCOverwriting
  Paths = {p1, p2}
  FixedKey = FixedKey
  FreshKeys = {d1, d2}
  Nowhere = Nowhere
  Pending = Pending
  Gone = Gone

SYMMETRY Symmetry

INVARIANTS
  CanonicalCopy
  StoragePathResolves
  BytesSurvive
  DeletedLeavesNoFile

PROPERTY StoreKeepsLifecycle

\* Every job may be over and nothing more be asked for.
CHECK_DEADLOCK FALSE

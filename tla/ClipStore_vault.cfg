SPECIFICATION FairSpec

CONSTANTS
  Jobs = {j1, j2}
  S3 = S3
  Drive = Drive
  Backends <- MCBackends
  Overwriting <- MCOverwriting
  Paths = {p1}
  FixedKey = FixedKey
  FreshKeys = {d1}
  Nowhere = Nowhere
  Pending = Pending
  Gone = Gone

PROPERTIES
  JobsEnd
  VaultPromise

\* Every job may be over and nothing more be asked for.
CHECK_DEADLOCK FALSE

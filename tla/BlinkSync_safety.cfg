SPECIFICATION Spec

CONSTANTS
  Media = {1, 2}
  Chains = {c1, c2}
  Limit = 1
  MaxTries = 2

SYMMETRY Symmetry

INVARIANTS
  SinceCovers
  RowsAreQueued
  FollowedOnce
  SyncsGoOn

PROPERTY SyncKeepsLifecycle

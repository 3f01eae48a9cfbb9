SPECIFICATION AllSpec

CONSTANTS
  Slots = {r1, r2}
  Items = {i1}
  Refreshers = {r1, r2}
  ItemJobs = {t1}
  MaxChanges = 1
  StorageDirs = {"data", "nas"}
  Files = {v1}
  Editors = {r1, r2}
  Packs = {"buffalo_l", "buffalo_s"}
  Pages = {r1, r2}
  Loads = {j1}

SYMMETRY Symmetry

INVARIANTS
  Consistent
  CopiesKeepTheirRows
  StorageInv
  ModelInv

PROPERTY RefreshReconciles

\* Every slot may be taken by a refresh that cannot be started again.
CHECK_DEADLOCK FALSE

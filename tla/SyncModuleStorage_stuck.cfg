SPECIFICATION FairSpec

CONSTANTS
  Items = {i1}
  Refreshers = {r1}
  ItemJobs = {t1}
  MaxChanges = 1

PROPERTY RefreshingEnds

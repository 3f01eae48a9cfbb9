SPECIFICATION LiveFairSpec

CONSTANTS
  Cameras = {c1, c2}
  Viewers = {v1, v2}
  MaxStreams = 2

INVARIANTS
  LiveInv
  NothingLeaks

PROPERTIES
  IdleIsSwept
  RequestsEnd

\* Once the API is down nothing happens.
CHECK_DEADLOCK FALSE

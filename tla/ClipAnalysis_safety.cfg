SPECIFICATION AllSpec

CONSTANTS
  Jobs = {j1, j2}
  EventTypes = {person, vehicle}
  Faces = {f1, f2}
  Face = Face
  Breach = Breach

SYMMETRY Symmetry

INVARIANTS
  Consistent
  UsageKept
  ReportHonoured
  

PROPERTY LoneRunRepairs

\* Every job may be over and nothing more be asked for.
CHECK_DEADLOCK FALSE

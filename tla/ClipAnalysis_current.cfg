SPECIFICATION Spec

CONSTANTS
  Jobs = {j1, j2}
  EventTypes = {person}
  Faces = {f1}
  Face = Face
  Breach = Breach

INVARIANT AtMostOneCurrent

\* Every job may be over and nothing more be asked for.
CHECK_DEADLOCK FALSE

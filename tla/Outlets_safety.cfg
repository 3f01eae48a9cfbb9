SPECIFICATION AllSpec

CONSTANTS
  discord = discord
  slack = slack
  Slots = {j1, j2}
  Jobs = {j1, j2}
  PreviewCams = {c1, c2}
  Folders = {f1, f2}
  Watchers = {j1, j2}
  Channels <- MCChannels
  Window = 1
  Day = 4
  MaxTime = 1
  StartRows <- MCStartRows
  MaxUpdates = 1

SYMMETRY Symmetry

INVARIANTS
  AlertInv
  OnePerWindow
  SuppressedForAnother
  PreviewInv

\* Every alert may be handled and the clock at its bound.
CHECK_DEADLOCK FALSE

SPECIFICATION AllSpec

CONSTANTS
  Slots = {r1, r2}
  Things = {c1, c2}
  LinkRequests = {r1, r2}
  MaxAccounts = 2
  MaxSessions = 2
  TokenUsers = {r1, r2}
  MaxLinks = 2
  Cams = {c1, c2}
  Syncs = {r1, r2}
  Levels = {"", "low"}
  MotionCams = {m1}
  SwitchSyncs = {r1, r2}
  Admins = {a1}
  People = {p1, p2, p3}
  Requests = {r1, r2}
  Providers = {"drive", "onedrive"}
  Pkce = {"drive"}
  Flows = {c1, c2}
  Handlers = {r1, r2}
  MaxClients = 1
  Paths = {f1, f2}
  Recordings = {v1}
  Askers = {r1, r2}
  Setups <- MCSetups
  Sightings <- MCSightings
  MaxVehicles = 2
  Persons = {person}
  Dirs = {"data", "nas"}
  Enrolments = {r1, r2}
  MaxFace = 1
  Threshold = 0
  MaxSamples = 2
  Kinds = {"openai", "ollama"}
  Keys = {"key"}
  Forms = {r1, r2}

SYMMETRY Symmetry

INVARIANTS
  LinkInv
  TokenInv
  BatteryInv
  SwitchInv
  AdminInv
  OAuthInv
  FolderInv
  VehicleInv
  FaceInv
  AIInv

\* The bounds on accounts, samples and sessions stop parts of it.
CHECK_DEADLOCK FALSE

CONSTANTS
  r1 = r1
  r2 = r2
  a1 = a1
  a2 = a2
  w1 = w1
  w2 = w2
  BackedRepos = {"g1"}
  BackedRefs = {"main", "topic"}
  HeadRef = "main"
  Blobs = {"b1"}
  Bucketed = {2}
  Workers = {"server", "cli"}
  Restorers = {"cli"}
  Targets = {"t1"}
  KeepCount = 1
  MaxPushes = 2
  MaxArchives = 2
  MaxCuts = 1
  WindowIds = {w1, w2}
  Admins = {a1, a2}
  Writes = {"q"}
  Incidents = {"i"}
  Early = 1
  LastHour = 2
  Deaths = 1
  Hosted = {r1, r2}
  Places = {"a/x", "b/x"}
  Categories = {"malware"}
  CaseIds = {a1, a2}
  AppealIds = {a1, a2}
  Moves = {"m1"}
  Fetches = {"f1"}
  MaxReports = 2
  Attempts = {a1, a2}
  MaxWrites = 1
  MaxExports = 2
  MaxRecreates = 1
  ObserverWorkers = {w1, w2}
  MaxQueue = 2
  CircuitErrors = 2
  MaxReads = 4
  Main = "main"
  Side = "side"
  Imports = {a1, a2}
  MaxChanges = 1
  MaxTenantArchives = 1
  Clicks = {a1, a2}
  Sellers = {"stripe", "razorpay"}
  Idempotent = {"stripe"}
  FromEnvironment = {}
  LastTick = 2
  LastHolder = 2
  MaxEdits = 1
  MaxInterrupted = 1
SPECIFICATION Spec
INVARIANTS
  BackupsSound
  OrdersStand
  MovesAreTrue
  PaymentsSound
CHECK_DEADLOCK FALSE
CONSTRAINT Affordable
SYMMETRY Symmetry

CONSTANTS
  r1 = r1
  r2 = r2
  q1 = q1
  q2 = q2
  spotA = spotA
  spotB = spotB
  spotC = spotC
  Orgs = {"o1", "o2"}
  Slugs = {"s1"}
  Repos = {r1, r2}
  Requests = {q1, q2}
  Limit = 1
  Deletable = {"o1"}
  MaxCrashes = 1
  Oids = {r1, r2}
  LfsRepos = {"l1", "l2"}
  Importable = {"l2"}
  Puts = {q1, q2}
  RepoQuota = 1
  InstanceQuota = 2
  CIRuns = {1}
  Names = {"n", "m"}
  Digests = {"d", "e"}
  CIRefs = {"main", "topic"}
  DefaultRef = "main"
  CacheKeys = {"k1", "k2"}
  ArtifactQuota = 1
  CacheQuota = 2
  KeyHolders = {"u1"}
  Works = {r1, r2}
  GitPlaces = {spotA, spotB, spotC}
  Rights = {0, 3}
  Prints = {"f"}
  MaxRows = 2
  MaxPending = 1
SPECIFICATION Spec
INVARIANTS
  BytesFollowRows
  StoredIsKept
  CredentialsSound
PROPERTIES
  PurgeSparesTheRestored
CHECK_DEADLOCK FALSE
CONSTRAINT Affordable
SYMMETRY Symmetry

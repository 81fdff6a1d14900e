CONSTANTS
  one = one
  two = two
  Reviewers = {"author", "other"}
  PullAuthor = "author"
  Verdicts = {"approved", "changes_requested"}
  Jobs = {one, two}
  BranchRules <- RulesTried
  MaxCommits = 2
  Branches = {"main", "feature"}
  Pulls = {1}
  PullHead = "feature"
  Requests = {one, two}
  FileKinds = {"all", "broken"}
  MaxCommit = 4
  MaxRuns = 4
  InFlight = 2
  Owners = {"acme"}
  Documents <- DocumentsTried
  SecretNames = {one, two}
  SecretValues = {"long1", "abc"}
  Maskable = {"long1"}
  VaultKeys = {"k1"}
  NoVaultKey = "nokey"
  ScopeLimit = 1
  BuildJobs = {"j1", "j2"}
  ForkJobs = {"j2"}
  PushRefs = {"main", "topic"}
  FirstTips <- TipsAtFirst
  Trees <- TreesPushed
  Vendored = {"vendor"}
  Examples = {"example"}
  Severity <- SeverityOf
  Policies <- PoliciesSet
  Pushes = {one, two}
  LastMinute = 2
  BypassFor = 1
  FailOpen = FALSE
SPECIFICATION Spec
INVARIANTS
  MergeSound
  StartsSound
  SecretsSound
CONSTRAINT Affordable
SYMMETRY Symmetry
CHECK_DEADLOCK FALSE

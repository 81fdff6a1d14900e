CONSTANTS
  somebody = somebody
  m1 = m1
  m2 = m2
  n1 = n1
  n2 = n2
  Providers = {n1, n2}
  Accounts = {"x1"}
  Provided = {}
  WindowSteps = 1
  RecoveryCodes = 1
  LastStep = 2
  MaxSignIns = 2
  MaxSheets = 2
  MaxLinks = 1
  Addresses = {"a1", "a2"}
  Subjects = {somebody}
  SubjectMail <- MailOfSubjects
  Numbers = {"n1"}
  Uids = {1}
  MaxFlows = 2
  Devices = {"d1"}
  Requests = {m1, m2}
  Windows = {0, 1}
  LastTick = 2
  MaxTokens = 2
  Orgs2 = {"oA", "oB"}
  Users = {"uA", "uB"}
  FirstHome = "oA"
  Operators = {"uB"}
  Seats <- SeatsOfPlans
  OwnerLimit = 1
  Invitable = {1, 2}
  Grantable = {3}
  MaxAsked = 1
  Externals = {"x1", "x2"}
  Joiners = {"x1"}
  Veterans = {"x2"}
  Offers = {"admin"}
  GrantDays = {1}
  InviteDays = 1
  LastDay = 1
  Trackers = {n1, n2}
  People = {"u1", "u2"}
  Maintainer = "u1"
  IssueIds = {m1, m2}
  NoteIds = {"n1"}
  MaxMarks = 1
  LabelNames = {"bug", "bad!"}
  BadNames = {"bad!"}
  Listings <- OtherForges
  Recipients = {"u1", "u2"}
  Actor = "u1"
  Servers = {"p1", "p2"}
  Happenings = {"replied", "opened"}
  TokenDays = 2
  MaxPrefs = 1
  Unread = Unread
  Unset = Unset
  Attached = Attached
  Customers = {"c1"}
  HeldElsewhere = {"o2"}
  Meters = {m1, m2}
  LfsOids = {"o1", "o2"}
  CIJobs = {"j1"}
  StorageLimit = 1
  SampleLimit = 1
  MonthLength = 1
  LastTime = 1
  MaxPacks = 1
  MaxSamples = 2
CONSTRAINT Affordable
SYMMETRY Symmetry
SPECIFICATION Spec
INVARIANTS
  AccountsSound
  AccessSound
  CollaborationSound
  UsageIsRight
CHECK_DEADLOCK FALSE

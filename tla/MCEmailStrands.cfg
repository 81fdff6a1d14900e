CONSTANTS
  Parts = {"email"}
  a1 = a1
  x1 = x1
  x2 = x2
  e1 = e1
  e2 = e2
  Timers = {x1}
  MaxChunks = 3
  MaxPerRequest = 3
  MaxStored = 4
  PageSize = 1
  BeatEvery = 1
  SweepEvery = 2
  Silence = 4
  LeaseTtl = 3
  Ttl = 6
  Timeout = 7
  StepTimeouts = {2}
  MaxSteps = 2
  MaxOutages = 1
  Instances = {x1, x2}
  Deliveries = {1}
  MaxAttempts = 2
  BatchSize = 2
  MaxRedeliveries = 1
  MaxCrashes = 1
  Aborts = TRUE
  Senders = {x1}
  Emails = {e1}
  Addresses = {a1}
  To <- ToOne
  MaxMailAttempts = 2
  Threshold = 2
  EventIds = {1}
  MaxRetries = 0
  RetryRoutes = {}
  MaxSenderCrashes = 0
  Owners = {u1}
  Processes = {x1}
  Sockets = {k1}
  PerTick = 1
  PerUser = 1
  Overall = 1
  Beats = 1
  MaxRow = 3
  MaxBoots = 2
  ApiCalls = {"a1", "a2"}
  GitCalls = {"g1"}
  Pages = {"w1"}
SPECIFICATION LiveSpec
PROPERTY NothingStrands
CHECK_DEADLOCK FALSE

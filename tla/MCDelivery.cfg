CONSTANTS
  Parts = {"log", "session", "webhooks", "email", "realtime", "shutdown"}
  a1 = a1
  x1 = x1
  x2 = x2
  e1 = e1
  e2 = e2
  Timers = {x1, x2}
  MaxChunks = 3
  MaxPerRequest = 3
  MaxStored = 4
  PageSize = 1
  BeatEvery = 1
  SweepEvery = 2
  Silence = 4
  LeaseTtl = 3
  Ttl = 6
  Timeout = 7
  StepTimeouts = {2}
  MaxSteps = 2
  MaxOutages = 2
  Instances = {x1, x2}
  Deliveries = {1, 2}
  MaxAttempts = 2
  BatchSize = 2
  MaxRedeliveries = 1
  MaxCrashes = 1
  Aborts = TRUE
  Senders = {x1, x2}
  Emails = {e1, e2}
  Addresses = {a1}
  To <- ToOne
  MaxMailAttempts = 2
  Threshold = 2
  EventIds = {1, 2}
  MaxRetries = 2
  RetryRoutes = {"notifications", "console"}
  MaxSenderCrashes = 1
  Owners = {u1}
  Processes = {x1, x2}
  Sockets = {k1}
  PerTick = 1
  PerUser = 1
  Overall = 1
  Beats = 1
  MaxRow = 3
  MaxBoots = 2
  ApiCalls = {"a1", "a2"}
  GitCalls = {"g1"}
  Pages = {"w1"}
SPECIFICATION Spec
INVARIANTS
  LogSound
  SessionSound
  OneSenderAtATime
  MailSound
  BadgeFollowsInbox
  DrainedInOrder
PROPERTIES
  OnlyTheDeadAreRequeued
CONSTRAINT Affordable
SYMMETRY Symmetry
CHECK_DEADLOCK FALSE

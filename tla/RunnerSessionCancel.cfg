CONSTANTS
  BeatEvery = 1
  SweepEvery = 2
  Silence = 10
  LeaseTtl = 3
  Ttl = 18
  Timeout = 14
  StepTimeouts = {20}
  MaxSteps = 1
  MaxOutages = 0
SPECIFICATION SessionSpec
INVARIANTS CancellationLearned
CHECK_DEADLOCK FALSE

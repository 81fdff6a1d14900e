CONSTANTS
  p1 = p1
  p2 = p2
  ja = ja
  jb = jb
  jc = jc
  jd = jd
  Procs <- OneProc
  JobKeys <- TailJobs
  Needs <- TailNeeds
  Position <- TailPlace
  MaxCrashes = 2
SPECIFICATION FairSpec
INVARIANTS
  HandOutsAreSound
PROPERTIES
  KeepsContract
  PendingIsResolvedAlive
CHECK_DEADLOCK FALSE

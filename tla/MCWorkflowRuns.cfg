CONSTANTS
  r1 = r1
  r2 = r2
  r3 = r3
  ja = ja
  jb = jb
  jc = jc
  n1 = n1
  n2 = n2
  JobKeys <- MCJobs
  RunIds <- ThreeRuns
  Workflows <- MCFiles
  Def <- MCDef
  Runners <- TwoRunners
  RunnerDef <- MCRunnerDef
  Repos <- MCRepos
  Orgs <- MCOrgs
  Labels <- MCLabels
  Groups <- MCGroups
  Commits <- MCCommits
  Contexts <- MCContexts
  MaxInFlight = 2
SPECIFICATION Spec
INVARIANTS
  RunsAreSound
  OneRunPerGroup
  CheckTellsTheTruth
PROPERTIES
  KeepsContract
CONSTRAINT Affordable
SYMMETRY AnyRun
CHECK_DEADLOCK FALSE

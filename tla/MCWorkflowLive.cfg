CONSTANTS
  r1 = r1
  r2 = r2
  r3 = r3
  ja = ja
  jb = jb
  jc = jc
  n1 = n1
  n2 = n2
  JobKeys <- MCJobs
  RunIds <- TwoRuns
  Workflows <- Waiters
  Def <- WaiterDef
  Runners <- TwoRunners
  RunnerDef <- MCRunnerDef
  Repos <- MCRepos
  Orgs <- MCOrgs
  Labels <- MCLabels
  Groups <- MCGroups
  Commits <- MCCommits
  Contexts <- MCContexts
  MaxInFlight = 2
SPECIFICATION FairSpec
PROPERTIES
  EveryRunConcludes
CHECK_DEADLOCK FALSE

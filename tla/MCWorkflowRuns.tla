--------------------------- MODULE MCWorkflowRuns ---------------------------
(* Small instances of WorkflowRuns: the configurations choose among them.  *)
EXTENDS WorkflowRuns, TLC

CONSTANTS r1, r2, r3, ja, jb, jc, n1, n2

TwoRuns    == {r1, r2}
ThreeRuns  == {r1, r2, r3}
AnyRun     == Permutations(ThreeRuns)
MCJobs     == {ja, jb, jc}
TwoRunners == {n1, n2}

NoNeeds == [j \in MCJobs |-> {}]
Place   == [j \in MCJobs |-> CASE j = ja -> 0 [] j = jb -> 1 [] j = jc -> 2]

File == [jobs |-> {ja}, needs |-> NoNeeds, position |-> Place,
         runsOn |-> [j \in MCJobs |-> "linux"], group |-> NoGroup, supersedes |-> FALSE,
         repo |-> "repo", org |-> "org", commit |-> "c", context |-> "ci",
         fork |-> FALSE, actor |-> TRUE]

\* two: a, then b.  join: a and b in parallel, c needs both.  chain: a, then b, then c.
\* newest and oldest share a group, only the first cancels in progress.
\* fork: for runners that opted in.  quiet: a scheduled run, with no actor.
\* oldest is of another commit; the paths of the others make one name.
AllDef == [w \in {"two", "join", "chain", "newest", "oldest", "fork", "quiet"} |->
  CASE w = "two"    -> [File EXCEPT !.jobs = {ja, jb}, !.needs = [NoNeeds EXCEPT ![jb] = {ja}]]
    [] w = "join"   -> [File EXCEPT !.jobs = MCJobs, !.needs = [NoNeeds EXCEPT ![jc] = {ja, jb}]]
    [] w = "chain"  -> [File EXCEPT !.jobs = MCJobs,
                                    !.needs = [NoNeeds EXCEPT ![jb] = {ja}, ![jc] = {jb}]]
    [] w = "newest" -> [File EXCEPT !.group = "g", !.supersedes = TRUE]
    [] w = "oldest" -> [File EXCEPT !.group = "g", !.commit = "d"]
    [] w = "fork"   -> [File EXCEPT !.fork = TRUE]
    [] w = "quiet"  -> [File EXCEPT !.actor = FALSE]]

MCFiles      == DOMAIN AllDef \ {"two"}
MCDef        == [w \in MCFiles |-> AllDef[w]]
Waiters      == {"two", "newest"}
WaiterDef    == [w \in Waiters |-> [AllDef[w] EXCEPT !.actor = FALSE]]

\* A file of three jobs has the scheduler for itself, fork and quiet share it with one
\* run, the contenders for the group with two; a third run comes while no token is
\* spent, no runner silent and no report lost, and reports are lost of files of one job
\* whose tokens last.
Affordable ==
  LET files == {r \in RunIds : Created(r)}
      large == \E r \in files : wf[r] \in {"join", "chain"}
      most  == IF large THEN 1
               ELSE IF \E r \in files : wf[r] \in {"fork", "quiet"} THEN 2 ELSE 3
  IN /\ Cardinality(files) <= most
     /\ Cardinality(files) = 3 => expired = {} /\ silent = {} /\ unheard = {}
     /\ unheard # {} => expired = {} /\ ~large

MCRunnerDef  == [n \in TwoRunners |->
  [org |-> "org", labels |-> {"linux"}, forks |-> (n = n1)]]

MCRepos  == {"repo"}
MCOrgs   == {"org"}
MCLabels == {"linux"}
MCGroups == {"g"}
MCCommits  == {"c", "d"}
MCContexts == {"ci"}
=============================================================================

---------------------------- MODULE WorkflowRuns ----------------------------
(***************************************************************************)
(* The workflow scheduler of src/src/workflow-runs.mjs, with the routes of *)
(* workflow-logs.mjs, runners.mjs and the runner agent that drive it: runs *)
(* and their jobs are created, claimed by runners, completed, cancelled    *)
(* and reaped.                                                             *)
(*                                                                         *)
(* One server process.  Its handlers are synchronous between awaits, so an *)
(* action here is a handler, or the part of one between two awaits; the    *)
(* completion route, which reads its body after it has checked the token,  *)
(* is two actions.  Several processes on one database, and a process that  *)
(* dies half-way through a handler, are WorkflowRunsShared.                *)
(***************************************************************************)
EXTENDS Naturals, FiniteSets

CONSTANTS
  RunIds,        \* run identifiers, used up as runs are created
  JobKeys,       \* the job keys that workflow files use
  Workflows,     \* workflow files (one per trigger that matched)
  Def,           \* what each workflow file declares
  Runners,       \* registered runners
  RunnerDef,     \* what each runner was registered with
  Repos, Orgs, Labels, Groups, Commits,
  Contexts,      \* the names under which files publish a status
  MaxInFlight    \* RUN_LIMITS.maxQueuedRunsPerRepository

NoWorkflow == "no workflow"
NoGroup    == "no group"
NoRun      == "no run"
Idle       == <<>>

WorkflowDef ==
  [ jobs : SUBSET JobKeys, needs : [JobKeys -> SUBSET JobKeys],
    position : [JobKeys -> Nat], runsOn : [JobKeys -> Labels],
    group : Groups \cup {NoGroup}, supersedes : BOOLEAN,
    repo : Repos, org : Orgs, commit : Commits, context : Contexts,
    fork : BOOLEAN, actor : BOOLEAN ]

\* What normalizeWorkflow guarantees of a file it accepts: at least one job,
\* every dependency a job of the file, and an order that puts a dependency
\* before its dependants (resolveJobOrder rejects cycles).
ASSUME WorkflowAssumption ==
  /\ NoWorkflow \notin Workflows
  /\ Def \in [Workflows -> WorkflowDef]
  /\ \A w \in Workflows :
       /\ Def[w].jobs # {}
       /\ \A j \in Def[w].jobs :
            /\ Def[w].needs[j] \subseteq Def[w].jobs
            /\ \A k \in Def[w].needs[j] : Def[w].position[k] < Def[w].position[j]

ASSUME RunnerAssumption ==
  RunnerDef \in [Runners -> [org : Orgs, labels : SUBSET Labels, forks : BOOLEAN]]

ASSUME LimitAssumption == MaxInFlight \in Nat /\ IsFiniteSet(RunIds) /\ NoRun \notin RunIds

-----------------------------------------------------------------------------
InFlight     == {"queued", "running"}
RunTerminal  == {"success", "failure", "cancelled"}
RunStatus    == InFlight \cup RunTerminal
JobTerminal  == {"success", "failure", "cancelled", "skipped"}
JobStatus    == {"pending", "queued", "running"} \cup JobTerminal
Outcomes     == {"success", "failure", "cancelled"}
CheckState   == {"pending", "success", "failure", "error"}
CheckRows    == Repos \X Commits \X Contexts
CheckEntry   == [run : RunIds \cup {NoRun}, state : CheckState]
Claim        == RunIds \X JobKeys

VARIABLES
  wf,       \* run -> the workflow it was created from
  born,     \* run -> the second its rows were created in
  run,      \* run -> workflow_runs.status
  job,      \* run -> job -> workflow_jobs.status
  token,    \* the jobs whose token_hash is set
  expired,  \* the jobs whose token has outlived jobTokenTtlSeconds
  silent,   \* the running jobs with no heartbeat for heartbeatTimeoutSeconds
  agent,    \* runner -> the claim its agent is executing
  request,  \* runner -> the claim a completion request was authorized for
  check,    \* repository, commit, context -> its commit_status_checks row: the state, and
            \*   the run its target_url names
  unheard   \* history: the runs whose latest report left their row as it was

rows == <<wf, born, run, job>>
checks == <<check, unheard>>
vars == <<wf, born, run, job, token, expired, silent, agent, request, check, unheard>>

Created(r)    == wf[r] # NoWorkflow
JobsOf(r)     == Def[wf[r]].jobs
NeedsOf(r, j) == Def[wf[r]].needs[j]
Running(c)    == job[c[1]][c[2]] = "running"

RunInFlight(r) == Created(r) /\ run[r] \in InFlight

TypeOK ==
  /\ wf      \in [RunIds -> Workflows \cup {NoWorkflow}]
  /\ born    \in [RunIds -> Nat]
  /\ run     \in [RunIds -> RunStatus]
  /\ job     \in [RunIds -> [JobKeys -> JobStatus]]
  /\ token   \subseteq Claim
  /\ expired \subseteq Claim
  /\ silent  \subseteq Claim
  /\ agent   \in [Runners -> Claim \cup {Idle}]
  /\ request \in [Runners -> Claim \cup {Idle}]
  /\ check   \in [CheckRows -> CheckEntry]
  /\ unheard \subseteq RunIds

-----------------------------------------------------------------------------
(***************************************************************************)
(* advanceRun.  Its loop visits the pending jobs until a pass changes      *)
(* nothing; what it leaves is the state in which every job that was        *)
(* pending is exactly what its dependencies make of it.  The run is then   *)
(* concluded when no job is left open.                                     *)
(***************************************************************************)
\* Mutants: a job passed over counts as done; only success resolves a job.
ResolvedSkippedIsDone(needs, s, j) ==
  IF \E k \in needs[j] : s[k] \notin JobTerminal THEN "pending"
  ELSE IF \E k \in needs[j] : s[k] = "failure" THEN "skipped"
  ELSE "queued"
ResolvedOnSuccess(needs, s, j) ==
  IF \E k \in needs[j] : s[k] # "success" THEN "pending" ELSE "queued"

Resolved(needs, s, j) ==
  IF \E k \in needs[j] : s[k] \notin JobTerminal THEN "pending"
  ELSE IF \E k \in needs[j] : s[k] # "success" THEN "skipped"
  ELSE "queued"

Waiting(jobs, old) == {j \in jobs : old[j] = "pending"}

Settlements(jobs, old) ==
  {[j \in JobKeys |-> IF j \in Waiting(jobs, old) THEN v[j] ELSE old[j]] :
     v \in [Waiting(jobs, old) -> {"pending", "skipped", "queued"}]}

\* Mutant: one pass over the jobs, in which nothing sees what the pass did.
SettlesInOnePass(jobs, needs, old, s) ==
  \A j \in Waiting(jobs, old) : s[j] = Resolved(needs, old, j)

Settles(jobs, needs, old, s) ==
  \A j \in Waiting(jobs, old) : s[j] = Resolved(needs, s, j)

\* Mutants: a cancelled job does not count; a run can end as its jobs can.
ConclusionIgnoresCancelled(jobs, s) ==
  IF \E j \in jobs : s[j] = "failure" THEN "failure" ELSE "success"
ConclusionSkipped(jobs, s) ==
  IF \E j \in jobs : s[j] = "failure" THEN "failure"
  ELSE IF \E j \in jobs : s[j] = "skipped" THEN "skipped"
  ELSE "success"

Conclusion(jobs, s) ==
  IF \E j \in jobs : s[j] = "failure" THEN "failure"
  ELSE IF \E j \in jobs : s[j] = "cancelled" THEN "cancelled"
  ELSE "success"

\* Mutant: the run ends with its first failure.
RunAfterFailsFast(jobs, s, status) ==
  IF \E j \in jobs : s[j] = "failure" THEN "failure"
  ELSE IF \E j \in jobs : s[j] \notin JobTerminal THEN "running"
  ELSE IF status \in InFlight THEN Conclusion(jobs, s) ELSE status

\* The status advanceRun gives the run: 'running' while a job is open, the
\* conclusion otherwise; a run that already finished keeps its outcome.
RunAfter(jobs, s, status) ==
  IF \E j \in jobs : s[j] \notin JobTerminal
  THEN IF status = "queued" THEN "running" ELSE status
  ELSE IF status \in InFlight THEN Conclusion(jobs, s) ELSE status

\* Mutant: cancelled has no state of its own.
StateForRunTwoOutcomes(status) ==
  IF status \in {"success", "failure"} THEN status ELSE "pending"

StateForRun(status) ==
  CASE status = "success"   -> "success"
    [] status = "failure"   -> "failure"
    [] status = "cancelled" -> "error"
    [] OTHER                -> "pending"

\* UNIQUE(repository_id, commit_sha, context), the context made of the file's path:
\* the runs of a file on a commit have one row between them, and so have those of two
\* files whose paths make one name.
CheckRow(w) == <<Def[w].repo, Def[w].commit, Def[w].context>>

\* notifyRunChanged: publishRunCheck for each run a handler reports, one after the other.
\* A run with no actor publishes nothing, and an error on the way is swallowed, so of the
\* runs that report to one row the last that got through is what stays, or none.
Notify(rs) ==
  LET speakers == {r \in rs : Def[wf'[r]].actor} IN
  \E heard \in SUBSET speakers :
    /\ \A r, q \in heard : CheckRow(wf'[r]) = CheckRow(wf'[q]) => r = q
    /\ check' = [c \in CheckRows |->
         IF \A r \in heard : CheckRow(wf'[r]) # c THEN check[c]
         ELSE LET last == CHOOSE r \in heard : CheckRow(wf'[r]) = c
              IN  [run |-> last, state |-> StateForRun(run'[last])]]
    /\ unheard' = (unheard \ heard) \cup
         {r \in speakers : \A q \in heard : CheckRow(wf'[q]) # CheckRow(wf'[r])}

-----------------------------------------------------------------------------
Init ==
  /\ wf      = [r \in RunIds |-> NoWorkflow]
  /\ born    = [r \in RunIds |-> 0]
  /\ run     = [r \in RunIds |-> "queued"]
  /\ job     = [r \in RunIds |-> [j \in JobKeys |-> "pending"]]
  /\ token   = {}
  /\ expired = {}
  /\ silent  = {}
  /\ agent   = [n \in Runners |-> Idle]
  /\ request = [n \in Runners |-> Idle]
  /\ check   = [c \in CheckRows |-> [run |-> NoRun, state |-> "pending"]]
  /\ unheard = {}

\* The columns a job loses when it leaves 'running': completeJob and cancelRun
\* clear them in the statement that changes the status.
\* Mutant: the token of a job that ends is left to expire.
DropTokensKept(cs) ==
  /\ silent' = silent \ cs
  /\ UNCHANGED <<token, expired>>

DropTokens(cs) ==
  /\ token'   = token \ cs
  /\ expired' = expired \ cs
  /\ silent'  = silent \ cs

\* cancelRun on the rows of one run.
CancelledJobs(r) ==
  [j \in JobKeys |-> IF j \in JobsOf(r) /\ job[r][j] \notin JobTerminal
                     THEN "cancelled" ELSE job[r][j]]

(***************************************************************************)
(* createWorkflowRun: refused at the in-flight limit, which is counted     *)
(* before anything is superseded; otherwise one transaction cancels the    *)
(* runs of the group, when the workflow asks for that, and inserts the run *)
(* with its jobs.  CURRENT_TIMESTAMP has a resolution of one second, so    *)
(* two runs may be created in the same one.                                *)
(***************************************************************************)
RunsInFlight(repo) == {r \in RunIds : RunInFlight(r) /\ Def[wf[r]].repo = repo}

\* Mutant: only a run that has not started is superseded.
SupersededQueued(w) ==
  IF Def[w].group # NoGroup /\ Def[w].supersedes
  THEN {r \in RunsInFlight(Def[w].repo) : Def[wf[r]].group = Def[w].group /\ run[r] = "queued"}
  ELSE {}

Superseded(w) ==
  IF Def[w].group # NoGroup /\ Def[w].supersedes
  THEN {r \in RunsInFlight(Def[w].repo) : Def[wf[r]].group = Def[w].group}
  ELSE {}

Seconds == {born[r] : r \in RunIds}
Now     == {t \in Seconds \cup {u + 1 : u \in Seconds} : \A u \in Seconds : u <= t}

InitialJobs(w) ==
  [j \in JobKeys |-> IF j \in Def[w].jobs /\ Def[w].needs[j] = {} THEN "queued" ELSE "pending"]

HasRoom(repo) == Cardinality(RunsInFlight(repo)) < MaxInFlight

CreateRun(w, new, second) ==
  /\ ~Created(new)
  /\ HasRoom(Def[w].repo)
  /\ wf'   = [wf EXCEPT ![new] = w]
  /\ born' = [born EXCEPT ![new] = second]
  /\ run'  = [r \in RunIds |-> IF r = new THEN "queued"
                               ELSE IF r \in Superseded(w) THEN "cancelled"
                               ELSE run[r]]
  /\ job'  = [r \in RunIds |-> IF r = new THEN InitialJobs(w)
                               ELSE IF r \in Superseded(w) THEN CancelledJobs(r)
                               ELSE job[r]]
  /\ DropTokens(Superseded(w) \X JobKeys)
  /\ Notify(Superseded(w) \cup {new})
  /\ UNCHANGED <<agent, request>>

(***************************************************************************)
(* claimForRunner and claimNextJob: the oldest queued job the runner's     *)
(* labels, organization and fork setting allow.  The answer carries the    *)
(* token; an answer that does not arrive leaves the job running with       *)
(* nobody executing it.                                                    *)
(***************************************************************************)
Eligible(n) ==
  {c \in Claim :
     LET w == wf[c[1]] IN
     /\ Created(c[1])
     /\ c[2] \in Def[w].jobs
     /\ job[c[1]][c[2]] = "queued"
     /\ Def[w].runsOn[c[2]] \in RunnerDef[n].labels
     /\ Def[w].org = RunnerDef[n].org
     /\ ~Def[w].fork \/ RunnerDef[n].forks}

\* ORDER BY created_at, position: ties are left open.
Before(c, d) ==
  \/ born[c[1]] < born[d[1]]
  \/ /\ born[c[1]] = born[d[1]]
     /\ Def[wf[c[1]]].position[c[2]] < Def[wf[d[1]]].position[d[2]]

Oldest(n) == {c \in Eligible(n) : \A d \in Eligible(n) : ~Before(d, c)}

ClaimNextJob(n, c, delivered) ==
  /\ agent[n] = Idle
  /\ c \in Oldest(n)
  /\ job'   = [job EXCEPT ![c[1]][c[2]] = "running"]
  /\ token' = token \cup {c}
  /\ run'   = [run EXCEPT ![c[1]] = IF @ = "queued" THEN "running" ELSE @]
  /\ agent' = [agent EXCEPT ![n] = IF delivered THEN c ELSE Idle]
  /\ UNCHANGED <<wf, born, expired, silent, request>>
  /\ Notify({c[1]})

\* authorizeJobToken: the hash is found, the job runs, the hour is not over.
Authorized(c) == c \in token /\ Running(c) /\ c \notin expired

\* The heartbeat route, and the log route, which refreshes the same column.
Heartbeat(n) ==
  /\ agent[n] # Idle
  /\ Authorized(agent[n])
  /\ silent' = silent \ {agent[n]}
  /\ UNCHANGED <<rows, token, expired, agent, request, checks>>

\* The completion route up to `await readJson`, or its 401, after which the
\* agent gives the job up (executeJob ignores the error).
BeginComplete(n) ==
  /\ agent[n] # Idle
  /\ request[n] = Idle
  /\ IF Authorized(agent[n])
     THEN /\ request' = [request EXCEPT ![n] = agent[n]]
          /\ UNCHANGED agent
     ELSE /\ agent' = [agent EXCEPT ![n] = Idle]
          /\ UNCHANGED request
  /\ UNCHANGED <<rows, token, expired, silent, checks>>

\* completeJob on a job that has not finished: the outcome, advanceRun on its
\* run, and the report.
Complete(c, outcome) ==
  LET r     == c[1]
      ended == [job[r] EXCEPT ![c[2]] = outcome]
  IN
  /\ \E s \in Settlements(JobsOf(r), ended) :
       /\ Settles(JobsOf(r), Def[wf[r]].needs, ended, s)
       /\ job'   = [job EXCEPT ![r] = s]
       /\ run'   = [run EXCEPT ![r] = RunAfter(JobsOf(r), s, @)]
  /\ DropTokens({c})
  /\ UNCHANGED <<wf, born>>
  /\ Notify({r})

\* The rest of the completion route.  The body has been read, and the job may
\* have been cancelled or reaped since its token was checked: completeJob
\* looks at the status again and answers 409.
Finished(c) == job[c[1]][c[2]] \in JobTerminal

FinishComplete(n, outcome) ==
  LET c == request[n] IN
  /\ c # Idle
  /\ IF Finished(c)
     THEN UNCHANGED <<rows, token, expired, silent, checks>>
     ELSE Complete(c, outcome)
  /\ request' = [request EXCEPT ![n] = Idle]
  /\ agent'   = [agent EXCEPT ![n] = IF @ = c THEN Idle ELSE @]

\* One turn of the loop in reapStalledJobs.  A sweep is a series of these, and
\* a server that stops in the middle of one leaves the rest to the next.
Reap(c) ==
  /\ c \in silent
  /\ Running(c)
  /\ Complete(c, "failure")
  /\ UNCHANGED <<agent, request>>

\* cancelRun, from the cancel route or because the ref was deleted.
CancelRun(r) ==
  /\ RunInFlight(r)
  /\ job'   = [job EXCEPT ![r] = CancelledJobs(r)]
  /\ run'   = [run EXCEPT ![r] = "cancelled"]
  /\ DropTokens({r} \X JobKeys)
  /\ UNCHANGED <<wf, born, agent, request>>
  /\ Notify({r})

(***************************************************************************)
(* The world: an agent process dies, or its completion request is lost on  *)
(* the wire (it is sent once); a token's hour ends; no heartbeat of a job  *)
(* arrives for the whole timeout.                                          *)
(***************************************************************************)
AgentDies(n) ==
  /\ agent[n] # Idle
  /\ agent' = [agent EXCEPT ![n] = Idle]
  /\ request' \in {request, [request EXCEPT ![n] = Idle]}
  /\ UNCHANGED <<rows, token, expired, silent, checks>>

ExpireToken(c) ==
  /\ c \in token \ expired
  /\ expired' = expired \cup {c}
  /\ UNCHANGED <<rows, token, silent, agent, request, checks>>

FallSilent(c) ==
  /\ Running(c)
  /\ c \notin silent
  /\ silent' = silent \cup {c}
  /\ UNCHANGED <<rows, token, expired, agent, request, checks>>

Next ==
  \/ \E w \in Workflows, r \in RunIds : \E t \in Now : CreateRun(w, r, t)
  \/ \E n \in Runners, c \in Claim, d \in BOOLEAN : ClaimNextJob(n, c, d)
  \/ \E n \in Runners : Heartbeat(n) \/ BeginComplete(n) \/ AgentDies(n)
  \/ \E n \in Runners, o \in Outcomes : FinishComplete(n, o)
  \/ \E c \in Claim : Reap(c) \/ ExpireToken(c) \/ FallSilent(c)
  \/ \E r \in RunIds : CancelRun(r)

Spec == Init /\ [][Next]_vars

(***************************************************************************)
(* Fairness.  Runners poll (runnerLoop), executeJob ends at the job's      *)
(* deadline and reports, a request that was read is answered, the stalled- *)
(* job worker ticks every minute, and time passes for a job that nobody    *)
(* can report on any more.                                                 *)
(***************************************************************************)
Unattended(c) == \A n \in Runners : agent[n] # c \/ ~Authorized(c)

Fairness ==
  /\ \A n \in Runners : /\ WF_vars(\E c \in Claim : ClaimNextJob(n, c, TRUE))
                        /\ WF_vars(BeginComplete(n))
                        /\ WF_vars(\E o \in Outcomes : FinishComplete(n, o))
  /\ \A c \in Claim : WF_vars(Unattended(c) /\ FallSilent(c)) /\ WF_vars(Reap(c))

FairSpec == Spec /\ Fairness

-----------------------------------------------------------------------------
(* Properties *)

\* A run is finished exactly when every job of it is: no run is reported as
\* finished over a job that can still be handed out, and none stays in flight,
\* against its repository's limit, with nothing left to do (advanceRun,
\* cancelRun).
RunsSettle ==
  \A r \in RunIds : Created(r) =>
    (run[r] \in RunTerminal <=> \A j \in JobsOf(r) : job[r][j] \in JobTerminal)

\* A run in flight always has a job that a runner can take or is executing, so
\* no set of pending jobs waits on itself.
NeverStuck ==
  \A r \in RunIds : RunInFlight(r) => \E j \in JobsOf(r) : job[r][j] \in {"queued", "running"}

\* A job is offered, started or finished by a runner only after everything it
\* needs has succeeded.
DependenciesFirst ==
  \A r \in RunIds : Created(r) =>
    \A j \in JobsOf(r) : job[r][j] \in {"queued", "running", "success", "failure"} =>
      \A k \in NeedsOf(r, j) : job[r][k] = "success"

\* A green run has no job that failed, was cancelled or was passed over: a job
\* is skipped only behind one that did not succeed, and that one decides.
GreenMeansAllGreen ==
  \A r \in RunIds : Created(r) /\ run[r] = "success" => \A j \in JobsOf(r) : job[r][j] = "success"

\* A job's credential exists exactly while the job runs: cancelling, finishing
\* and reaping destroy it in the statement that changes the status.
TokenWhileRunning ==
  \A r \in RunIds, j \in JobKeys : <<r, j>> \in token <=> (Created(r) /\ job[r][j] = "running")

\* A repository never has more runs in flight than its limit.
InFlightLimit ==
  \A repo \in Repos :
    Cardinality({r \in RunIds : Created(r) /\ run[r] \in InFlight /\ Def[wf[r]].repo = repo})
      <= MaxInFlight

\* Runs of a group whose workflows all cancel in progress never overlap.
OneRunPerGroup ==
  \A r, q \in RunIds :
    /\ r # q /\ RunInFlight(r) /\ RunInFlight(q)
    /\ Def[wf[r]].repo = Def[wf[q]].repo
    /\ Def[wf[r]].group = Def[wf[q]].group /\ Def[wf[r]].group # NoGroup
    => ~(Def[wf[r]].supersedes /\ Def[wf[q]].supersedes)

\* The table of src/docs/WORKFLOW_CHECKS.md:28-35: what a status is to say of a run.
ToldAs ==
  [queued |-> "pending", running |-> "pending",
   success |-> "success", failure |-> "failure", cancelled |-> "error"]

\* A commit status says what a run of that file on that commit came to, whichever of
\* several runs wrote the row, and whichever reports were swallowed or overtaken: an
\* outcome is the outcome of the run the row links to, it is pending only while that run
\* is or when its last report was lost, a report that got through is there until another
\* run of the file takes the row, and a run that nobody caused borrows no name.
CheckTellsTheTruth ==
  /\ \A c \in CheckRows :
       LET r == check[c].run IN
       r # NoRun =>
         /\ Created(r) /\ Def[wf[r]].actor /\ CheckRow(wf[r]) = c
         /\ check[c].state # "pending" => check[c].state = ToldAs[run[r]]
  /\ \A r \in RunIds : Created(r) /\ Def[wf[r]].actor /\ r \notin unheard =>
       LET c == check[CheckRow(wf[r])] IN
       c.run # NoRun /\ (c.run = r => c.state = ToldAs[run[r]])

\* The table of src/docs/WORKFLOW_CHECKS.md:28-35 for every run, whatever was lost and
\* whichever other run shares the row.
EveryRunIsTold ==
  \A r \in RunIds : Created(r) /\ Def[wf[r]].actor =>
    check[CheckRow(wf[r])].state = ToldAs[run[r]]

\* The job diagram of docs/WORKFLOW_RUNS.md: a finished job keeps its outcome
\* whatever arrives late, a job that was handed out is never queued again, and
\* only a job that was running can succeed or fail.
JobStep ==
  {<<"pending", "queued">>, <<"pending", "skipped">>, <<"queued", "running">>}
    \cup ({"running"} \X Outcomes) \cup ({"pending", "queued"} \X {"cancelled"})

JobsFollowDiagram ==
  \A r \in RunIds, j \in JobKeys :
    Created(r) /\ job'[r][j] # job[r][j] => <<job[r][j], job'[r][j]>> \in JobStep

JobLifecycle == [][JobsFollowDiagram]_vars

\* A finished run keeps its outcome, and every run keeps its workflow file.
OutcomesKept ==
  \A r \in RunIds : Created(r) =>
    wf'[r] = wf[r] /\ (run[r] \in RunTerminal => run'[r] = run[r])

OutcomeIsFinal == [][OutcomesKept]_vars

\* Every run is concluded in the end, whatever its runners do: die, lose the
\* answer to a claim, or outlive their token.
EveryRunConcludes ==
  \A r \in RunIds : RunInFlight(r) ~> Created(r) /\ run[r] \in RunTerminal

\* Every run is a RunContract, whatever happens to the others.
Contract(r) == INSTANCE RunContract WITH wf <- wf[r], run <- run[r], job <- job[r]

ContractSteps ==
  \A r \in RunIds : UNCHANGED <<wf[r], run[r], job[r]>> \/ Contract(r)!Next

KeepsContract == (\A r \in RunIds : Contract(r)!Init) /\ [][ContractSteps]_vars

\* A run and its jobs keep step: both are well typed, a run is over as soon as and
\* only when its jobs are, what is not over can go on, nothing starts before what it
\* needs, and a job has a token exactly while it runs.
RunsAreSound == TypeOK /\ RunsSettle /\ NeverStuck /\ DependenciesFirst /\ TokenWhileRunning

=============================================================================

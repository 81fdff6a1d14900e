------------------------ MODULE WorkflowRunsShared -------------------------
(***************************************************************************)
(* The handlers of src/src/workflow-runs.mjs taken apart: several server   *)
(* processes share one database, each runs a handler to its end before the *)
(* next, and what is atomic is a statement or a db.transaction (BEGIN      *)
(* IMMEDIATE).  A process may die between two statements.  One run.        *)
(***************************************************************************)
EXTENDS Naturals, FiniteSets

CONSTANTS
  Procs,       \* the server processes
  JobKeys,     \* the jobs of the run
  Needs,       \* job -> the jobs it needs
  Position,    \* job -> its position in jobOrder
  MaxCrashes   \* how often a process dies in the middle of a handler

ASSUME SharedAssumption ==
  /\ JobKeys # {} /\ IsFiniteSet(JobKeys) /\ MaxCrashes \in Nat
  /\ Needs \in [JobKeys -> SUBSET JobKeys]
  /\ Position \in [JobKeys -> Nat]
  /\ \A j, k \in JobKeys : Position[j] = Position[k] => j = k
  /\ \A j \in JobKeys : \A k \in Needs[j] : Position[k] < Position[j]

Ended    == {"success", "failure", "cancelled", "skipped"}
Outcomes == {"success", "failure", "cancelled"}
InFlight == {"queued", "running"}
RunEnded == {"success", "failure", "cancelled"}
JobStatus == {"pending", "queued", "running"} \cup Ended
Steps == {"idle", "claimed", "select", "update", "read", "advance", "current",
          "conclude", "cancelJobs", "cancelRun", "notify", "publish"}
NoJob == "no job"

VARIABLES
  created,   \* the run and its jobs have been inserted
  run,       \* workflow_runs.status
  job,       \* job -> workflow_jobs.status
  token,     \* the jobs whose token_hash is set
  check,     \* the commit status
  owed,      \* the jobs whose runner has not reported yet; it reports once
  requests,  \* authorized completions that wait for their body: <<job, outcome>>
  at,        \* process -> the statement its handler is about to execute
  mem,       \* process -> what its handler remembers
  crashes,
  handed,    \* history: job -> how often a runner was handed it, up to 2
  stable     \* history: run and job when no handler ran, before the first crash

rowVars == <<created, run, job, token, check>>
vars    == <<rowVars, owed, requests, at, mem, crashes, handed, stable>>

Memory ==
  [ job     : JobKeys \cup {NoJob},    \* the job being completed
    outcome : Outcomes,
    jobs    : [JobKeys -> JobStatus],  \* the list advanceRun works on
    run     : InFlight \cup RunEnded ] \* a status read, or about to be written

TypeOK ==
  /\ created \in BOOLEAN
  /\ run \in InFlight \cup RunEnded
  /\ job \in [JobKeys -> JobStatus]
  /\ token \subseteq JobKeys
  /\ check \in {"none", "pending", "success", "failure", "error"}
  /\ owed \subseteq JobKeys /\ requests \subseteq JobKeys \X Outcomes
  /\ at \in [Procs -> Steps]
  /\ mem \in [Procs -> Memory]
  /\ crashes \in 0 .. MaxCrashes
  /\ handed \in [JobKeys -> 0 .. 2]
  /\ stable \in [run : InFlight \cup RunEnded, job : [JobKeys -> JobStatus], created : BOOLEAN]

Blank   == [j \in JobKeys |-> "pending"]
Nothing == [job |-> NoJob, outcome |-> "success", jobs |-> Blank, run |-> "queued"]

Init ==
  /\ created = FALSE /\ run = "queued" /\ job = Blank
  /\ token = {} /\ check = "none" /\ owed = {} /\ requests = {}
  /\ at  = [p \in Procs |-> "idle"]
  /\ mem = [p \in Procs |-> Nothing]
  /\ crashes = 0
  /\ handed = [j \in JobKeys |-> 0]
  /\ stable = [run |-> "queued", job |-> Blank, created |-> FALSE]

Goto(p, step) == at' = [at EXCEPT ![p] = step]

\* What an observer sees between handlers, until a process dies in one.
History ==
  stable' = IF crashes' = 0 /\ \A p \in Procs : at'[p] = "idle"
            THEN [run |-> run', job |-> job', created |-> created'] ELSE stable

Remembers(p, m) == mem' = [mem EXCEPT ![p] = m]

-----------------------------------------------------------------------------
\* createWorkflowRun: one transaction, then the report.
CreateRun(p) ==
  /\ at[p] = "idle" /\ ~created
  /\ created' = TRUE
  /\ job' = [j \in JobKeys |-> IF Needs[j] = {} THEN "queued" ELSE "pending"]
  /\ Goto(p, "notify")
  /\ UNCHANGED <<owed, run, token, check, requests, mem, crashes, handed>>
  /\ History

\* Mutant: the claim takes any job that has not finished.
QueuedOrTaken == {j \in JobKeys : job[j] \in {"queued", "running"}}

Queued == {j \in JobKeys : job[j] = "queued"}
First(s) == CHOOSE j \in s : \A k \in s : Position[j] <= Position[k]

\* The transaction of claimNextJob.  The rows of a run share one created_at.
Claim(p) ==
  /\ at[p] = "idle" /\ created /\ Queued # {}
  /\ LET j == First(Queued) IN
     /\ job' = [job EXCEPT ![j] = "running"]
     /\ token' = token \cup {j} /\ owed' = owed \cup {j}
     /\ handed' = [handed EXCEPT ![j] = IF @ = 2 THEN 2 ELSE @ + 1]
  /\ Goto(p, "claimed")
  /\ UNCHANGED <<created, run, check, requests, mem, crashes>>
  /\ History

\* The run's own statement, after the transaction.
ClaimedRun(p) ==
  /\ at[p] = "claimed"
  /\ run' = IF run = "queued" THEN "running" ELSE run
  /\ Goto(p, "notify")
  /\ UNCHANGED <<owed, created, job, token, check, requests, mem, crashes, handed>>
  /\ History

-----------------------------------------------------------------------------
\* The completion route up to its await, which holds no process.
Authorize(j, outcome) ==
  /\ created /\ job[j] = "running" /\ j \in token
  /\ j \in owed
  /\ owed' = owed \ {j}
  /\ requests' = requests \cup {<<j, outcome>>}
  /\ UNCHANGED <<rowVars, at, mem, crashes, handed, stable>>

\* The rest of the route: completeJob is called.
Complete(p, r) ==
  /\ at[p] = "idle" /\ r \in requests
  /\ requests' = requests \ {r}
  /\ Remembers(p, [Nothing EXCEPT !.job = r[1], !.outcome = r[2]])
  /\ Goto(p, "select")
  /\ UNCHANGED <<owed, rowVars, crashes, handed>>
  /\ History

\* reapStalledJobs has found the job silent, and calls completeJob.
Reap(p, j) ==
  /\ at[p] = "idle" /\ created /\ job[j] = "running"
  /\ Remembers(p, [Nothing EXCEPT !.job = j, !.outcome = "failure"])
  /\ Goto(p, "select")
  /\ UNCHANGED <<owed, rowVars, requests, crashes, handed>>
  /\ History

\* completeJob reads the status and refuses a job that has finished.
Select(p) ==
  /\ at[p] = "select"
  /\ IF job[mem[p].job] \in Ended
     THEN Goto(p, "idle") /\ Remembers(p, Nothing)
     ELSE Goto(p, "update") /\ UNCHANGED mem
  /\ UNCHANGED <<owed, rowVars, requests, crashes, handed>>
  /\ History

\* completeJob's UPDATE, which does not look at the status again.
UpdateJob(p) ==
  /\ at[p] = "update"
  /\ job' = [job EXCEPT ![mem[p].job] = mem[p].outcome]
  /\ token' = token \ {mem[p].job}
  /\ Goto(p, "read") /\ Remembers(p, Nothing)
  /\ UNCHANGED <<owed, created, run, check, requests, crashes, handed>>
  /\ History

\* advanceRun lists the jobs.
ReadJobs(p) ==
  /\ at[p] = "read"
  /\ Remembers(p, [Nothing EXCEPT !.jobs = job])
  /\ Goto(p, "advance")
  /\ UNCHANGED <<owed, rowVars, requests, crashes, handed>>
  /\ History

\* Mutant: a job that was passed over does not count as ended.
DecidableSkippedOpen(list) ==
  {j \in JobKeys : list[j] = "pending" /\ \A k \in Needs[j] : list[k] \in Outcomes}

\* The pending jobs of the list that advanceRun has something to do about.
Decidable(list) ==
  {j \in JobKeys : list[j] = "pending" /\ \A k \in Needs[j] : list[k] \in Ended}

\* Mutant: only a failure passes a job over.
DecisionFailed(list, j) ==
  IF \E k \in Needs[j] : list[k] = "failure" THEN "skipped" ELSE "queued"

Decision(list, j) ==
  IF \E k \in Needs[j] : list[k] # "success" THEN "skipped" ELSE "queued"

\* One statement of its loop.  The positions follow the dependencies, so the
\* first pass reaches everything.  Neither UPDATE looks at the row's status.
Advance(p) ==
  /\ at[p] = "advance"
  /\ LET list == mem[p].jobs IN
     IF Decidable(list) = {}
     THEN Goto(p, "current") /\ Remembers(p, Nothing) /\ UNCHANGED job
     ELSE LET j == First(Decidable(list)) IN
          /\ job' = [job EXCEPT ![j] = Decision(list, j)]
          /\ Remembers(p, [mem[p] EXCEPT !.jobs[j] = Decision(list, j)])
          /\ Goto(p, "advance")
  /\ UNCHANGED <<owed, created, run, token, check, requests, crashes, handed>>
  /\ History

Verdict(list) ==
  LET results == {list[j] : j \in JobKeys} IN
  IF \E s \in results : s \notin Ended THEN "running"
  ELSE IF "failure" \in results THEN "failure"
  ELSE IF "cancelled" \in results THEN "cancelled" ELSE "success"

\* It lists the jobs again,
ReadCurrent(p) ==
  /\ at[p] = "current"
  /\ Remembers(p, [Nothing EXCEPT !.run = Verdict(job)])
  /\ Goto(p, "conclude")
  /\ UNCHANGED <<owed, rowVars, requests, crashes, handed>>
  /\ History

\* and updates the run if it is still in flight.
Conclude(p) ==
  /\ at[p] = "conclude"
  /\ run' = IF run = "queued" \/ (run = "running" /\ mem[p].run # "running")
            THEN mem[p].run ELSE run
  /\ Goto(p, "notify") /\ Remembers(p, Nothing)
  /\ UNCHANGED <<owed, created, job, token, check, requests, crashes, handed>>
  /\ History

-----------------------------------------------------------------------------
\* cancelRun reads the status of the run,
CancelRun(p) ==
  /\ at[p] = "idle" /\ created /\ run \in InFlight
  /\ Goto(p, "cancelJobs")
  /\ UNCHANGED <<owed, rowVars, requests, mem, crashes, handed>>
  /\ History

Cancellable == {j \in JobKeys : job[j] \in {"pending", "queued", "running"}}

\* cancels what has not ended,
CancelJobs(p) ==
  /\ at[p] = "cancelJobs"
  /\ job' = [j \in JobKeys |-> IF j \in Cancellable THEN "cancelled" ELSE job[j]]
  /\ token' = token \ Cancellable
  /\ Goto(p, "cancelRun")
  /\ UNCHANGED <<owed, created, run, check, requests, mem, crashes, handed>>
  /\ History

\* and marks the run, whatever has become of it since.
MarkCancelled(p) ==
  /\ at[p] = "cancelRun"
  /\ run' = "cancelled"
  /\ Goto(p, "notify")
  /\ UNCHANGED <<owed, created, job, token, check, requests, mem, crashes, handed>>
  /\ History

\* publishRunCheck reads the run, then looks the commit up in Git, and then
\* writes the status; an error on the way is swallowed.
Notify(p) ==
  /\ at[p] = "notify"
  /\ Remembers(p, [Nothing EXCEPT !.run = run])
  /\ Goto(p, "publish")
  /\ UNCHANGED <<owed, rowVars, requests, crashes, handed>>
  /\ History

StateForRun(status) ==
  CASE status \in InFlight -> "pending" [] status = "cancelled" -> "error" [] OTHER -> status

Publish(p) ==
  /\ at[p] = "publish"
  /\ check' \in {StateForRun(mem[p].run), check}
  /\ Goto(p, "idle") /\ Remembers(p, Nothing)
  /\ UNCHANGED <<owed, created, run, job, token, requests, crashes, handed>>
  /\ History

\* The process dies in a handler.  Completions that wait for their body may die with it.
Crash(p) ==
  /\ at[p] # "idle" /\ crashes < MaxCrashes
  /\ crashes' = crashes + 1
  /\ Goto(p, "idle") /\ Remembers(p, Nothing)
  /\ requests' \in {requests, {}}
  /\ UNCHANGED <<owed, rowVars, handed>>
  /\ History

-----------------------------------------------------------------------------
Handler(p) ==
  \/ ClaimedRun(p) \/ Select(p) \/ UpdateJob(p) \/ ReadJobs(p) \/ Advance(p)
  \/ ReadCurrent(p) \/ Conclude(p) \/ CancelJobs(p) \/ MarkCancelled(p)
  \/ Notify(p) \/ Publish(p)

Next ==
  \/ \E p \in Procs : CreateRun(p) \/ Claim(p) \/ CancelRun(p) \/ Handler(p) \/ Crash(p)
  \/ \E p \in Procs, r \in JobKeys \X Outcomes : Complete(p, r)
  \/ \E p \in Procs, j \in JobKeys : Reap(p, j)
  \/ \E j \in JobKeys, o \in Outcomes : Authorize(j, o)

Spec == Init /\ [][Next]_vars

\* A handler runs to its end unless its process dies; runners poll; a running
\* job is reaped in the end if nothing else ends it.
Fairness ==
  /\ \A p \in Procs : WF_vars(Handler(p))
  /\ SF_vars(\E p \in Procs : Claim(p))
  /\ \A j \in JobKeys : SF_vars(\E p \in Procs : Reap(p, j))

FairSpec == Spec /\ Fairness

-----------------------------------------------------------------------------
(* Properties *)

\* src/docs/WORKFLOW_RUNS.md:66, "two runners racing for the same job produce
\* one winner and one `null`": no job is handed out twice.
HandedOutOnce == \A j \in JobKeys : handed[j] <= 1

\* src/docs/BUILD_LOGS.md:108, "A job that already succeeded keeps its outcome",
\* and completeJob's "This job has already finished".
SuccessKept == [][\A j \in JobKeys : job[j] = "success" => job'[j] = "success"]_vars

\* cancelRun's "This run has already finished": a run that ended stays as it is.
FinishedRunKept == [][(run \in RunEnded) => (run' = run)]_vars

\* src/docs/WORKFLOW_CHECKS.md:30-35: when no handler is running, the status a
\* branch rule reads is the run's.
CheckCatchesUp ==
  created /\ (\A p \in Procs : at[p] = "idle") => check = StateForRun(run)

\* src/docs/WORKFLOW_RUNS.md:39, "The rest wait in `pending` until every
\* dependency reaches a terminal state".
PendingIsResolved ==
  \A j \in JobKeys :
    created /\ job[j] = "pending" /\ (\A k \in Needs[j] : job[k] \in Ended) ~> job[j] # "pending"

\* The same of a process that does not die between two statements: one pass of
\* advanceRun after another resolves every job.
PendingIsResolvedAlive ==
  \A j \in JobKeys :
    created /\ job[j] = "pending" /\ (\A k \in Needs[j] : job[k] \in Ended)
      ~> job[j] # "pending" \/ crashes > 0

\* However the statements of a process and its deaths fall: what is offered to a
\* runner, or runs, waits for nothing (advanceRun), and belongs to a run that is
\* not over (claimNextJob does not look at the status of the run).
OffersAreSound ==
  \A j \in JobKeys : created /\ job[j] \in {"queued", "running"} =>
    /\ \A k \in Needs[j] : job[k] = "success"
    /\ run \notin RunEnded

\* One process, until it dies in a handler, is RunContract: statement by
\* statement the loop of advanceRun computes the fixpoint it promises.
Contract == INSTANCE RunContract WITH
  Workflows  <- {"file"},
  Def        <- [w \in {"file"} |-> [jobs |-> JobKeys, needs |-> Needs]],
  NoWorkflow <- "no workflow",
  wf  <- IF stable.created THEN "file" ELSE "no workflow",
  run <- stable.run,
  job <- stable.job

KeepsContract == Contract!Spec

\* A runner is handed a job once, and only a job that is its turn.
HandOutsAreSound == HandedOutOnce /\ OffersAreSound

=============================================================================

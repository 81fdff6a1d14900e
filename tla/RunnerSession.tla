--------------------------- MODULE RunnerSession ---------------------------
(***************************************************************************)
(* One claimed job against the clock: executeJob and runStep of            *)
(* src/src/runner-agent.mjs on one side; the job's token                   *)
(* (workflow-runs.mjs), its heartbeats, the stalled-job worker             *)
(* (workflow-logs.mjs) and the lease that worker runs under                *)
(* (job-leases.mjs) on the other.  The server may go down and come back.   *)
(*                                                                         *)
(* A tick is the heartbeat interval or a divisor of it.  Clocks are kept   *)
(* as ages and countdowns, so time is unbounded.  Timers are punctual: a   *)
(* tick waits for every timer that is due.  A round trip takes less than a *)
(* tick.                                                                   *)
(***************************************************************************)
EXTENDS Naturals

CONSTANTS
  BeatEvery,     \* AGENT_DEFAULTS.heartbeatIntervalMs
  SweepEvery,    \* intervalMs of startStalledJobWorker
  Silence,       \* LOG_LIMITS.heartbeatTimeoutSeconds
  LeaseTtl,      \* LEASE_DEFAULTS.ttlSeconds
  Ttl,           \* RUN_LIMITS.jobTokenTtlSeconds
  Timeout,       \* timeout-minutes of the job
  StepTimeouts,  \* timeout-minutes of its steps; a step without one has Timeout
  MaxSteps,
  MaxOutages     \* how often the server goes down

\* 30 seconds against 300 and 60, which no configuration changes.
ASSUME ClockAssumption ==
  /\ BeatEvery \in Nat \ {0} /\ SweepEvery \in Nat \ {0}
  /\ BeatEvery <= Silence /\ BeatEvery < SweepEvery
  /\ Silence \in Nat /\ LeaseTtl \in Nat /\ Ttl \in Nat /\ Timeout \in Nat
  /\ StepTimeouts \subseteq Nat
  /\ MaxSteps \in Nat /\ MaxOutages \in Nat

VARIABLES
  age,        \* ticks since the claim
  quiet,      \* ticks since COALESCE(last_heartbeat_at, started_at)
  jobStatus,  \* workflow_jobs.status
  by,         \* who ended the job
  phase,      \* where executeJob is
  steps,      \* steps it has left
  stepLeft,   \* ticks until the timer of the running step kills it
  verdict,    \* what executeJob will report
  aborted,    \* its AbortController
  beatIn,     \* ticks until its next heartbeat
  up,         \* the server runs
  sweepIn,    \* ticks until the worker's next tick
  lease,      \* ticks until the lease in job_leases expires
  owner,      \* "nobody", "this" process, or a "former" one that crashed
  outages,    \* outages so far
  upFor,      \* ticks since the server was started
  mute,       \* the agent failed to report when it could have
  wasted      \* ticks an agent worked on after its job was cancelled

agentVars  == <<phase, steps, stepLeft, verdict, aborted, beatIn>>
jobRowVars    == <<jobStatus, by, quiet>>
serverVars == <<up, sweepIn, lease, owner, outages, upFor>>
sessionVars == <<age, jobRowVars, agentVars, serverVars, mute, wasted>>

MaxOf(a, b) == IF a < b THEN b ELSE a
MinOf(a, b) == IF a < b THEN a ELSE b
Less(a)     == IF a = 0 THEN 0 ELSE a - 1

\* Beyond these nothing depends on the exact age.
AgeCap   == MaxOf(Ttl, Timeout) + 1
QuietCap == Silence + SweepEvery + LeaseTtl + 1
UpCap    == SweepEvery + LeaseTtl + 1

Working == phase \in {"prepare", "between", "run", "builtin", "caches"}

SessionTypeOK ==
  /\ age \in 0 .. AgeCap /\ quiet \in 0 .. QuietCap
  /\ jobStatus \in {"running", "success", "failure", "cancelled"}
  /\ by \in {"nobody", "runner", "user", "reaper"}
  /\ phase \in {"prepare", "between", "run", "builtin", "caches", "report", "over", "dead"}
  /\ steps \in 0 .. MaxSteps /\ stepLeft \in Nat /\ beatIn \in 0 .. BeatEvery
  /\ verdict \in {"success", "failure", "cancelled"}
  /\ up \in BOOLEAN /\ owner \in {"nobody", "this", "former"} /\ aborted \in BOOLEAN /\ mute \in BOOLEAN
  /\ sweepIn \in 0 .. SweepEvery /\ lease \in 0 .. LeaseTtl
  /\ outages \in 0 .. MaxOutages /\ upFor \in 0 .. UpCap
  /\ wasted \in 0 .. BeatEvery + 1

\* The job has just been claimed; the worker is anywhere in its interval.
SessionInit ==
  /\ age = 0 /\ quiet = 0
  /\ jobStatus = "running" /\ by = "nobody"
  /\ phase = "prepare" /\ steps = MaxSteps /\ stepLeft = 0
  /\ verdict = "success" /\ aborted = FALSE /\ beatIn = BeatEvery
  /\ up = TRUE /\ sweepIn \in 1 .. SweepEvery /\ lease = 0 /\ owner = "nobody"
  /\ outages = 0 /\ upFor = UpCap
  /\ mute = FALSE /\ wasted = 0

-----------------------------------------------------------------------------
(* The server *)

\* authorizeJobToken.  The token's hash is cleared when the job ends.
Authorized == jobStatus = "running" /\ age < Ttl

End(outcome, who) == jobStatus' = outcome /\ by' = who /\ UNCHANGED quiet

\* Mutant: the lease of a process that died is never taken over.
GateOpenToOwner == owner # "former"

\* acquireLease: free, this process's own, or expired.
GateOpen == owner # "former" \/ lease = 0

\* A tick of the worker: the gate takes or renews the lease, or the tick does
\* nothing.
Sweep ==
  /\ up /\ sweepIn = 0
  /\ sweepIn' = SweepEvery
  /\ IF GateOpen
     THEN /\ lease' = LeaseTtl /\ owner' = "this"
          /\ IF jobStatus = "running" /\ quiet > Silence THEN End("failure", "reaper")
             ELSE UNCHANGED jobRowVars
     ELSE UNCHANGED <<lease, owner, jobRowVars>>
  /\ UNCHANGED <<age, agentVars, up, outages, upFor, mute, wasted>>

CancelRun ==
  /\ up /\ jobStatus = "running"
  /\ End("cancelled", "user")
  /\ UNCHANGED <<age, agentVars, serverVars, mute, wasted>>

\* A shutdown releases the lease, a crash leaves it to expire.
GoDown(clean) ==
  /\ up /\ outages < MaxOutages
  /\ up' = FALSE /\ outages' = outages + 1
  /\ owner' = IF owner = "this" THEN IF clean THEN "nobody" ELSE "former" ELSE owner
  /\ lease' = IF clean /\ owner = "this" THEN 0 ELSE lease
  /\ UNCHANGED <<age, jobRowVars, agentVars, sweepIn, upFor, mute, wasted>>

\* Mutant: the worker runs once as soon as it is started.
FirstSweepAtOnce == 0

\* startStalledJobWorker only sets its interval.
FirstSweep == SweepEvery

ComeUp ==
  /\ ~up
  /\ up' = TRUE /\ sweepIn' = FirstSweep /\ upFor' = 0
  /\ UNCHANGED <<age, jobRowVars, agentVars, lease, owner, outages, mute, wasted>>

-----------------------------------------------------------------------------
(* The agent *)

Goes(where) == phase' = where /\ UNCHANGED <<steps, stepLeft, verdict, aborted, beatIn>>

Ends(v) ==
  /\ phase' = "report" /\ verdict' = v
  /\ UNCHANGED <<steps, stepLeft, aborted, beatIn>>

AgentStep == UNCHANGED <<age, jobRowVars, serverVars, mute, wasted>>

\* prepareWorkspace, which no timer limits.
Prepare ==
  /\ phase = "prepare"
  /\ Goes("between") \/ Ends("failure")
  /\ AgentStep

\* Mutant: a step that states its own timeout gets it whole.
StepLimitOwn(own) == own

\* timeoutMs of runStep.
StepLimit(own) == MinOf(Timeout - age, own)

\* The top of the loop over the steps.  A step that neither runs a script nor
\* names a built-in action is passed over.
NextStep ==
  /\ phase = "between" /\ steps > 0
  /\ IF aborted THEN Ends("cancelled")
     ELSE IF age >= Timeout THEN Ends("failure")
     ELSE /\ steps' = steps - 1
          /\ \/ phase' = "run" /\ \E own \in StepTimeouts \cup {Timeout} : stepLeft' = StepLimit(own)
             \/ phase' \in {"builtin", "between"} /\ UNCHANGED stepLeft
          /\ UNCHANGED <<verdict, aborted, beatIn>>
  /\ AgentStep

\* No step is left: what follows no longer looks at the clock or the abort.
LastStepDone ==
  /\ phase = "between" /\ steps = 0
  /\ Goes("caches")
  /\ AgentStep

Outcome(killed) == "failure"

\* The step's process closes: by itself, or killed by its timer or the abort.
\* continue-on-error goes on to the next step.
StepEnds ==
  /\ phase = "run"
  /\ LET killed == stepLeft = 0 IN
     IF aborted /\ ~killed THEN Ends("cancelled")
     ELSE \/ ~killed /\ Goes("between")
          \/ Goes("between")
          \/ Ends(Outcome(killed))
  /\ AgentStep

\* runBuiltinStep, which no timer limits either.
BuiltinEnds ==
  /\ phase = "builtin"
  /\ Goes("between") \/ Ends("failure")
  /\ AgentStep

CachesDone ==
  /\ phase = "caches"
  /\ Ends("success")
  /\ AgentStep

\* The heartbeat timer, until the steps are over.  jobHeartbeat answers whether
\* the job was cancelled; any error is swallowed.
Beat(lost) ==
  /\ Working /\ beatIn = 0
  /\ beatIn' = BeatEvery
  /\ IF up /\ ~lost /\ Authorized
     THEN quiet' = 0 /\ aborted' = (aborted \/ jobStatus = "cancelled")
     ELSE UNCHANGED <<quiet, aborted>>
  /\ mute' = (mute \/ (up /\ lost))
  /\ UNCHANGED <<age, jobStatus, by, phase, steps, stepLeft, verdict, serverVars, wasted>>

\* A flush of the log, which refreshes the same column.
AppendLogs ==
  /\ Working /\ up /\ Authorized
  /\ quiet' = 0
  /\ UNCHANGED <<age, jobStatus, by, agentVars, serverVars, mute, wasted>>

\* The completion request, sent once whatever becomes of it.
Report(lost) ==
  /\ phase = "report"
  /\ Goes("over")
  /\ IF up /\ ~lost /\ Authorized THEN End(verdict, "runner") ELSE UNCHANGED jobRowVars
  /\ mute' = (mute \/ lost \/ ~up)
  /\ UNCHANGED <<age, serverVars, wasted>>

AgentDies ==
  /\ phase \notin {"over", "dead"}
  /\ Goes("dead")
  /\ mute' = TRUE
  /\ UNCHANGED <<age, jobRowVars, serverVars, wasted>>

-----------------------------------------------------------------------------
Due ==
  \/ Working /\ beatIn = 0
  \/ phase = "run" /\ stepLeft = 0
  \/ phase = "report"
  \/ phase = "between"
  \/ up /\ sweepIn = 0

ClockTicks ==
  /\ ~Due
  /\ age'      = MinOf(age + 1, AgeCap)
  /\ quiet'    = MinOf(quiet + 1, QuietCap)
  /\ stepLeft' = Less(stepLeft)
  /\ beatIn'   = IF Working THEN beatIn - 1 ELSE beatIn
  /\ sweepIn'  = IF up THEN sweepIn - 1 ELSE sweepIn
  /\ lease'    = Less(lease)
  /\ upFor'    = IF up THEN MinOf(upFor + 1, UpCap) ELSE upFor
  /\ wasted'   = IF Working /\ jobStatus = "cancelled" /\ up
                 THEN MinOf(wasted + 1, BeatEvery + 1) ELSE wasted
  /\ UNCHANGED <<jobStatus, by, phase, steps, verdict, aborted, up, owner, outages, mute>>

SessionNext ==
  \/ Sweep \/ CancelRun \/ ComeUp \/ \E clean \in BOOLEAN : GoDown(clean)
  \/ Prepare \/ NextStep \/ LastStepDone \/ StepEnds \/ BuiltinEnds \/ CachesDone
  \/ AppendLogs \/ AgentDies \/ \E lost \in BOOLEAN : Beat(lost) \/ Report(lost)
  \/ ClockTicks

SessionSpec == SessionInit /\ [][SessionNext]_sessionVars

\* Time passes, timers fire and a server that is down is started again.  No
\* assumption is made of how long the agent takes.
SessionFairness ==
  /\ WF_sessionVars(ClockTicks) /\ WF_sessionVars(Sweep) /\ WF_sessionVars(ComeUp)
  /\ WF_sessionVars(NextStep \/ LastStepDone)
  /\ WF_sessionVars(StepEnds /\ stepLeft = 0)
  /\ WF_sessionVars(\E lost \in BOOLEAN : Beat(lost))
  /\ WF_sessionVars(\E lost \in BOOLEAN : Report(lost))

FairSessionSpec == SessionSpec /\ SessionFairness

-----------------------------------------------------------------------------
(* Properties *)

\* src/docs/SELF_HOSTED_RUNNERS.md:145, "The server reaps a runner that stops
\* reporting for five minutes".  Not so of a job that outlives its token: its
\* beats are refused, and it is failed as stalled although its runner reports.
HealthyKept == by = "reaper" => mute

\* A job is failed as stalled only if its runner died or could have reported and
\* did not get through, or if the job is older than the token its runner reports
\* with: an outage of the server, however long, costs no job that goes on beating
\* (startStalledJobWorker, authorizeJobToken).
KeptWhileTokenLives == by = "reaper" => mute \/ age >= Ttl

\* A job whose runner fell silent is failed within the silence, one interval of
\* the worker and the rest of a dead process's lease, counted from when the
\* server is up (reapStalledJobs, leaseGate).
SilentIsReaped ==
  jobStatus = "running" /\ up => quiet <= Silence + SweepEvery + LeaseTtl \/ upFor <= SweepEvery + LeaseTtl

\* A script never runs past the deadline of its job, whatever its own timeout
\* says and however late it was started (executeJob, runStep).
NoScriptPastDeadline == phase = "run" => age <= Timeout

\* Every claimed job ends, even under an agent that hangs while it beats: the
\* token expires, its heartbeats are refused, and the worker fails the job.
EveryJobEnds == <>(jobStatus # "running")

\* src/docs/BUILD_LOGS.md:112, "Worst case is one heartbeat interval of wasted
\* work rather than a job that never learns it was cancelled".
CancellationLearned == ~mute => wasted <= BeatEvery

\* The server and the agent agree on how long a job may live: one that is heard of is
\* not failed while its token lives, a silent one is, in bounded time, and no script
\* outlives its deadline.
SessionSound == KeptWhileTokenLives /\ SilentIsReaped /\ NoScriptPastDeadline

=============================================================================

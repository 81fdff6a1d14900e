---------------------------- MODULE WorkflowStart ---------------------------
(***************************************************************************)
(* What starts the runs of one repository                                  *)
(* (src/src/workflow-dispatch.mjs, workflow-triggers.mjs): a request that  *)
(* may move refs is bracketed by two snapshots of them, and once its       *)
(* response is out the difference is built, the runs of deleted branches   *)
(* are cancelled, the open pull requests are reconciled, the schedules     *)
(* re-read and the closed pull requests looked at, all in one turn of the  *)
(* event loop.  A sweep fires schedules, and people start runs by hand.    *)
(*                                                                         *)
(* Requests overlap.  A push over SSH is no request of the server, and a   *)
(* process may die, or answer with an error, with the ref moved.           *)
(*                                                                         *)
(* Before any of it, the validation of a workflow file                     *)
(* (src/src/workflow-schema.mjs), a state machine of its own: what         *)
(* normalizeWorkflow refuses, in its order, and the depth-first search of  *)
(* resolveJobOrder, one call or return of `visit` a step.  A document is   *)
(* what the checks tell apart: the events and their filters, the needs of  *)
(* each job, and one step, with where its text reads from.                 *)
(*                                                                         *)
(* One workflow file; what it asks for is that of the commit.  `pull` and  *)
(* `as` of a run and `unseen` are history.                                 *)
(***************************************************************************)
EXTENDS Naturals, FiniteSets, FiniteSetsExt, Sequences, SequencesExt

CONSTANTS
  Owners,      \* allowedActionOwners; empty for any
  Documents    \* the documents looked at

\* What a text may read: a secret, the branch a pull request proposes and what its event says
\* (github.head_ref), the commit, the ref, who triggered it, and the input of a manual run.
Readable == {"secrets", "github.head_ref", "github.sha", "github.ref_name", "github.actor", "inputs"}
OfGithub == {"github.head_ref", "github.sha", "github.ref_name", "github.actor"}

\* RUN_SAFE_GITHUB_FIELDS, and what resolveRunScript of the runner knows of it.
RunSafe == {"github.sha", "github.ref_name", "github.actor"}
RunnerKnows == {"github.sha", "github.ref_name"}

ASSUME DocumentsAssumption ==
  \A d \in Documents : IsFiniteSet(DOMAIN d.needs) /\ d.step.reads \subseteq Readable

VARIABLES
  doc,         \* the document
  phase,       \* "shape", "order", "accepted" or "refused"
  why,         \* the code of the refusal
  mark,        \* state of resolveJobOrder: "new", "visiting" or "done"
  stack,       \* the jobs being visited, outermost first
  order,       \* jobs ordered so far
  cycle        \* the path reported

fileVars == <<doc, phase, why, mark, stack, order, cycle>>

JobsOf(d) == DOMAIN d.needs

-----------------------------------------------------------------------------
(* The file: what is refused before the order is looked for                *)

\* normalizeTriggers: something starts it, events and activity types are known, a schedule has a time.
TriggersRefused(on) == CASE on = {} -> "INVALID"
                         [] "unknown" \in on -> "UNKNOWN_EVENT"
                         [] "schedule" \in on /\ "cron" \notin on -> "INVALID"
                         [] OTHER -> "none"

\* normalizeEnv: reserved names, and nothing about where values come from.
EnvRefused(s) == IF "reserved" \in s.env THEN "RESERVED_ENV" ELSE "none"


\* assertRunExpressionsAreSafe: no secret, and of `github` only what is listed.  Other contexts pass.
RunRefused(s) == CASE "secrets" \in s.reads -> "SECRET_IN_RUN"
                   [] (s.reads \cap OfGithub) \ RunSafe # {} -> "UNTRUSTED_INTERPOLATION"
                   [] OTHER -> "none"

\* normalizeUses and assertBuiltinInputs.
UsesRefused(s) ==
  CASE s.ref = "moving" -> "USES_UNPINNED"
    [] s.action = "cache" /\ s.ref # "v1" -> "USES_INVALID"
    [] s.action # "cache" /\ Owners # {} /\ s.action \notin Owners -> "USES_NOT_PERMITTED"
    [] s.action = "cache" /\ "secrets" \in s.reads -> "SECRET_IN_METADATA"
    [] OTHER -> "none"

\* normalizeStep: run or uses, and not both.
StepRefused(s) ==
  CASE s.how \notin {{"run"}, {"uses"}} -> "INVALID"
    [] EnvRefused(s) # "none" -> EnvRefused(s)
    [] s.how = {"run"} -> RunRefused(s)
    [] OTHER -> UsesRefused(s)

\* The first loop of resolveJobOrder.
NeedsRefused(d) ==
  CASE \E j \in JobsOf(d) : d.needs[j] \ JobsOf(d) # {} -> "UNKNOWN_DEPENDENCY"
    [] \E j \in JobsOf(d) : j \in d.needs[j] -> "DEPENDENCY_CYCLE"
    [] OTHER -> "none"

\* normalizeWorkflow: the first refusal counts.
Refusals(d) == << IF JobsOf(d) = {} THEN "INVALID" ELSE "none", TriggersRefused(d.on), StepRefused(d.step), NeedsRefused(d) >>
Refusal(d) == LET bad == {i \in DOMAIN Refusals(d) : Refusals(d)[i] # "none"}
              IN IF bad = {} THEN "none" ELSE Refusals(d)[Min(bad)]

-----------------------------------------------------------------------------
FileInit ==
  /\ doc \in Documents /\ phase = "shape" /\ why = "none"
  /\ mark = [j \in JobsOf(doc) |-> "new"] /\ stack = <<>> /\ order = <<>> /\ cycle = <<>>

CheckShape ==
  /\ phase = "shape" /\ why' = Refusal(doc)
  /\ phase' = IF why' = "none" THEN "order" ELSE "refused"
  /\ UNCHANGED <<doc, mark, stack, order, cycle>>

\* `visit` of a job not visited yet: the next of the file, or a need of the innermost.
Enter(j) ==
  /\ phase = "order" /\ mark[j] = "new"
  /\ IF stack = <<>> THEN \A k \in JobsOf(doc) : mark[k] = "new" => j <= k
     ELSE j \in doc.needs[Last(stack)]
  /\ mark' = [mark EXCEPT ![j] = "visiting"] /\ stack' = Append(stack, j)
  /\ UNCHANGED <<doc, phase, why, order, cycle>>

\* `visit` of a job that is being visited: the path from it and back is reported.
FindCycle(j) ==
  /\ phase = "order" /\ stack # <<>> /\ j \in doc.needs[Last(stack)] /\ mark[j] = "visiting"
  /\ cycle' = SubSeq(stack, CHOOSE i \in DOMAIN stack : stack[i] = j, Len(stack)) \o <<j>>
  /\ phase' = "refused" /\ why' = "DEPENDENCY_CYCLE"
  /\ UNCHANGED <<doc, mark, stack, order>>

\* As below, had a return not waited for every need.
VisitedSome(j) == doc.needs[j] = {} \/ \E k \in doc.needs[j] : mark[k] = "done"

Visited(j) == \A k \in doc.needs[j] : mark[k] = "done"

\* `visit` returns: the job follows all it needs.
Leave ==
  /\ phase = "order" /\ stack # <<>> /\ Visited(Last(stack))
  /\ mark' = [mark EXCEPT ![Last(stack)] = "done"] /\ order' = Append(order, Last(stack))
  /\ stack' = Front(stack)
  /\ UNCHANGED <<doc, phase, why, cycle>>

Accept ==
  /\ phase = "order" /\ stack = <<>> /\ \A j \in JobsOf(doc) : mark[j] = "done"
  /\ phase' = "accepted" /\ UNCHANGED <<doc, why, mark, stack, order, cycle>>

FileNext == CheckShape \/ Leave \/ Accept \/ \E j \in JobsOf(doc) : Enter(j) \/ FindCycle(j)

FileSpec == FileInit /\ [][FileNext]_fileVars /\ WF_fileVars(FileNext)

\* An accepted file has every job once, after all it needs: the order workflow runs start from.
OrderIsTopological ==
  phase = "accepted" =>
    /\ Len(order) = Cardinality(JobsOf(doc)) /\ ToSet(order) = JobsOf(doc)
    /\ \A i \in DOMAIN order : \A k \in doc.needs[order[i]] : \E h \in 1 .. i - 1 : order[h] = k

\* The path reported is one through the file, and comes back to where it began.
CycleIsReal ==
  cycle # <<>> => /\ Len(cycle) >= 2 /\ cycle[1] = Last(cycle)
                  /\ \A i \in 1 .. Len(cycle) - 1 : cycle[i + 1] \in doc.needs[cycle[i]]

FilesAreSound == OrderIsTopological /\ CycleIsReal

\* resolveRunScript: what the runner does not know stays in the script as it is written.
Command(s, world) == {<<r, IF r \in RunnerKnows THEN world[r] ELSE 0>> : r \in s.reads}

\* docs/WORKFLOWS.md: nothing whoever triggered the workflow chose becomes part of a script, be it
\* the name of a branch: two triggers of one commit make the same command.  Does not hold: the ref
\* of a pull request's run is the branch it proposes, and `github.ref_name` is listed.
CommandsAreTheFilesOwn ==
  phase = "accepted" /\ doc.step.how = {"run"} =>
    \A v, w \in [Readable -> {1, 2}] :
      v["github.sha"] = w["github.sha"] => Command(doc.step, v) = Command(doc.step, w)

\* docs/WORKFLOW_DISPATCH.md: the runner substitutes exactly what the validator allows.  Does not
\* hold: `github.actor` and every context but `github` and `secrets` pass, and reach the shell as
\* they are written.
AcceptedIsResolved == phase = "accepted" /\ doc.step.how = {"run"} => doc.step.reads \subseteq RunnerKnows

-----------------------------------------------------------------------------
(* What starts runs                                                         *)

CONSTANTS
  Branches,   \* one of them "main", the default branch
  Pulls,      \* numbers of pull requests
  PullHead,   \* the branch they propose, one after another
  Requests,   \* requests in flight at once
  FileKinds,  \* what the workflow file of a commit may ask for
  MaxCommit,  \* bound: commits
  MaxRuns,    \* bound: runs
  InFlight    \* maxQueuedRunsPerRepository

ASSUME WorkflowStartAssumption ==
  /\ {"main", PullHead} \subseteq Branches /\ IsFiniteSet(Branches) /\ IsFiniteSet(Pulls)
  /\ InFlight \in Nat /\ MaxCommit \in Nat

VARIABLES
  refs,        \* the commit each branch is at, 0 for a branch that is not there
  file,        \* what the workflow file asks for, by commit
  request,     \* the refs before a request, and whether it has done its work
  runs,        \* workflow_runs
  pulls,       \* "none", "open" or "merged"
  schedule,    \* workflow_schedules: "none", "waits" or "due"
  unseen       \* refs that were moved with nobody looking

startVars == <<refs, file, request, runs, pulls, schedule, unseen>>

Idle == [st |-> "idle"]
Commits == DOMAIN file
InQueue(R) == {x \in R : x.status = "queued"}

StartInit ==
  /\ refs = [b \in Branches |-> IF b = "main" THEN 1 ELSE 0]
  /\ file \in [{1} -> FileKinds] /\ request = [r \in Requests |-> Idle]
  /\ runs = {} /\ pulls = [k \in Pulls |-> "none"] /\ schedule = "none" /\ unseen = {}

-----------------------------------------------------------------------------
(* One dispatch *)

\* workflowMatchesEvent: the file of the commit declares the event, and the activity type if it
\* names types.
Matches(what, e) ==
  CASE what = "all" -> e.event \in {"push", "pull_request", "schedule", "manual"}
    [] what = "opened" -> e.event = "pull_request" /\ e.as = "opened"
    [] OTHER -> FALSE

RunOf(R, e, status) == [n |-> Cardinality(R) + 1, status |-> status, closed |-> FALSE, event |-> e.event, ref |-> e.ref,
                        sha |-> e.sha, pull |-> e.pull, as |-> e.as]

\* dispatchWorkflows: a file that cannot be read becomes a failed run; at the limit nothing is
\* started, and nothing remembers.
Dispatched(R, e) ==
  IF file[e.sha] = "broken" THEN R \cup {RunOf(R, e, "failure")}
  ELSE IF Matches(file[e.sha], e) /\ Cardinality(InQueue(R)) < InFlight THEN R \cup {RunOf(R, e, "queued")}
  ELSE R

\* As below, had only branches that are new been compared.
ChangesOfNew(before) == {b \in Branches : refs[b] # 0 /\ before[b] = 0}

\* refChanges: the refs that are elsewhere than before; a ref deleted is none.
RefChanges(before) == {b \in Branches : refs[b] # 0 /\ before[b] # refs[b]}

\* cancelRunsForDeletedRefs: whatever is queued for them.
Cancelled(R, before) ==
  {IF x.status = "queued" /\ before[x.ref] # 0 /\ refs[x.ref] = 0 THEN [x EXCEPT !.status = "cancelled"] ELSE x : x \in R}

\* dispatchForRefChanges: one ref after another.
PushedFor(b, Q) == Dispatched(Q, [event |-> "push", ref |-> b, sha |-> refs[b], pull |-> 0, as |-> "push"])
Pushed(R, before) == FoldSet(PushedFor, R, RefChanges(before))

OfBranch(R, b) == {x \in R : x.event = "pull_request" /\ x.ref = b}

\* reconcilePullRequestRuns: is there a run for the head of the pull request?
ReconciledFor(k, Q) ==
  IF \E x \in OfBranch(Q, PullHead) : x.sha = refs[PullHead] THEN Q
  ELSE Dispatched(Q, [event |-> "pull_request", ref |-> PullHead, sha |-> refs[PullHead], pull |-> k,
                      as |-> IF OfBranch(Q, PullHead) = {} THEN "opened" ELSE "synchronize"])
OpenPulls == {k \in Pulls : pulls[k] = "open" /\ refs[PullHead] # 0}
Reconciled(R) == FoldSet(ReconciledFor, R, OpenPulls)

\* The commit a closed pull request was last built at, or where its branch is.
LastBuilt(R, b) == IF OfBranch(R, b) = {} THEN refs[b]
                   ELSE (CHOOSE x \in OfBranch(R, b) : \A y \in OfBranch(R, b) : y.n <= x.n).sha

\* dispatchClosedPullRequests: which have no `closed` run?  The runs started are marked.
ClosedFor(k, Q) ==
  LET D == Dispatched(Q, [event |-> "pull_request", ref |-> PullHead, sha |-> LastBuilt(Q, PullHead),
                          pull |-> k, as |-> "closed"])
  IN IF LastBuilt(Q, PullHead) = 0 THEN Q
     ELSE Q \cup {IF x.status = "queued" THEN [x EXCEPT !.closed = TRUE] ELSE x : x \in D \ Q}
Closed(R) == FoldSet(ClosedFor, R, {k \in Pulls : pulls[k] = "merged" /\ ~\E x \in OfBranch(R, PullHead) : x.closed})

\* syncSchedules: what the file at the head of the default branch declares; a row that is there
\* keeps its time.
Synced == IF file[refs["main"]] # "all" THEN "none" ELSE IF schedule = "none" THEN "waits" ELSE schedule

-----------------------------------------------------------------------------
(* Requests *)

\* createWorkflowDispatchCapture takes the snapshot and passes the request on.
Arrive(r) ==
  /\ request[r] = Idle
  /\ request' = [request EXCEPT ![r] = [st |-> "working", before |-> refs]]
  /\ UNCHANGED <<refs, file, runs, pulls, schedule, unseen>>

Working(r) == request[r].st = "working"
Worked(r) == [request EXCEPT ![r].st = "worked"]

\* A commit by push or in the browser, on a branch that is there or not.
Commit(r, b, what) ==
  /\ Working(r) /\ Cardinality(Commits) < MaxCommit
  /\ LET c == Cardinality(Commits) + 1
     IN refs' = [refs EXCEPT ![b] = c] /\ file' = [k \in 1 .. c |-> IF k = c THEN what ELSE file[k]]
  /\ request' = Worked(r) /\ UNCHANGED <<runs, pulls, schedule, unseen>>

\* A branch is deleted by a push, which names the commit the client saw it at.
DeleteBranch(r, b) ==
  /\ Working(r) /\ b # "main" /\ refs[b] # 0 /\ request[r].before[b] = refs[b]
  /\ refs' = [refs EXCEPT ![b] = 0]
  /\ request' = Worked(r) /\ UNCHANGED <<file, runs, pulls, schedule, unseen>>

OpenPull(r, k) ==
  /\ Working(r) /\ pulls[k] = "none" /\ refs[PullHead] # 0
  /\ pulls' = [pulls EXCEPT ![k] = "open"]
  /\ request' = Worked(r) /\ UNCHANGED <<refs, file, runs, schedule, unseen>>

\* A merge: the base is at what the head held.
MergePull(r, k) ==
  /\ Working(r) /\ pulls[k] = "open" /\ refs[PullHead] \notin {0, refs["main"]} /\ Cardinality(Commits) < MaxCommit
  /\ LET c == Cardinality(Commits) + 1
     IN refs' = [refs EXCEPT !["main"] = c] /\ file' = [j \in 1 .. c |-> IF j = c THEN file[refs[PullHead]] ELSE file[j]]
  /\ pulls' = [pulls EXCEPT ![k] = "merged"]
  /\ request' = Worked(r) /\ UNCHANGED <<runs, schedule, unseen>>

\* The response is out: `finish`, and what observes it.
ResponseFinishes(r) ==
  /\ request[r].st # "idle"
  /\ LET before == request[r].before
         R == Closed(Reconciled(Pushed(Cancelled(runs, before), before)))
     IN /\ Cardinality(R) <= MaxRuns /\ runs' = R
        /\ unseen' = IF Cardinality(InQueue(R)) < InFlight THEN unseen ELSE unseen \cup Branches
  /\ schedule' = Synced
  /\ request' = [request EXCEPT ![r] = Idle]
  /\ UNCHANGED <<refs, file, pulls>>

\* An answer of 400 or more, or the process is gone: nothing is dispatched.
FinishUnseen(r) ==
  /\ request[r].st # "idle"
  /\ request' = [request EXCEPT ![r] = Idle]
  /\ unseen' = unseen \cup {b \in Branches : refs[b] # request[r].before[b]} \cup {"main"}
  /\ UNCHANGED <<refs, file, runs, pulls, schedule>>

\* scripts/ssh-command.mjs hands the push to git, and no request of the server sees it.
PushOverSsh(b, what) ==
  /\ Cardinality(Commits) < MaxCommit
  /\ LET c == Cardinality(Commits) + 1
     IN refs' = [refs EXCEPT ![b] = c] /\ file' = [k \in 1 .. c |-> IF k = c THEN what ELSE file[k]]
  /\ unseen' = unseen \cup {b}
  /\ UNCHANGED <<request, runs, pulls, schedule>>

-----------------------------------------------------------------------------
(* The clock, people and runners                                           *)

MinutePasses ==
  /\ schedule = "waits" /\ schedule' = "due"
  /\ UNCHANGED <<refs, file, request, runs, pulls, unseen>>

\* dispatchDueSchedules: the row is moved on first, and the branch is built where it is now.
FireSchedule ==
  /\ schedule = "due" /\ schedule' = "waits"
  /\ runs' = Dispatched(runs, [event |-> "schedule", ref |-> "main", sha |-> refs["main"], pull |-> 0, as |-> "schedule"])
  /\ Cardinality(runs') <= MaxRuns
  /\ UNCHANGED <<refs, file, request, pulls, unseen>>

\* dispatchManualRun: the workflow must be there at that commit and declare `manual`.
StartByHand(b) ==
  /\ refs[b] # 0 /\ file[refs[b]] = "all" /\ Cardinality(InQueue(runs)) < InFlight /\ Cardinality(runs) < MaxRuns
  /\ runs' = Dispatched(runs, [event |-> "manual", ref |-> b, sha |-> refs[b], pull |-> 0, as |-> "manual"])
  /\ UNCHANGED <<refs, file, request, pulls, schedule, unseen>>

RunFinishes(x) ==
  /\ x.status = "queued" /\ runs' = (runs \ {x}) \cup {[x EXCEPT !.status = "success"]}
  /\ UNCHANGED <<refs, file, request, pulls, schedule, unseen>>

RequestNext ==
  \E r \in Requests :
    \/ Arrive(r) \/ ResponseFinishes(r) \/ FinishUnseen(r)
    \/ \E b \in Branches : DeleteBranch(r, b) \/ \E what \in FileKinds : Commit(r, b, what)
    \/ \E k \in Pulls : OpenPull(r, k) \/ MergePull(r, k)
TriggerNext == FireSchedule \/ \E b \in Branches : StartByHand(b)
WorldNext == \/ MinutePasses \/ \E x \in runs : RunFinishes(x)
             \/ \E b \in Branches, what \in FileKinds : PushOverSsh(b, what)
StartNext == RequestNext \/ TriggerNext \/ WorldNext

StartSpec == StartInit /\ [][StartNext]_startVars

-----------------------------------------------------------------------------
(* Properties *)

Quiet == \A r \in Requests : request[r] = Idle
Seen(b) == b \notin unseen

\* Once no request is out, every branch is built where it is, though several requests moved it and
\* each saw the refs of another: a request may see too much, never too little.  Left out are
\* branches moved with nobody looking.
EveryHeadIsBuilt ==
  Quiet => \A b \in Branches :
    Seen(b) /\ refs[b] > 1 /\ file[refs[b]] \in {"all", "broken"}
      => \E x \in runs : x.event = "push" /\ x.ref = b /\ x.sha = refs[b]

\* An open pull request has a run at its head, whichever request moved it.
EveryPullIsBuilt ==
  Quiet => \A k \in Pulls :
    pulls[k] = "open" /\ Seen(PullHead) /\ Seen("main") /\ refs[PullHead] # 0 /\ file[refs[PullHead]] \in {"all", "broken"}
      => \E x \in OfBranch(runs, PullHead) : x.sha = refs[PullHead]

\* Nothing waits for a runner that belongs to a branch no longer there, but the `closed` run of a
\* pull request.
NothingQueuedForTheDeleted ==
  Quiet => \A x \in InQueue(runs) : refs[x.ref] = 0 /\ Seen(x.ref) => x.closed

\* No schedule but what the default branch declares.
ScheduleIsDeclared == Quiet /\ Seen("main") /\ schedule # "none" => file[refs["main"]] = "all"

StartsAreRight == EveryHeadIsBuilt /\ EveryPullIsBuilt /\ NothingQueuedForTheDeleted /\ ScheduleIsDeclared

\* docs/WORKFLOW_DISPATCH.md:108: the first run for a pull request is `opened`, any later head is
\* `synchronize`.
FirstRunIsOpened ==
  \A x \in runs : x.as = "synchronize" => \E y \in runs : y.pull = x.pull /\ y.as = "opened"

\* docs/WORKFLOW_TRIGGERS.md:116: a closed pull request is given its `closed` run once, and not
\* another by every sweep.
ClosedOnce == \A k \in Pulls : Cardinality({x \in runs : x.pull = k /\ x.as = "closed"}) <= 1

=============================================================================

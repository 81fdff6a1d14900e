---------------------------- MODULE RunContract ----------------------------
(***************************************************************************)
(* What a workflow run promises to whoever watches it: the diagram and the *)
(* rules of src/docs/WORKFLOW_RUNS.md that advanceRun, claimNextJob,       *)
(* completeJob and cancelRun of src/src/workflow-runs.mjs keep, with no    *)
(* runner, token, table or statement in sight.  WorkflowRuns implements it *)
(* for every run, and so does one process of WorkflowRunsShared.           *)
(***************************************************************************)
EXTENDS Naturals

CONSTANTS
  JobKeys,    \* the job keys that workflow files use
  Workflows,  \* workflow files
  Def,        \* what each workflow file declares: at least its jobs and needs
  NoWorkflow

VARIABLES
  wf,   \* the workflow file of the run, or NoWorkflow before it exists
  run,  \* its status
  job   \* job -> its status

vars == <<wf, run, job>>

Ended == {"success", "failure", "cancelled", "skipped"}
Jobs  == Def[wf].jobs

Init == wf = NoWorkflow /\ run = "queued" /\ job = [j \in JobKeys |-> "pending"]

Create(w) ==
  /\ wf = NoWorkflow
  /\ wf' = w /\ run' = "queued"
  /\ job' = [j \in JobKeys |->
       IF j \in Def[w].jobs /\ Def[w].needs[j] = {} THEN "queued" ELSE "pending"]

Start(j) ==
  /\ j \in Jobs /\ job[j] = "queued"
  /\ job' = [job EXCEPT ![j] = "running"]
  /\ run' = IF run = "queued" THEN "running" ELSE run
  /\ UNCHANGED wf

\* Nothing is left to decide: a job waits only for a job that has not ended, is
\* offered only when all it needs has succeeded, and is passed over only when
\* one of those did not.
Settled(before, after) ==
  \A j \in Jobs :
    LET needs == Def[wf].needs[j] IN
    IF before[j] # "pending" THEN after[j] = before[j]
    ELSE \/ after[j] = "pending" /\ \E k \in needs : after[k] \notin Ended
         \/ after[j] = "queued"  /\ \A k \in needs : after[k] = "success"
         \/ /\ after[j] = "skipped"
            /\ \A k \in needs : after[k] \in Ended
            /\ \E k \in needs : after[k] # "success"

\* A running job ends, and with it the run when it was the last.
Finish(j, outcome) ==
  /\ j \in Jobs /\ job[j] = "running"
  /\ job' \in [JobKeys -> {"pending", "queued", "running"} \cup Ended]
  /\ \A k \in JobKeys \ Jobs : job'[k] = job[k]
  /\ Settled([job EXCEPT ![j] = outcome], job')
  /\ LET results == {job'[k] : k \in Jobs} IN
     run' = IF \E s \in results : s \notin Ended THEN "running"
            ELSE IF "failure" \in results THEN "failure"
            ELSE IF "cancelled" \in results THEN "cancelled"
            ELSE "success"
  /\ UNCHANGED wf

Cancel ==
  /\ run \in {"queued", "running"}
  /\ run' = "cancelled"
  /\ job' = [j \in JobKeys |-> IF j \in Jobs /\ job[j] \notin Ended THEN "cancelled" ELSE job[j]]
  /\ UNCHANGED wf

Next ==
  \/ \E w \in Workflows : Create(w)
  \/ /\ wf # NoWorkflow
     /\ \/ \E j \in JobKeys : Start(j)
        \/ \E j \in JobKeys, o \in {"success", "failure", "cancelled"} : Finish(j, o)
        \/ Cancel

Spec == Init /\ [][Next]_vars

=============================================================================

------------------------------ MODULE ImportJob ------------------------------
(***************************************************************************)
(* A bulk import (src/src/repository-import-jobs.mjs): a job and its items *)
(* are recorded, the request is answered, and the items are worked through *)
(* behind it one clone at a time with a token that is held in memory only. *)
(* Meanwhile the job may be cancelled, its organization may be deleted,    *)
(* and the process may die.  Single repositories are Repositories.tla's;   *)
(* here a clone just ends one way or the other.                            *)
(***************************************************************************)
EXTENDS Naturals, FiniteSets

CONSTANTS
  ItemCount,      \* items of the job, in the order of their rows
  Private,        \* those that need the token
  MaxJobCrashes

ASSUME ImportJobAssumption ==
  ItemCount \in Nat /\ Private \subseteq 1 .. ItemCount /\ MaxJobCrashes \in Nat

Items == 1 .. ItemCount
Idle  == 0

VARIABLES
  job,       \* repository_import_jobs.status; "none" before, "gone" after its organization
  item,      \* item -> repository_import_items.status
  token,     \* TOKENS holds the credential of the job
  carried,   \* the credential the running worker read when it started
  cloning,   \* the item the worker is waiting for, or Idle
  working,   \* runBulkImportJob has not returned
  jobCrashes

jobVars == <<job, item, token, carried, cloning, working, jobCrashes>>

JobTypeOK ==
  /\ job \in {"none", "running", "cancelled", "done", "gone"}
  /\ item \in [Items -> {"pending", "importing", "imported", "failed", "skipped"}]
  /\ token \in BOOLEAN /\ carried \in BOOLEAN /\ working \in BOOLEAN
  /\ cloning \in Items \cup {Idle} /\ jobCrashes \in 0 .. MaxJobCrashes

JobInit ==
  /\ job = "none" /\ item = [i \in Items |-> "pending"]
  /\ token = FALSE /\ carried = FALSE /\ cloning = Idle /\ working = FALSE
  /\ jobCrashes = 0

-----------------------------------------------------------------------------
Pending(st) == {i \in Items : st[i] = "pending"}

\* What the catch of the loop does to items that are refused before any clone.
Refused(st, F) == [i \in Items |-> IF i \in F THEN "failed" ELSE st[i]]

Finished == IF job = "cancelled" THEN "cancelled" ELSE "done"

AfterJob == FALSE

MayClone(i, tok) == i \in Private => tok

\* The loop from one await to the next: items that are refused at once (a name
\* taken, the plan's limit, no credential) fail, the next one is cloned; when
\* none is left, or the job was cancelled, the job ends.
Turn(st, tok) ==
  \/ \E n \in Pending(st) :
       /\ job # "cancelled" /\ MayClone(n, tok)
       /\ item' = [Refused(st, {i \in Pending(st) : i < n}) EXCEPT ![n] = "importing"]
       /\ cloning' = n /\ UNCHANGED <<job, token, working>>
  \/ /\ item' = IF job = "cancelled" THEN st ELSE Refused(st, Pending(st))
     /\ job' = Finished /\ token' = AfterJob /\ working' = FALSE /\ cloning' = Idle

\* The route: the job is recorded and its worker started in one go.
StartJob(withToken) ==
  /\ job = "none"
  /\ carried' = withToken /\ UNCHANGED jobCrashes
  /\ \/ \E n \in Items :
          /\ MayClone(n, withToken)
          /\ item' = [Refused(item, {i \in Items : i < n}) EXCEPT ![n] = "importing"]
          /\ cloning' = n /\ job' = "running" /\ token' = withToken /\ working' = TRUE
     \/ /\ item' = Refused(item, Items) /\ cloning' = Idle
        /\ job' = "done" /\ token' = FALSE /\ working' = FALSE

\* Mutant: only a success is written down.
OutcomeOfSuccess(i, o) == IF o = "imported" THEN [item EXCEPT ![i] = o] ELSE item

OutcomeOf(i, o) == [item EXCEPT ![i] = o]

\* The clone, the row, the issues and the files of one item are through.
ItemEnds(o) ==
  /\ working /\ cloning # Idle /\ job # "gone"
  /\ Turn(OutcomeOf(cloning, o), carried)
  /\ UNCHANGED <<carried, jobCrashes>>

\* The rows went with the organization: the worker finds no item, and jobRow
\* throws before the credential is let go.
ItemEndsAfterTheOrganization ==
  /\ working /\ cloning # Idle /\ job = "gone"
  /\ working' = FALSE /\ cloning' = Idle
  /\ UNCHANGED <<job, item, token, carried, jobCrashes>>

Skipped(st) == [i \in Items |-> IF st[i] = "pending" THEN "skipped" ELSE st[i]]

CancelJob ==
  /\ job = "running"
  /\ job' = "cancelled" /\ item' = Skipped(item) /\ token' = FALSE
  /\ UNCHANGED <<carried, cloning, working, jobCrashes>>

OrganizationDeleted ==
  /\ job \notin {"none", "gone"} /\ job' = "gone"
  /\ UNCHANGED <<item, token, carried, cloning, working, jobCrashes>>

ProcessDies ==
  /\ jobCrashes < MaxJobCrashes /\ jobCrashes' = jobCrashes + 1
  /\ token' = FALSE /\ working' = FALSE /\ cloning' = Idle /\ carried' = FALSE
  /\ UNCHANGED <<job, item>>

ItemStep == ItemEndsAfterTheOrganization \/ \E o \in {"imported", "failed"} : ItemEnds(o)

JobNext ==
  \/ \E t \in BOOLEAN : StartJob(t)
  \/ ItemStep \/ CancelJob \/ OrganizationDeleted \/ ProcessDies

\* A clone has three minutes.
JobFairness == WF_jobVars(ItemStep)

JobSpec == JobInit /\ [][JobNext]_jobVars /\ JobFairness

-----------------------------------------------------------------------------
\* A job that is over has an outcome for every item, and one that was cancelled
\* and whose last clone is through as well (repository-import-jobs.mjs:200-304).
EveryItemAccounted ==
  job = "done" \/ (job = "cancelled" /\ ~working /\ jobCrashes = 0)
    => \A i \in Items : item[i] \notin {"pending", "importing"}

\* While its organization is there, the credential of a job is held only as long
\* as the job runs ("The credential's whole life is this function",
\* repository-import-jobs.mjs:301).
TokenOnlyWhileRunning == token /\ job # "gone" => job = "running" /\ working

\* A cancelled job stays cancelled to the end.
CancelledStays == [][job = "cancelled" => job' \in {"cancelled", "gone"}]_jobVars

\* A job whose process lives comes to an end by itself.
JobEnds == job = "running" ~> job # "running" \/ jobCrashes > 0

\* Every job comes to an end: "if the server restarts mid-job, the private
\* repositories still queued fail, and say they failed" (REPOSITORY_IMPORT.md:139).
EveryJobEnds == job = "running" ~> job # "running"
=============================================================================

------------------------- MODULE WorkflowRunsProofs -------------------------
(***************************************************************************)
(* What WorkflowRuns promises, for every set of workflow files, runners    *)
(* and runs.                                                               *)
(***************************************************************************)
EXTENDS WorkflowRuns, FiniteSetTheorems, WellFoundedInduction, TLAPS

-----------------------------------------------------------------------------
(* The dependency graph                                                    *)

\* Among any jobs of a file there is one that needs none of the others: the
\* file's order puts dependencies first, so the one with the least position.
LEMMA FirstJob ==
  ASSUME NEW w \in Workflows, NEW T \in SUBSET Def[w].jobs, T # {}
  PROVE  \E j \in T : Def[w].needs[j] \cap T = {}
<1> DEFINE place(j) == Def[w].position[j]
           below(j) == 0 .. (place(j) - 1)
           S        == {below(j) : j \in T}
           R        == StrictSubsetOrdering(Nat)
<1>1. \A j \in T : place(j) \in Nat /\ Def[w].needs[j] \subseteq Def[w].jobs
  BY WorkflowAssumption DEF WorkflowDef
<1>2. S \subseteq FiniteSubsetsOf(Nat)
  <2> SUFFICES ASSUME NEW j \in T PROVE below(j) \in FiniteSubsetsOf(Nat)
    OBVIOUS
  <2>1. 0 \in Int /\ place(j) - 1 \in Int /\ below(j) \subseteq Nat
    BY <1>1
  <2>2. IsFiniteSet(below(j))
    <3> HIDE DEF place
    <3> QED BY <2>1, FS_Interval
  <2> QED BY <2>1, <2>2 DEF FiniteSubsetsOf
<1>3. IsWellFoundedOn(R, FiniteSubsetsOf(Nat))
  BY FS_StrictSubsetOrderingWellFounded
<1>4. \E x \in S : \A y \in S : ~ (<<y, x>> \in R)
  <2>1. S # {}
    OBVIOUS
  <2> HIDE DEF S, R
  <2> QED BY <1>2, <1>3, <2>1, WFMin
<1>5. PICK j \in T : \A k \in T : <<below(k), below(j)>> \notin R
  BY <1>4
<1>6. ASSUME NEW k \in T, k \in Def[w].needs[j] PROVE FALSE
  <2>1. place(k) < place(j)
    BY <1>6, WorkflowAssumption
  <2>2. below(k) \subseteq below(j) /\ place(k) \in below(j) /\ place(k) \notin below(k)
    BY <2>1, <1>1
  <2>3. below(k) \in SUBSET Nat /\ below(j) \in SUBSET Nat
    BY <1>1
  <2>4. <<below(k), below(j)>> \in R
    <3> HIDE DEF place, below
    <3> QED BY <2>2, <2>3 DEF StrictSubsetOrdering
  <2> QED BY <2>4, <1>5
<1> QED BY <1>6

-----------------------------------------------------------------------------
(***************************************************************************)
(* The rows of one run.  What the properties ask is not inductive: a green *)
(* run has no skipped job because a job is only skipped behind one that    *)
(* did not succeed, and a run in flight has a job to run because a pending *)
(* job always waits for an open one.  RunInv says why, as well as what.    *)
(***************************************************************************)
Started == {"queued", "running", "success", "failure"}
Red     == {"failure", "cancelled"}

SkippedHasCause(w, s) ==
  \A j \in Def[w].jobs : s[j] = "skipped" =>
    \E k \in Def[w].needs[j] : s[k] \in JobTerminal /\ s[k] # "success"

PendingWaits(w, s) ==
  \A j \in Def[w].jobs : s[j] = "pending" => \E k \in Def[w].needs[j] : s[k] \notin JobTerminal

StartedInOrder(w, s) ==
  \A j \in Def[w].jobs : s[j] \in Started => \A k \in Def[w].needs[j] : s[k] = "success"

AllDone(w, s) == \A j \in Def[w].jobs : s[j] \in JobTerminal

RunInv(w, s, status) ==
  /\ \A j \in JobKeys \ Def[w].jobs : s[j] = "pending"
  /\ SkippedHasCause(w, s)
  /\ PendingWaits(w, s)
  /\ StartedInOrder(w, s)
  /\ status \in RunTerminal <=> AllDone(w, s)
  /\ status = "success" => \A j \in Def[w].jobs : s[j] \notin Red

\* A claim that an agent or a request holds was handed out: its job runs or
\* has finished.
HandedOut(c) ==
  Created(c[1]) /\ c[2] \in JobsOf(c[1]) /\ job[c[1]][c[2]] \in {"running"} \cup JobTerminal

ClaimsInv ==
  /\ \A n \in Runners : agent[n] # Idle => HandedOut(agent[n])
  /\ \A n \in Runners : request[n] # Idle => HandedOut(request[n])

RunsInv ==
  \A r \in RunIds :
    /\ Created(r) => RunInv(wf[r], job[r], run[r])
    /\ ~Created(r) => \A j \in JobKeys : job[r][j] = "pending"

IInv == TypeOK /\ RunsInv /\ ClaimsInv /\ TokenWhileRunning

-----------------------------------------------------------------------------
(* What each handler does to the rows of a run                             *)

\* What the assumption on workflow files says of one of them.
LEMMA Definitions ==
  ASSUME NEW w \in Workflows
  PROVE  /\ Def[w].jobs \subseteq JobKeys /\ Def[w].jobs # {}
         /\ \A j \in JobKeys : Def[w].needs[j] \subseteq JobKeys
         /\ \A j \in Def[w].jobs : Def[w].needs[j] \subseteq Def[w].jobs
BY WorkflowAssumption DEF WorkflowDef

\* createWorkflowRun inserts the rows of a sound run.
LEMMA StartOfRun ==
  ASSUME NEW w \in Workflows
  PROVE  /\ InitialJobs(w) \in [JobKeys -> JobStatus]
         /\ RunInv(w, InitialJobs(w), "queued")
<1> DEFINE s == InitialJobs(w)
<1>1. s \in [JobKeys -> JobStatus]
  BY DEF InitialJobs, JobStatus
<1>2. \A j \in JobKeys : s[j] = IF j \in Def[w].jobs /\ Def[w].needs[j] = {} THEN "queued" ELSE "pending"
  BY DEF InitialJobs
<1>3. \A j \in JobKeys : s[j] \notin JobTerminal /\ s[j] # "skipped"
  BY <1>2 DEF JobTerminal
<1>4. SkippedHasCause(w, s) /\ PendingWaits(w, s)
  BY <1>2, <1>3, Definitions DEF SkippedHasCause, PendingWaits
<1>5. StartedInOrder(w, s)
  BY <1>2, Definitions DEF StartedInOrder, Started
<1>6. ~AllDone(w, s)
  BY <1>3, Definitions DEF AllDone
<1>7. RunInv(w, s, "queued")
  <2> HIDE DEF s
  <2> QED BY <1>2, <1>4, <1>5, <1>6 DEF RunInv, RunTerminal
<1> QED BY <1>1, <1>7

\* claimNextJob starts a queued job, of a run in flight, and keeps it sound.
LEMMA StartOfJob ==
  ASSUME NEW w \in Workflows, NEW s \in [JobKeys -> JobStatus], NEW status \in RunStatus,
         RunInv(w, s, status), NEW j \in Def[w].jobs, s[j] = "queued"
  PROVE  /\ status \in InFlight
         /\ RunInv(w, [s EXCEPT ![j] = "running"], IF status = "queued" THEN "running" ELSE status)
<1> DEFINE t  == [s EXCEPT ![j] = "running"]
           st == IF status = "queued" THEN "running" ELSE status
<1>1. j \in JobKeys /\ \A k \in JobKeys : t[k] = IF k = j THEN "running" ELSE s[k]
  BY Definitions
<1>2. s[j] \notin JobTerminal /\ t[j] \notin JobTerminal
  BY <1>1 DEF JobTerminal
<1>3. status \in InFlight /\ st \notin RunTerminal
  BY <1>2 DEF RunInv, AllDone, RunStatus, RunTerminal, InFlight
<1>4. \A k \in JobKeys : /\ t[k] \in JobTerminal <=> s[k] \in JobTerminal
                         /\ t[k] = "success" <=> s[k] = "success"
                         /\ t[k] = "pending" <=> s[k] = "pending"
                         /\ t[k] = "skipped" <=> s[k] = "skipped"
                         /\ t[k] \in Started <=> s[k] \in Started
  BY <1>1 DEF JobTerminal, Started
<1>5. SkippedHasCause(w, t) /\ PendingWaits(w, t)
  BY <1>4, Definitions DEF RunInv, SkippedHasCause, PendingWaits
<1>6. StartedInOrder(w, t)
  BY <1>4, Definitions DEF RunInv, StartedInOrder
<1>7. ~AllDone(w, t)
  BY <1>2 DEF AllDone
<1>8. \A k \in JobKeys \ Def[w].jobs : t[k] = "pending"
  BY <1>4 DEF RunInv
<1> HIDE DEF t, st
<1>9. RunInv(w, t, st)
  BY <1>3, <1>5, <1>6, <1>7, <1>8 DEF RunInv, RunTerminal
<1> QED BY <1>3, <1>9 DEF t, st

\* cancelRun leaves a sound, finished run.
LEMMA Cancelling ==
  ASSUME NEW w \in Workflows, NEW s \in [JobKeys -> JobStatus], NEW status \in RunStatus,
         RunInv(w, s, status), NEW t \in [JobKeys -> JobStatus],
         \A j \in JobKeys : t[j] = IF j \in Def[w].jobs /\ s[j] \notin JobTerminal
                                   THEN "cancelled" ELSE s[j]
  PROVE  RunInv(w, t, "cancelled")
<1>1. \A j \in Def[w].jobs : /\ s[j] \in JobTerminal => t[j] = s[j]
                             /\ t[j] \in JobTerminal
                             /\ t[j] # s[j] => t[j] = "cancelled"
  BY Definitions DEF JobTerminal
<1>2. SkippedHasCause(w, t)
  BY <1>1, Definitions DEF RunInv, SkippedHasCause
<1>3. PendingWaits(w, t) /\ AllDone(w, t)
  BY <1>1 DEF PendingWaits, AllDone, JobTerminal
<1>4. StartedInOrder(w, t)
  BY <1>1, Definitions DEF RunInv, StartedInOrder, Started, JobTerminal
<1> QED BY <1>2, <1>3, <1>4 DEF RunInv, RunTerminal

\* What advanceRun may find: the assignments Settlements enumerates.
LEMMA SettlementsType ==
  ASSUME NEW jobs \in SUBSET JobKeys, NEW old \in [JobKeys -> JobStatus],
         NEW t \in Settlements(jobs, old)
  PROVE  /\ t \in [JobKeys -> JobStatus]
         /\ \A j \in JobKeys : j \notin Waiting(jobs, old) => t[j] = old[j]
<1>1. PICK v \in [Waiting(jobs, old) -> {"pending", "skipped", "queued"}] :
        t = [j \in JobKeys |-> IF j \in Waiting(jobs, old) THEN v[j] ELSE old[j]]
  BY DEF Settlements
<1>2. \A j \in JobKeys : t[j] = IF j \in Waiting(jobs, old) THEN v[j] ELSE old[j]
  BY <1>1
<1>3. \A j \in Waiting(jobs, old) : v[j] \in JobStatus
  BY DEF JobStatus, JobTerminal
<1>4. t \in [JobKeys -> JobStatus]
  <2>1. \A j \in JobKeys : t[j] \in JobStatus
    BY <1>2, <1>3
  <2> QED BY <1>1, <2>1
<1> QED BY <1>2, <1>4

\* completeJob: the job gets its outcome, advanceRun settles what waited for
\* it, and the run is concluded exactly when nothing is left open.
LEMMA Completing ==
  ASSUME NEW w \in Workflows, NEW s \in [JobKeys -> JobStatus], NEW status \in RunStatus,
         RunInv(w, s, status), NEW j \in Def[w].jobs, s[j] = "running",
         NEW outcome \in Outcomes,
         NEW old \in [JobKeys -> JobStatus],
         \A k \in JobKeys : old[k] = IF k = j THEN outcome ELSE s[k],
         NEW t \in Settlements(Def[w].jobs, old), Settles(Def[w].jobs, Def[w].needs, old, t)
  PROVE  /\ status \in InFlight
         /\ t \in [JobKeys -> JobStatus]
         /\ t[j] = outcome
         /\ \A k \in JobKeys : k # j /\ s[k] # "pending" => t[k] = s[k]
         /\ \A k \in JobKeys : s[k] = "pending" => t[k] \in {"pending", "skipped", "queued"}
         /\ RunAfter(Def[w].jobs, t, status) \in RunStatus
         /\ RunInv(w, t, RunAfter(Def[w].jobs, t, status))
<1> DEFINE st == RunAfter(Def[w].jobs, t, status)
<1>1. /\ j \in JobKeys /\ outcome \in JobTerminal /\ outcome # "pending" /\ outcome # "skipped"
  BY Definitions DEF Outcomes, JobStatus, JobTerminal
<1>2. /\ t \in [JobKeys -> JobStatus]
      /\ \A k \in JobKeys : k \notin Waiting(Def[w].jobs, old) => t[k] = old[k]
  BY SettlementsType, Definitions
<1>3. \A k \in Waiting(Def[w].jobs, old) : t[k] = Resolved(Def[w].needs, t, k)
  BY DEF Settles
<1>4. \A k \in JobKeys : k \in Waiting(Def[w].jobs, old) <=> k \in Def[w].jobs /\ s[k] = "pending"
  BY <1>1, Definitions DEF Waiting
<1>5. \A k \in JobKeys : k # j /\ s[k] # "pending" => t[k] = s[k]
  BY <1>1, <1>2, <1>4
<1>6. t[j] = outcome
  BY <1>1, <1>2, <1>4
<1>7. \A k \in JobKeys \ Def[w].jobs : t[k] = "pending" /\ s[k] = "pending"
  <2>1. \A k \in JobKeys \ Def[w].jobs : s[k] = "pending"
    BY DEF RunInv
  <2> QED BY <2>1, <1>1, <1>2, <1>4
<1>8. \A k \in Def[w].jobs : s[k] = "pending" => t[k] = Resolved(Def[w].needs, t, k)
  BY <1>3, <1>4, Definitions
<1>9. status \in InFlight
  <2>1. s[j] \notin JobTerminal
    BY DEF JobTerminal
  <2> QED BY <2>1 DEF RunInv, AllDone, RunStatus
<1>10. \A k \in JobKeys : s[k] = "pending" => t[k] \in {"pending", "skipped", "queued"}
  BY <1>7, <1>8 DEF Resolved
<1>11. SkippedHasCause(w, t)
  <2> SUFFICES ASSUME NEW k \in Def[w].jobs, t[k] = "skipped"
               PROVE  \E i \in Def[w].needs[k] : t[i] \in JobTerminal /\ t[i] # "success"
    BY DEF SkippedHasCause
  <2>1. CASE s[k] = "pending"
    BY <2>1, <1>8 DEF Resolved
  <2>2. CASE s[k] # "pending"
    <3>1. s[k] = "skipped" /\ k \in JobKeys
      BY <2>2, <1>1, <1>5, <1>6, Definitions
    <3>2. PICK i \in Def[w].needs[k] : s[i] \in JobTerminal /\ s[i] # "success"
      BY <3>1 DEF RunInv, SkippedHasCause
    <3>3. i \in JobKeys /\ i # j /\ s[i] # "pending"
      BY <3>1, <3>2, Definitions DEF JobTerminal
    <3> QED BY <3>2, <3>3, <1>5
  <2> QED BY <2>1, <2>2
<1>12. PendingWaits(w, t)
  <2> SUFFICES ASSUME NEW k \in Def[w].jobs, t[k] = "pending"
               PROVE  \E i \in Def[w].needs[k] : t[i] \notin JobTerminal
    BY DEF PendingWaits
  <2>1. s[k] = "pending"
    BY <1>1, <1>5, <1>6, Definitions
  <2> QED BY <2>1, <1>8 DEF Resolved
<1>13. StartedInOrder(w, t)
  <2> SUFFICES ASSUME NEW k \in Def[w].jobs, t[k] \in Started, NEW i \in Def[w].needs[k]
               PROVE  t[i] = "success"
    BY DEF StartedInOrder
  <2>1. CASE s[k] = "pending"
    BY <2>1, <1>8 DEF Resolved, Started
  <2>2. CASE s[k] # "pending"
    <3>1. s[k] \in Started
      BY <2>2, <1>5, Definitions DEF Started
    <3>2. s[i] = "success"
      BY <3>1 DEF RunInv, StartedInOrder
    <3> QED BY <3>2, <1>5, Definitions
  <2> QED BY <2>1, <2>2
<1>14. /\ st \in RunStatus
       /\ st \in RunTerminal <=> AllDone(w, t)
       /\ st = "success" => \A k \in Def[w].jobs : t[k] \notin Red
  BY <1>9 DEF RunAfter, Conclusion, AllDone, RunTerminal, InFlight, RunStatus, Red
<1> HIDE DEF st
<1>15. RunInv(w, t, st)
  BY <1>7, <1>11, <1>12, <1>13, <1>14 DEF RunInv
<1> QED BY <1>2, <1>5, <1>6, <1>9, <1>10, <1>14, <1>15 DEF st

-----------------------------------------------------------------------------
(* Each action preserves the invariant                                     *)

\* No handler takes back what it handed out, or changes a run's file.
ClaimsKept ==
  \A d \in Claim : HandedOut(d) => HandedOut(d)'

ChecksOK == check \in [CheckRows -> CheckEntry] /\ unheard \subseteq RunIds

\* A report writes rows of the table, with states of its vocabulary.
LEMMA NotifyType ==
  ASSUME NEW rs \in SUBSET RunIds, ChecksOK, Notify(rs)
  PROVE  ChecksOK'
<1> DEFINE speakers == {r \in rs : Def[wf'[r]].actor}
<1>1. PICK heard \in SUBSET speakers :
        /\ check' = [c \in CheckRows |->
             IF \A r \in heard : CheckRow(wf'[r]) # c THEN check[c]
             ELSE LET last == CHOOSE r \in heard : CheckRow(wf'[r]) = c
                  IN  [run |-> last, state |-> StateForRun(run'[last])]]
        /\ unheard' = (unheard \ heard) \cup
             {r \in speakers : \A q \in heard : CheckRow(wf'[q]) # CheckRow(wf'[r])}
  BY DEF Notify
<1>2. \A st : StateForRun(st) \in CheckState
  BY DEF StateForRun, CheckState
<1>3. ASSUME NEW c \in CheckRows PROVE check'[c] \in CheckEntry
  <2>1. CASE \A r \in heard : CheckRow(wf'[r]) # c
    BY <1>1, <1>3, <2>1 DEF ChecksOK
  <2>2. CASE \E r \in heard : CheckRow(wf'[r]) = c
    <3> DEFINE last == CHOOSE r \in heard : CheckRow(wf'[r]) = c
    <3>1. last \in heard
      BY <2>2
    <3> HIDE DEF last
    <3>2. check'[c] = [run |-> last, state |-> StateForRun(run'[last])]
      BY <1>1, <1>3, <2>2 DEF last
    <3>3. last \in RunIds
      BY <3>1
    <3> QED BY <1>2, <3>2, <3>3 DEF CheckEntry
  <2> QED BY <2>1, <2>2
<1>4. check' \in [CheckRows -> CheckEntry]
  BY <1>1, <1>3
<1>5. unheard' \subseteq RunIds
  BY <1>1 DEF ChecksOK
<1> QED BY <1>4, <1>5 DEF ChecksOK

\* Nothing is created, running or on the wire at first.
LEMMA InitIInv == Init => IInv
<1> SUFFICES ASSUME Init PROVE IInv
  OBVIOUS
<1>1. TypeOK
  BY DEF Init, TypeOK, RunStatus, InFlight, JobStatus, CheckState, CheckEntry
<1>2. \A r \in RunIds : ~Created(r) /\ \A j \in JobKeys : job[r][j] = "pending"
  BY DEF Init, Created
<1>3. RunsInv
  BY <1>2 DEF RunsInv
<1>4. ClaimsInv /\ TokenWhileRunning
  BY <1>2 DEF ClaimsInv, TokenWhileRunning, Init
<1> QED BY <1>1, <1>3, <1>4 DEF IInv

\* createWorkflowRun.
LEMMA CreateRunStep ==
  ASSUME IInv, NEW w \in Workflows, NEW new \in RunIds, NEW t \in Nat, CreateRun(w, new, t)
  PROVE  IInv' /\ ClaimsKept
<1> DEFINE old == Superseded(w)
<1>1. /\ wf' = [wf EXCEPT ![new] = w] /\ wf' \in [RunIds -> Workflows \cup {NoWorkflow}]
      /\ wf'[new] = w /\ \A r \in RunIds \ {new} : wf'[r] = wf[r]
  BY DEF CreateRun, IInv, TypeOK
<1>2. ~Created(new) /\ new \notin old /\ \A r \in old : r \in RunIds /\ Created(r)
  BY DEF CreateRun, Superseded, RunsInFlight, RunInFlight
<1>3. /\ InitialJobs(w) \in [JobKeys -> JobStatus] /\ RunInv(w, InitialJobs(w), "queued")
      /\ \A j \in JobKeys : InitialJobs(w)[j] # "running"
  BY StartOfRun DEF InitialJobs
<1>4. ASSUME NEW r \in old
      PROVE  /\ CancelledJobs(r) \in [JobKeys -> JobStatus]
             /\ RunInv(wf[r], CancelledJobs(r), "cancelled")
             /\ \A j \in JobKeys : CancelledJobs(r)[j] # "running"
             /\ \A j \in JobsOf(r) : CancelledJobs(r)[j] \in JobTerminal
  <2>1. /\ r \in RunIds /\ wf[r] \in Workflows /\ job[r] \in [JobKeys -> JobStatus]
        /\ run[r] \in RunStatus /\ RunInv(wf[r], job[r], run[r])
    BY <1>2 DEF IInv, TypeOK, RunsInv, Created
  <2>2. \A j \in JobKeys : CancelledJobs(r)[j] = IF j \in Def[wf[r]].jobs /\ job[r][j] \notin JobTerminal
                                                 THEN "cancelled" ELSE job[r][j]
    BY DEF CancelledJobs, JobsOf
  <2>3. CancelledJobs(r) \in [JobKeys -> JobStatus]
    BY <2>1 DEF CancelledJobs, JobStatus, JobTerminal
  <2>4. RunInv(wf[r], CancelledJobs(r), "cancelled")
    BY <2>1, <2>2, <2>3, Cancelling
  <2>5. \A j \in JobKeys : CancelledJobs(r)[j] # "running"
    BY <2>1, <2>2 DEF RunInv, JobTerminal
  <2>6. \A j \in JobsOf(r) : CancelledJobs(r)[j] \in JobTerminal
    BY <2>1, <2>2, Definitions DEF JobsOf, JobTerminal
  <2> QED BY <2>3, <2>4, <2>5, <2>6
<1>5. /\ run' = [r \in RunIds |-> IF r = new THEN "queued"
                                  ELSE IF r \in old THEN "cancelled" ELSE run[r]]
      /\ job' = [r \in RunIds |-> IF r = new THEN InitialJobs(w)
                                  ELSE IF r \in old THEN CancelledJobs(r) ELSE job[r]]
      /\ token' = token \ (old \X JobKeys)
  BY DEF CreateRun, DropTokens
<1> HIDE DEF old
<1>6. TypeOK'
  <2>1. born' \in [RunIds -> Nat]
    BY DEF CreateRun, IInv, TypeOK
  <2>2. run' \in [RunIds -> RunStatus]
    BY <1>5 DEF IInv, TypeOK, RunStatus, RunTerminal, InFlight
  <2>3. job' \in [RunIds -> [JobKeys -> JobStatus]]
    BY <1>3, <1>4, <1>5 DEF IInv, TypeOK
  <2>4. token' \subseteq Claim /\ expired' \subseteq Claim /\ silent' \subseteq Claim
    BY DEF CreateRun, DropTokens, IInv, TypeOK
  <2>5. ChecksOK'
    <3>1. Superseded(w) \cup {new} \in SUBSET RunIds
      BY DEF Superseded, RunsInFlight
    <3>2. Notify(Superseded(w) \cup {new}) /\ ChecksOK
      BY DEF CreateRun, IInv, TypeOK, ChecksOK
    <3> QED BY <3>1, <3>2, NotifyType
  <2> QED BY <1>1, <2>1, <2>2, <2>3, <2>4, <2>5 DEF CreateRun, IInv, TypeOK, ChecksOK
<1>7. RunsInv'
  <2> SUFFICES ASSUME NEW r \in RunIds
               PROVE  /\ Created(r)' => RunInv(wf'[r], job'[r], run'[r])
                      /\ ~Created(r)' => \A j \in JobKeys : job'[r][j] = "pending"
    BY DEF RunsInv
  <2>1. CASE r = new
    BY <2>1, <1>1, <1>3, <1>5, WorkflowAssumption DEF Created
  <2>2. CASE r \in old
    BY <2>2, <1>1, <1>2, <1>4, <1>5 DEF Created
  <2>3. CASE r # new /\ r \notin old
    BY <2>3, <1>1, <1>5 DEF IInv, RunsInv, Created
  <2> QED BY <2>1, <2>2, <2>3
<1>8. ClaimsKept
  <2> SUFFICES ASSUME NEW d \in Claim, HandedOut(d) PROVE HandedOut(d)'
    BY DEF ClaimsKept
  <2>1. d[1] \in RunIds /\ d[2] \in JobKeys /\ d[1] # new /\ wf'[d[1]] = wf[d[1]]
    BY <1>1, <1>2 DEF HandedOut, Claim
  <2>2. CASE d[1] \in old
    BY <2>1, <2>2, <1>4, <1>5 DEF HandedOut, Created, JobsOf
  <2>3. CASE d[1] \notin old
    BY <2>1, <2>3, <1>5 DEF HandedOut, Created, JobsOf
  <2> QED BY <2>2, <2>3
<1>9. ClaimsInv'
  BY <1>8 DEF CreateRun, IInv, ClaimsInv, TypeOK, ClaimsKept
<1>10. TokenWhileRunning'
  <2> SUFFICES ASSUME NEW r \in RunIds, NEW j \in JobKeys
               PROVE  <<r, j>> \in token' <=> Created(r)' /\ job'[r][j] = "running"
    BY DEF TokenWhileRunning
  <2>1. <<r, j>> \in token <=> (Created(r) /\ job[r][j] = "running")
    BY DEF IInv, TokenWhileRunning
  <2>2. CASE r = new
    BY <2>1, <2>2, <1>1, <1>2, <1>3, <1>5 DEF Created
  <2>3. CASE r \in old
    BY <2>3, <1>2, <1>4, <1>5
  <2>4. CASE r # new /\ r \notin old
    BY <2>1, <2>4, <1>1, <1>5 DEF Created
  <2> QED BY <2>2, <2>3, <2>4
<1> QED BY <1>6, <1>7, <1>8, <1>9, <1>10 DEF IInv

\* claimNextJob.
LEMMA ClaimStep ==
  ASSUME IInv, NEW n \in Runners, NEW c \in Claim, NEW d \in BOOLEAN, ClaimNextJob(n, c, d)
  PROVE  IInv' /\ ClaimsKept /\ run[c[1]] \in InFlight
<1> DEFINE r == c[1]
           j == c[2]
<1>1. /\ r \in RunIds /\ j \in JobKeys /\ c = <<r, j>> /\ c # Idle
      /\ Created(r) /\ j \in JobsOf(r) /\ job[r][j] = "queued"
  BY DEF ClaimNextJob, Oldest, Eligible, Claim, JobsOf, Idle
<1>2. /\ wf[r] \in Workflows /\ job[r] \in [JobKeys -> JobStatus] /\ run[r] \in RunStatus
      /\ RunInv(wf[r], job[r], run[r])
  BY <1>1 DEF IInv, TypeOK, RunsInv, Created
<1>3. /\ run[r] \in InFlight
      /\ RunInv(wf[r], [job[r] EXCEPT ![j] = "running"],
                IF run[r] = "queued" THEN "running" ELSE run[r])
  BY <1>1, <1>2, StartOfJob DEF JobsOf
<1>4. /\ wf' = wf /\ born' = born /\ expired' = expired /\ silent' = silent
      /\ request' = request
      /\ token' = token \cup {c}
      /\ agent' = [agent EXCEPT ![n] = IF d THEN c ELSE Idle]
      /\ job' = [job EXCEPT ![r] = [job[r] EXCEPT ![j] = "running"]]
      /\ run' = [run EXCEPT ![r] = IF run[r] = "queued" THEN "running" ELSE run[r]]
  BY <1>1 DEF ClaimNextJob, IInv, TypeOK
<1> HIDE DEF r, j
<1>5. TypeOK'
  <2>1. ChecksOK'
    <3>1. Notify({c[1]}) /\ ChecksOK /\ {c[1]} \in SUBSET RunIds
      BY DEF ClaimNextJob, IInv, TypeOK, ChecksOK, Claim
    <3> QED BY <3>1, NotifyType
  <2>2. job' \in [RunIds -> [JobKeys -> JobStatus]] /\ run' \in [RunIds -> RunStatus]
    BY <1>1, <1>4 DEF IInv, TypeOK, JobStatus, RunStatus, InFlight
  <2> QED BY <2>1, <2>2, <1>4 DEF IInv, TypeOK, ChecksOK
<1>6. RunsInv'
  BY <1>1, <1>3, <1>4 DEF IInv, TypeOK, RunsInv, Created
<1>7. ClaimsKept
  <2> SUFFICES ASSUME NEW e \in Claim, HandedOut(e) PROVE HandedOut(e)'
    BY DEF ClaimsKept
  <2> QED BY <1>1, <1>4 DEF HandedOut, Created, JobsOf, IInv, TypeOK, Claim
<1>8. ClaimsInv'
  <2>1. HandedOut(c)'
    BY <1>1, <1>4 DEF HandedOut, Created, JobsOf, IInv, TypeOK
  <2> QED BY <1>4, <1>7, <2>1 DEF IInv, ClaimsInv, TypeOK, ClaimsKept
<1>9. TokenWhileRunning'
  <2> SUFFICES ASSUME NEW q \in RunIds, NEW k \in JobKeys
               PROVE  <<q, k>> \in token' <=> Created(q)' /\ job'[q][k] = "running"
    BY DEF TokenWhileRunning
  <2>1. <<q, k>> \in token <=> (Created(q) /\ job[q][k] = "running")
    BY DEF IInv, TokenWhileRunning
  <2>2. CASE <<q, k>> = <<r, j>>
    BY <2>2, <1>1, <1>4 DEF Created, IInv, TypeOK
  <2>3. CASE <<q, k>> # <<r, j>>
    BY <2>1, <2>3, <1>1, <1>4 DEF Created, IInv, TypeOK
  <2> QED BY <2>2, <2>3
<1> QED BY <1>3, <1>5, <1>6, <1>7, <1>8, <1>9 DEF IInv, r

\* completeJob and advanceRun, whoever calls them.
LEMMA CompleteStep ==
  ASSUME IInv, NEW c \in Claim, HandedOut(c), Running(c), NEW o \in Outcomes, Complete(c, o),
         agent' \in [Runners -> Claim \cup {Idle}], request' \in [Runners -> Claim \cup {Idle}]
  PROVE  TypeOK' /\ RunsInv' /\ TokenWhileRunning' /\ ClaimsKept /\ run[c[1]] \in InFlight
<1> DEFINE r   == c[1]
           j   == c[2]
           old == [job[r] EXCEPT ![j] = o]
<1>1. /\ r \in RunIds /\ j \in JobKeys /\ c = <<r, j>>
      /\ Created(r) /\ j \in JobsOf(r) /\ job[r][j] = "running"
  BY DEF HandedOut, Running, Claim
<1>2. /\ wf[r] \in Workflows /\ job[r] \in [JobKeys -> JobStatus] /\ run[r] \in RunStatus
      /\ RunInv(wf[r], job[r], run[r])
  BY <1>1 DEF IInv, TypeOK, RunsInv, Created
<1>3. PICK t \in Settlements(JobsOf(r), old) :
        /\ Settles(JobsOf(r), Def[wf[r]].needs, old, t)
        /\ job' = [job EXCEPT ![r] = t]
        /\ run' = [run EXCEPT ![r] = RunAfter(JobsOf(r), t, run[r])]
  BY DEF Complete
<1> DEFINE st == RunAfter(JobsOf(r), t, run[r])
<1>4. /\ run[r] \in InFlight /\ t \in [JobKeys -> JobStatus] /\ t[j] = o
      /\ \A k \in JobKeys : k # j /\ job[r][k] # "pending" => t[k] = job[r][k]
      /\ \A k \in JobKeys : job[r][k] = "pending" => t[k] \in {"pending", "skipped", "queued"}
      /\ st \in RunStatus /\ RunInv(wf[r], t, st)
  <2> DEFINE w == wf[r]
             s == job[r]
  <2>1. /\ w \in Workflows /\ s \in [JobKeys -> JobStatus] /\ run[r] \in RunStatus
        /\ RunInv(w, s, run[r]) /\ j \in Def[w].jobs /\ s[j] = "running"
        /\ old \in [JobKeys -> JobStatus]
        /\ \A k \in JobKeys : old[k] = IF k = j THEN o ELSE s[k]
        /\ t \in Settlements(Def[w].jobs, old)
        /\ Settles(Def[w].jobs, Def[w].needs, old, t)
        /\ st = RunAfter(Def[w].jobs, t, run[r])
    BY <1>1, <1>2, <1>3 DEF JobsOf, Outcomes, JobStatus, JobTerminal
  <2> HIDE DEF r, j, w, s, st, old
  <2>2. /\ run[r] \in InFlight /\ t \in [JobKeys -> JobStatus] /\ t[j] = o
        /\ \A k \in JobKeys : k # j /\ s[k] # "pending" => t[k] = s[k]
        /\ \A k \in JobKeys : s[k] = "pending" => t[k] \in {"pending", "skipped", "queued"}
        /\ st \in RunStatus /\ RunInv(w, t, st)
    BY <2>1, Completing
  <2> QED BY <2>2 DEF s, w
<1>5. /\ wf' = wf /\ born' = born /\ token' = token \ {c} /\ expired' = expired \ {c}
      /\ silent' = silent \ {c}
  BY DEF Complete, DropTokens, IInv, TypeOK
<1>12. ChecksOK'
  <2>1. Notify({c[1]}) /\ ChecksOK /\ {c[1]} \in SUBSET RunIds
    BY DEF Complete, IInv, TypeOK, ChecksOK, Claim
  <2> QED BY <2>1, NotifyType
<1> HIDE DEF r, j, st, old
<1>6. /\ job' = [job EXCEPT ![r] = t] /\ run' = [run EXCEPT ![r] = st]
  BY <1>3 DEF st
<1>7. TypeOK'
  BY <1>1, <1>4, <1>5, <1>6, <1>12 DEF IInv, TypeOK, ChecksOK
<1>8. RunsInv'
  BY <1>1, <1>4, <1>5, <1>6 DEF IInv, TypeOK, RunsInv, Created
<1>9. ClaimsKept
  <2> SUFFICES ASSUME NEW e \in Claim, HandedOut(e) PROVE HandedOut(e)'
    BY DEF ClaimsKept
  <2>1. e[1] \in RunIds /\ e[2] \in JobKeys /\ job[e[1]][e[2]] # "pending"
    BY DEF HandedOut, Claim, JobTerminal
  <2>2. o \in JobTerminal
    BY DEF Outcomes, JobTerminal
  <2>3. job'[e[1]][e[2]] = job[e[1]][e[2]] \/ job'[e[1]][e[2]] = o
    BY <2>1, <1>1, <1>4, <1>6 DEF IInv, TypeOK
  <2> QED BY <2>2, <2>3, <1>5 DEF HandedOut, Created, JobsOf
<1>10. TokenWhileRunning'
  <2> SUFFICES ASSUME NEW q \in RunIds, NEW k \in JobKeys
               PROVE  <<q, k>> \in token' <=> Created(q)' /\ job'[q][k] = "running"
    BY DEF TokenWhileRunning
  <2>1. <<q, k>> \in token <=> (Created(q) /\ job[q][k] = "running")
    BY DEF IInv, TokenWhileRunning
  <2>2. CASE <<q, k>> = c
    BY <2>2, <1>1, <1>4, <1>5, <1>6 DEF IInv, TypeOK, Outcomes
  <2>3. CASE <<q, k>> # c /\ q = r
    <3>1. k # j /\ job'[q][k] = t[k]
      BY <2>3, <1>1, <1>6 DEF IInv, TypeOK
    <3>2. t[k] = "running" <=> job[q][k] = "running"
      BY <2>3, <3>1, <1>4
    <3> QED BY <2>1, <2>3, <3>1, <3>2, <1>5 DEF Created
  <2>4. CASE q # r
    BY <2>1, <2>4, <1>1, <1>5, <1>6 DEF Created, IInv, TypeOK
  <2> QED BY <2>2, <2>3, <2>4
<1> QED BY <1>4, <1>7, <1>8, <1>9, <1>10 DEF r

\* cancelRun, called by its route.
LEMMA CancelStep ==
  ASSUME IInv, NEW r \in RunIds, CancelRun(r)
  PROVE  IInv' /\ ClaimsKept
<1>1. /\ Created(r) /\ wf[r] \in Workflows /\ job[r] \in [JobKeys -> JobStatus]
      /\ run[r] \in RunStatus /\ RunInv(wf[r], job[r], run[r])
  BY DEF CancelRun, RunInFlight, IInv, TypeOK, RunsInv, Created
<1>2. \A j \in JobKeys : CancelledJobs(r)[j] = IF j \in Def[wf[r]].jobs /\ job[r][j] \notin JobTerminal
                                               THEN "cancelled" ELSE job[r][j]
  BY DEF CancelledJobs, JobsOf
<1>3. CancelledJobs(r) \in [JobKeys -> JobStatus]
  BY <1>1 DEF CancelledJobs, JobStatus, JobTerminal
<1>4. RunInv(wf[r], CancelledJobs(r), "cancelled")
  BY <1>1, <1>2, <1>3, Cancelling
<1>5. /\ \A j \in JobKeys : CancelledJobs(r)[j] # "running"
      /\ \A j \in JobsOf(r) : CancelledJobs(r)[j] \in JobTerminal
  BY <1>1, <1>2, Definitions DEF RunInv, JobsOf, JobTerminal
<1>6. /\ wf' = wf /\ born' = born /\ agent' = agent /\ request' = request
      /\ token' = token \ ({r} \X JobKeys)
      /\ job' = [job EXCEPT ![r] = CancelledJobs(r)] /\ run' = [run EXCEPT ![r] = "cancelled"]
  BY DEF CancelRun, DropTokens
<1>7. TypeOK'
  <2>1. ChecksOK'
    <3>1. Notify({r}) /\ ChecksOK /\ {r} \in SUBSET RunIds
      BY DEF CancelRun, IInv, TypeOK, ChecksOK
    <3> QED BY <3>1, NotifyType
  <2> QED BY <2>1, <1>3, <1>6 DEF CancelRun, DropTokens, IInv, TypeOK, ChecksOK, RunStatus, RunTerminal
<1>8. RunsInv'
  BY <1>1, <1>4, <1>6 DEF IInv, TypeOK, RunsInv, Created
<1>9. ClaimsKept
  <2> SUFFICES ASSUME NEW e \in Claim, HandedOut(e) PROVE HandedOut(e)'
    BY DEF ClaimsKept
  <2> QED BY <1>5, <1>6 DEF HandedOut, Created, JobsOf, IInv, TypeOK, Claim
<1>10. ClaimsInv'
  BY <1>6, <1>9 DEF IInv, ClaimsInv, TypeOK, ClaimsKept
<1>11. TokenWhileRunning'
  BY <1>5, <1>6 DEF IInv, TypeOK, TokenWhileRunning, Created
<1> QED BY <1>7, <1>8, <1>9, <1>10, <1>11 DEF IInv

\* The completion route, after its body is read.
LEMMA FinishCompleteStep ==
  ASSUME IInv, NEW n \in Runners, NEW o \in Outcomes, FinishComplete(n, o)
  PROVE  IInv' /\ ClaimsKept
<1> DEFINE c == request[n]
<1>1. c \in Claim /\ c # Idle /\ HandedOut(c)
  BY DEF FinishComplete, IInv, TypeOK, ClaimsInv
<1>2. /\ request' = [request EXCEPT ![n] = Idle]
      /\ agent' = [agent EXCEPT ![n] = IF agent[n] = c THEN Idle ELSE agent[n]]
      /\ request' \in [Runners -> Claim \cup {Idle}]
      /\ agent' \in [Runners -> Claim \cup {Idle}]
  BY <1>1 DEF FinishComplete, IInv, TypeOK
<1>3. CASE Finished(c)
  <2>1. UNCHANGED <<wf, born, run, job, token, expired, silent, check, unheard>>
    BY <1>3, <1>1 DEF FinishComplete, rows, checks
  <2> HIDE DEF c
  <2>2. TypeOK' /\ RunsInv' /\ TokenWhileRunning' /\ ClaimsKept
    BY <2>1, <1>2 DEF IInv, TypeOK, RunsInv, TokenWhileRunning, Created, ClaimsKept, HandedOut, JobsOf
  <2>3. ClaimsInv'
    BY <2>2, <1>2 DEF IInv, TypeOK, ClaimsInv, ClaimsKept
  <2> QED BY <2>2, <2>3 DEF IInv
<1>4. CASE ~Finished(c)
  <2>1. Complete(c, o) /\ Running(c)
    BY <1>4, <1>1 DEF FinishComplete, Finished, HandedOut, Running
  <2> HIDE DEF c
  <2>2. TypeOK' /\ RunsInv' /\ TokenWhileRunning' /\ ClaimsKept
    BY <2>1, <1>1, <1>2, CompleteStep
  <2>3. ClaimsInv'
    BY <2>2, <1>2 DEF IInv, TypeOK, ClaimsInv, ClaimsKept
  <2> QED BY <2>2, <2>3 DEF IInv
<1> QED BY <1>3, <1>4

\* A job that runs was handed out.
LEMMA RunningWasHandedOut ==
  ASSUME IInv, NEW c \in Claim, Running(c)
  PROVE  HandedOut(c)
<1>1. c[1] \in RunIds /\ c[2] \in JobKeys
  BY DEF Claim
<1>2. Created(c[1])
  BY <1>1 DEF IInv, RunsInv, Running
<1>3. c[2] \in JobsOf(c[1])
  BY <1>1, <1>2 DEF IInv, RunsInv, RunInv, Running, JobsOf
<1> QED BY <1>2, <1>3 DEF HandedOut, Running

\* One turn of the reaper.
LEMMA ReapStep ==
  ASSUME IInv, NEW c \in Claim, Reap(c)
  PROVE  IInv' /\ ClaimsKept
<1>1. /\ HandedOut(c) /\ Running(c) /\ Complete(c, "failure") /\ "failure" \in Outcomes
      /\ agent' = agent /\ request' = request
  BY RunningWasHandedOut DEF Reap, Outcomes
<1>2. agent' \in [Runners -> Claim \cup {Idle}] /\ request' \in [Runners -> Claim \cup {Idle}]
  BY <1>1 DEF IInv, TypeOK
<1>3. TypeOK' /\ RunsInv' /\ TokenWhileRunning' /\ ClaimsKept
  BY <1>1, <1>2, CompleteStep
<1>4. ClaimsInv'
  BY <1>1, <1>3 DEF IInv, TypeOK, ClaimsInv, ClaimsKept
<1> QED BY <1>3, <1>4 DEF IInv

\* The actions that leave the rows, the tokens and the checks alone.
Quiet ==
  \/ \E n \in Runners : Heartbeat(n) \/ BeginComplete(n) \/ AgentDies(n)
  \/ \E c \in Claim : ExpireToken(c) \/ FallSilent(c)
  \/ UNCHANGED vars

\* Of those actions only the agents' side and the clocks change.
LEMMA QuietStep ==
  ASSUME IInv, Quiet
  PROVE  IInv' /\ ClaimsKept /\ UNCHANGED <<rows, token, checks>>
<1>1. UNCHANGED <<rows, token, checks>>
  BY DEF Quiet, Heartbeat, BeginComplete, AgentDies, ExpireToken, FallSilent, vars, rows, checks
<1>2. RunsInv' /\ TokenWhileRunning' /\ ClaimsKept
  BY <1>1 DEF IInv, RunsInv, TokenWhileRunning, ClaimsKept, HandedOut, Created, JobsOf, rows
<1>3. /\ agent' \in [Runners -> Claim \cup {Idle}]
      /\ \A m \in Runners : agent'[m] \in {agent[m], Idle}
  BY DEF Quiet, Heartbeat, BeginComplete, AgentDies, ExpireToken, FallSilent, vars, IInv, TypeOK
<1>4. /\ request' \in [Runners -> Claim \cup {Idle}]
      /\ \A m \in Runners : request'[m] \in {agent[m], request[m], Idle}
  BY DEF Quiet, Heartbeat, BeginComplete, AgentDies, ExpireToken, FallSilent, vars, IInv, TypeOK
<1>5. expired' \subseteq Claim /\ silent' \subseteq Claim
  BY DEF Quiet, Heartbeat, BeginComplete, AgentDies, ExpireToken, FallSilent, vars, IInv, TypeOK
<1>6. TypeOK'
  BY <1>1, <1>3, <1>4, <1>5 DEF IInv, TypeOK, rows, checks
<1>7. ClaimsInv'
  BY <1>2, <1>3, <1>4 DEF IInv, TypeOK, ClaimsInv, ClaimsKept
<1> QED BY <1>1, <1>2, <1>6, <1>7 DEF IInv

\* The next-state relation, split the way the proofs below split it.
LEMMA Cases ==
  ASSUME IInv, [Next]_vars
  PROVE  \/ \E w \in Workflows, r \in RunIds, t \in Nat : CreateRun(w, r, t)
         \/ \E n \in Runners, c \in Claim, d \in BOOLEAN : ClaimNextJob(n, c, d)
         \/ \E n \in Runners, o \in Outcomes : FinishComplete(n, o)
         \/ \E c \in Claim : Reap(c)
         \/ \E r \in RunIds : CancelRun(r)
         \/ Quiet
<1>1. Now \subseteq Nat
  BY DEF Now, Seconds, IInv, TypeOK
<1> QED BY <1>1 DEF Next, Quiet

\* The inductive step.
LEMMA NextIInv ==
  ASSUME IInv, [Next]_vars
  PROVE  IInv' /\ ClaimsKept
<1>1. CASE \E w \in Workflows, r \in RunIds, t \in Nat : CreateRun(w, r, t)
  BY <1>1, CreateRunStep
<1>2. CASE \E n \in Runners, c \in Claim, d \in BOOLEAN : ClaimNextJob(n, c, d)
  BY <1>2, ClaimStep
<1>3. CASE \E n \in Runners, o \in Outcomes : FinishComplete(n, o)
  BY <1>3, FinishCompleteStep
<1>4. CASE \E c \in Claim : Reap(c)
  BY <1>4, ReapStep
<1>5. CASE \E r \in RunIds : CancelRun(r)
  BY <1>5, CancelStep
<1>6. CASE Quiet
  BY <1>6, QuietStep
<1> QED BY <1>1, <1>2, <1>3, <1>4, <1>5, <1>6, Cases

\* The invariant holds in every reachable state.
THEOREM Invariance == Spec => []IInv
<1>1. IInv /\ [Next]_vars => IInv'
  BY NextIInv
<1> QED BY InitIInv, <1>1, PTL DEF Spec

-----------------------------------------------------------------------------
(* The properties of a state                                               *)

\* Every variable keeps its type: in particular a run ends only in a status
\* the table admits.
THEOREM TypeCorrect == Spec => []TypeOK
<1>1. IInv => TypeOK
  BY DEF IInv
<1> QED BY <1>1, Invariance, PTL

\* A job's token exists exactly while the job runs.
THEOREM TokensAreExact == Spec => []TokenWhileRunning
<1>1. IInv => TokenWhileRunning
  BY DEF IInv
<1> QED BY <1>1, Invariance, PTL

\* A run is finished exactly when all of its jobs are.
THEOREM RunsAlwaysSettle == Spec => []RunsSettle
<1>1. IInv => RunsSettle
  BY DEF IInv, RunsInv, RunInv, RunsSettle, AllDone, JobsOf
<1> QED BY <1>1, Invariance, PTL

\* No job is offered before everything it needs has succeeded.
THEOREM OrderRespected == Spec => []DependenciesFirst
<1>1. IInv => DependenciesFirst
  BY DEF IInv, RunsInv, RunInv, StartedInOrder, Started, DependenciesFirst, JobsOf, NeedsOf
<1> QED BY <1>1, Invariance, PTL

\* A run in flight has a job that can be taken or is executing: the open job
\* that needs no other open job cannot be pending.
LEMMA SomeJobIsOpen == IInv => NeverStuck
<1> SUFFICES ASSUME IInv, NEW r \in RunIds, RunInFlight(r)
             PROVE  \E j \in JobsOf(r) : job[r][j] \in {"queued", "running"}
  BY DEF NeverStuck
<1> DEFINE T == {j \in JobsOf(r) : job[r][j] \notin JobTerminal}
<1>1. /\ wf[r] \in Workflows /\ job[r] \in [JobKeys -> JobStatus] /\ RunInv(wf[r], job[r], run[r])
      /\ run[r] \notin RunTerminal
  BY DEF IInv, RunsInv, TypeOK, RunInFlight, Created, InFlight, RunTerminal
<1>2. T # {} /\ T \in SUBSET Def[wf[r]].jobs
  BY <1>1 DEF RunInv, AllDone, JobsOf
<1>3. PICK j \in T : Def[wf[r]].needs[j] \cap T = {}
  <2> HIDE DEF T
  <2> QED BY <1>1, <1>2, FirstJob
<1>4. \A k \in Def[wf[r]].needs[j] : job[r][k] \in JobTerminal
  BY <1>1, <1>3, Definitions DEF JobsOf
<1>5. job[r][j] # "pending"
  BY <1>1, <1>4 DEF RunInv, PendingWaits, JobsOf
<1> QED BY <1>1, <1>5, Definitions DEF JobStatus, JobsOf

\* Jobs never wait on each other in a circle, and no run is left with nothing
\* to do.
THEOREM NeverStuckHolds == Spec => []NeverStuck
BY SomeJobIsOpen, Invariance, PTL

\* A run and its jobs keep step: the five together, as the run checks them.
THEOREM RunsAreSoundHolds == Spec => []RunsAreSound
<1>1. TypeOK /\ RunsSettle /\ NeverStuck /\ DependenciesFirst /\ TokenWhileRunning => RunsAreSound
  BY DEF RunsAreSound
<1> QED
  BY <1>1, TypeCorrect, RunsAlwaysSettle, NeverStuckHolds, OrderRespected, TokensAreExact, PTL

\* A green run has no skipped job: the one that needs no other skipped job
\* would have a cause, and a green run has none.
LEMMA GreenIsGreen == IInv => GreenMeansAllGreen
<1> SUFFICES ASSUME IInv, NEW r \in RunIds, Created(r), run[r] = "success"
             PROVE  \A j \in JobsOf(r) : job[r][j] = "success"
  BY DEF GreenMeansAllGreen
<1> DEFINE T == {j \in JobsOf(r) : job[r][j] # "success"}
<1>1. /\ wf[r] \in Workflows /\ job[r] \in [JobKeys -> JobStatus] /\ RunInv(wf[r], job[r], "success")
  BY DEF IInv, RunsInv, TypeOK, Created
<1>2. \A j \in JobsOf(r) : job[r][j] \in {"success", "skipped"}
  BY <1>1 DEF RunInv, RunTerminal, AllDone, JobTerminal, Red, JobsOf
<1>3. SUFFICES ASSUME T # {} PROVE FALSE
  OBVIOUS
<1>4. PICK j \in T : Def[wf[r]].needs[j] \cap T = {}
  <2>1. T \in SUBSET Def[wf[r]].jobs
    BY DEF JobsOf
  <2> HIDE DEF T
  <2> QED BY <2>1, <1>1, <1>3, FirstJob
<1>5. PICK k \in Def[wf[r]].needs[j] : job[r][k] # "success"
  BY <1>1, <1>2, <1>4 DEF RunInv, SkippedHasCause, JobsOf
<1> QED BY <1>1, <1>4, <1>5, Definitions DEF JobsOf

\* A green run is green throughout.
THEOREM GreenMeansAllGreenHolds == Spec => []GreenMeansAllGreen
BY GreenIsGreen, Invariance, PTL

-----------------------------------------------------------------------------
(* The properties of a step                                                *)

\* What a step does to the jobs and outcomes of the runs that exist.
LEMMA StepsFollowDiagram ==
  ASSUME IInv, [Next]_vars
  PROVE  JobsFollowDiagram /\ OutcomesKept
<1> USE DEF JobsFollowDiagram, OutcomesKept
<1>1. ASSUME NEW w \in Workflows, NEW new \in RunIds, NEW t \in Nat, CreateRun(w, new, t)
      PROVE  JobsFollowDiagram /\ OutcomesKept
  <2> SUFFICES ASSUME NEW r \in RunIds, Created(r)
               PROVE  /\ wf'[r] = wf[r] /\ (run[r] \in RunTerminal => run'[r] = run[r])
                      /\ \A j \in JobKeys : job'[r][j] # job[r][j] =>
                           <<job[r][j], job'[r][j]>> \in JobStep
    OBVIOUS
  <2>1. r # new /\ wf'[r] = wf[r]
    BY <1>1 DEF CreateRun, IInv, TypeOK
  <2>2. CASE r \in Superseded(w)
    <3>1. run[r] \notin RunTerminal
      BY <2>2 DEF Superseded, RunsInFlight, RunInFlight, InFlight, RunTerminal
    <3>2. job'[r] = CancelledJobs(r)
      BY <2>1, <2>2, <1>1 DEF CreateRun
    <3>3. \A j \in JobKeys : job[r][j] \in JobStatus
      BY DEF IInv, TypeOK
    <3>4. \A j \in JobKeys : job'[r][j] # job[r][j] => <<job[r][j], job'[r][j]>> \in JobStep
      BY <3>2, <3>3 DEF CancelledJobs, JobStep, JobStatus, Outcomes
    <3> QED BY <2>1, <3>1, <3>4
  <2>3. CASE r \notin Superseded(w)
    BY <2>1, <2>3, <1>1 DEF CreateRun
  <2> QED BY <2>2, <2>3
<1>2. ASSUME NEW n \in Runners, NEW c \in Claim, NEW d \in BOOLEAN, ClaimNextJob(n, c, d)
      PROVE  JobsFollowDiagram /\ OutcomesKept
  <2>1. run[c[1]] \in InFlight /\ c[1] \in RunIds
    BY <1>2, ClaimStep DEF Claim
  <2>2. job[c[1]][c[2]] = "queued"
    BY <1>2 DEF ClaimNextJob, Oldest, Eligible
  <2> QED BY <1>2, <2>1, <2>2 DEF ClaimNextJob, IInv, TypeOK, JobStep, InFlight, RunTerminal
<1>3. ASSUME NEW c \in Claim, HandedOut(c), Running(c), NEW o \in Outcomes, Complete(c, o)
      PROVE  JobsFollowDiagram /\ OutcomesKept
  <2> DEFINE r   == c[1]
             j   == c[2]
             old == [job[r] EXCEPT ![j] = o]
  <2>1. /\ r \in RunIds /\ j \in JobKeys /\ job[r][j] = "running" /\ wf[r] \in Workflows
        /\ job[r] \in [JobKeys -> JobStatus] /\ run[r] \in RunStatus /\ j \in Def[wf[r]].jobs
        /\ RunInv(wf[r], job[r], run[r])
    BY <1>3 DEF HandedOut, Running, Claim, IInv, TypeOK, RunsInv, Created, JobsOf
  <2>2. PICK t \in Settlements(JobsOf(r), old) :
          /\ Settles(JobsOf(r), Def[wf[r]].needs, old, t)
          /\ job' = [job EXCEPT ![r] = t]
          /\ run' = [run EXCEPT ![r] = RunAfter(JobsOf(r), t, run[r])]
          /\ wf' = wf
    BY <1>3 DEF Complete
  <2>3. /\ run[r] \in InFlight /\ t[j] = o
        /\ \A k \in JobKeys : k # j /\ job[r][k] # "pending" => t[k] = job[r][k]
        /\ \A k \in JobKeys : job[r][k] = "pending" => t[k] \in {"pending", "skipped", "queued"}
    <3> DEFINE w == wf[r]
               s == job[r]
    <3>1. /\ w \in Workflows /\ s \in [JobKeys -> JobStatus] /\ run[r] \in RunStatus
          /\ RunInv(w, s, run[r]) /\ j \in Def[w].jobs /\ s[j] = "running"
          /\ old \in [JobKeys -> JobStatus]
          /\ \A k \in JobKeys : old[k] = IF k = j THEN o ELSE s[k]
          /\ t \in Settlements(Def[w].jobs, old)
          /\ Settles(Def[w].jobs, Def[w].needs, old, t)
      BY <2>1, <2>2 DEF JobsOf, Outcomes, JobStatus, JobTerminal
    <3> HIDE DEF r, j, w, s, old
    <3>2. /\ run[r] \in InFlight /\ t[j] = o
          /\ \A k \in JobKeys : k # j /\ s[k] # "pending" => t[k] = s[k]
          /\ \A k \in JobKeys : s[k] = "pending" => t[k] \in {"pending", "skipped", "queued"}
      BY <3>1, Completing
    <3> QED BY <3>2 DEF s
  <2> HIDE DEF old, r, j
  <2>4. OutcomesKept
    BY <2>1, <2>2, <2>3 DEF IInv, TypeOK, InFlight, RunTerminal
  <2>5. \A k \in JobKeys : t[k] # job[r][k] => <<job[r][k], t[k]>> \in JobStep
    BY <2>1, <2>3 DEF JobStep
  <2>6. JobsFollowDiagram
    BY <2>1, <2>2, <2>5 DEF IInv, TypeOK
  <2> QED BY <2>4, <2>6
<1>4. ASSUME NEW n \in Runners, NEW o \in Outcomes, FinishComplete(n, o)
      PROVE  JobsFollowDiagram /\ OutcomesKept
  <2> DEFINE c == request[n]
  <2>1. c \in Claim /\ HandedOut(c)
    BY <1>4 DEF FinishComplete, IInv, TypeOK, ClaimsInv
  <2>2. CASE Finished(c)
    <3>1. UNCHANGED <<wf, run, job>>
      BY <1>4, <2>2 DEF FinishComplete, rows
    <3> QED BY <3>1
  <2>3. CASE ~Finished(c)
    <3>1. Complete(c, o) /\ Running(c)
      BY <1>4, <2>1, <2>3 DEF FinishComplete, Finished, HandedOut, Running
    <3> HIDE DEF c
    <3> QED BY <2>1, <3>1, <1>3
  <2> QED BY <2>2, <2>3
<1>5. ASSUME NEW c \in Claim, Reap(c)
      PROVE  JobsFollowDiagram /\ OutcomesKept
  BY <1>3, <1>5, RunningWasHandedOut DEF Reap, Outcomes
<1>6. ASSUME NEW q \in RunIds, CancelRun(q)
      PROVE  JobsFollowDiagram /\ OutcomesKept
  <2>1. /\ wf' = wf /\ run[q] \notin RunTerminal
        /\ job' = [job EXCEPT ![q] = CancelledJobs(q)] /\ run' = [run EXCEPT ![q] = "cancelled"]
    BY <1>6 DEF CancelRun, RunInFlight, InFlight, RunTerminal
  <2>2. \A j \in JobKeys : job[q][j] \in JobStatus
    BY DEF IInv, TypeOK
  <2>3. \A j \in JobKeys : CancelledJobs(q)[j] # job[q][j] =>
          <<job[q][j], CancelledJobs(q)[j]>> \in JobStep
    BY <2>2 DEF CancelledJobs, JobStep, JobStatus, Outcomes
  <2> QED BY <2>1, <2>3 DEF IInv, TypeOK
<1>7. ASSUME Quiet PROVE JobsFollowDiagram /\ OutcomesKept
  BY <1>7, QuietStep DEF rows
<1> QED BY <1>1, <1>2, <1>4, <1>5, <1>6, <1>7, Cases

\* Job statuses move only along the diagram of docs/WORKFLOW_RUNS.md.
THEOREM DiagramHolds == Spec => JobLifecycle
<1>1. IInv /\ [Next]_vars => [JobsFollowDiagram]_vars
  BY StepsFollowDiagram
<1> QED BY <1>1, Invariance, PTL DEF Spec, JobLifecycle

\* Finished runs keep their outcome.
THEOREM OutcomesAreFinal == Spec => OutcomeIsFinal
<1>1. IInv /\ [Next]_vars => [OutcomesKept]_vars
  BY StepsFollowDiagram
<1> QED BY <1>1, Invariance, PTL DEF Spec, OutcomeIsFinal

-----------------------------------------------------------------------------
(* Runs against each other, and the report                                 *)

\* Only a creation adds to the runs in flight, and it adds one.
LEMMA OnlyCreationAdds ==
  ASSUME IInv, [Next]_vars
  PROVE  \/ \E w \in Workflows, new \in RunIds, t \in Nat : CreateRun(w, new, t)
         \/ \A r \in RunIds : RunInFlight(r)' => RunInFlight(r) /\ wf'[r] = wf[r]
<1>1. ASSUME ~\E w \in Workflows, new \in RunIds, t \in Nat : CreateRun(w, new, t)
      PROVE  wf' = wf
  BY <1>1, Cases, QuietStep DEF ClaimNextJob, FinishComplete, Reap, Complete, CancelRun, rows
<1>2. OutcomesKept
  BY StepsFollowDiagram
<1>3. \A r \in RunIds : run[r] \in RunStatus
  BY DEF IInv, TypeOK
<1>4. IInv'
  BY NextIInv
<1> QED BY <1>1, <1>2, <1>3 DEF OutcomesKept, RunInFlight, Created, RunStatus, InFlight, RunTerminal

\* Two runs of a group are in flight together only if one of their files does
\* not cancel in progress.
THEOREM GroupsDoNotOverlap == Spec => []OneRunPerGroup
<1>1. Init => OneRunPerGroup
  BY DEF Init, OneRunPerGroup, RunInFlight, Created
<1>2. ASSUME IInv, OneRunPerGroup, [Next]_vars PROVE OneRunPerGroup'
  <2>1. ASSUME NEW w \in Workflows, NEW new \in RunIds, NEW t \in Nat, CreateRun(w, new, t)
        PROVE  OneRunPerGroup'
    <3>1. /\ wf' = [wf EXCEPT ![new] = w] /\ wf \in [RunIds -> Workflows \cup {NoWorkflow}]
          /\ \A r \in RunIds \ {new} : run'[r] = IF r \in Superseded(w) THEN "cancelled" ELSE run[r]
      BY <2>1, <1>2 DEF CreateRun, IInv, TypeOK
    <3>2. \A r \in RunIds \ {new} :
            RunInFlight(r)' => RunInFlight(r) /\ r \notin Superseded(w) /\ wf'[r] = wf[r]
      BY <3>1 DEF RunInFlight, Created, InFlight
    <3>3. \A r \in RunIds \ {new} :
            RunInFlight(r)' /\ Def[wf[r]].repo = Def[w].repo /\ Def[wf[r]].group = Def[w].group
              /\ Def[w].group # NoGroup => ~Def[w].supersedes
      BY <3>2 DEF Superseded, RunsInFlight
    <3>4. \A r \in RunIds \ {new} : wf'[r] = wf[r] /\ wf'[new] = w
      BY <3>1
    <3> QED BY <1>2, <3>2, <3>3, <3>4 DEF OneRunPerGroup
  <2>2. ASSUME \A r \in RunIds : RunInFlight(r)' => RunInFlight(r) /\ wf'[r] = wf[r]
        PROVE  OneRunPerGroup'
    BY <1>2, <2>2 DEF OneRunPerGroup
  <2> QED BY <1>2, <2>1, <2>2, OnlyCreationAdds
<1> QED BY <1>1, <1>2, Invariance, PTL DEF Spec

\* The limit on the runs in flight of a repository holds.
THEOREM LimitHolds == Spec => []InFlightLimit
<1> DEFINE Open(repo) == {r \in RunIds : Created(r) /\ run[r] \in InFlight /\ Def[wf[r]].repo = repo}
<1>1. Init => InFlightLimit
  <2> SUFFICES ASSUME Init, NEW repo \in Repos PROVE Cardinality(Open(repo)) <= MaxInFlight
    BY DEF InFlightLimit
  <2>1. Open(repo) = {}
    BY DEF Init, Created
  <2>2. Cardinality(Open(repo)) = 0
    <3> HIDE DEF Open
    <3> QED BY <2>1, FS_EmptySet
  <2> QED BY <2>2, LimitAssumption
<1>2. ASSUME IInv, InFlightLimit, [Next]_vars PROVE InFlightLimit'
  <2> SUFFICES ASSUME NEW repo \in Repos PROVE Cardinality(Open(repo)') <= MaxInFlight
    BY DEF InFlightLimit
  <2>1. /\ IsFiniteSet(Open(repo)) /\ IsFiniteSet(Open(repo)')
        /\ Cardinality(Open(repo)) \in Nat /\ Cardinality(Open(repo)') \in Nat
        /\ Cardinality(Open(repo)) <= MaxInFlight /\ MaxInFlight \in Nat
    <3>1. Open(repo) \in SUBSET RunIds /\ Open(repo)' \in SUBSET RunIds /\ IsFiniteSet(RunIds)
      BY LimitAssumption
    <3> QED BY <3>1, <1>2, FS_Subset, FS_CardinalityType, LimitAssumption DEF InFlightLimit
  <2>2. ASSUME NEW w \in Workflows, NEW new \in RunIds, NEW t \in Nat, CreateRun(w, new, t)
        PROVE  Cardinality(Open(repo)') <= MaxInFlight
    <3>1. /\ wf' = [wf EXCEPT ![new] = w] /\ wf \in [RunIds -> Workflows \cup {NoWorkflow}]
          /\ \A r \in RunIds \ {new} : run'[r] \in {"cancelled", run[r]}
      BY <2>2, <1>2 DEF CreateRun, IInv, TypeOK
    <3>2. \A r \in RunIds \ {new} : r \in Open(repo)' => r \in Open(repo)
      BY <3>1 DEF Created, InFlight
    <3>3. CASE Def[w].repo = repo
      <4>1. Cardinality(Open(repo)) < MaxInFlight
        BY <2>2, <3>3 DEF CreateRun, HasRoom, RunsInFlight, RunInFlight
      <4>2. Open(repo)' \in SUBSET (Open(repo) \cup {new})
        BY <3>2
      <4> HIDE DEF Open
      <4>3. /\ IsFiniteSet(Open(repo) \cup {new})
            /\ Cardinality(Open(repo) \cup {new}) \in Nat
            /\ Cardinality(Open(repo) \cup {new}) <= Cardinality(Open(repo)) + 1
        <5> DEFINE O == Open(repo)
        <5>1. IsFiniteSet(O) /\ Cardinality(O) \in Nat
          BY <2>1
        <5> HIDE DEF O
        <5>2. IsFiniteSet(O \cup {new}) /\ Cardinality(O \cup {new}) \in {Cardinality(O), Cardinality(O) + 1}
          BY <5>1, FS_AddElement
        <5>3. Cardinality(O \cup {new}) \in Nat /\ Cardinality(O \cup {new}) <= Cardinality(O) + 1
          BY <5>1, <5>2
        <5> QED BY <5>2, <5>3 DEF O
      <4>4. Cardinality(Open(repo)') <= Cardinality(Open(repo) \cup {new})
        BY <4>2, <4>3, FS_Subset
      <4> QED BY <2>1, <4>1, <4>3, <4>4
    <3>4. CASE Def[w].repo # repo
      <4>1. Open(repo)' \in SUBSET Open(repo)
        BY <3>1, <3>2, <3>4 DEF Created
      <4> HIDE DEF Open
      <4> QED BY <2>1, <4>1, FS_Subset
    <3> QED BY <3>3, <3>4
  <2>3. ASSUME \A r \in RunIds : RunInFlight(r)' => RunInFlight(r) /\ wf'[r] = wf[r]
        PROVE  Cardinality(Open(repo)') <= MaxInFlight
    <3>1. Open(repo)' \in SUBSET Open(repo)
      BY <2>3 DEF RunInFlight
    <3> HIDE DEF Open
    <3> QED BY <2>1, <3>1, FS_Subset
  <2> QED BY <1>2, <2>2, <2>3, OnlyCreationAdds
<1> QED BY <1>1, <1>2, Invariance, PTL DEF Spec

\* stateForRun says of each status what the documented table says
\* (workflow-checks.mjs:41-52, docs/WORKFLOW_CHECKS.md:28-35).
LEMMA TableIsFollowed == \A status \in RunStatus : StateForRun(status) = ToldAs[status]
BY DEF RunStatus, InFlight, RunTerminal, StateForRun, ToldAs

\* A handler leaves the outcomes alone that are there: a report writes what its run has
\* come to, and the runs it does not report keep their status.
LEMMA ReportKeepsChecks ==
  ASSUME IInv, IInv', CheckTellsTheTruth, OutcomesKept, NEW rs \in SUBSET RunIds, Notify(rs),
         \A r \in RunIds \ rs : wf'[r] = wf[r] /\ run'[r] = run[r],
         \A r \in rs : Created(r)'
  PROVE  CheckTellsTheTruth'
<1> DEFINE speakers == {r \in rs : Def[wf'[r]].actor}
<1>1. PICK heard \in SUBSET speakers :
        /\ \A r, q \in heard : CheckRow(wf'[r]) = CheckRow(wf'[q]) => r = q
        /\ check' = [c \in CheckRows |->
             IF \A r \in heard : CheckRow(wf'[r]) # c THEN check[c]
             ELSE LET last == CHOOSE r \in heard : CheckRow(wf'[r]) = c
                  IN  [run |-> last, state |-> StateForRun(run'[last])]]
        /\ unheard' = (unheard \ heard) \cup
             {r \in speakers : \A q \in heard : CheckRow(wf'[q]) # CheckRow(wf'[r])}
  BY DEF Notify
<1>2. \A c \in CheckRows : (\A r \in heard : CheckRow(wf'[r]) # c) => check'[c] = check[c]
  BY <1>1
<1>3. ASSUME NEW c \in CheckRows, NEW r \in heard, CheckRow(wf'[r]) = c
      PROVE  check'[c].run = r /\ check'[c].state = ToldAs[run'[r]]
  <2> DEFINE last == CHOOSE q \in heard : CheckRow(wf'[q]) = c
  <2>1. last \in heard /\ CheckRow(wf'[last]) = c
    BY <1>3
  <2>2. last = r
    BY <1>1, <1>3, <2>1
  <2> HIDE DEF last
  <2>3. check'[c] = [run |-> last, state |-> StateForRun(run'[last])]
    BY <1>1, <1>3 DEF last
  <2>4. run'[r] \in RunStatus
    BY <1>1, <1>3 DEF IInv, TypeOK, Created
  <2> QED BY <2>2, <2>3, <2>4, TableIsFollowed
<1>4. heard \subseteq RunIds /\ \A r \in heard : Created(r)' /\ Def[wf'[r]].actor
  BY <1>1
<1>5. \A r \in RunIds : Created(r) => Created(r)' /\ wf'[r] = wf[r]
  BY DEF OutcomesKept, Created
<1>6. \A r \in RunIds : Created(r) /\ ToldAs[run[r]] # "pending" => run'[r] = run[r]
  BY DEF OutcomesKept, ToldAs, RunTerminal, RunStatus, InFlight, IInv, TypeOK, Created
<1>7. \A c \in CheckRows : check[c].run \in RunIds \cup {NoRun}
  BY DEF IInv, TypeOK, CheckEntry
<1>8. ASSUME NEW c \in CheckRows, check'[c].run # NoRun
      PROVE  /\ wf'[check'[c].run] # NoWorkflow /\ Def[wf'[check'[c].run]].actor
             /\ CheckRow(wf'[check'[c].run]) = c
             /\ check'[c].state # "pending" => check'[c].state = ToldAs[run'[check'[c].run]]
  <2>1. CASE \E r \in heard : CheckRow(wf'[r]) = c
    <3>1. PICK r \in heard : CheckRow(wf'[r]) = c
      BY <2>1
    <3>2. check'[c].run = r /\ check'[c].state = ToldAs[run'[r]]
      BY <1>3, <1>8, <3>1
    <3> QED BY <1>4, <3>1, <3>2 DEF Created
  <2>2. CASE \A r \in heard : CheckRow(wf'[r]) # c
    <3> DEFINE r == check[c].run
    <3>1. check'[c] = check[c] /\ r # NoRun /\ r \in RunIds
      BY <1>2, <1>7, <1>8, <2>2
    <3>2. /\ Created(r) /\ Def[wf[r]].actor /\ CheckRow(wf[r]) = c
          /\ check[c].state # "pending" => check[c].state = ToldAs[run[r]]
      BY <3>1 DEF CheckTellsTheTruth
    <3> HIDE DEF r
    <3>3. check'[c].run = r /\ check'[c].state = check[c].state
      BY <3>1 DEF r
    <3>4. wf'[r] = wf[r] /\ (check[c].state # "pending" => run'[r] = run[r])
      BY <1>5, <1>6, <3>1, <3>2
    <3> QED BY <3>2, <3>3, <3>4 DEF Created
  <2> QED BY <2>1, <2>2
<1>9. ASSUME NEW r \in RunIds, Created(r)', Def[wf'[r]].actor, r \notin unheard'
      PROVE  /\ check'[CheckRow(wf'[r])].run # NoRun
             /\ check'[CheckRow(wf'[r])].run = r =>
                  check'[CheckRow(wf'[r])].state = ToldAs[run'[r]]
  <2> DEFINE c == CheckRow(wf'[r])
  <2>0. c \in CheckRows
    <3>1. wf'[r] \in Workflows
      BY <1>9 DEF IInv, TypeOK, Created
    <3> QED BY <3>1, WorkflowAssumption DEF CheckRow, CheckRows, WorkflowDef
  <2> HIDE DEF c
  <2>1. CASE \E q \in heard : CheckRow(wf'[q]) = c
    <3>1. PICK q \in heard : CheckRow(wf'[q]) = c
      BY <2>1
    <3>2. check'[c].run = q /\ check'[c].state = ToldAs[run'[q]] /\ q \in RunIds
      BY <1>3, <1>4, <2>0, <3>1
    <3>3. q # NoRun
      BY <3>2, LimitAssumption
    <3> QED BY <3>2, <3>3 DEF c
  <2>2. CASE \A q \in heard : CheckRow(wf'[q]) # c
    <3>1. r \notin speakers /\ r \notin unheard
      BY <1>1, <1>9, <2>2 DEF c
    <3>2. r \notin rs
      BY <1>9, <3>1
    <3>3. wf'[r] = wf[r] /\ run'[r] = run[r]
      BY <3>2
    <3>4. Created(r)
      BY <1>9, <3>3 DEF Created
    <3>5. check[c].run # NoRun /\ (check[c].run = r => check[c].state = ToldAs[run[r]])
      BY <1>9, <3>1, <3>3, <3>4 DEF CheckTellsTheTruth, c
    <3> QED BY <1>2, <2>0, <2>2, <3>3, <3>5 DEF c
  <2> QED BY <2>1, <2>2
<1> QED BY <1>8, <1>9 DEF CheckTellsTheTruth, Created

\* A status says what a run of that file on that commit came to, whoever wrote the row
\* and whatever was lost (workflow-checks.mjs:62-97, status-checks.mjs:39, 253-268).
THEOREM ChecksAreTrue == Spec => []CheckTellsTheTruth
<1>1. Init => CheckTellsTheTruth
  BY DEF Init, CheckTellsTheTruth, Created
<1>2. ASSUME IInv, CheckTellsTheTruth, [Next]_vars PROVE CheckTellsTheTruth'
  <2>0. IInv' /\ OutcomesKept
    BY <1>2, NextIInv, StepsFollowDiagram
  <2>1. ASSUME NEW w \in Workflows, NEW new \in RunIds, NEW t \in Nat, CreateRun(w, new, t)
        PROVE  CheckTellsTheTruth'
    <3> DEFINE rs == Superseded(w) \cup {new}
    <3>1. rs \in SUBSET RunIds /\ Notify(rs)
      BY <2>1 DEF CreateRun, Superseded, RunsInFlight
    <3>2. \A r \in RunIds \ rs : wf'[r] = wf[r] /\ run'[r] = run[r]
      BY <2>1, <1>2 DEF CreateRun, IInv, TypeOK
    <3>3. \A r \in rs : Created(r)'
      BY <2>1, <1>2, WorkflowAssumption
      DEF CreateRun, IInv, TypeOK, Created, Superseded, RunsInFlight, RunInFlight
    <3> HIDE DEF rs
    <3> QED BY <1>2, <2>0, <3>1, <3>2, <3>3, ReportKeepsChecks
  <2>2. ASSUME NEW r \in RunIds, Created(r), Notify({r}), wf' = wf,
               \A q \in RunIds \ {r} : run'[q] = run[q]
        PROVE  CheckTellsTheTruth'
    <3>1. {r} \in SUBSET RunIds /\ \A q \in {r} : Created(q)'
      BY <2>2 DEF Created
    <3> QED BY <1>2, <2>0, <2>2, <3>1, ReportKeepsChecks
  <2>3. ASSUME NEW n \in Runners, NEW c \in Claim, NEW d \in BOOLEAN, ClaimNextJob(n, c, d)
        PROVE  CheckTellsTheTruth'
    <3>1. c[1] \in RunIds /\ Created(c[1]) /\ Notify({c[1]}) /\ wf' = wf
      BY <2>3 DEF ClaimNextJob, Oldest, Eligible, Claim
    <3>2. \A q \in RunIds \ {c[1]} : run'[q] = run[q]
      BY <2>3, <1>2 DEF ClaimNextJob, IInv, TypeOK
    <3> QED BY <2>2, <3>1, <3>2
  <2>4. ASSUME NEW c \in Claim, HandedOut(c), NEW o \in Outcomes, Complete(c, o)
        PROVE  CheckTellsTheTruth'
    <3>1. c[1] \in RunIds /\ Created(c[1]) /\ Notify({c[1]}) /\ wf' = wf
      BY <2>4 DEF Complete, HandedOut, Claim
    <3>2. \A q \in RunIds \ {c[1]} : run'[q] = run[q]
      BY <2>4, <1>2 DEF Complete, IInv, TypeOK
    <3> QED BY <2>2, <3>1, <3>2
  <2>5. ASSUME NEW n \in Runners, NEW o \in Outcomes, FinishComplete(n, o)
        PROVE  CheckTellsTheTruth'
    <3> DEFINE c == request[n]
    <3>1. c \in Claim /\ HandedOut(c)
      BY <2>5, <1>2 DEF FinishComplete, IInv, TypeOK, ClaimsInv
    <3>2. CASE Finished(c)
      BY <2>5, <3>2, <1>2 DEF FinishComplete, rows, checks, CheckTellsTheTruth, Created
    <3>3. CASE ~Finished(c)
      BY <2>5, <3>1, <3>3, <2>4 DEF FinishComplete
    <3> QED BY <3>2, <3>3
  <2>6. ASSUME NEW c \in Claim, Reap(c) PROVE CheckTellsTheTruth'
    BY <2>4, <2>6, <1>2, RunningWasHandedOut DEF Reap, Outcomes
  <2>7. ASSUME NEW q \in RunIds, CancelRun(q) PROVE CheckTellsTheTruth'
    <3>1. Created(q) /\ Notify({q}) /\ wf' = wf /\ \A r \in RunIds \ {q} : run'[r] = run[r]
      BY <2>7, <1>2 DEF CancelRun, RunInFlight, IInv, TypeOK
    <3> QED BY <2>2, <3>1
  <2>8. ASSUME Quiet PROVE CheckTellsTheTruth'
    BY <1>2, <2>8, QuietStep DEF CheckTellsTheTruth, Created, rows, checks
  <2> QED BY <1>2, <2>1, <2>3, <2>5, <2>6, <2>7, <2>8, Cases
<1> QED BY <1>1, <1>2, Invariance, PTL DEF Spec

-----------------------------------------------------------------------------
(* Refinement: every run is a RunContract                                  *)

\* What completeJob and advanceRun leave, said without advanceRun's loop.
LEMMA Finishing ==
  ASSUME NEW w \in Workflows, NEW s \in [JobKeys -> JobStatus], NEW status \in RunStatus,
         RunInv(w, s, status), NEW j \in Def[w].jobs, s[j] = "running",
         NEW outcome \in Outcomes,
         NEW old \in [JobKeys -> JobStatus],
         \A k \in JobKeys : old[k] = IF k = j THEN outcome ELSE s[k],
         NEW t \in Settlements(Def[w].jobs, old), Settles(Def[w].jobs, Def[w].needs, old, t)
  PROVE  /\ t \in [JobKeys -> JobStatus]
         /\ \A k \in JobKeys \ Def[w].jobs : t[k] = s[k]
         /\ \A k \in Def[w].jobs :
              IF old[k] # "pending" THEN t[k] = old[k]
              ELSE \/ t[k] = "pending" /\ \E i \in Def[w].needs[k] : t[i] \notin JobTerminal
                   \/ t[k] = "queued"  /\ \A i \in Def[w].needs[k] : t[i] = "success"
                   \/ /\ t[k] = "skipped"
                      /\ \A i \in Def[w].needs[k] : t[i] \in JobTerminal
                      /\ \E i \in Def[w].needs[k] : t[i] # "success"
         /\ RunAfter(Def[w].jobs, t, status)
              = IF \E k \in Def[w].jobs : t[k] \notin JobTerminal THEN "running"
                ELSE Conclusion(Def[w].jobs, t)
<1>1. /\ t \in [JobKeys -> JobStatus]
      /\ \A k \in JobKeys : k \notin Waiting(Def[w].jobs, old) => t[k] = old[k]
  BY SettlementsType, Definitions
<1>2. \A k \in JobKeys \ Def[w].jobs : t[k] = s[k]
  BY <1>1 DEF Waiting
<1>3. \A k \in Def[w].jobs :
        k \in JobKeys /\ IF old[k] # "pending" THEN t[k] = old[k]
                         ELSE t[k] = Resolved(Def[w].needs, t, k)
  BY <1>1, Definitions DEF Settles, Waiting
<1>4. \A k \in Def[w].jobs :
        IF old[k] # "pending" THEN t[k] = old[k]
        ELSE \/ t[k] = "pending" /\ \E i \in Def[w].needs[k] : t[i] \notin JobTerminal
             \/ t[k] = "queued"  /\ \A i \in Def[w].needs[k] : t[i] = "success"
             \/ /\ t[k] = "skipped"
                /\ \A i \in Def[w].needs[k] : t[i] \in JobTerminal
                /\ \E i \in Def[w].needs[k] : t[i] # "success"
  BY <1>3 DEF Resolved
<1>5. status \in InFlight
  BY Completing
<1>6. RunAfter(Def[w].jobs, t, status)
        = IF \E k \in Def[w].jobs : t[k] \notin JobTerminal THEN "running"
          ELSE Conclusion(Def[w].jobs, t)
  BY <1>5 DEF RunAfter, InFlight
<1> QED BY <1>1, <1>2, <1>4, <1>6

\* So, to its run, completeJob is a Finish of the contract.
LEMMA CompleteIsFinish ==
  ASSUME IInv, NEW c \in Claim, HandedOut(c), Running(c), NEW o \in Outcomes, Complete(c, o)
  PROVE  ContractSteps
<1> DEFINE r   == c[1]
           j   == c[2]
           old == [job[r] EXCEPT ![j] = o]
<1>1. /\ r \in RunIds /\ j \in JobKeys /\ job[r][j] = "running" /\ wf[r] \in Workflows
      /\ wf[r] # NoWorkflow
      /\ job[r] \in [JobKeys -> JobStatus] /\ run[r] \in RunStatus /\ j \in Def[wf[r]].jobs
      /\ RunInv(wf[r], job[r], run[r])
  BY DEF HandedOut, Running, Claim, IInv, TypeOK, RunsInv, Created, JobsOf
<1>2. PICK t \in Settlements(JobsOf(r), old) :
        /\ Settles(JobsOf(r), Def[wf[r]].needs, old, t)
        /\ job' = [job EXCEPT ![r] = t]
        /\ run' = [run EXCEPT ![r] = RunAfter(JobsOf(r), t, run[r])]
        /\ wf' = wf
  BY DEF Complete
<1>3. /\ job'[r] = t /\ run'[r] = RunAfter(Def[wf[r]].jobs, t, run[r]) /\ wf'[r] = wf[r]
      /\ \A q \in RunIds : q # r => job'[q] = job[q] /\ run'[q] = run[q]
  BY <1>1, <1>2 DEF IInv, TypeOK, JobsOf
<1>4. /\ old \in [JobKeys -> JobStatus]
      /\ \A k \in JobKeys : old[k] = IF k = j THEN o ELSE job[r][k]
      /\ t \in Settlements(Def[wf[r]].jobs, old)
      /\ Settles(Def[wf[r]].jobs, Def[wf[r]].needs, old, t)
  BY <1>1, <1>2 DEF JobsOf, Outcomes, JobStatus, JobTerminal
<1>5. /\ t \in [JobKeys -> JobStatus]
      /\ \A k \in JobKeys \ Def[wf[r]].jobs : t[k] = job[r][k]
      /\ \A k \in Def[wf[r]].jobs :
           IF old[k] # "pending" THEN t[k] = old[k]
           ELSE \/ t[k] = "pending" /\ \E i \in Def[wf[r]].needs[k] : t[i] \notin JobTerminal
                \/ t[k] = "queued"  /\ \A i \in Def[wf[r]].needs[k] : t[i] = "success"
                \/ /\ t[k] = "skipped"
                   /\ \A i \in Def[wf[r]].needs[k] : t[i] \in JobTerminal
                   /\ \E i \in Def[wf[r]].needs[k] : t[i] # "success"
      /\ run'[r] = IF \E k \in Def[wf[r]].jobs : t[k] \notin JobTerminal THEN "running"
                   ELSE Conclusion(Def[wf[r]].jobs, t)
  <2> HIDE DEF old
  <2>1. RunAfter(Def[wf[r]].jobs, t, run[r])
          = IF \E k \in Def[wf[r]].jobs : t[k] \notin JobTerminal THEN "running"
            ELSE Conclusion(Def[wf[r]].jobs, t)
    BY <1>1, <1>4, Finishing
  <2> QED BY <1>1, <1>3, <1>4, <2>1, Finishing, SMTT(20)
<1> HIDE DEF r, j
<1>6. Contract(r)!Finish(j, o)
  <2>1. Contract(r)!Settled(old, t)
    BY <1>5 DEF Contract!Settled, Contract!Jobs, Contract!Ended, JobTerminal
  <2>2. run'[r] = IF \E x \in {t[k] : k \in Def[wf[r]].jobs} : x \notin JobTerminal THEN "running"
                  ELSE IF "failure" \in {t[k] : k \in Def[wf[r]].jobs} THEN "failure"
                  ELSE IF "cancelled" \in {t[k] : k \in Def[wf[r]].jobs} THEN "cancelled"
                  ELSE "success"
    BY <1>5 DEF Conclusion
  <2>3. JobStatus = {"pending", "queued", "running"} \cup Contract(r)!Ended
    BY DEF JobStatus, JobTerminal, Contract!Ended
  <2> QED
    BY <1>1, <1>3, <1>5, <2>1, <2>2, <2>3
    DEF Contract!Finish, Contract!Jobs, Contract!Ended, JobTerminal
<1>7. Contract(r)!Next
  BY <1>1, <1>6 DEF Contract!Next, Outcomes
<1> QED BY <1>1, <1>2, <1>3, <1>7 DEF ContractSteps

\* claimNextJob is a Start of the job's run.
LEMMA ClaimIsStart ==
  ASSUME IInv, NEW n \in Runners, NEW c \in Claim, NEW d \in BOOLEAN, ClaimNextJob(n, c, d)
  PROVE  ContractSteps
<1> DEFINE r == c[1]
           j == c[2]
<1>1. /\ r \in RunIds /\ j \in JobKeys /\ wf[r] # NoWorkflow
      /\ j \in Def[wf[r]].jobs /\ job[r][j] = "queued"
  BY DEF ClaimNextJob, Oldest, Eligible, Claim, Created
<1>2. /\ job'[r] = [job[r] EXCEPT ![j] = "running"] /\ wf' = wf
      /\ run'[r] = IF run[r] = "queued" THEN "running" ELSE run[r]
      /\ \A q \in RunIds : q # r => job'[q] = job[q] /\ run'[q] = run[q]
  BY <1>1 DEF ClaimNextJob, IInv, TypeOK
<1> HIDE DEF r, j
<1>3. Contract(r)!Start(j)
  BY <1>1, <1>2 DEF Contract!Start, Contract!Jobs
<1>4. Contract(r)!Next
  BY <1>1, <1>3 DEF Contract!Next
<1> QED BY <1>1, <1>2, <1>4 DEF ContractSteps

\* What cancelRun does to a run in flight, for its own sake or because a newer
\* run of the group supersedes it, is a Cancel.
LEMMA CancelIsCancel ==
  ASSUME NEW r \in RunIds, RunInFlight(r), wf'[r] = wf[r],
         run'[r] = "cancelled", job'[r] = CancelledJobs(r)
  PROVE  Contract(r)!Next
<1>1. Contract(r)!Cancel
  BY DEF Contract!Cancel, Contract!Jobs, Contract!Ended, CancelledJobs, JobsOf, JobTerminal,
         RunInFlight, InFlight
<1> QED BY <1>1 DEF Contract!Next, RunInFlight, Created

\* createWorkflowRun creates one run and cancels the ones it supersedes.
LEMMA CreateIsCreate ==
  ASSUME IInv, NEW w \in Workflows, NEW new \in RunIds, NEW t \in Nat, CreateRun(w, new, t)
  PROVE  ContractSteps
<1> SUFFICES ASSUME NEW r \in RunIds
             PROVE  Contract(r)!Next \/ UNCHANGED <<wf[r], run[r], job[r]>>
  BY DEF ContractSteps
<1>1. /\ wf'[new] = w /\ \A q \in RunIds : q # new => wf'[q] = wf[q]
      /\ wf[new] = NoWorkflow /\ \A q \in Superseded(w) : RunInFlight(q) /\ q # new
  BY DEF CreateRun, IInv, TypeOK, Superseded, RunsInFlight, RunInFlight, Created
<1>2. /\ run' = [q \in RunIds |-> IF q = new THEN "queued"
                                  ELSE IF q \in Superseded(w) THEN "cancelled" ELSE run[q]]
      /\ job' = [q \in RunIds |-> IF q = new THEN InitialJobs(w)
                                  ELSE IF q \in Superseded(w) THEN CancelledJobs(q) ELSE job[q]]
  BY DEF CreateRun
<1>3. CASE r = new
  <2>1. run'[r] = "queued" /\ job'[r] = InitialJobs(w)
    BY <1>2, <1>3
  <2>2. Contract(r)!Create(w)
    BY <1>1, <1>3, <2>1 DEF Contract!Create, InitialJobs
  <2> QED BY <2>2 DEF Contract!Next
<1>4. CASE r \in Superseded(w)
  <2>1. run'[r] = "cancelled" /\ job'[r] = CancelledJobs(r) /\ wf'[r] = wf[r] /\ RunInFlight(r)
    BY <1>1, <1>2, <1>4
  <2> QED BY <2>1, CancelIsCancel
<1>5. CASE r # new /\ r \notin Superseded(w)
  BY <1>1, <1>2, <1>5
<1> QED BY <1>3, <1>4, <1>5

\* Every handler keeps the contract of every run.
LEMMA StepsKeepContract == IInv /\ [Next]_vars => ContractSteps
<1> SUFFICES ASSUME IInv, [Next]_vars PROVE ContractSteps
  OBVIOUS
<1>1. ASSUME UNCHANGED rows PROVE ContractSteps
  BY <1>1 DEF rows, ContractSteps
<1>2. ASSUME NEW w \in Workflows, NEW q \in RunIds, NEW t \in Nat, CreateRun(w, q, t)
      PROVE  ContractSteps
  BY <1>2, CreateIsCreate
<1>3. ASSUME NEW n \in Runners, NEW c \in Claim, NEW d \in BOOLEAN, ClaimNextJob(n, c, d)
      PROVE  ContractSteps
  BY <1>3, ClaimIsStart
<1>4. ASSUME NEW n \in Runners, NEW o \in Outcomes, FinishComplete(n, o) PROVE ContractSteps
  <2>1. CASE Finished(request[n])
    BY <1>1, <1>4, <2>1 DEF FinishComplete
  <2>2. CASE ~Finished(request[n])
    <3>1. request[n] \in Claim /\ HandedOut(request[n]) /\ Complete(request[n], o)
      BY <1>4, <2>2 DEF FinishComplete, IInv, ClaimsInv, TypeOK
    <3>2. Running(request[n])
      BY <3>1, <2>2 DEF HandedOut, Finished, Running
    <3> QED BY <3>1, <3>2, CompleteIsFinish
  <2> QED BY <2>1, <2>2
<1>5. ASSUME NEW c \in Claim, Reap(c) PROVE ContractSteps
  <2>1. Running(c) /\ Complete(c, "failure") /\ "failure" \in Outcomes
    BY <1>5 DEF Reap, Outcomes
  <2> QED BY <2>1, RunningWasHandedOut, CompleteIsFinish
<1>6. ASSUME NEW q \in RunIds, CancelRun(q) PROVE ContractSteps
  <2>1. /\ RunInFlight(q) /\ wf' = wf /\ run'[q] = "cancelled" /\ job'[q] = CancelledJobs(q)
        /\ \A r \in RunIds : r # q => run'[r] = run[r] /\ job'[r] = job[r]
    BY <1>6 DEF CancelRun, IInv, TypeOK
  <2>2. Contract(q)!Next
    BY <2>1, CancelIsCancel
  <2> QED BY <2>1, <2>2 DEF ContractSteps
<1>7. ASSUME Quiet PROVE ContractSteps
  BY <1>1, <1>7, QuietStep
<1> QED BY <1>2, <1>3, <1>4, <1>5, <1>6, <1>7, Cases

\* WorkflowRuns implements RunContract for every run: whatever the runners,
\* the reaper and the other runs do, its rows move as one run's contract says.
THEOREM ImplementsContract == Spec => KeepsContract
<1>1. Init => \A r \in RunIds : Contract(r)!Init
  BY DEF Init, Contract!Init
<1>2. IInv /\ [Next]_vars => [ContractSteps]_vars
  BY StepsKeepContract
<1> QED BY <1>1, <1>2, Invariance, PTL DEF Spec, KeepsContract

=============================================================================

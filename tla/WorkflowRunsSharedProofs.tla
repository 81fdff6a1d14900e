----------------------- MODULE WorkflowRunsSharedProofs -----------------------
(***************************************************************************)
(* One server process, whose handlers run statement by statement and may   *)
(* be cut off between two of them: what it hands out, for any jobs and any *)
(* dependencies, and that it is RunContract until it dies.  With a second  *)
(* process neither holds, which is why both are proved from OneProcess.    *)
(***************************************************************************)
EXTENDS WorkflowRunsShared, FiniteSetTheorems, WellFoundedInduction, TLAPS


\* One server process: whatever it remembers of the rows is what they are.
OneProcess == \A p, q \in Procs : p = q

SharedShape ==
  /\ created \in BOOLEAN /\ run \in InFlight \cup RunEnded
  /\ job \in [JobKeys -> JobStatus] /\ handed \in [JobKeys -> 0 .. 2]
  /\ requests \subseteq JobKeys \X Outcomes
  /\ at \in [Procs -> Steps] /\ mem \in [Procs -> Memory]

MemoryIsFresh ==
  \A p \in Procs :
    /\ at[p] \in {"select", "update"} => mem[p].job \in JobKeys
    /\ at[p] = "update" => job[mem[p].job] \notin Ended
    /\ at[p] = "advance" => mem[p].jobs = job
    /\ at[p] = "conclude" => mem[p].run = Verdict(job)
    /\ at[p] = "cancelRun" => \A j \in JobKeys : job[j] \in Ended

\* What was handed out once is not offered again, and a run ends with its last job.
HandedIsTaken ==
  \A j \in JobKeys : IF handed[j] = 0 THEN TRUE ELSE handed[j] = 1 /\ job[j] \notin {"pending", "queued"}
RunEndsLast == run \in RunEnded => \A j \in JobKeys : job[j] \in Ended
NotBefore ==
  ~created => /\ run = "queued" /\ requests = {} /\ \A p \in Procs : at[p] = "idle"
              /\ \A j \in JobKeys : handed[j] = 0
InOrder == \A j \in JobKeys : created /\ job[j] \in {"queued", "running"} => \A k \in Needs[j] : job[k] = "success"

SharedInv ==
  SharedShape /\ MemoryIsFresh /\ HandedIsTaken /\ RunEndsLast /\ NotBefore /\ InOrder

-----------------------------------------------------------------------------
\* Of any jobs one comes first, and First is it.
LEMMA FirstIsLeast ==
  ASSUME NEW T \in SUBSET JobKeys, T # {}
  PROVE  First(T) \in T /\ \A k \in T : Position[First(T)] <= Position[k]
<1> DEFINE below(j) == 0 .. (Position[j] - 1)
           S        == {below(j) : j \in T}
           R        == StrictSubsetOrdering(Nat)
<1>1. \A j \in T : Position[j] \in Nat
  BY SharedAssumption
<1>2. S \subseteq FiniteSubsetsOf(Nat)
  <2> SUFFICES ASSUME NEW j \in T PROVE below(j) \in FiniteSubsetsOf(Nat)
    OBVIOUS
  <2>1. 0 \in Int /\ Position[j] - 1 \in Int /\ below(j) \subseteq Nat
    BY <1>1
  <2>2. IsFiniteSet(below(j))
    BY <2>1, FS_Interval
  <2> QED BY <2>1, <2>2 DEF FiniteSubsetsOf
<1>3. \E x \in S : \A y \in S : ~ (<<y, x>> \in R)
  <2>1. S # {} /\ IsWellFoundedOn(R, FiniteSubsetsOf(Nat))
    BY FS_StrictSubsetOrderingWellFounded
  <2> HIDE DEF S, R
  <2> QED BY <1>2, <2>1, WFMin
<1>4. PICK j \in T : \A k \in T : <<below(k), below(j)>> \notin R
  BY <1>3
<1>5. ASSUME NEW k \in T, Position[k] < Position[j] PROVE FALSE
  <2>1. below(k) \subseteq below(j) /\ Position[k] \in below(j) /\ Position[k] \notin below(k)
    BY <1>1, <1>5
  <2>2. below(k) \in SUBSET Nat /\ below(j) \in SUBSET Nat
    BY <1>1
  <2>3. <<below(k), below(j)>> \in R
    <3> HIDE DEF below
    <3> QED BY <2>1, <2>2 DEF StrictSubsetOrdering
  <2> QED BY <1>4, <2>3
<1>6. \A k \in T : Position[j] <= Position[k]
  BY <1>1, <1>5
<1>7. \E i \in T : \A k \in T : Position[i] <= Position[k]
  BY <1>6
<1> QED BY <1>7, Zenon DEF First

LEMMA SharedStarts == Init => SharedInv
<1> SUFFICES ASSUME Init PROVE SharedInv
  OBVIOUS
<1>1. SharedShape
  <2>1. created \in BOOLEAN
    BY Zenon DEF Init
  <2>2. Nothing \in Memory
    BY DEF Nothing, Memory, NoJob, Outcomes, Blank, JobStatus, InFlight
  <2>3. /\ run \in InFlight \cup RunEnded /\ job \in [JobKeys -> JobStatus] /\ handed \in [JobKeys -> 0 .. 2]
        /\ requests \subseteq JobKeys \X Outcomes /\ at \in [Procs -> Steps] /\ mem \in [Procs -> Memory]
    BY <2>2 DEF Init, InFlight, Blank, JobStatus, Steps
  <2> QED BY <2>1, <2>3, Zenon DEF SharedShape
<1>2. MemoryIsFresh /\ HandedIsTaken /\ RunEndsLast /\ NotBefore /\ InOrder
  BY DEF Init, MemoryIsFresh, HandedIsTaken, RunEndsLast, NotBefore, InOrder, RunEnded
<1> QED BY <1>1, <1>2 DEF SharedInv

\* What changes neither the rows nor what is handed out.
LEMMA RowsStay ==
  ASSUME SharedInv, created, created', UNCHANGED <<run, job, handed>>, SharedShape', MemoryIsFresh'
  PROVE  SharedInv'
BY DEF SharedInv, HandedIsTaken, RunEndsLast, NotBefore, InOrder

\* A handler goes to another statement with what it remembers, the others being idle.
LEMMA HandlerMoves ==
  ASSUME OneProcess, SharedInv, NEW p \in Procs, NEW step \in Steps, NEW m \in Memory,
         Goto(p, step), Remembers(p, m)
  PROVE  /\ at' \in [Procs -> Steps] /\ mem' \in [Procs -> Memory]
         /\ \A q \in Procs : at'[q] = step /\ mem'[q] = m
BY DEF OneProcess, SharedInv, SharedShape, Goto, Remembers

LEMMA SharedSteps == ASSUME OneProcess PROVE SharedInv /\ [Next]_vars => SharedInv'
<1> SUFFICES ASSUME SharedInv, [Next]_vars PROVE SharedInv'
  OBVIOUS
<1> USE DEF Goto, Remembers
<1>0. SharedShape /\ MemoryIsFresh /\ HandedIsTaken /\ RunEndsLast /\ NotBefore /\ InOrder
  BY DEF SharedInv
<1>a. Nothing \in Memory
  BY DEF Nothing, Memory, NoJob, Outcomes, Blank, JobStatus, InFlight
<1>1. ASSUME NEW p \in Procs, CreateRun(p) PROVE SharedInv'
  <2>1. /\ created' = TRUE /\ ~created /\ run' = run /\ handed' = handed /\ requests' = requests /\ mem' = mem
        /\ job' = [j \in JobKeys |-> IF Needs[j] = {} THEN "queued" ELSE "pending"]
        /\ at' = [at EXCEPT ![p] = "notify"]
    BY <1>1 DEF CreateRun
  <2>2. SharedShape'
    <3>1. created' \in BOOLEAN
      BY <2>1
    <3>2. job' \in [JobKeys -> JobStatus] /\ at' \in [Procs -> Steps]
      BY <1>0, <2>1 DEF SharedShape, JobStatus, Steps
    <3> QED BY <1>0, <2>1, <3>1, <3>2, Zenon DEF SharedShape
  <2>3. MemoryIsFresh'
    BY <1>0, <2>1 DEF SharedShape, MemoryIsFresh, OneProcess
  <2>4. HandedIsTaken' /\ NotBefore'
    BY <1>0, <2>1 DEF HandedIsTaken, NotBefore
  <2>5. RunEndsLast' /\ InOrder'
    BY <1>0, <2>1 DEF RunEndsLast, RunEnded, NotBefore, InOrder
  <2> QED BY <2>2, <2>3, <2>4, <2>5 DEF SharedInv
<1>2. ASSUME NEW p \in Procs, Claim(p) PROVE SharedInv'
  <2>1. PICK j \in JobKeys : /\ job[j] = "queued" /\ job' = [job EXCEPT ![j] = "running"]
                             /\ handed' = [handed EXCEPT ![j] = IF @ = 2 THEN 2 ELSE @ + 1]
    <3>1. First(Queued) \in Queued
      BY <1>2, FirstIsLeast DEF Claim, Queued
    <3> QED BY <1>2, <3>1 DEF Claim, Queued
  <2>2. /\ created /\ created' /\ run' = run /\ requests' = requests /\ mem' = mem
        /\ at' = [at EXCEPT ![p] = "claimed"]
    BY <1>2 DEF Claim
  <2>3. handed[j] = 0 /\ handed' = [handed EXCEPT ![j] = 1]
    <3>1. handed[j] = 0
      BY <1>0, <2>1 DEF HandedIsTaken
    <3> QED BY <1>0, <2>1, <3>1 DEF SharedShape
  <2>4. SharedShape'
    <3>1. job' \in [JobKeys -> JobStatus] /\ handed' \in [JobKeys -> 0 .. 2] /\ at' \in [Procs -> Steps]
      BY <1>0, <2>1, <2>2, <2>3 DEF SharedShape, JobStatus, Steps
    <3> QED BY <1>0, <2>2, <3>1, Zenon DEF SharedShape
  <2>5. MemoryIsFresh'
    BY <1>0, <2>2 DEF SharedShape, MemoryIsFresh, OneProcess
  <2>6. HandedIsTaken' /\ RunEndsLast' /\ NotBefore'
    BY <1>0, <2>1, <2>2, <2>3 DEF SharedShape, HandedIsTaken, RunEndsLast, NotBefore, Ended
  <2>7. InOrder'
    BY <1>0, <2>1, <2>2, SharedAssumption DEF SharedShape, InOrder
  <2> QED BY <2>4, <2>5, <2>6, <2>7 DEF SharedInv
<1>3. ASSUME NEW p \in Procs, ClaimedRun(p) PROVE SharedInv'
  <2>1. /\ created /\ created' /\ run' = (IF run = "queued" THEN "running" ELSE run)
        /\ UNCHANGED <<job, handed, requests, mem>> /\ at' = [at EXCEPT ![p] = "notify"]
    BY <1>0, <1>3 DEF ClaimedRun, NotBefore
  <2>2. SharedShape' /\ MemoryIsFresh'
    BY <1>0, <2>1 DEF SharedShape, InFlight, Steps, MemoryIsFresh, OneProcess
  <2>3. HandedIsTaken' /\ RunEndsLast' /\ NotBefore' /\ InOrder'
    BY <1>0, <2>1 DEF HandedIsTaken, RunEndsLast, RunEnded, NotBefore, InOrder
  <2> QED BY <2>2, <2>3 DEF SharedInv
<1>4. ASSUME NEW j \in JobKeys, NEW o \in Outcomes, Authorize(j, o) PROVE SharedInv'
  <2>1. UNCHANGED <<run, job, handed, at, mem>> /\ created /\ created' /\ requests' = requests \cup {<<j, o>>}
    BY <1>4 DEF Authorize, rowVars
  <2> QED BY <1>0, <2>1, RowsStay DEF SharedShape, MemoryIsFresh
<1>5. ASSUME NEW p \in Procs, NEW r \in JobKeys \X Outcomes, Complete(p, r) PROVE SharedInv'
  <2>1. /\ UNCHANGED <<run, job, handed>> /\ created /\ created' /\ requests' \subseteq requests
        /\ Goto(p, "select") /\ Remembers(p, [Nothing EXCEPT !.job = r[1], !.outcome = r[2]])
    BY <1>0, <1>5 DEF Complete, rowVars, NotBefore
  <2>2. [Nothing EXCEPT !.job = r[1], !.outcome = r[2]] \in Memory /\ "select" \in Steps
    BY <1>a DEF Memory, Steps
  <2>3. SharedShape' /\ MemoryIsFresh'
    BY <1>0, <1>a, <2>1, <2>2, HandlerMoves DEF SharedShape, MemoryIsFresh, Memory
  <2> QED BY <2>1, <2>3, RowsStay
<1>6. ASSUME NEW p \in Procs, NEW j \in JobKeys, Reap(p, j) PROVE SharedInv'
  <2>1. /\ UNCHANGED <<run, job, handed, requests>> /\ created /\ created'
        /\ Goto(p, "select") /\ Remembers(p, [Nothing EXCEPT !.job = j, !.outcome = "failure"])
    BY <1>6 DEF Reap, rowVars
  <2>2. [Nothing EXCEPT !.job = j, !.outcome = "failure"] \in Memory /\ "select" \in Steps
    BY <1>a DEF Memory, Steps, Outcomes
  <2>3. SharedShape' /\ MemoryIsFresh'
    BY <1>0, <1>a, <2>1, <2>2, HandlerMoves DEF SharedShape, MemoryIsFresh, Memory
  <2> QED BY <2>1, <2>3, RowsStay
<1>7. ASSUME NEW p \in Procs, Select(p) PROVE SharedInv'
  <2>1. /\ UNCHANGED <<run, job, handed, requests>> /\ created /\ created'
        /\ \/ at' = [at EXCEPT ![p] = "idle"] /\ mem' = [mem EXCEPT ![p] = Nothing]
           \/ job[mem[p].job] \notin Ended /\ at[p] = "select" /\ at' = [at EXCEPT ![p] = "update"] /\ mem' = mem
    BY <1>0, <1>7 DEF Select, rowVars, NotBefore
  <2>2. SharedShape' /\ MemoryIsFresh'
    BY <1>0, <1>a, <2>1 DEF SharedShape, Steps, MemoryIsFresh, OneProcess
  <2> QED BY <2>1, <2>2, RowsStay
<1>8. ASSUME NEW p \in Procs, UpdateJob(p) PROVE SharedInv'
  <2> DEFINE j == mem[p].job
  <2>1. /\ at[p] = "update" /\ j \in JobKeys /\ job[j] \notin Ended /\ mem[p].outcome \in Outcomes
        /\ job' = [job EXCEPT ![j] = mem[p].outcome] /\ UNCHANGED <<run, handed, requests>> /\ created /\ created'
        /\ Goto(p, "read") /\ Remembers(p, Nothing)
    BY <1>0, <1>8 DEF UpdateJob, MemoryIsFresh, SharedShape, Memory, NotBefore
  <2> HIDE DEF j
  <2>2. job' \in [JobKeys -> JobStatus] /\ job'[j] \in Ended /\ \A k \in JobKeys \ {j} : job'[k] = job[k]
    BY <1>0, <2>1 DEF SharedShape, JobStatus, Outcomes, Ended
  <2>3. SharedShape' /\ MemoryIsFresh'
    BY <1>0, <1>a, <2>1, <2>2 DEF SharedShape, Steps, MemoryIsFresh, OneProcess
  <2>4. HandedIsTaken' /\ RunEndsLast' /\ NotBefore'
    BY <1>0, <2>1, <2>2 DEF HandedIsTaken, RunEndsLast, NotBefore, Ended
  <2>5. InOrder'
    BY <1>0, <2>1, <2>2, SharedAssumption DEF InOrder, Ended
  <2> QED BY <2>3, <2>4, <2>5 DEF SharedInv
<1>9. ASSUME NEW p \in Procs, ReadJobs(p) PROVE SharedInv'
  <2>1. /\ UNCHANGED <<run, job, handed, requests>> /\ created /\ created'
        /\ Goto(p, "advance") /\ Remembers(p, [Nothing EXCEPT !.jobs = job])
    BY <1>0, <1>9 DEF ReadJobs, rowVars, NotBefore
  <2>2. [Nothing EXCEPT !.jobs = job] \in Memory /\ "advance" \in Steps /\ [Nothing EXCEPT !.jobs = job].jobs = job
    BY <1>0, <1>a DEF Memory, Steps, SharedShape
  <2>3. SharedShape' /\ MemoryIsFresh'
    BY <1>0, <2>1, <2>2, HandlerMoves DEF SharedShape, MemoryIsFresh
  <2> QED BY <2>1, <2>3, RowsStay
<1>10. ASSUME NEW p \in Procs, Advance(p) PROVE SharedInv'
  <2>1. at[p] = "advance" /\ mem[p].jobs = job /\ mem[p] \in Memory /\ created
    BY <1>0, <1>10 DEF Advance, MemoryIsFresh, SharedShape, NotBefore
  <2>2. CASE Decidable(job) = {}
    <3>1. /\ UNCHANGED <<run, job, handed, requests>> /\ created /\ created'
          /\ Goto(p, "current") /\ Remembers(p, Nothing)
      BY <1>10, <2>1, <2>2 DEF Advance
    <3>2. SharedShape' /\ MemoryIsFresh'
      BY <1>0, <1>a, <3>1 DEF SharedShape, Steps, MemoryIsFresh, OneProcess
    <3> QED BY <3>1, <3>2, RowsStay
  <2>3. CASE Decidable(job) # {}
    <3> DEFINE j == First(Decidable(job))
               d == Decision(job, j)
    <3>1. j \in Decidable(job)
      BY <2>3, FirstIsLeast DEF Decidable
    <3>2. /\ job' = [job EXCEPT ![j] = d] /\ Remembers(p, [mem[p] EXCEPT !.jobs[j] = d]) /\ Goto(p, "advance")
          /\ UNCHANGED <<run, handed, requests>> /\ created /\ created'
      BY <1>10, <2>1, <2>3 DEF Advance
    <3>3. j \in JobKeys /\ job[j] = "pending" /\ d \in {"skipped", "queued"}
          /\ (d = "queued" => \A k \in Needs[j] : job[k] = "success")
      BY <3>1 DEF Decidable, Decision
    <3> HIDE DEF j, d
    <3>4. job' \in [JobKeys -> JobStatus] /\ job'[j] = d /\ \A k \in JobKeys \ {j} : job'[k] = job[k]
      BY <1>0, <3>2, <3>3 DEF SharedShape, JobStatus, Ended
    <3>5. [mem[p] EXCEPT !.jobs[j] = d] \in Memory /\ [mem[p] EXCEPT !.jobs[j] = d].jobs = job'
      BY <2>1, <3>2, <3>4 DEF Memory
    <3>6. SharedShape' /\ MemoryIsFresh'
      <4>1. "advance" \in Steps
        BY DEF Steps
      <4>2. /\ at' \in [Procs -> Steps] /\ mem' \in [Procs -> Memory]
            /\ \A q \in Procs : at'[q] = "advance" /\ mem'[q].jobs = job'
        BY <3>2, <3>5, <4>1, HandlerMoves, ZenonT(30)
      <4> QED BY <1>0, <3>2, <3>4, <4>2 DEF SharedShape, MemoryIsFresh
    <3>7. run \notin RunEnded
      BY <1>0, <3>3 DEF RunEndsLast, Ended
    <3>8. HandedIsTaken' /\ RunEndsLast' /\ NotBefore'
      BY <1>0, <3>2, <3>3, <3>4, <3>7 DEF HandedIsTaken, RunEndsLast, NotBefore
    <3>9. InOrder'
      BY <1>0, <3>2, <3>3, <3>4, SharedAssumption DEF InOrder
    <3> QED BY <3>6, <3>8, <3>9 DEF SharedInv
  <2> QED BY <2>2, <2>3
<1>11. ASSUME NEW p \in Procs, ReadCurrent(p) PROVE SharedInv'
  <2>1. /\ UNCHANGED <<run, job, handed, requests>> /\ created /\ created'
        /\ Goto(p, "conclude") /\ Remembers(p, [Nothing EXCEPT !.run = Verdict(job)])
    BY <1>0, <1>11 DEF ReadCurrent, rowVars, NotBefore
  <2>2. Verdict(job) \in InFlight \cup RunEnded
    BY DEF Verdict, InFlight, RunEnded
  <2>3. [Nothing EXCEPT !.run = Verdict(job)] \in Memory /\ "conclude" \in Steps
        /\ [Nothing EXCEPT !.run = Verdict(job)].run = Verdict(job)
    BY <1>a, <2>2 DEF Memory, Steps
  <2>4. Verdict(job)' = Verdict(job)
    BY <2>1 DEF Verdict
  <2>5. SharedShape' /\ MemoryIsFresh'
    BY <1>0, <2>1, <2>3, <2>4, HandlerMoves DEF SharedShape, MemoryIsFresh
  <2> QED BY <2>1, <2>5, RowsStay
<1>12. ASSUME NEW p \in Procs, Conclude(p) PROVE SharedInv'
  <2>1. /\ mem[p].run = Verdict(job) /\ mem[p].run \in InFlight \cup RunEnded
        /\ run' = (IF run = "queued" \/ (run = "running" /\ mem[p].run # "running") THEN mem[p].run ELSE run)
        /\ UNCHANGED <<job, handed, requests>> /\ created /\ created'
        /\ Goto(p, "notify") /\ Remembers(p, Nothing)
    BY <1>0, <1>12 DEF Conclude, MemoryIsFresh, SharedShape, Memory, NotBefore
  <2>2. mem[p].run \in RunEnded => \A j \in JobKeys : job[j] \in Ended
    BY <2>1 DEF Verdict, RunEnded
  <2>3. SharedShape' /\ MemoryIsFresh'
    BY <1>0, <1>a, <2>1 DEF SharedShape, Steps, MemoryIsFresh, OneProcess
  <2>4. RunEndsLast'
    BY <1>0, <2>1, <2>2 DEF RunEndsLast
  <2>5. HandedIsTaken' /\ NotBefore' /\ InOrder'
    BY <1>0, <2>1 DEF HandedIsTaken, NotBefore, InOrder
  <2> QED BY <2>3, <2>4, <2>5 DEF SharedInv
<1>13. ASSUME NEW p \in Procs, CancelRun(p) PROVE SharedInv'
  <2>1. /\ UNCHANGED <<run, job, handed, requests, mem>> /\ created /\ created'
        /\ at' = [at EXCEPT ![p] = "cancelJobs"]
    BY <1>13 DEF CancelRun, rowVars
  <2>2. SharedShape' /\ MemoryIsFresh'
    BY <1>0, <2>1 DEF SharedShape, Steps, MemoryIsFresh, OneProcess
  <2> QED BY <2>1, <2>2, RowsStay
<1>14. ASSUME NEW p \in Procs, CancelJobs(p) PROVE SharedInv'
  <2>1. /\ job' = [j \in JobKeys |-> IF j \in Cancellable THEN "cancelled" ELSE job[j]]
        /\ UNCHANGED <<run, handed, requests, mem>> /\ created /\ created'
        /\ at' = [at EXCEPT ![p] = "cancelRun"]
    BY <1>0, <1>14 DEF CancelJobs, NotBefore
  <2>2. \A j \in JobKeys : job'[j] \in Ended
    BY <1>0, <2>1 DEF Cancellable, Ended, SharedShape, JobStatus
  <2>3. SharedShape' /\ MemoryIsFresh'
    BY <1>0, <2>1, <2>2 DEF SharedShape, Steps, JobStatus, MemoryIsFresh, OneProcess
  <2>4. HandedIsTaken' /\ RunEndsLast' /\ NotBefore' /\ InOrder'
    BY <1>0, <2>1, <2>2 DEF HandedIsTaken, RunEndsLast, NotBefore, InOrder, Ended
  <2> QED BY <2>3, <2>4 DEF SharedInv
<1>15. ASSUME NEW p \in Procs, MarkCancelled(p) PROVE SharedInv'
  <2>1. /\ \A j \in JobKeys : job[j] \in Ended
        /\ run' = "cancelled" /\ UNCHANGED <<job, handed, requests, mem>> /\ created /\ created'
        /\ at' = [at EXCEPT ![p] = "notify"]
    BY <1>0, <1>15 DEF MarkCancelled, MemoryIsFresh, NotBefore
  <2>2. SharedShape' /\ MemoryIsFresh'
    <3>1. SharedShape'
      BY <1>0, <2>1 DEF SharedShape, Steps, RunEnded
    <3>2. \A q \in Procs : at'[q] = "notify"
      BY <1>0, <2>1 DEF SharedShape, OneProcess
    <3> QED BY <3>1, <3>2 DEF MemoryIsFresh
  <2>3. HandedIsTaken' /\ RunEndsLast' /\ NotBefore' /\ InOrder'
    BY <1>0, <2>1 DEF HandedIsTaken, RunEndsLast, NotBefore, InOrder
  <2> QED BY <2>2, <2>3 DEF SharedInv
<1>16. ASSUME NEW p \in Procs, Notify(p) PROVE SharedInv'
  <2>1. /\ UNCHANGED <<run, job, handed, requests>> /\ created /\ created'
        /\ Goto(p, "publish") /\ Remembers(p, [Nothing EXCEPT !.run = run])
    BY <1>0, <1>16 DEF Notify, rowVars, NotBefore
  <2>2. [Nothing EXCEPT !.run = run] \in Memory /\ "publish" \in Steps
    BY <1>0, <1>a DEF Memory, Steps, SharedShape
  <2>3. SharedShape' /\ MemoryIsFresh'
    BY <1>0, <2>1, <2>2, HandlerMoves DEF SharedShape, MemoryIsFresh
  <2> QED BY <2>1, <2>3, RowsStay
<1>17. ASSUME NEW p \in Procs, Publish(p) \/ Crash(p) PROVE SharedInv'
  <2>1. /\ UNCHANGED <<run, job, handed>> /\ created /\ created' /\ requests' \in {requests, {}}
        /\ Goto(p, "idle") /\ Remembers(p, Nothing)
    BY <1>0, <1>17 DEF Publish, Crash, rowVars, NotBefore
  <2>2. SharedShape' /\ MemoryIsFresh'
    BY <1>0, <1>a, <2>1 DEF SharedShape, Steps, MemoryIsFresh, OneProcess
  <2> QED BY <2>1, <2>2, RowsStay
<1>18. CASE UNCHANGED vars
  <2>1. UNCHANGED <<run, job, handed, requests, at, mem>> /\ created' = created
    BY <1>18 DEF vars, rowVars
  <2> QED
    BY <1>0, <2>1
       DEF SharedInv, SharedShape, MemoryIsFresh, Verdict, HandedIsTaken, RunEndsLast, NotBefore, InOrder
<1> QED
  BY <1>1, <1>2, <1>3, <1>4, <1>5, <1>6, <1>7, <1>8, <1>9, <1>10, <1>11, <1>12, <1>13, <1>14, <1>15, <1>16, <1>17,
     <1>18
     DEF Next, Handler

\* One process hands a job out once, and only when its turn has come, wherever its handlers
\* are cut off.
THEOREM HandOutsHold == ASSUME OneProcess PROVE Spec => []HandOutsAreSound
<1>1. SharedInv /\ [Next]_vars => SharedInv'
  BY SharedSteps
<1>2. SharedInv => HandOutsAreSound
  BY DEF SharedInv, SharedShape, HandedIsTaken, InOrder, RunEndsLast, HandOutsAreSound, HandedOutOnce, OffersAreSound, Ended
<1> QED BY SharedStarts, <1>1, <1>2, PTL DEF Spec

-----------------------------------------------------------------------------
(***************************************************************************)
(* Until it dies in a handler, the one process is RunContract.  `stable`   *)
(* shows the rows as they were before the handler; Stage says, statement   *)
(* by statement, what the handler owes the contract or has made of it.     *)
(***************************************************************************)
RowsAreStable == stable.created = created /\ stable.run = run /\ stable.job = job

\* What is running was handed out, and so was what is being completed.
WasHanded ==
  /\ \A j \in JobKeys : job[j] = "running" => handed[j] = 1
  /\ \A r \in requests : handed[r[1]] = 1
  /\ \A p \in Procs : at[p] \in {"select", "update"} => handed[mem[p].job] = 1

ClaimedOne(j) == stable.job[j] = "queued" /\ job = [stable.job EXCEPT ![j] = "running"]

Starting(j) == ClaimedOne(j) /\ run = (IF stable.run = "queued" THEN "running" ELSE stable.run)

\* The loop of advanceRun on its way: a job is decided by jobs that stay as they are.
Decided(j, o) ==
  /\ stable.job[j] = "running"
  /\ stable.run \in InFlight
  /\ \A i \in JobKeys :
       IF [stable.job EXCEPT ![j] = o][i] # "pending" THEN job[i] = [stable.job EXCEPT ![j] = o][i]
       ELSE \/ job[i] = "pending"
            \/ job[i] = "queued" /\ \A k \in Needs[i] : job[k] = "success"
            \/ /\ job[i] = "skipped"
               /\ \A k \in Needs[i] : job[k] \in Ended
               /\ \E k \in Needs[i] : job[k] # "success"

Cancelled ==
  stable.run \in InFlight
    /\ job = [j \in JobKeys |-> IF stable.job[j] \notin Ended THEN "cancelled" ELSE stable.job[j]]

Promised ==
  \/ /\ ~stable.created /\ run = "queued"
     /\ job = [j \in JobKeys |-> IF Needs[j] = {} THEN "queued" ELSE "pending"]
  \/ /\ stable.created
     /\ \/ \E j \in JobKeys : Starting(j)
        \/ \E j \in JobKeys, o \in Outcomes : Decided(j, o) /\ Decidable(job) = {} /\ run = Verdict(job)
        \/ Cancelled /\ run = "cancelled"

StageOf(step) ==
  /\ step \in {"idle", "select", "update", "cancelJobs"} => RowsAreStable
  /\ step = "cancelJobs" => run \in InFlight
  /\ step \notin {"idle", "notify", "publish"} => stable.created
  /\ step = "claimed" => run = stable.run /\ \E j \in JobKeys : ClaimedOne(j)
  /\ step \in {"read", "advance"} => run = stable.run /\ \E j \in JobKeys, o \in Outcomes : Decided(j, o)
  /\ step \in {"current", "conclude"} =>
       run = stable.run /\ \E j \in JobKeys, o \in Outcomes : Decided(j, o) /\ Decidable(job) = {}
  /\ step = "cancelRun" => Cancelled
  /\ step \in {"notify", "publish"} => Promised

StageHolds == \A p \in Procs : StageOf(at[p])

StageShape ==
  /\ stable \in [run : InFlight \cup RunEnded, job : [JobKeys -> JobStatus], created : BOOLEAN]
  /\ crashes \in Nat

StageInv == SharedInv /\ WasHanded /\ StageShape /\ (crashes = 0 => StageHolds)

ContractStep == [Contract!Next]_Contract!vars

LEMMA StageMoves ==
  ASSUME OneProcess, SharedShape, NEW p \in Procs, NEW step \in Steps, Goto(p, step), StageOf(step)'
  PROVE  StageHolds'
<1>1. \A q \in Procs : at'[q] = step
  BY DEF OneProcess, SharedShape, Goto
<1> QED BY <1>1 DEF StageHolds, StageOf

\* In the middle of a handler the observer sees what it saw before it,
LEMMA Midway ==
  ASSUME SharedShape, NEW p \in Procs, NEW step \in Steps, step # "idle", Goto(p, step), History
  PROVE  stable' = stable
BY DEF SharedShape, Goto, History

\* and when the handler is over, what it has left.
LEMMA AtRest ==
  ASSUME OneProcess, SharedShape, NEW p \in Procs, Goto(p, "idle"), History, crashes' = 0
  PROVE  stable' = [run |-> run', job |-> job', created |-> created']
<1>1. \A q \in Procs : at'[q] = "idle"
  BY DEF OneProcess, SharedShape, Goto
<1> QED BY <1>1 DEF History

LEMMA Rests == ASSUME stable' = stable PROVE ContractStep
BY DEF ContractStep, Contract!vars

LEMMA HandedSteps ==
  ASSUME OneProcess, SharedInv, SharedInv', WasHanded, Next PROVE WasHanded'
<1> USE DEF Goto, Remembers
<1>0. SharedShape /\ HandedIsTaken
  BY DEF SharedInv
<1>1. ASSUME NEW p \in Procs, Claim(p) PROVE WasHanded'
  <2>1. PICK j \in JobKeys : /\ job[j] = "queued" /\ job' = [job EXCEPT ![j] = "running"]
                             /\ handed' = [handed EXCEPT ![j] = IF @ = 2 THEN 2 ELSE @ + 1]
    <3>1. First(Queued) \in Queued
      BY <1>1, FirstIsLeast DEF Claim, Queued
    <3> QED BY <1>1, <3>1 DEF Claim, Queued
  <2>2. handed' = [handed EXCEPT ![j] = 1]
    <3>1. handed[j] = 0
      BY <1>0, <2>1 DEF HandedIsTaken
    <3> QED BY <1>0, <2>1, <3>1 DEF SharedShape
  <2>3. requests' = requests /\ \A q \in Procs : at'[q] = "claimed"
    BY <1>0, <1>1 DEF Claim, OneProcess, SharedShape
  <2>4. \A r \in requests : r[1] \in JobKeys
    BY <1>0 DEF SharedShape
  <2> QED BY <1>0, <2>1, <2>2, <2>3, <2>4 DEF WasHanded, SharedShape
<1>2. ASSUME NEW j \in JobKeys, NEW o \in Outcomes, Authorize(j, o) PROVE WasHanded'
  BY <1>0, <1>2 DEF Authorize, rowVars, WasHanded, SharedShape
<1>3. ASSUME NEW p \in Procs, NEW r \in JobKeys \X Outcomes, Complete(p, r) PROVE WasHanded'
  <2>1. handed' = handed /\ job' = job /\ requests' \subseteq requests /\ handed[r[1]] = 1
    BY <1>3 DEF Complete, rowVars, WasHanded
  <2>2. \A q \in Procs : mem'[q].job = r[1]
    BY <1>0, <1>3 DEF Complete, OneProcess, SharedShape, Memory, Nothing
  <2> QED BY <2>1, <2>2 DEF WasHanded
<1>4. ASSUME NEW p \in Procs, NEW j \in JobKeys, Reap(p, j) PROVE WasHanded'
  <2>1. handed' = handed /\ job' = job /\ requests' = requests /\ handed[j] = 1
    BY <1>4 DEF Reap, rowVars, WasHanded
  <2>2. \A q \in Procs : mem'[q].job = j
    BY <1>0, <1>4 DEF Reap, OneProcess, SharedShape, Memory, Nothing
  <2> QED BY <2>1, <2>2 DEF WasHanded
<1>5. ASSUME NEW p \in Procs, Select(p) PROVE WasHanded'
  BY <1>0, <1>5 DEF Select, rowVars, WasHanded, OneProcess, SharedShape
<1>6. ASSUME NEW p \in Procs, UpdateJob(p) PROVE WasHanded'
  <2>1. mem[p].outcome \in Outcomes
    BY <1>0 DEF SharedShape, Memory
  <2> QED BY <1>0, <1>6, <2>1 DEF UpdateJob, WasHanded, OneProcess, SharedShape, Outcomes
<1>7. ASSUME NEW p \in Procs, Advance(p) PROVE WasHanded'
  <2>1. handed' = handed /\ requests' = requests /\ \A q \in Procs : at'[q] \notin {"select", "update"}
    BY <1>0, <1>7 DEF Advance, OneProcess, SharedShape
  <2>2. \A j \in JobKeys : job'[j] = "running" => job[j] = "running"
    BY <1>0, <1>7 DEF Advance, Decision, SharedShape
  <2> QED BY <2>1, <2>2 DEF WasHanded
<1>8. ASSUME NEW p \in Procs, CreateRun(p) \/ CancelJobs(p) PROVE WasHanded'
  BY <1>0, <1>8 DEF CreateRun, CancelJobs, WasHanded, OneProcess, SharedShape
<1>9. ASSUME NEW p \in Procs,
             ClaimedRun(p) \/ ReadJobs(p) \/ ReadCurrent(p) \/ Conclude(p) \/ CancelRun(p) \/ MarkCancelled(p)
               \/ Notify(p) \/ Publish(p) \/ Crash(p)
      PROVE  WasHanded'
  <2>1. handed' = handed /\ job' = job /\ requests' \in {requests, {}}
        /\ \A q \in Procs : at'[q] \notin {"select", "update"}
    BY <1>0, <1>9 DEF ClaimedRun, ReadJobs, ReadCurrent, Conclude, CancelRun, MarkCancelled, Notify, Publish, Crash,
                      rowVars, OneProcess, SharedShape
  <2> QED BY <2>1 DEF WasHanded
<1> QED BY <1>1, <1>2, <1>3, <1>4, <1>5, <1>6, <1>7, <1>8, <1>9 DEF Next, Handler

-----------------------------------------------------------------------------
(* What the handlers make of the contract *)

\* Its parameters, of this run.
LEMMA TheContract ==
  /\ Contract!Ended = Ended
  /\ stable.created \in BOOLEAN => ((IF stable.created THEN "file" ELSE "no workflow") = "no workflow" <=> ~stable.created)
  /\ stable.created => Contract!Jobs = JobKeys
BY DEF Contract!Ended, Ended, Contract!Jobs

\* createWorkflowRun
LEMMA CreatedIsCreate ==
  ASSUME StageShape, StageShape', ~stable.created, stable'.created, stable'.run = "queued",
         stable'.job = [j \in JobKeys |-> IF Needs[j] = {} THEN "queued" ELSE "pending"]
  PROVE  ContractStep
<1>1. Contract!Create("file")
  BY DEF Contract!Create
<1> QED BY <1>1 DEF Contract!Next, ContractStep

\* claimNextJob
LEMMA ClaimedIsStart ==
  ASSUME StageShape, StageShape', stable.created, stable'.created, NEW j \in JobKeys,
         stable.job[j] = "queued", stable'.job = [stable.job EXCEPT ![j] = "running"],
         stable'.run = (IF stable.run = "queued" THEN "running" ELSE stable.run)
  PROVE  ContractStep
<1>1. Contract!Start(j)
  BY TheContract DEF Contract!Start
<1> QED BY <1>1 DEF Contract!Next, ContractStep

\* completeJob and advanceRun, when the loop finds nothing more to decide
LEMMA DecidedIsFinish ==
  ASSUME StageShape, StageShape', stable.created, stable'.created, NEW j \in JobKeys, NEW o \in Outcomes,
         SharedShape, Decided(j, o), Decidable(job) = {}, stable'.job = job, stable'.run = Verdict(job)
  PROVE  ContractStep
<1> DEFINE old == [stable.job EXCEPT ![j] = o]
<1>1. stable.job[j] = "running" /\ job \in [JobKeys -> {"pending", "queued", "running"} \cup Ended]
  BY DEF Decided, SharedShape, JobStatus
<1>2. \A i \in JobKeys :
        IF old[i] # "pending" THEN job[i] = old[i]
        ELSE \/ job[i] = "pending" /\ \E k \in Needs[i] : job[k] \notin Ended
             \/ job[i] = "queued" /\ \A k \in Needs[i] : job[k] = "success"
             \/ /\ job[i] = "skipped"
                /\ \A k \in Needs[i] : job[k] \in Ended
                /\ \E k \in Needs[i] : job[k] # "success"
  BY DEF Decided, Decidable
<1>3. stable'.run = IF \E s \in {job[k] : k \in JobKeys} : s \notin Ended THEN "running"
                    ELSE IF "failure" \in {job[k] : k \in JobKeys} THEN "failure"
                    ELSE IF "cancelled" \in {job[k] : k \in JobKeys} THEN "cancelled" ELSE "success"
  BY DEF Verdict
<1> HIDE DEF old
<1>4. Contract!Settled(old, job)
  BY <1>2, TheContract DEF Contract!Settled
<1>5. Contract!Finish(j, o)
  BY <1>1, <1>3, <1>4, TheContract DEF Contract!Finish, old
<1> QED BY <1>5 DEF Contract!Next, ContractStep, Outcomes

\* cancelRun
LEMMA CancelledIsCancel ==
  ASSUME StageShape, StageShape', stable.created, stable'.created, Cancelled, stable'.job = job,
         stable'.run = "cancelled"
  PROVE  ContractStep
<1>1. Contract!Cancel
  BY TheContract DEF Contract!Cancel, Cancelled, InFlight
<1> QED BY <1>1 DEF Contract!Next, ContractStep

\* Whatever a handler has promised, it has kept when it is over.
LEMMA PromisedIsKept ==
  ASSUME StageShape, StageShape', SharedShape, Promised, created,
         stable' = [run |-> run, job |-> job, created |-> created]
  PROVE  ContractStep
<1>1. stable'.run = run /\ stable'.job = job /\ stable'.created
  OBVIOUS
<1>2. CASE ~stable.created /\ run = "queued"
             /\ job = [j \in JobKeys |-> IF Needs[j] = {} THEN "queued" ELSE "pending"]
  BY <1>1, <1>2, CreatedIsCreate
<1>3. ASSUME stable.created, NEW j \in JobKeys, Starting(j) PROVE ContractStep
  BY <1>1, <1>3, ClaimedIsStart DEF Starting, ClaimedOne
<1>4. ASSUME stable.created, NEW j \in JobKeys, NEW o \in Outcomes, Decided(j, o), Decidable(job) = {},
             run = Verdict(job)
      PROVE  ContractStep
  BY <1>1, <1>4, DecidedIsFinish
<1>5. CASE stable.created /\ Cancelled /\ run = "cancelled"
  BY <1>1, <1>5, CancelledIsCancel
<1> QED BY <1>2, <1>3, <1>4, <1>5 DEF Promised

-----------------------------------------------------------------------------
\* What a statement in the middle of a handler owes: the stage after it.
LEMMA MiddleStep ==
  ASSUME OneProcess, SharedShape, NEW p \in Procs, NEW step \in Steps, step # "idle", Goto(p, step), History,
         stable' = stable => StageOf(step)'
  PROVE  StageHolds' /\ ContractStep
BY StageMoves, Midway, Rests

\* What the last statement of a handler owes.
LEMMA LastStep ==
  ASSUME OneProcess, SharedInv, SharedShape', StageShape, StageShape', NEW p \in Procs, Goto(p, "idle"), History, crashes' = 0,
         UNCHANGED <<created, run, job>>, created, Promised \/ RowsAreStable
  PROVE  StageHolds' /\ ContractStep
<1>1. stable' = [run |-> run, job |-> job, created |-> created]
  BY AtRest DEF SharedInv
<1>2. StageOf("idle")'
  BY <1>1 DEF StageOf, RowsAreStable
<1>3. StageHolds'
  BY <1>2, StageMoves DEF SharedInv, Steps
<1>4. ASSUME Promised PROVE ContractStep
  BY <1>1, <1>4, PromisedIsKept DEF SharedInv
<1>5. ASSUME RowsAreStable PROVE ContractStep
  BY <1>1, <1>5 DEF RowsAreStable, ContractStep, Contract!vars
<1> QED BY <1>3, <1>4, <1>5

LEMMA StageSteps ==
  ASSUME OneProcess, StageInv, SharedInv', StageShape', Next, crashes = 0, crashes' = 0
  PROVE  StageHolds' /\ ContractStep
<1>0. /\ SharedShape /\ MemoryIsFresh /\ HandedIsTaken /\ RunEndsLast /\ NotBefore /\ InOrder
      /\ SharedShape' /\ WasHanded /\ StageShape /\ StageHolds
  BY DEF StageInv, SharedInv
<1>1. ASSUME NEW p \in Procs, CreateRun(p) PROVE StageHolds' /\ ContractStep
  <2>1. RowsAreStable /\ run = "queued" /\ ~created
    BY <1>0, <1>1 DEF CreateRun, StageHolds, StageOf, NotBefore
  <2>2. /\ job' = [j \in JobKeys |-> IF Needs[j] = {} THEN "queued" ELSE "pending"] /\ run' = run
        /\ Goto(p, "notify") /\ History
    BY <1>1 DEF CreateRun
  <2>3. stable' = stable => Promised'
    BY <2>1, <2>2 DEF Promised, RowsAreStable
  <2>4. stable' = stable => StageOf("notify")'
    BY <2>3 DEF StageOf
  <2> QED BY <1>0, <2>2, <2>4, MiddleStep DEF Steps
<1>2. ASSUME NEW p \in Procs, Claim(p) PROVE StageHolds' /\ ContractStep
  <2>1. PICK j \in JobKeys : job[j] = "queued" /\ job' = [job EXCEPT ![j] = "running"]
    <3>1. First(Queued) \in Queued
      BY <1>2, FirstIsLeast DEF Claim, Queued
    <3> QED BY <1>2, <3>1 DEF Claim, Queued
  <2>2. /\ created /\ created' = created /\ run' = run /\ Goto(p, "claimed") /\ History
        /\ RowsAreStable
    BY <1>0, <1>2 DEF Claim, StageHolds, StageOf
  <2>3. stable' = stable => ClaimedOne(j)' /\ stable'.created /\ run' = stable'.run
    BY <2>1, <2>2 DEF ClaimedOne, RowsAreStable
  <2>4. stable' = stable => StageOf("claimed")'
    BY <2>3 DEF StageOf
  <2> QED BY <1>0, <2>2, <2>4, MiddleStep DEF Steps
<1>3. ASSUME NEW p \in Procs, ClaimedRun(p) PROVE StageHolds' /\ ContractStep
  <2>1. /\ run' = (IF run = "queued" THEN "running" ELSE run) /\ job' = job /\ Goto(p, "notify") /\ History
        /\ stable.created /\ run = stable.run
    BY <1>0, <1>3 DEF ClaimedRun, StageHolds, StageOf
  <2>2. PICK j \in JobKeys : ClaimedOne(j)
    BY <1>0, <1>3 DEF ClaimedRun, StageHolds, StageOf
  <2>3. stable' = stable => Starting(j)'
    BY <2>1, <2>2 DEF Starting, ClaimedOne
  <2>4. stable' = stable => StageOf("notify")'
    BY <2>1, <2>3 DEF StageOf, Promised
  <2> QED BY <1>0, <2>1, <2>4, MiddleStep DEF Steps
<1>4. ASSUME NEW j \in JobKeys, NEW o \in Outcomes, Authorize(j, o) PROVE StageHolds' /\ ContractStep
  <2>1. UNCHANGED <<created, run, job, at, mem, stable>>
    BY <1>4 DEF Authorize, rowVars
  <2>2. StageHolds'
    BY <1>0, <2>1 DEF StageHolds, StageOf, RowsAreStable, ClaimedOne, Decided, Decidable, Cancelled, Promised, Starting,
                      Verdict
  <2> QED BY <2>1, <2>2, Rests
<1>5. ASSUME NEW p \in Procs, (\E r \in JobKeys \X Outcomes : Complete(p, r)) \/ (\E j \in JobKeys : Reap(p, j))
      PROVE  StageHolds' /\ ContractStep
  <2>1. /\ UNCHANGED <<created, run, job>> /\ created /\ Goto(p, "select") /\ History /\ RowsAreStable
    BY <1>0, <1>5 DEF Complete, Reap, rowVars, NotBefore, StageHolds, StageOf
  <2>2. stable' = stable => StageOf("select")'
    BY <2>1 DEF StageOf, RowsAreStable
  <2> QED BY <1>0, <2>1, <2>2, MiddleStep DEF Steps
<1>6. ASSUME NEW p \in Procs, Select(p) PROVE StageHolds' /\ ContractStep
  <2>1. UNCHANGED <<created, run, job>> /\ created /\ History /\ RowsAreStable
    BY <1>0, <1>6 DEF Select, rowVars, NotBefore, StageHolds, StageOf
  <2>2. CASE Goto(p, "idle")
    BY <1>0, <2>1, <2>2, LastStep DEF StageInv
  <2>3. CASE Goto(p, "update")
    <3>1. stable' = stable => StageOf("update")'
      BY <2>1 DEF StageOf, RowsAreStable
    <3> QED BY <1>0, <2>1, <2>3, <3>1, MiddleStep DEF Steps
  <2> QED BY <1>6, <2>2, <2>3 DEF Select
<1>7. ASSUME NEW p \in Procs, UpdateJob(p) PROVE StageHolds' /\ ContractStep
  <2>1. /\ run' = run /\ created' = created /\ Goto(p, "read") /\ History /\ RowsAreStable /\ created
    BY <1>0, <1>7 DEF UpdateJob, StageHolds, StageOf, NotBefore
  <2>2. PICK j \in JobKeys, o \in Outcomes : job' = [job EXCEPT ![j] = o] /\ job[j] = "running"
    <3>1. mem[p].job \in JobKeys /\ mem[p].outcome \in Outcomes
      BY <1>0, <1>7 DEF UpdateJob, SharedShape, Memory, MemoryIsFresh
    <3>2. job[mem[p].job] = "running"
      BY <1>0, <1>7, <3>1 DEF UpdateJob, WasHanded, HandedIsTaken, MemoryIsFresh, SharedShape, JobStatus
    <3> QED BY <1>7, <3>1, <3>2 DEF UpdateJob
  <2>3. run \in InFlight
    BY <1>0, <2>1, <2>2 DEF RunEndsLast, SharedShape, Ended
  <2>4. stable' = stable => Decided(j, o)'
    BY <1>0, <2>1, <2>2, <2>3 DEF Decided, RowsAreStable, SharedShape
  <2>5. stable' = stable => StageOf("read")'
    BY <2>1, <2>4 DEF StageOf, RowsAreStable
  <2> QED BY <1>0, <2>1, <2>5, MiddleStep DEF Steps
<1>8. ASSUME NEW p \in Procs, ReadJobs(p) PROVE StageHolds' /\ ContractStep
  <2>1. /\ UNCHANGED <<created, run, job>> /\ Goto(p, "advance") /\ History
        /\ stable.created /\ run = stable.run
    BY <1>0, <1>8 DEF ReadJobs, rowVars, StageHolds, StageOf
  <2>2. PICK j \in JobKeys, o \in Outcomes : Decided(j, o)
    BY <1>0, <1>8 DEF ReadJobs, StageHolds, StageOf
  <2>3. stable' = stable => Decided(j, o)'
    BY <2>1, <2>2 DEF Decided
  <2>4. stable' = stable => StageOf("advance")'
    BY <2>1, <2>3 DEF StageOf
  <2> QED BY <1>0, <2>1, <2>4, MiddleStep DEF Steps
<1>9. ASSUME NEW p \in Procs, Advance(p) PROVE StageHolds' /\ ContractStep
  <2>1. /\ mem[p].jobs = job /\ created' = created /\ run' = run /\ History
        /\ stable.created /\ run = stable.run
    BY <1>0, <1>9 DEF Advance, MemoryIsFresh, StageHolds, StageOf
  <2>2. PICK j \in JobKeys, o \in Outcomes : Decided(j, o)
    BY <1>0, <1>9 DEF Advance, StageHolds, StageOf
  <2>3. CASE Decidable(job) = {}
    <3>1. job' = job /\ Goto(p, "current")
      BY <1>9, <2>1, <2>3 DEF Advance
    <3>2. stable' = stable => Decided(j, o)' /\ Decidable(job)' = {}
      BY <2>2, <2>3, <3>1 DEF Decided, Decidable
    <3>3. stable' = stable => StageOf("current")'
      BY <2>1, <3>2 DEF StageOf
    <3> QED BY <1>0, <2>1, <3>1, <3>3, MiddleStep DEF Steps
  <2>4. CASE Decidable(job) # {}
    <3> DEFINE i == First(Decidable(job))
    <3>1. i \in Decidable(job)
      BY <2>4, FirstIsLeast DEF Decidable
    <3>2. job' = [job EXCEPT ![i] = Decision(job, i)] /\ Goto(p, "advance")
      BY <1>9, <2>1, <2>4 DEF Advance
    <3>3. i \in JobKeys /\ job[i] = "pending" /\ \A k \in Needs[i] : job[k] \in Ended /\ k \in JobKeys
      BY <3>1, SharedAssumption DEF Decidable
    <3> HIDE DEF i
    <3>4. /\ job'[i] = Decision(job, i) /\ \A k \in JobKeys \ {i} : job'[k] = job[k]
          /\ \A k \in Needs[i] : job'[k] = job[k]
      BY <1>0, <3>2, <3>3 DEF SharedShape, Ended
    <3>5. stable' = stable => Decided(j, o)'
      <4>1. \A k \in JobKeys : job[k] # "pending" => job'[k] = job[k]
        BY <3>3, <3>4
      <4>2. \/ job'[i] = "queued" /\ \A k \in Needs[i] : job'[k] = "success"
            \/ /\ job'[i] = "skipped" /\ \A k \in Needs[i] : job'[k] \in Ended
               /\ \E k \in Needs[i] : job'[k] # "success"
        BY <3>3, <3>4 DEF Decision
      <4>3. \A k \in JobKeys : \A n \in Needs[k] : n \in JobKeys
        BY SharedAssumption
      <4>4. \A k \in JobKeys \ {i} : job'[k] = job[k]
        BY <3>4
      <4> QED BY <2>2, <3>3, <4>1, <4>2, <4>3, <4>4 DEF Decided, Ended
    <3>6. stable' = stable => StageOf("advance")'
      BY <2>1, <3>5 DEF StageOf
    <3> QED BY <1>0, <2>1, <3>2, <3>6, MiddleStep DEF Steps
  <2> QED BY <2>3, <2>4
<1>10. ASSUME NEW p \in Procs, ReadCurrent(p) PROVE StageHolds' /\ ContractStep
  <2>1. /\ UNCHANGED <<created, run, job>> /\ Goto(p, "conclude") /\ History
        /\ stable.created /\ run = stable.run /\ Decidable(job) = {}
    BY <1>0, <1>10 DEF ReadCurrent, rowVars, StageHolds, StageOf
  <2>2. PICK j \in JobKeys, o \in Outcomes : Decided(j, o)
    BY <1>0, <1>10 DEF ReadCurrent, StageHolds, StageOf
  <2>3. stable' = stable => Decided(j, o)' /\ Decidable(job)' = {}
    BY <2>1, <2>2 DEF Decided, Decidable
  <2>4. stable' = stable => StageOf("conclude")'
    BY <2>1, <2>3 DEF StageOf
  <2> QED BY <1>0, <2>1, <2>4, MiddleStep DEF Steps
<1>11. ASSUME NEW p \in Procs, Conclude(p) PROVE StageHolds' /\ ContractStep
  <2>1. /\ mem[p].run = Verdict(job) /\ created' = created /\ job' = job /\ Goto(p, "notify") /\ History
        /\ run' = (IF run = "queued" \/ (run = "running" /\ mem[p].run # "running") THEN mem[p].run ELSE run)
        /\ stable.created /\ run = stable.run /\ Decidable(job) = {}
    BY <1>0, <1>11 DEF Conclude, MemoryIsFresh, StageHolds, StageOf
  <2>2. PICK j \in JobKeys, o \in Outcomes : Decided(j, o)
    BY <1>0, <1>11 DEF Conclude, StageHolds, StageOf
  <2>3. run' = Verdict(job)
    BY <2>1, <2>2 DEF Decided, InFlight
  <2>4. stable' = stable => Decided(j, o)' /\ Decidable(job)' = {} /\ run' = Verdict(job)'
    BY <2>1, <2>2, <2>3 DEF Decided, Decidable, Verdict
  <2>5. stable' = stable => StageOf("notify")'
    BY <2>1, <2>4 DEF StageOf, Promised
  <2> QED BY <1>0, <2>1, <2>5, MiddleStep DEF Steps
<1>12. ASSUME NEW p \in Procs, CancelRun(p) PROVE StageHolds' /\ ContractStep
  <2>1. /\ UNCHANGED <<created, run, job>> /\ created /\ run \in InFlight /\ Goto(p, "cancelJobs") /\ History
        /\ RowsAreStable
    BY <1>0, <1>12 DEF CancelRun, rowVars, StageHolds, StageOf
  <2>2. stable' = stable => StageOf("cancelJobs")'
    BY <2>1 DEF StageOf, RowsAreStable
  <2> QED BY <1>0, <2>1, <2>2, MiddleStep DEF Steps
<1>13. ASSUME NEW p \in Procs, CancelJobs(p) PROVE StageHolds' /\ ContractStep
  <2>1. /\ job' = [j \in JobKeys |-> IF j \in Cancellable THEN "cancelled" ELSE job[j]]
        /\ run' = run /\ created' = created /\ created /\ run \in InFlight /\ Goto(p, "cancelRun") /\ History
        /\ RowsAreStable
    BY <1>0, <1>13 DEF CancelJobs, StageHolds, StageOf, NotBefore
  <2>2. Cancellable = {j \in JobKeys : job[j] \notin Ended}
    BY <1>0 DEF Cancellable, SharedShape, JobStatus, Ended
  <2>3. stable' = stable => Cancelled' /\ stable'.created
    BY <2>1, <2>2 DEF Cancelled, RowsAreStable
  <2>4. stable' = stable => StageOf("cancelRun")'
    BY <2>3 DEF StageOf
  <2> QED BY <1>0, <2>1, <2>4, MiddleStep DEF Steps
<1>14. ASSUME NEW p \in Procs, MarkCancelled(p) PROVE StageHolds' /\ ContractStep
  <2>1. /\ UNCHANGED <<created, job>> /\ run' = "cancelled" /\ Goto(p, "notify") /\ History
        /\ Cancelled /\ stable.created
    BY <1>0, <1>14 DEF MarkCancelled, StageHolds, StageOf
  <2>2. stable' = stable => Cancelled' /\ stable'.created
    BY <2>1 DEF Cancelled
  <2>3. stable' = stable => StageOf("notify")'
    BY <2>1, <2>2 DEF StageOf, Promised
  <2> QED BY <1>0, <2>1, <2>3, MiddleStep DEF Steps
<1>15. ASSUME NEW p \in Procs, Notify(p) PROVE StageHolds' /\ ContractStep
  <2>1. UNCHANGED <<created, run, job>> /\ Goto(p, "publish") /\ History /\ Promised
    BY <1>0, <1>15 DEF Notify, rowVars, StageHolds, StageOf
  <2>2. stable' = stable => Promised'
    BY <2>1 DEF Promised, Starting, ClaimedOne, Decided, Decidable, Cancelled, Verdict
  <2>3. stable' = stable => StageOf("publish")'
    BY <2>2 DEF StageOf
  <2> QED BY <1>0, <2>1, <2>3, MiddleStep DEF Steps
<1>16. ASSUME NEW p \in Procs, Publish(p) PROVE StageHolds' /\ ContractStep
  <2>1. UNCHANGED <<created, run, job>> /\ created /\ Goto(p, "idle") /\ History /\ Promised
    BY <1>0, <1>16 DEF Publish, NotBefore, StageHolds, StageOf
  <2> QED BY <1>0, <2>1, LastStep DEF StageInv
<1>17. ASSUME NEW p \in Procs, Crash(p) PROVE FALSE
  BY <1>17 DEF Crash
<1> QED
  BY <1>1, <1>2, <1>3, <1>4, <1>5, <1>6, <1>7, <1>8, <1>9, <1>10, <1>11, <1>12, <1>13, <1>14, <1>15, <1>16, <1>17
     DEF Next, Handler

\* After its death the observer looks no more.
LEMMA Blinded ==
  ASSUME SharedShape', StageShape, Next
  PROVE  StageShape' /\ (crashes' # 0 => stable' = stable) /\ (crashes' = 0 => crashes = 0)
<1>0. crashes' = crashes \/ crashes' = crashes + 1
  BY Zenon DEF Next, CreateRun, Claim, CancelRun, Handler, ClaimedRun, Select, UpdateJob, ReadJobs, Advance,
         ReadCurrent, Conclude, CancelJobs, MarkCancelled, Notify, Publish, Crash, Complete, Reap, Authorize
<1>1. crashes' \in Nat /\ (crashes' = 0 => crashes = 0)
  BY <1>0 DEF StageShape
<1>2. History \/ stable' = stable
  BY Zenon DEF Next, CreateRun, Claim, CancelRun, Handler, ClaimedRun, Select, UpdateJob, ReadJobs, Advance,
         ReadCurrent, Conclude, CancelJobs, MarkCancelled, Notify, Publish, Crash, Complete, Reap, Authorize
<1>3. stable' \in {stable, [run |-> run', job |-> job', created |-> created']} /\ (crashes' # 0 => stable' = stable)
  BY <1>2 DEF History
<1>4. [run |-> run', job |-> job', created |-> created']
        \in [run : InFlight \cup RunEnded, job : [JobKeys -> JobStatus], created : BOOLEAN]
  BY Zenon DEF SharedShape
<1> QED BY <1>1, <1>3, <1>4 DEF StageShape

LEMMA StageKept == ASSUME OneProcess PROVE StageInv /\ [Next]_vars => StageInv' /\ ContractStep
<1> SUFFICES ASSUME StageInv, [Next]_vars PROVE StageInv' /\ ContractStep
  OBVIOUS
<1>1. SharedInv'
  BY SharedSteps DEF StageInv
<1>2. SharedShape' /\ SharedInv /\ WasHanded /\ StageShape
  BY <1>1 DEF SharedInv, StageInv
<1>3. CASE Next
  <2>1. WasHanded'
    BY <1>1, <1>2, <1>3, HandedSteps
  <2>2. StageShape' /\ (crashes' # 0 => stable' = stable) /\ (crashes' = 0 => crashes = 0)
    BY <1>2, <1>3, Blinded
  <2>3. CASE crashes' = 0
    BY <1>1, <1>3, <2>1, <2>2, <2>3, StageSteps DEF StageInv
  <2>4. CASE crashes' # 0
    BY <1>1, <2>1, <2>2, <2>4, Rests DEF StageInv
  <2> QED BY <2>3, <2>4
<1>4. CASE UNCHANGED vars
  <2>1. UNCHANGED <<created, run, job, at, mem, requests, crashes, handed, stable>>
    BY <1>4 DEF vars, rowVars
  <2>2. WasHanded' /\ StageShape'
    BY <1>2, <2>1 DEF WasHanded, StageShape
  <2>3. StageHolds => StageHolds'
    BY <2>1 DEF StageHolds, StageOf, RowsAreStable, ClaimedOne, Decided, Decidable, Cancelled, Promised, Starting, Verdict
  <2> QED BY <1>1, <2>1, <2>2, <2>3, Rests DEF StageInv
<1> QED BY <1>3, <1>4

LEMMA StageStarts == Init => StageInv /\ Contract!Init
<1> SUFFICES ASSUME Init PROVE StageInv /\ Contract!Init
  OBVIOUS
<1>1. SharedInv
  BY SharedStarts
<1>2. WasHanded
  BY DEF Init, WasHanded, Blank
<1>3. stable = [run |-> "queued", job |-> Blank, created |-> FALSE] /\ crashes = 0
  BY DEF Init
<1>4. StageShape
  <2>1. Blank \in [JobKeys -> JobStatus] /\ "queued" \in InFlight \cup RunEnded
    BY DEF Blank, JobStatus, InFlight
  <2> QED BY <1>3, <2>1 DEF StageShape
<1>5. StageHolds
  <2>1. stable.run = run /\ stable.job = job
    BY <1>3 DEF Init
  <2>2. stable.created = created
    <3>1. stable.created = FALSE
      BY <1>3
    <3>2. created = FALSE
      BY Zenon DEF Init
    <3> QED BY <3>1, <3>2, Zenon
  <2> QED BY <2>1, <2>2 DEF Init, StageHolds, StageOf, RowsAreStable
<1>6. Contract!Init
  BY <1>3 DEF Contract!Init, Blank
<1> QED BY <1>1, <1>2, <1>4, <1>5, <1>6 DEF StageInv

\* One process, until it dies between two statements, is RunContract: advanceRun's loop, one
\* UPDATE after the other, comes to what the contract says in one step, claimNextJob's two
\* statements are one start, cancelRun's two one cancellation.
THEOREM OneProcessKeepsContract == ASSUME OneProcess PROVE Spec => KeepsContract
<1>1. StageInv /\ [Next]_vars => StageInv' /\ [Contract!Next]_Contract!vars
  BY StageKept DEF ContractStep
<1> QED BY <1>1, StageStarts, PTL DEF Spec, KeepsContract, Contract!Spec

=============================================================================

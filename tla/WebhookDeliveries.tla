------------------------- MODULE WebhookDeliveries -------------------------
(***************************************************************************)
(* The webhook queue of src/src/webhooks.mjs on several server processes:  *)
(* the worker that runs under the lease "webhooks", the rows it claims one *)
(* by one, the ping and redeliver routes, which attempt a delivery         *)
(* themselves, the administrator's retry, processes that stop, and         *)
(* endpoints that answer, fail, or never finish answering.                 *)
(*                                                                         *)
(* A process is suspended in the middle of an attempt and nowhere else,    *)
(* but another process may run between any two of its statements.          *)
(***************************************************************************)
EXTENDS Naturals, FiniteSets

CONSTANTS
  Instances,        \* server processes; one that restarts is a new owner
  Deliveries,       \* delivery rows, as numbers in the order they are created
  MaxAttempts,      \* MAX_ATTEMPTS
  BatchSize,        \* deliveries in one turn of the worker
  MaxRedeliveries,  \* redeliveries and retries asked for by hand
  MaxCrashes,       \* processes that stop
  Aborts            \* an endpoint may break its answer off half-way

ASSUME DeliveryAssumption ==
  /\ Deliveries \subseteq Nat \ {0}
  /\ MaxAttempts \in Nat \ {0} /\ BatchSize \in Nat \ {0}
  /\ MaxRedeliveries \in Nat /\ MaxCrashes \in Nat
  /\ Aborts \in BOOLEAN

-----------------------------------------------------------------------------
(***************************************************************************)
(* The lease of src/src/job-leases.mjs: a row that says which process runs *)
(* the background job, and until when.  Every operation is one statement.  *)
(***************************************************************************)
Nobody == "nobody"  \* no row
Former == "former"  \* a process that has stopped without releasing

VARIABLES
  holder,  \* job_leases.owner
  current  \* lease_expires_at > now

leaseVars == <<holder, current>>

LeaseTypeOK == holder \in Instances \cup {Nobody, Former} /\ current \in BOOLEAN

LeaseInit == holder = Nobody /\ current = FALSE

MayTake(i) == holder = Nobody \/ ~current \/ holder = i

\* acquireLease, which is also the renewal.
AcquireLease(i) == MayTake(i) /\ holder' = i /\ current' = TRUE

HoldsLease(i) == holder = i /\ current

ReleaseLease(i) ==
  IF holder = i THEN holder' = Nobody /\ current' = FALSE ELSE UNCHANGED leaseVars

\* The owner's process is gone; its row is not.
LoseOwner(i) == holder' = (IF holder = i THEN Former ELSE holder) /\ UNCHANGED current

LeaseLapses == current /\ current' = FALSE /\ UNCHANGED holder

-----------------------------------------------------------------------------
NoRow    == 0
None     == <<NoRow, 0>>
Callers  == {"worker", "route"}
Slots    == Instances \X Callers
Status   == {"none", "pending", "processing", "success", "failure", "deleted"}

VARIABLES
  status,        \* delivery -> webhook_deliveries.status
  tries,         \* delivery -> attempt_count
  due,           \* the deliveries whose next_attempt_at has passed
  old,           \* those claimed more than strandedMinutes ago
  turn,          \* instance -> what is left of the worker's turn, 0 when it waits
  chosen,        \* instance -> the row its SELECT found, before the claim
  stopping,      \* the instances whose shutdown has stopped the worker
  attempt,       \* slot -> the delivery it is sending, with its attempt number
  hung,          \* slots whose request will neither resolve nor reject
  outlasted,     \* deliveries of which an attempt went on past strandedMinutes
  redeliveries,
  crashes

rowVars    == <<status, tries, due, old>>
workerVars == <<turn, chosen, stopping>>
deliveryVars == <<leaseVars, rowVars, workerVars, attempt, hung, outlasted, redeliveries, crashes>>

Worker(i) == <<i, "worker">>
Route(i)  == <<i, "route">>
Sending(s, d) == attempt[s] # None /\ attempt[s][1] = d

DeliveryTypeOK ==
  /\ LeaseTypeOK
  /\ status \in [Deliveries -> Status]
  /\ tries \in [Deliveries -> Nat]
  /\ due \subseteq Deliveries /\ old \subseteq Deliveries
  /\ turn \in [Instances -> 0 .. BatchSize]
  /\ chosen \in [Instances -> Deliveries \cup {NoRow}]
  /\ stopping \subseteq Instances
  /\ attempt \in [Slots -> (Deliveries \X Nat) \cup {None}]
  /\ hung \subseteq Slots /\ outlasted \subseteq Deliveries
  /\ redeliveries \in 0 .. MaxRedeliveries /\ crashes \in 0 .. MaxCrashes

DeliveryInit ==
  /\ LeaseInit
  /\ status = [d \in Deliveries |-> "none"]
  /\ tries = [d \in Deliveries |-> 0]
  /\ due = {} /\ old = {}
  /\ turn = [i \in Instances |-> 0]
  /\ chosen = [i \in Instances |-> NoRow]
  /\ stopping = {}
  /\ attempt = [s \in Slots |-> None]
  /\ hung = {} /\ outlasted = {}
  /\ redeliveries = 0 /\ crashes = 0

-----------------------------------------------------------------------------
(* Rows *)

NextNew(d) == status[d] = "none" /\ \A e \in Deliveries : e < d => status[e] # "none"

\* enqueueWebhookEvent, once per webhook that wants the event.
Enqueue(d) ==
  /\ NextNew(d)
  /\ status' = [status EXCEPT ![d] = "pending"]
  /\ due' = due \cup {d}
  /\ UNCHANGED <<leaseVars, tries, old, workerVars, attempt, hung, outlasted, redeliveries, crashes>>

\* The UPDATE that opens processWebhookDelivery, for the caller in slot s.
Claim(s, d, before) ==
  /\ status'  = [status EXCEPT ![d] = "processing"]
  /\ tries'   = [tries EXCEPT ![d] = before + 1]
  /\ old'     = old \ {d}
  /\ attempt' = [attempt EXCEPT ![s] = <<d, before + 1>>]

\* Mutant: what the SELECT saw is trusted by the UPDATE.
ClaimableStill(d) == status[d] # "deleted"

Claimable(d) == status[d] = "pending" /\ d \in due

Exhausted(n) == n >= MaxAttempts

\* The UPDATEs that end processWebhookDelivery: by id, whatever became of the
\* row during the request.
Record(d, n, ok) ==
  /\ status' = [status EXCEPT ![d] = IF @ = "deleted" THEN @
                                     ELSE IF ok THEN "success"
                                     ELSE IF Exhausted(n) THEN "failure" ELSE "pending"]
  /\ due'    = IF ok \/ status[d] = "deleted" THEN due ELSE due \ {d}
  /\ old'    = old \ {d}
  /\ UNCHANGED tries

-----------------------------------------------------------------------------
(* startWebhookWorker                                                      *)

\* Mutants: every claimed row is handed out again; none is.
StrandedNone == {}
StrandedAll == {d \in Deliveries : status[d] = "processing"}

Stranded == {d \in Deliveries : status[d] = "processing" /\ d \in old}

\* A tick that gets the lease, up to the loop: requeueStranded.
Tick(i) ==
  /\ turn[i] = 0 /\ i \notin stopping
  /\ AcquireLease(i)
  /\ status' = [d \in Deliveries |-> IF d \in Stranded THEN "pending" ELSE status[d]]
  /\ due'    = due \cup Stranded
  /\ turn'   = [turn EXCEPT ![i] = BatchSize]
  /\ UNCHANGED <<tries, old, chosen, stopping, attempt, hung, outlasted, redeliveries, crashes>>

Waits(i) == turn[i] > 0 /\ chosen[i] = NoRow /\ attempt[Worker(i)] = None

\* The loop goes on: processNextWebhookDelivery finds the oldest row that is
\* due.
Select(i, d) ==
  /\ Waits(i) /\ HoldsLease(i)
  /\ Claimable(d) /\ \A e \in Deliveries : Claimable(e) => d <= e
  /\ chosen' = [chosen EXCEPT ![i] = d]
  /\ UNCHANGED <<leaseVars, rowVars, turn, stopping, attempt, hung, outlasted, redeliveries, crashes>>

\* The loop ends: the lease is lost, or no row is due.
EndTurn(i) ==
  /\ Waits(i)
  /\ ~HoldsLease(i) \/ ~\E d \in Deliveries : Claimable(d)
  /\ turn' = [turn EXCEPT ![i] = 0]
  /\ UNCHANGED <<leaseVars, rowVars, chosen, stopping, attempt, hung, outlasted, redeliveries, crashes>>

\* The claim, or the discovery that another process was faster, which costs
\* the turn one delivery.
ClaimChosen(i) ==
  LET d == chosen[i] IN
  /\ d # NoRow
  /\ chosen' = [chosen EXCEPT ![i] = NoRow]
  /\ IF Claimable(d)
     THEN Claim(Worker(i), d, tries[d]) /\ UNCHANGED turn
     ELSE /\ turn' = [turn EXCEPT ![i] = IF status[d] = "deleted" THEN 0 ELSE @ - 1]
          /\ UNCHANGED <<status, tries, old, attempt>>
  /\ UNCHANGED <<leaseVars, due, stopping, hung, outlasted, redeliveries, crashes>>

\* The answer, an error or the timeout.  A row that has been deleted makes
\* deliveryDto throw, which ends the worker's turn.
AttemptEnds(s, ok) ==
  LET d == attempt[s][1] IN
  /\ attempt[s] # None /\ s \notin hung
  /\ Record(d, attempt[s][2], ok)
  /\ attempt' = [attempt EXCEPT ![s] = None]
  /\ turn' = IF s[2] = "route" THEN turn
             ELSE [turn EXCEPT ![s[1]] = IF status[d] = "deleted" THEN 0 ELSE @ - 1]
  /\ UNCHANGED <<leaseVars, chosen, stopping, hung, outlasted, redeliveries, crashes>>

-----------------------------------------------------------------------------
(* Routes *)

\* The ping route: a delivery that its own handler attempts at once.
Ping(i, d) ==
  /\ attempt[Route(i)] = None
  /\ NextNew(d)
  /\ Claim(Route(i), d, 0)
  /\ due' = due \cup {d}
  /\ UNCHANGED <<leaseVars, workerVars, hung, outlasted, redeliveries, crashes>>

\* The redeliver route: resetWebhookDelivery takes a row in any state, and its
\* handler attempts it at once.
Redeliver(i, d) ==
  /\ redeliveries < MaxRedeliveries
  /\ attempt[Route(i)] = None
  /\ status[d] \notin {"none", "deleted"}
  /\ Claim(Route(i), d, 0)
  /\ due' = due \cup {d}
  /\ redeliveries' = redeliveries + 1
  /\ UNCHANGED <<leaseVars, workerVars, hung, outlasted, crashes>>

\* retryWebhook of the administrator's console.
RetryWebhook(d) ==
  /\ redeliveries < MaxRedeliveries
  /\ status[d] = "failure"
  /\ status' = [status EXCEPT ![d] = "pending"]
  /\ tries'  = [tries EXCEPT ![d] = 0]
  /\ due'    = due \cup {d}
  /\ old'    = old \ {d}
  /\ redeliveries' = redeliveries + 1
  /\ UNCHANGED <<leaseVars, workerVars, attempt, hung, outlasted, crashes>>

\* Deleting a webhook deletes its deliveries.
DeleteWebhook(d) ==
  /\ status[d] \notin {"none", "deleted"}
  /\ status' = [status EXCEPT ![d] = "deleted"]
  /\ due' = due \ {d} /\ old' = old \ {d}
  /\ UNCHANGED <<leaseVars, tries, workerVars, attempt, hung, outlasted, redeliveries, crashes>>

-----------------------------------------------------------------------------
(* Processes, endpoints and time                                           *)

\* shutdown of server.mjs: the timer and the lease go, a turn under way does not.
Stop(i) ==
  /\ i \notin stopping /\ crashes < MaxCrashes
  /\ stopping' = stopping \cup {i}
  /\ crashes' = crashes + 1
  /\ ReleaseLease(i)
  /\ UNCHANGED <<rowVars, turn, chosen, attempt, hung, outlasted, redeliveries>>

\* The process exits, or is killed, and is started again.
Restart(i) ==
  /\ i \in stopping \/ crashes < MaxCrashes
  /\ crashes' = IF i \in stopping THEN crashes ELSE crashes + 1
  /\ LoseOwner(i)
  /\ turn' = [turn EXCEPT ![i] = 0]
  /\ chosen' = [chosen EXCEPT ![i] = NoRow]
  /\ stopping' = stopping \ {i}
  /\ attempt' = [s \in Slots |-> IF s[1] = i THEN None ELSE attempt[s]]
  /\ hung' = {s \in hung : s[1] # i}
  /\ UNCHANGED <<rowVars, outlasted, redeliveries>>

\* The endpoint breaks off in the middle of its answer: requestWebhook listens
\* for the answer's end and for errors of the request, and gets neither.
AnswerBreaksOff(s) ==
  /\ Aborts /\ attempt[s] # None /\ s \notin hung
  /\ hung' = hung \cup {s}
  /\ UNCHANGED <<leaseVars, rowVars, workerVars, attempt, outlasted, redeliveries, crashes>>

BecomesDue(d) ==
  /\ status[d] = "pending" /\ d \notin due
  /\ due' = due \cup {d}
  /\ UNCHANGED <<leaseVars, status, tries, old, workerVars, attempt, hung, outlasted, redeliveries, crashes>>

Alive(d) == \E s \in Slots \ hung : Sending(s, d)

\* Time passes.  An attempt ends well inside strandedMinutes, unless its answer
\* trickles in: the ten seconds of DELIVERY_TIMEOUT_MS are between two bytes.
GrowsOld(d) ==
  /\ status[d] = "processing" /\ d \notin old
  /\ old' = old \cup {d}
  /\ outlasted' = IF Alive(d) THEN outlasted \cup {d} ELSE outlasted
  /\ UNCHANGED <<leaseVars, status, tries, due, workerVars, attempt, hung, redeliveries, crashes>>

\* The owner renews at every tick, well inside the 90 seconds; what can take
\* longer is a turn, which spends its time in attempts.
Lapse ==
  /\ \A i \in Instances : holder = i => attempt[Worker(i)] # None
  /\ LeaseLapses
  /\ UNCHANGED <<rowVars, workerVars, attempt, hung, outlasted, redeliveries, crashes>>

DeliveryNext ==
  \/ \E d \in Deliveries : \/ Enqueue(d) \/ RetryWebhook(d) \/ DeleteWebhook(d)
                           \/ BecomesDue(d) \/ GrowsOld(d)
  \/ \E i \in Instances : Tick(i) \/ EndTurn(i) \/ ClaimChosen(i) \/ Stop(i) \/ Restart(i)
  \/ \E i \in Instances, d \in Deliveries : Select(i, d) \/ Ping(i, d) \/ Redeliver(i, d)
  \/ \E s \in Slots : AnswerBreaksOff(s) \/ \E ok \in BOOLEAN : AttemptEnds(s, ok)
  \/ Lapse

DeliverySpec == DeliveryInit /\ [][DeliveryNext]_deliveryVars

\* Timers fire, turns go on, requests that can end do, and time passes.
DeliveryFairness ==
  /\ \A i \in Instances : /\ SF_deliveryVars(Tick(i)) /\ WF_deliveryVars(ClaimChosen(i)) /\ WF_deliveryVars(EndTurn(i))
                          /\ WF_deliveryVars(\E d \in Deliveries : Select(i, d))
                          /\ WF_deliveryVars(i \in stopping /\ Restart(i))
  /\ \A s \in Slots : WF_deliveryVars(\E ok \in BOOLEAN : AttemptEnds(s, ok))
  /\ \A d \in Deliveries : WF_deliveryVars(BecomesDue(d)) /\ WF_deliveryVars(GrowsOld(d))
  /\ WF_deliveryVars(Lapse)

FairDeliverySpec == DeliverySpec /\ DeliveryFairness

-----------------------------------------------------------------------------
(* Properties *)

\* However the lease changes hands and whoever crashes, a delivery is sent by
\* one process at a time, until somebody redelivers by hand or one of its attempts
\* has gone on past strandedMinutes.
OneSenderAtATime ==
  redeliveries = 0 =>
    \A s, t \in Slots \ hung, d \in Deliveries \ outlasted : Sending(s, d) /\ Sending(t, d) => s = t

\* A delivery the endpoint has accepted is sent again.
Accepted(d) == status[d] = "success" /\ status'[d] \notin {"success", "deleted"}

\* A delivery the endpoint has accepted is not sent again unless somebody asks.
AcceptedIsFinal == [][\A d \in Deliveries : Accepted(d) => redeliveries' > redeliveries]_deliveryVars

Requeued(d) ==
  /\ status[d] = "processing" /\ status'[d] = "pending"
  /\ \E i \in Instances : turn[i] = 0 /\ turn'[i] > 0

\* requeueStranded hands out again only what nobody is sending any more, or what an
\* answer has kept on the wire for longer than strandedMinutes.
OnlyTheDeadAreRequeued ==
  [][\A d \in Deliveries : Requeued(d) => ~Alive(d) \/ d \in outlasted]_deliveryVars

\* src/src/job-leases.mjs:151, "only reclaimed once it has been claimed for longer
\* than any live attempt could still be running".
LiveIsNotReclaimed == [][\A d \in Deliveries : Requeued(d) => ~Alive(d)]_deliveryVars

\* The outcome of an attempt is recorded by a process that still has the lease.
OutcomesAreFenced ==
  [][\A i \in Instances :
       attempt[Worker(i)] # None /\ attempt'[Worker(i)] = None /\ turn'[i] > 0
         => HoldsLease(i)]_deliveryVars

\* Every delivery is accepted or given up in the end, unless a request hangs.
Open(d) == status[d] \in {"pending", "processing"}

DeliveriesSettle == \A d \in Deliveries : Open(d) ~> ~Open(d) \/ hung # {}

\* Every delivery is accepted or given up in the end.

EveryDeliverySettles == \A d \in Deliveries : Open(d) ~> ~Open(d)

=============================================================================

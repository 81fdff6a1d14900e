---------------------------- MODULE ServerProofs ----------------------------
(***************************************************************************)
(* What a message, a job, its log and an open page can count on while      *)
(* processes stop, answers are lost and clocks run on, for any number of   *)
(* them: proofs about WebhookDeliveries, EmailOutbox, Shutdown,            *)
(* RunnerSession, JobLog and RealtimeNotifications.                        *)
(***************************************************************************)
EXTENDS WebhookDeliveries, EmailOutbox, Shutdown, RunnerSession, JobLog, RealtimeNotifications,
        Integers, FiniteSetTheorems, WellFoundedInduction, SequenceTheorems, TLAPS

(***************************************************************************)
(* Webhook deliveries: no delivery has two senders, however the lease      *)
(* changes hands.  The lease is no part of the argument: rows are fenced   *)
(* by the claim and by their age.                                          *)
(***************************************************************************)
\* What is on its way, as a request that can still end.
Live(s, d) == s \notin hung /\ Sending(s, d)

\* A row that was claimed more than strandedMinutes ago has nobody who sends it, unless
\* an attempt of it has gone on for as long (job-leases.mjs:149-152).
OldAreDead == \A d \in old \ outlasted, s \in Slots : ~Live(s, d)

\* Until somebody redelivers, and but for those of which an attempt goes on so long, a
\* delivery on the wire is processing or deleted, and has one sender.
Fenced ==
  redeliveries = 0 =>
    \A s \in Slots, d \in Deliveries \ outlasted : Live(s, d) =>
      /\ status[d] \in {"processing", "deleted"}
      /\ \A t \in Slots : Live(t, d) => t = s

Shape ==
  /\ status \in [Deliveries -> Status] /\ attempt \in [Slots -> (Deliveries \X Nat) \cup {None}]
  /\ tries \in [Deliveries -> Nat] /\ turn \in [Instances -> Int]
  /\ chosen \in [Instances -> Deliveries \cup {NoRow}]
  /\ old \subseteq Deliveries /\ hung \subseteq Slots /\ redeliveries \in Nat

IInv == Shape /\ OldAreDead /\ Fenced

-----------------------------------------------------------------------------
LEMMA NothingIsNone == ASSUME NEW d \in Deliveries, NEW n PROVE <<d, n>> # None
    BY DeliveryAssumption DEF None, NoRow

LEMMA InitOK == DeliveryInit => IInv
<1> SUFFICES ASSUME DeliveryInit PROVE IInv
    OBVIOUS
<1>1. Shape
    BY DeliveryAssumption DEF DeliveryInit, Shape, Status
<1>2. \A s \in Slots, d \in Deliveries : ~Live(s, d)
    BY DEF DeliveryInit, Live, Sending
<1> QED BY <1>1, <1>2 DEF IInv, OldAreDead, Fenced, DeliveryInit

\* Steps that begin no attempt and change no row but to take it out of use.
LEMMA Quiet ==
  ASSUME IInv, UNCHANGED <<redeliveries, tries, outlasted>>, Shape', old' \subseteq old,
         \A s \in Slots, d \in Deliveries : Live(s, d)' => Live(s, d),
         \A s \in Slots, d \in Deliveries \ outlasted :
           Live(s, d)' => status'[d] = status[d] \/ status'[d] = "deleted"
  PROVE  IInv'
<1>1. OldAreDead'
    BY DEF IInv, Shape, OldAreDead
<1>2. Fenced'
    BY DEF IInv, Fenced
<1> QED BY <1>1, <1>2 DEF IInv

\* A claim by slot s: nobody else is sending what may be claimed.
LEMMA ClaimOK ==
  ASSUME IInv, NEW s \in Slots, NEW d \in Deliveries, NEW n \in Nat, Claim(s, d, n),
         UNCHANGED <<hung, outlasted>>, Shape',
         \/ redeliveries' # 0
         \/ redeliveries' = redeliveries /\ (d \in outlasted \/ \A t \in Slots : ~Live(t, d))
  PROVE  IInv'
<1>1. /\ attempt'[s] = <<d, n + 1>> /\ \A t \in Slots \ {s} : attempt'[t] = attempt[t]
      /\ status'[d] = "processing" /\ \A e \in Deliveries \ {d} : status'[e] = status[e]
      /\ old' = old \ {d}
    BY DEF Claim, IInv, Shape
<1>2. \A t \in Slots, e \in Deliveries : e # d => (Live(t, e)' => Live(t, e))
    BY <1>1 DEF Live, Sending
<1>3. \A t \in Slots : t # s => (Live(t, d)' => Live(t, d))
    BY <1>1 DEF Live, Sending
<1>4. OldAreDead'
    BY <1>1, <1>2 DEF IInv, Shape, OldAreDead
<1>5. Fenced'
    BY <1>1, <1>2, <1>3 DEF IInv, Fenced
<1> QED BY <1>4, <1>5 DEF IInv

LEMMA StepOK ==
  ASSUME IInv, [DeliveryNext]_deliveryVars
  PROVE  IInv'
<1>s. Shape /\ OldAreDead /\ Fenced
    BY DEF IInv
<1>1. ASSUME NEW d \in Deliveries, Enqueue(d) PROVE IInv'
  <2>1. Shape'
      BY <1>s, <1>1 DEF workerVars, Enqueue, Shape, Status
  <2>2. \A s \in Slots, e \in Deliveries : Live(s, e)' <=> Live(s, e)
      BY <1>1 DEF Enqueue, Live, Sending
  <2>3. OldAreDead'
      BY <1>s, <1>1, <2>2 DEF Enqueue, Shape, OldAreDead
  <2>4. \A e \in Deliveries : status[e] # "none" => status'[e] = status[e]
      BY <1>s, <1>1 DEF Enqueue, NextNew, Shape
  <2>5. Fenced'
      BY <1>s, <1>1, <2>2, <2>4 DEF Enqueue, Fenced
  <2> QED BY <2>1, <2>3, <2>5 DEF IInv
<1>2. ASSUME NEW d \in Deliveries, RetryWebhook(d) PROVE IInv'
  <2>1. Shape' /\ redeliveries' # 0
      BY <1>s, <1>2 DEF workerVars, RetryWebhook, Shape, Status
  <2>2. OldAreDead'
      BY <1>s, <1>2 DEF RetryWebhook, OldAreDead, Live, Sending
  <2> QED BY <2>1, <2>2 DEF IInv, Fenced
<1>3. ASSUME NEW d \in Deliveries, DeleteWebhook(d) PROVE IInv'
  <2>1. Shape'
      BY <1>s, <1>3 DEF workerVars, DeleteWebhook, Shape, Status
  <2>2. \A s \in Slots, e \in Deliveries : Live(s, e)' <=> Live(s, e)
      BY <1>3 DEF DeleteWebhook, Live, Sending
  <2>3. \A e \in Deliveries : status'[e] = status[e] \/ status'[e] = "deleted"
      BY <1>s, <1>3 DEF DeleteWebhook, Shape
  <2> QED BY <1>3, <2>1, <2>2, <2>3, Quiet DEF DeleteWebhook
<1>4. ASSUME NEW d \in Deliveries, BecomesDue(d) PROVE IInv'
  <2>1. Shape' /\ UNCHANGED <<status, tries, old, outlasted, redeliveries>>
      BY <1>s, <1>4 DEF workerVars, BecomesDue, Shape
  <2>2. \A s \in Slots, e \in Deliveries : Live(s, e)' <=> Live(s, e)
      BY <1>4 DEF BecomesDue, Live, Sending
  <2> QED BY <2>1, <2>2, Quiet
<1>5. ASSUME NEW d \in Deliveries, GrowsOld(d) PROVE IInv'
  <2>1. Shape'
      BY <1>s, <1>5 DEF workerVars, GrowsOld, Shape
  <2>2. \A s \in Slots, e \in Deliveries : Live(s, e)' <=> Live(s, e)
      BY <1>5 DEF GrowsOld, Live, Sending
  <2>3. d \in outlasted' \/ \A s \in Slots : ~Live(s, d)
      BY <1>5 DEF GrowsOld, Alive, Live
  <2>4. OldAreDead'
      BY <1>s, <1>5, <2>2, <2>3 DEF GrowsOld, Shape, OldAreDead
  <2>5. Fenced'
      BY <1>s, <1>5, <2>2 DEF GrowsOld, Fenced
  <2> QED BY <2>1, <2>4, <2>5 DEF IInv
<1>6. ASSUME NEW i \in Instances, Tick(i) PROVE IInv'
  <2>1. Shape'
      BY <1>s, <1>6, DeliveryAssumption DEF Tick, Shape, Status
  <2>2. \A s \in Slots, e \in Deliveries : Live(s, e)' <=> Live(s, e)
      BY <1>6 DEF Tick, Live, Sending
  <2>3. \A s \in Slots, e \in Deliveries \ outlasted : Live(s, e) => e \notin Stranded
      BY <1>s DEF Stranded, OldAreDead
  <2>4. \A e \in Deliveries : e \notin Stranded => status'[e] = status[e]
      BY <1>6 DEF Tick
  <2>5. UNCHANGED <<redeliveries, tries, old, outlasted>>
      BY <1>6 DEF Tick
  <2> QED BY <2>1, <2>2, <2>3, <2>4, <2>5, Quiet
<1>7. ASSUME NEW i \in Instances, ClaimChosen(i) PROVE IInv'
  <2> DEFINE d == chosen[i]
  <2>1. d \in Deliveries /\ Worker(i) \in Slots /\ tries[d] \in Nat
      BY <1>s, <1>7 DEF ClaimChosen, Shape, Worker, Slots, Callers
  <2>2. CASE Claimable(d)
    <3>1. /\ Claim(Worker(i), d, tries[d]) /\ UNCHANGED <<turn, hung, outlasted, redeliveries>>
          /\ chosen' = [chosen EXCEPT ![i] = NoRow]
        BY <1>7, <2>2 DEF ClaimChosen
    <3>2. Shape'
        BY <1>s, <2>1, <3>1 DEF Claim, Shape, Status
    <3>3. redeliveries = 0 => d \in outlasted \/ \A t \in Slots : ~Live(t, d)
        BY <1>s, <2>1, <2>2 DEF Claimable, Fenced
    <3> HIDE DEF d
    <3> QED BY <1>s, <2>1, <3>1, <3>2, <3>3, ClaimOK DEF IInv
  <2>3. CASE ~Claimable(d)
    <3>1. /\ UNCHANGED <<status, tries, old, attempt, hung, outlasted, redeliveries>>
          /\ chosen' = [chosen EXCEPT ![i] = NoRow]
          /\ turn' = [turn EXCEPT ![i] = IF status[d] = "deleted" THEN 0 ELSE @ - 1]
        BY <1>7, <2>3 DEF ClaimChosen
    <3>2. Shape'
        BY <1>s, <3>1 DEF Shape
    <3>3. \A s \in Slots, e \in Deliveries : Live(s, e)' <=> Live(s, e)
        BY <3>1 DEF Live, Sending
    <3> QED BY <1>s, <3>1, <3>2, <3>3, Quiet DEF IInv
  <2> QED BY <2>2, <2>3
<1>8. ASSUME NEW i \in Instances, NEW d \in Deliveries, Ping(i, d) PROVE IInv'
  <2>1. Route(i) \in Slots
      BY DEF Route, Slots, Callers
  <2>2. Claim(Route(i), d, 0) /\ UNCHANGED <<turn, chosen, hung, outlasted, redeliveries>> /\ status[d] = "none"
      BY <1>8 DEF Ping, NextNew, workerVars
  <2>3. Shape'
      BY <1>s, <2>1, <2>2 DEF Claim, Shape, Status
  <2>4. redeliveries = 0 => d \in outlasted \/ \A t \in Slots : ~Live(t, d)
      BY <1>s, <2>2 DEF Fenced
  <2> QED BY <1>s, <2>1, <2>2, <2>3, <2>4, ClaimOK DEF IInv
<1>9. ASSUME NEW i \in Instances, NEW d \in Deliveries, Redeliver(i, d) PROVE IInv'
  <2>1. Route(i) \in Slots
      BY DEF Route, Slots, Callers
  <2>2. /\ Claim(Route(i), d, 0) /\ UNCHANGED <<turn, chosen, hung, outlasted>>
        /\ redeliveries' = redeliveries + 1
      BY <1>9 DEF Redeliver, workerVars
  <2>3. Shape' /\ redeliveries' # 0
      BY <1>s, <2>1, <2>2 DEF Claim, Shape, Status
  <2> QED BY <1>s, <2>1, <2>2, <2>3, ClaimOK DEF IInv
<1>10. ASSUME NEW s \in Slots, NEW ok \in BOOLEAN, AttemptEnds(s, ok) PROVE IInv'
  <2>1. PICK d \in Deliveries : attempt[s][1] = d /\ Live(s, d)
      BY <1>s, <1>10 DEF AttemptEnds, Shape, Live, Sending
  <2>2. /\ attempt' = [attempt EXCEPT ![s] = None] /\ UNCHANGED <<hung, outlasted, redeliveries, tries, chosen>>
        /\ old' = old \ {d}
        /\ \A e \in Deliveries \ {d} : status'[e] = status[e]
      BY <1>s, <1>10, <2>1 DEF AttemptEnds, Record, Shape
  <2>3. status' \in [Deliveries -> Status]
      BY <1>s, <1>10 DEF AttemptEnds, Record, Shape, Status
  <2>t. turn' \in [Instances -> Int]
    <3>1. \/ turn' = turn
          \/ turn' = [turn EXCEPT ![s[1]] = 0]
          \/ turn' = [turn EXCEPT ![s[1]] = @ - 1]
        BY <1>10 DEF AttemptEnds
    <3> QED BY <1>s, <3>1 DEF Shape, Slots
  <2>4. Shape'
      BY <1>s, <2>2, <2>3, <2>t DEF Shape
  <2>5. \A t \in Slots, e \in Deliveries : Live(t, e)' => t # s /\ Live(t, e)
      BY <1>s, <2>2 DEF Shape, Live, Sending
  <2>6. OldAreDead'
      BY <1>s, <2>2, <2>5 DEF Shape, OldAreDead
  <2>7. redeliveries = 0 => d \in outlasted \/ \A t \in Slots : ~Live(t, d)'
      BY <1>s, <2>1, <2>5 DEF Fenced
  <2>8. Fenced'
      BY <1>s, <2>1, <2>2, <2>5, <2>7 DEF Fenced
  <2> QED BY <2>4, <2>6, <2>8 DEF IInv
<1>11. ASSUME NEW s \in Slots, AnswerBreaksOff(s) PROVE IInv'
  <2>1. Shape' /\ UNCHANGED <<status, tries, old, outlasted, redeliveries>>
      BY <1>s, <1>11 DEF AnswerBreaksOff, rowVars, workerVars, Shape
  <2>2. \A t \in Slots, e \in Deliveries : Live(t, e)' => Live(t, e)
      BY <1>11 DEF AnswerBreaksOff, Live, Sending
  <2> QED BY <2>1, <2>2, Quiet
<1>12. ASSUME NEW i \in Instances, Restart(i) PROVE IInv'
  <2>1. UNCHANGED <<status, tries, old, outlasted, redeliveries>>
      BY <1>12 DEF Restart, rowVars
  <2>2. Shape'
      BY <1>s, <1>12, <2>1 DEF Restart, Shape
  <2>3. \A t \in Slots, e \in Deliveries : Live(t, e)' => Live(t, e)
      BY NothingIsNone, <1>12 DEF Restart, Live, Sending
  <2> QED BY <2>1, <2>2, <2>3, Quiet
<1>13. ASSUME UNCHANGED <<status, tries, old, attempt, hung, outlasted, redeliveries>>,
              turn' \in [Instances -> Int], chosen' \in [Instances -> Deliveries \cup {NoRow}]
       PROVE  IInv'
  <2>1. Shape'
      BY <1>s, <1>13 DEF Shape
  <2>2. \A t \in Slots, e \in Deliveries : Live(t, e)' <=> Live(t, e)
      BY <1>13 DEF Live, Sending
  <2> QED BY <1>13, <2>1, <2>2, Quiet
<1>14. ASSUME NEW i \in Instances, NEW d \in Deliveries, Select(i, d) PROVE IInv'
    BY <1>s, <1>13, <1>14 DEF Select, rowVars, Shape
<1>15. ASSUME NEW i \in Instances, EndTurn(i) PROVE IInv'
    BY <1>s, <1>13, <1>15 DEF EndTurn, rowVars, Shape
<1>16. ASSUME NEW i \in Instances, Stop(i) PROVE IInv'
    BY <1>s, <1>13, <1>16 DEF Stop, rowVars, Shape
<1>17. CASE Lapse \/ UNCHANGED deliveryVars
    BY <1>s, <1>13, <1>17 DEF Lapse, deliveryVars, rowVars, workerVars, Shape
<1> QED BY <1>1, <1>2, <1>3, <1>4, <1>5, <1>6, <1>7, <1>8, <1>9, <1>10, <1>11, <1>12, <1>14, <1>15,
           <1>16, <1>17 DEF DeliveryNext

\* The invariant of the queue.
THEOREM FencingInvariance == DeliverySpec => []IInv
<1>1. IInv /\ [DeliveryNext]_deliveryVars => IInv'
    BY StepOK
<1> QED BY <1>1, InitOK, PTL DEF DeliverySpec

\* One sender at a time, until somebody redelivers by hand or an answer trickles past
\* strandedMinutes: the claim fences the row, not the lease (webhooks.mjs:468-490,
\* job-leases.mjs:149-170).
THEOREM OneSenderHolds == DeliverySpec => []OneSenderAtATime
<1>1. IInv => OneSenderAtATime
    BY DEF IInv, Fenced, Live, OneSenderAtATime
<1> QED BY <1>1, FencingInvariance, PTL

\* The sweep takes only rows nobody is sending any more, or whose answer has kept
\* an attempt on the wire for longer than strandedMinutes (job-leases.mjs:149-170).
THEOREM RequeueHolds == DeliverySpec => OnlyTheDeadAreRequeued
<1>1. ASSUME IInv, [DeliveryNext]_deliveryVars, NEW d \in Deliveries, Requeued(d)
      PROVE  ~Alive(d) \/ d \in outlasted
  <2> PICK i \in Instances : turn[i] = 0 /\ turn'[i] > 0
      BY <1>1 DEF Requeued
  <2>0. status[d] = "processing" /\ status'[d] = "pending"
      BY <1>1 DEF Requeued
  <2>1. ASSUME NEW j \in Instances, Tick(j) PROVE ~Alive(d) \/ d \in outlasted
    <3>1. d \in Stranded
        BY <2>0, <2>1 DEF Tick
    <3> QED BY <1>1, <3>1 DEF Stranded, IInv, OldAreDead, Live, Alive
  <2>2. turn \in [Instances -> Int]
      BY <1>1 DEF IInv, Shape
  <2>3. UNCHANGED turn => FALSE
      BY <1>1
  <2>4. ASSUME NEW j \in Instances, EndTurn(j) \/ ClaimChosen(j) \/ Stop(j) \/ Restart(j) PROVE FALSE
      BY <1>1, <2>2, <2>3, <2>4 DEF EndTurn, ClaimChosen, Stop, Restart
  <2>5. ASSUME NEW s \in Slots, NEW ok \in BOOLEAN, AttemptEnds(s, ok) PROVE FALSE
      BY <1>1, <2>2, <2>3, <2>5 DEF AttemptEnds
  <2>6. ASSUME NEW j \in Instances, NEW e \in Deliveries, Select(j, e) \/ Ping(j, e) \/ Redeliver(j, e)
        PROVE  FALSE
      BY <2>3, <2>6 DEF Select, Ping, Redeliver, workerVars
  <2>7. ASSUME NEW e \in Deliveries,
               Enqueue(e) \/ RetryWebhook(e) \/ DeleteWebhook(e) \/ BecomesDue(e) \/ GrowsOld(e)
        PROVE  FALSE
      BY <2>3, <2>7 DEF Enqueue, RetryWebhook, DeleteWebhook, BecomesDue, GrowsOld, workerVars
  <2>8. ASSUME NEW s \in Slots, AnswerBreaksOff(s) PROVE FALSE
      BY <2>3, <2>8 DEF AnswerBreaksOff, workerVars
  <2>9. ~Lapse /\ ~UNCHANGED deliveryVars
      BY <2>3 DEF Lapse, deliveryVars, workerVars
  <2> QED BY <1>1, <2>1, <2>4, <2>5, <2>6, <2>7, <2>8, <2>9 DEF DeliveryNext
<1>2. IInv /\ [DeliveryNext]_deliveryVars =>
        [\A d \in Deliveries : Requeued(d) => ~Alive(d) \/ d \in outlasted]_deliveryVars
    BY <1>1
<1> QED BY <1>2, FencingInvariance, PTL DEF DeliverySpec, OnlyTheDeadAreRequeued

(***************************************************************************)
(* The email outbox: a message that is on its way is "processing" and      *)
(* claimed recently, so nobody else claims it, and a suppression takes     *)
(* what waits with it, or will once its sender goes on.                    *)
(***************************************************************************)
Suppressions == Permanent \cup {"none", "soft_bounce_threshold", "expired"}

MailShape ==
  /\ mailStatus \in [Emails -> MailStatus] /\ mailTries \in [Emails -> Nat]
  /\ suppression \in [Addresses -> Suppressions] /\ soft \in [Addresses -> Nat]
  /\ batch \in [Senders -> SUBSET Emails] /\ sending \in [Senders -> Emails \cup {Idle}]
  /\ rejecting \in [Senders -> {"no", "suppressed", "swept"}]

\* A claim of more than fifteen minutes ago has nobody behind it.
OldClaimsAreDead == \A s \in Senders : sending[s] # Idle => sending[s] \notin mailOld

MailInv == MailShape /\ OldClaimsAreDead /\ OneSenderPerMessage /\ NothingWaitsForTheSuppressed

LEMMA MailStarts == MailInit => MailInv
BY OutboxAssumption
   DEF MailInit, MailInv, MailShape, Suppressions, MailStatus, OldClaimsAreDead, OneSenderPerMessage,
       NothingWaitsForTheSuppressed, Suppressed, Waiting

\* A sweep over the messages of an address touches only what waits.
LEMMA SweepSpares ==
  ASSUME NEW a \in Addresses, NEW st \in [Emails -> MailStatus]
  PROVE  /\ Swept(a, st) \in [Emails -> MailStatus]
         /\ \A e \in Emails : Swept(a, st)[e] \in {st[e], "cancelled"}
         /\ \A e \in Emails : Swept(a, st)[e] \in Waiting => To[e] # a
         /\ \A e \in Emails : st[e] = "processing" => Swept(a, st)[e] = "processing"
BY DEF Swept, Waiting, MailStatus

\* What changes rows and starts no attempt: rows on their way stay "processing", and
\* nothing begins to wait for a suppressed address.
LEMMA RowsMove ==
  ASSUME MailInv, MailShape', mailOld' \subseteq mailOld, UNCHANGED sending,
         \A e \in Emails : mailStatus[e] = "processing" =>
           mailStatus'[e] = "processing" \/ \A s \in Senders : sending[s] # Idle => sending[s] # e,
         NothingWaitsForTheSuppressed'
  PROVE  MailInv'
BY DEF MailInv, MailShape, OldClaimsAreDead, OneSenderPerMessage

\* Nothing begins to wait, no address is suppressed and no sweep forgotten.
LEMMA NobodyElseWaits ==
  ASSUME MailInv,
         \A e \in Emails : mailStatus'[e] \in Waiting => mailStatus[e] \in Waiting \/ ~Suppressed(To[e]),
         \A a \in Addresses : Suppressed(a)' => Suppressed(a),
         \A a \in Addresses : Suppressed(a)' /\ Unswept(a) => Unswept(a)'
  PROVE  NothingWaitsForTheSuppressed'
BY OutboxAssumption DEF MailInv, NothingWaitsForTheSuppressed

\* An attempt of s ends, whatever it makes of its own row.
LEMMA SendIsOver ==
  ASSUME MailInv, NEW s \in Senders, sending[s] # Idle, MailShape', UNCHANGED mailOld,
         sending' = [sending EXCEPT ![s] = Idle],
         \A e \in Emails \ {sending[s]} :
           mailStatus[e] = "processing" => mailStatus'[e] = "processing",
         NothingWaitsForTheSuppressed'
  PROVE  MailInv'
<1>1. OneSenderPerMessage'
  BY DEF MailInv, MailShape, OneSenderPerMessage
<1>2. OldClaimsAreDead'
  BY DEF MailInv, MailShape, OldClaimsAreDead
<1> QED BY <1>1, <1>2 DEF MailInv

\* The sender that suppressed an address, or another, sweeps what waits for it.
LEMMA SweptIsSwept ==
  ASSUME MailInv, NEW a \in Addresses, mailStatus' = Swept(a, mailStatus),
         \A b \in Addresses \ {a} : (Suppressed(b)' => Suppressed(b)) /\ (Unswept(b) => Unswept(b)')
  PROVE  NothingWaitsForTheSuppressed'
<1> SUFFICES ASSUME NEW e \in Emails, Suppressed(To[e])', mailStatus'[e] \in Waiting
             PROVE  Unswept(To[e])'
  BY DEF NothingWaitsForTheSuppressed
<1>1. To[e] # a /\ mailStatus[e] \in Waiting
  BY SweepSpares DEF MailInv, MailShape, Waiting
<1> QED BY <1>1, OutboxAssumption DEF MailInv, NothingWaitsForTheSuppressed

LEMMA MailSteps == MailInv /\ [MailNext]_mailVars => MailInv'
<1> SUFFICES ASSUME MailInv, [MailNext]_mailVars PROVE MailInv'
  OBVIOUS
<1> USE OutboxAssumption
<1>1. ASSUME NEW e \in Emails, Queue(e) PROVE MailInv'
  <2>1. MailShape' /\ NothingWaitsForTheSuppressed'
    BY <1>1, NobodyElseWaits
       DEF Queue, MailInv, MailShape, MailStatus, Suppressed, Unswept, InHand, Waiting, supVars, sendVars
  <2> QED BY <1>1, <2>1, RowsMove DEF Queue, MailInv, OneSenderPerMessage, sendVars
<1>2. ASSUME NEW e \in Emails, RetryOutboxEmail(e) \/ RetryEmail(e) PROVE MailInv'
  <2>1. MailShape' /\ NothingWaitsForTheSuppressed'
    BY <1>2, NobodyElseWaits
       DEF RetryOutboxEmail, RetryEmail, Retryable, Blocked, MailInv, MailShape, MailStatus,
           Suppressed, Unswept, InHand, Waiting, supVars, sendVars
  <2> QED BY <1>2, <2>1, RowsMove DEF RetryOutboxEmail, RetryEmail, Retryable, MailInv, MailShape, sendVars
<1>3. ASSUME NEW e \in Emails, MailBecomesDue(e) PROVE MailInv'
  BY <1>3, RowsMove, NobodyElseWaits DEF MailBecomesDue, MailInv, MailShape, Suppressed, Unswept, InHand, supVars, sendVars
<1>4. ASSUME NEW e \in Emails, MailGrowsOld(e) PROVE MailInv'
  <2>1. NothingWaitsForTheSuppressed'
    BY <1>4, NobodyElseWaits DEF MailGrowsOld, Suppressed, Unswept, InHand, supVars, sendVars
  <2> QED BY <1>4, <2>1 DEF MailGrowsOld, MailInv, MailShape, OldClaimsAreDead, OneSenderPerMessage, supVars, sendVars
<1>5. ASSUME NEW s \in Senders, StartBatch(s) PROVE MailInv'
  <2>1. MailShape' /\ NothingWaitsForTheSuppressed'
    BY <1>5, NobodyElseWaits
       DEF StartBatch, Recovered, Blocked, MailInv, MailShape, MailStatus, Suppressed, Unswept, InHand, Waiting, supVars
  <2> QED BY <1>5, <2>1, RowsMove DEF StartBatch, Recovered, MailInv, MailShape, OldClaimsAreDead
<1>6. ASSUME NEW s \in Senders, NEW e \in Emails, ClaimEmail(s, e) PROVE MailInv'
  <2>0. NothingWaitsForTheSuppressed'
    <3>1. \A f \in Emails : mailStatus'[f] \in Waiting => mailStatus[f] \in Waiting
      BY <1>6 DEF ClaimEmail, MailInv, MailShape, Waiting
    <3>2. \A a \in Addresses : Unswept(a) => Unswept(a)'
      BY <1>6 DEF ClaimEmail, Unswept, InHand, MailInv, MailShape
    <3> QED BY <1>6, <3>1, <3>2, NobodyElseWaits DEF ClaimEmail, Suppressed, supVars
  <2>1. CASE Claimed(e)
    <3>1. \A t \in Senders : sending[t] # Idle => sending[t] # e
      BY <1>6, <2>1 DEF MailInv, OneSenderPerMessage, Claimed, Ready, Waiting, ClaimEmail
    <3>2. MailShape'
      BY <1>6, <2>1 DEF ClaimEmail, MailInv, MailShape, MailStatus, supVars
    <3>3. OldClaimsAreDead' /\ OneSenderPerMessage'
      BY <1>6, <2>1, <3>1
         DEF ClaimEmail, MailInv, MailShape, OldClaimsAreDead, OneSenderPerMessage
    <3> QED BY <2>0, <3>2, <3>3 DEF MailInv
  <2>2. CASE ~Claimed(e)
    BY <1>6, <2>0, <2>2, RowsMove DEF ClaimEmail, MailInv, MailShape, supVars
  <2> QED BY <2>1, <2>2
<1>7. ASSUME NEW s \in Senders, SendSucceeds(s) \/ SendFails(s) \/ CancelRejected(s) PROVE MailInv'
  <2>1. sending[s] \in Emails /\ sending[s] # Idle /\ rejecting[s] # "suppressed"
    BY <1>7 DEF SendSucceeds, SendFails, InHand, CancelRejected, MailInv, MailShape
  <2>2. MailShape'
    <3>1. CASE SendSucceeds(s)
      BY <2>1, <3>1 DEF SendSucceeds, MailInv, MailShape, MailStatus, supVars
    <3>2. CASE SendFails(s)
      BY <2>1, <3>2 DEF SendFails, MailInv, MailShape, MailStatus, supVars
    <3>3. CASE CancelRejected(s)
      BY <2>1, <3>3 DEF CancelRejected, MailInv, MailShape, MailStatus, supVars
    <3> QED BY <1>7, <3>1, <3>2, <3>3
  <2>3. NothingWaitsForTheSuppressed'
    <3>1. \A e \in Emails : mailStatus'[e] \in Waiting => mailStatus[e] \in Waiting \/ ~Suppressed(To[e])
      BY <1>7, <2>1 DEF SendSucceeds, SendFails, CancelRejected, Blocked, MailInv, MailShape, Waiting
    <3>2. \A a \in Addresses : Unswept(a) => Unswept(a)'
      BY <1>7, <2>1 DEF SendSucceeds, SendFails, CancelRejected, Unswept, InHand, MailInv, MailShape
    <3> QED BY <1>7, <3>1, <3>2, NobodyElseWaits DEF SendSucceeds, SendFails, CancelRejected, Suppressed, supVars
  <2>4. /\ sending' = [sending EXCEPT ![s] = Idle] /\ UNCHANGED mailOld
        /\ \A e \in Emails \ {sending[s]} : mailStatus[e] = "processing" => mailStatus'[e] = "processing"
    BY <1>7, <2>1 DEF SendSucceeds, SendFails, CancelRejected, InHand, MailInv, MailShape
  <2> QED BY <2>1, <2>2, <2>3, <2>4, SendIsOver
<1>8. ASSUME NEW s \in Senders, SendIsRejected(s) PROVE MailInv'
  <2> DEFINE a == To[sending[s]]
  <2>1. sending[s] \in Emails /\ a \in Addresses
    BY <1>8 DEF SendIsRejected, InHand, MailInv, MailShape
  <2>2. MailShape'
    BY <1>8, <2>1 DEF SendIsRejected, Permanent, Suppressions, MailInv, MailShape, mailRowVars
  <2>3. NothingWaitsForTheSuppressed'
    <3>1. Unswept(a)'
      BY <1>8, <2>1 DEF SendIsRejected, InHand, Unswept, MailInv, MailShape
    <3>2. \A b \in Addresses \ {a} : (Suppressed(b)' => Suppressed(b)) /\ (Unswept(b) => Unswept(b)')
      BY <1>8, <2>1 DEF SendIsRejected, InHand, Suppressed, Unswept, MailInv, MailShape
    <3> QED BY <1>8, <3>1, <3>2 DEF SendIsRejected, MailInv, NothingWaitsForTheSuppressed, mailRowVars
  <2> QED BY <1>8, <2>2, <2>3, RowsMove DEF SendIsRejected, MailInv, MailShape, mailRowVars
<1>9. ASSUME NEW s \in Senders, SweepRejected(s) PROVE MailInv'
  <2> DEFINE a == To[sending[s]]
  <2>1. sending[s] \in Emails /\ a \in Addresses
    BY <1>9 DEF SweepRejected, InHand, MailInv, MailShape
  <2>2. MailShape'
    BY <1>9, <2>1, SweepSpares DEF SweepRejected, MailInv, MailShape, supVars
  <2>3. \A b \in Addresses \ {a} : (Suppressed(b)' => Suppressed(b)) /\ (Unswept(b) => Unswept(b)')
    BY <1>9, <2>1 DEF SweepRejected, Suppressed, Unswept, InHand, supVars, MailInv, MailShape
  <2>4. NothingWaitsForTheSuppressed'
    BY <1>9, <2>1, <2>3, SweptIsSwept DEF SweepRejected
  <2> QED BY <1>9, <2>1, <2>2, <2>4, RowsMove, SweepSpares DEF SweepRejected, MailInv, MailShape
<1>10. ASSUME NEW id \in EventIds, NEW a \in Addresses, NEW type \in EventTypes, NEW fresh \in BOOLEAN,
              ProviderEvent(id, a, type, fresh)
       PROVE MailInv'
  <2>1. UNCHANGED <<mailTries, mailOld, batch, sending, rejecting>> /\ soft' \in [Addresses -> Nat]
    <3>1. UNCHANGED <<mailTries, mailOld, batch, sending, rejecting>>
      BY <1>10 DEF ProviderEvent
    <3>2. \/ UNCHANGED soft \/ soft' = [soft EXCEPT ![a] = 0] \/ soft' = [soft EXCEPT ![a] = SoftCount(a, fresh)]
      BY <1>10 DEF ProviderEvent, EventTypes
    <3>3. SoftCount(a, fresh) \in Nat
      BY DEF SoftCount, MailInv, MailShape
    <3> QED BY <3>1, <3>2, <3>3 DEF MailInv, MailShape
  <2>2. CASE UNCHANGED <<suppression, mailStatus, cutOff>>
    BY <2>1, <2>2, RowsMove, NobodyElseWaits DEF MailInv, MailShape, Suppressed, Unswept, InHand
  <2>3. ASSUME NEW reason \in Suppressions \ {"none", "expired"}, Suppress(a, reason) PROVE MailInv'
    <3> DEFINE swept == Swept(a, mailStatus)
    <3>1. /\ swept \in [Emails -> MailStatus]
          /\ \A e \in Emails : swept[e] \in {mailStatus[e], "cancelled"}
          /\ \A e \in Emails : swept[e] \in Waiting => To[e] # a
          /\ \A e \in Emails : mailStatus[e] = "processing" => swept[e] = "processing"
      BY SweepSpares DEF MailInv, MailShape
    <3>2. mailStatus' = swept /\ suppression' = [suppression EXCEPT ![a] = reason]
      BY <2>3 DEF Suppress
    <3> HIDE DEF swept
    <3>3. MailShape'
      BY <2>1, <2>3, <3>1, <3>2 DEF MailInv, MailShape
    <3>4. NothingWaitsForTheSuppressed'
      <4>1. \A b \in Addresses \ {a} : (Suppressed(b)' => Suppressed(b)) /\ (Unswept(b) => Unswept(b)')
        BY <2>1, <2>3, <3>2 DEF Suppress, Suppressed, Unswept, InHand, MailInv, MailShape
      <4> QED BY <2>3, <4>1, SweptIsSwept DEF Suppress
    <3> QED BY <2>1, <3>1, <3>2, <3>3, <3>4, RowsMove
  <2>4. \/ UNCHANGED <<suppression, mailStatus, cutOff>>
        \/ \E reason \in Suppressions \ {"none", "expired"} : Suppress(a, reason)
    BY <1>10 DEF ProviderEvent, EventTypes, Reason, Suppressions, Permanent
  <2> QED BY <2>2, <2>3, <2>4
<1>11. ASSUME NEW a \in Addresses, Unsuppress(a) \/ SuppressionExpires(a) PROVE MailInv'
  <2>1. /\ MailShape' /\ UNCHANGED <<mailRowVars, sending, rejecting>>
        /\ suppression' \in {[suppression EXCEPT ![a] = "none"], [suppression EXCEPT ![a] = "expired"]}
        /\ cutOff' \in {cutOff, cutOff \ {a}}
    BY <1>11 DEF Unsuppress, SuppressionExpires, MailInv, MailShape, Suppressions, mailRowVars, sendVars
  <2>2. \A b \in Addresses : (Suppressed(b)' => Suppressed(b)) /\ (Suppressed(b)' /\ Unswept(b) => Unswept(b)')
    BY <2>1 DEF Suppressed, Unswept, InHand, MailInv, MailShape
  <2>3. NothingWaitsForTheSuppressed'
    BY <2>1, <2>2, NobodyElseWaits DEF mailRowVars
  <2> QED BY <2>1, <2>3, RowsMove DEF mailRowVars
<1>12. ASSUME NEW s \in Senders, Crash(s) PROVE MailInv'
  <2>1. MailShape'
    BY <1>12 DEF Crash, MailInv, MailShape, mailRowVars, supVars
  <2>2. \A a \in Addresses : Unswept(a) => Unswept(a)'
    BY <1>12 DEF Crash, Unswept, InHand, MailInv, MailShape
  <2>3. NothingWaitsForTheSuppressed'
    BY <1>12, <2>2, NobodyElseWaits DEF Crash, Suppressed, mailRowVars, supVars
  <2> QED BY <1>12, <2>1, <2>3 DEF Crash, MailInv, MailShape, OldClaimsAreDead, OneSenderPerMessage, mailRowVars
<1>13. CASE UNCHANGED mailVars
  BY <1>13, RowsMove, NobodyElseWaits
     DEF mailVars, mailRowVars, supVars, sendVars, MailInv, MailShape, Suppressed, Unswept, InHand
<1> QED
  BY <1>1, <1>2, <1>3, <1>4, <1>5, <1>6, <1>7, <1>8, <1>9, <1>10, <1>11, <1>12, <1>13 DEF MailNext

\* No message has two senders, and none waits for an address that the provider
\* has called dead: the claims of src/src/notifications.mjs, with crashes, sweeps
\* and provider events between any two of its steps.
THEOREM MailHolds == MailSpec => []MailSound
<1>1. MailInv /\ [MailNext]_mailVars => MailInv'
  BY MailSteps
<1>2. MailInv => MailSound
  BY DEF MailInv, MailSound
<1> QED BY MailStarts, <1>1, <1>2, PTL DEF MailSpec

(***************************************************************************)
(* Shutdown: the workers go last.                                          *)
(***************************************************************************)

ConnStates == {"unsent", "open", "answered", "left", "cut"}

\* Whoever was there when the listener closed and is still on the wire when its drain
\* is over has been given up: in the stage of the Git transfers no such API request
\* waits unless its budget was spent, and behind it nothing does unless both were.
\* Workers go when nobody waits and no connection is left for anybody to come on.
DrainInv ==
  /\ conn \in [Calls -> ConnStates]
  /\ stage = "git" /\ apiDrained => inFlight(ApiCalls) \subseteq late
  /\ stage = "closing" => \A r \in inFlight(Calls) \ late : ~gitDrained /\ (r \in ApiCalls => ~apiDrained)
  /\ stage \in {"stopped", "exited"} => inFlight(Calls) = {} /\ kept = {}
  /\ ~workers => stage \in {"stopped", "exited"}
  /\ DrainedInOrder

LEMMA DrainInit == DownInit => DrainInv
BY DEF DownInit, DrainInv, ConnStates, inFlight, DrainedInOrder

\* The end of a request may end a drain: then nobody is in flight.
LEMMA DrainSettles ==
  ASSUME DrainInv, conn' \in [Calls -> ConnStates],
         \A r \in Calls : conn'[r] \in {"open", "cut"} => conn'[r] = conn[r],
         stage' = settle, UNCHANGED <<late, apiDrained, gitDrained, workers>>,
         kept' \subseteq kept \/ inFlight(Calls) # {}
  PROVE  DrainInv'
BY DEF DrainInv, settle, inFlight, DrainedInOrder, ConnStates, Calls

LEMMA DrainNext == DrainInv /\ [DownNext]_downVars => DrainInv'
<1> SUFFICES ASSUME DrainInv, [DownNext]_downVars PROVE DrainInv'
  OBVIOUS
<1>1. ASSUME NEW r \in Calls, trackRequest(r) PROVE DrainInv'
  BY <1>1 DEF trackRequest, OnConnection, Listening, DrainInv, inFlight, DrainedInOrder, ConnStates, Calls
<1>2. ASSUME NEW r \in Calls, Answer(r) PROVE DrainInv'
  <2>1. /\ conn' \in [Calls -> ConnStates]
        /\ \A q \in Calls : conn'[q] \in {"open", "cut"} => conn'[q] = conn[q]
    BY <1>2 DEF Answer, DrainInv, ConnStates
  <2>2. kept' \subseteq kept \/ inFlight(Calls) # {}
    BY <1>2 DEF Answer, inFlight
  <2> QED BY <1>2, <2>1, <2>2, DrainSettles DEF Answer
<1>3. ASSUME NEW r \in Calls, ClientLeaves(r) PROVE DrainInv'
  <2>1. /\ conn' \in [Calls -> ConnStates]
        /\ \A q \in Calls : conn'[q] \in {"open", "cut"} => conn'[q] = conn[q]
    BY <1>3 DEF ClientLeaves, DrainInv, ConnStates
  <2> QED BY <1>3, <2>1, DrainSettles DEF ClientLeaves
<1>10. ASSUME NEW r \in Calls, IdleEnds(r) PROVE DrainInv'
  BY <1>10 DEF IdleEnds, DrainInv, inFlight, DrainedInOrder
<1>4. ASSUME NEW p \in Pages, onUpgrade(p) \/ PageLeaves(p) PROVE DrainInv'
  BY <1>4 DEF onUpgrade, OnConnection, Listening, PageLeaves, connVars, DrainInv, inFlight, DrainedInOrder
<1>5. CASE Signal \/ CloseListener
  BY <1>5 DEF Signal, CloseListener, AfterApi, connVars, DrainInv, inFlight, DrainedInOrder, Calls
<1>6. CASE requestDrainOver \/ gitDrainOver
  BY <1>6 DEF requestDrainOver, gitDrainOver, AfterApi, connVars, DrainInv, inFlight, DrainedInOrder, Calls
<1>7. CASE closeAllConnections
  BY <1>7 DEF closeAllConnections, DrainInv, inFlight, DrainedInOrder, Calls, ConnStates
<1>8. CASE StopWorkers \/ Exit
  BY <1>8 DEF StopWorkers, Exit, connVars, DrainInv, inFlight, DrainedInOrder, Calls
<1>9. CASE UNCHANGED downVars
  BY <1>9 DEF downVars, connVars, DrainInv, inFlight, DrainedInOrder
<1> QED
  BY <1>1, <1>2, <1>3, <1>4, <1>5, <1>6, <1>7, <1>8, <1>9, <1>10 DEF DownNext, ShutdownStep

\* No worker is stopped and no database closed while a client waits for its answer,
\* and what was there when the listener closed is cut only after its budget:
\* drainAndClose and shutdown of src/src/server.mjs, whichever requests end, leave
\* or arrive on connections that are still open.
THEOREM DrainHolds == DownSpec => []DrainedInOrder
<1>1. DrainInv /\ [DownNext]_downVars => DrainInv'
  BY DrainNext
<1>2. DrainInv => DrainedInOrder
  BY DEF DrainInv
<1> QED BY DrainInit, <1>1, <1>2, PTL DEF DownSpec

(***************************************************************************)
(* A runner's session: the clock adds to the silence of a job what it      *)
(* takes from the worker's interval, and the worker is never shut out by a *)
(* lease that is younger than its process.                                 *)
(***************************************************************************)
SessionShape ==
  /\ age \in Nat /\ quiet \in Nat /\ stepLeft \in Nat /\ upFor \in Nat
  /\ beatIn \in 0 .. BeatEvery /\ sweepIn \in 0 .. SweepEvery /\ lease \in 0 .. LeaseTtl
  /\ up \in BOOLEAN /\ mute \in BOOLEAN
  /\ owner \in {"nobody", "this", "former"}
  /\ jobStatus \in {"running", "success", "failure", "cancelled"}
  /\ phase \in {"prepare", "between", "run", "builtin", "caches", "report", "over", "dead"}
  /\ verdict \in {"success", "failure", "cancelled"}

\* While the server is up, the worker comes round within its interval, and the
\* lease that shuts it out, if any, is older than the process.
WorkerComesRound ==
  /\ ~up => owner # "this"
  /\ up => upFor + sweepIn >= SweepEvery
  /\ up /\ owner = "this" /\ jobStatus = "running" => quiet + sweepIn <= Silence + SweepEvery
  /\ up /\ owner = "nobody" => quiet + sweepIn <= SweepEvery \/ upFor + sweepIn <= SweepEvery
  /\ up /\ owner = "former" =>
       /\ lease > 0 => upFor + lease <= LeaseTtl
       /\ upFor + sweepIn <= LeaseTtl + SweepEvery

\* A script is killed by the deadline at the latest.
KilledInTime == phase = "run" => age + stepLeft <= Timeout

\* An agent that is heard, while its token lives, has been heard an interval ago or
\* has not had one since the server was started, and has had its job ended when it
\* is over.
HeardOf ==
  ~mute /\ age < Ttl =>
    /\ phase \in {"over", "dead"} => jobStatus # "running"
    /\ up /\ jobStatus = "running" => quiet + beatIn <= BeatEvery \/ upFor + beatIn <= BeatEvery

SessionInv == SessionShape /\ WorkerComesRound /\ KilledInTime /\ HeardOf /\ KeptWhileTokenLives

LEMMA SessionStarts == SessionInit => SessionInv
<1> SUFFICES ASSUME SessionInit PROVE SessionInv
  OBVIOUS
<1> USE ClockAssumption
<1>1. SessionShape
  <2>1. up \in BOOLEAN /\ mute \in BOOLEAN
    BY DEF SessionInit
  <2>2. /\ age \in Nat /\ quiet \in Nat /\ stepLeft \in Nat /\ upFor \in Nat
        /\ beatIn \in 0 .. BeatEvery /\ sweepIn \in 0 .. SweepEvery /\ lease \in 0 .. LeaseTtl
    BY DEF SessionInit, UpCap
  <2> QED BY <2>1, <2>2 DEF SessionInit, SessionShape
<1>2. WorkerComesRound
  <2>1. upFor >= SweepEvery /\ upFor \in Nat /\ owner = "nobody" /\ up /\ quiet = 0 /\ sweepIn \in 1 .. SweepEvery
    BY DEF SessionInit, UpCap
  <2> QED BY <2>1 DEF WorkerComesRound
<1>3. KilledInTime /\ KeptWhileTokenLives
  BY DEF SessionInit, KilledInTime, KeptWhileTokenLives
<1>4. HeardOf
  BY DEF SessionInit, HeardOf, Working
<1> QED BY <1>1, <1>2, <1>3, <1>4 DEF SessionInv

\* A tick takes as much from a countdown as it adds to an age.
LEMMA AgeAndCountdown ==
  ASSUME NEW a, NEW c, NEW a1, NEW c1, NEW bound,
         a \in Nat, c \in Nat, a1 \in Nat, c1 \in Nat, bound \in Nat,
         a + c <= bound, a1 <= a + 1, c1 = c - 1
  PROVE  a1 + c1 <= bound
OBVIOUS

\* A step of the agent between two ticks, which neither reports nor starts a script.
LEMMA WorkerUndisturbed ==
  ASSUME WorkerComesRound, SessionShape, UNCHANGED <<quiet, upFor, sweepIn, lease, up, owner>>,
         jobStatus' = "running" => jobStatus = "running"
  PROVE  WorkerComesRound'
BY DEF WorkerComesRound

LEMMA AgentMoves ==
  ASSUME SessionInv, AgentStep, UNCHANGED <<stepLeft, beatIn>>, Working, verdict' \in {"success", "failure", "cancelled"},
         phase' \in {"between", "builtin", "caches", "report"}
  PROVE  SessionInv'
BY DEF AgentStep, jobRowVars, serverVars, SessionInv, SessionShape, WorkerComesRound, KilledInTime,
       HeardOf, KeptWhileTokenLives, Working

LEMMA SessionSteps == SessionInv /\ [SessionNext]_sessionVars => SessionInv'
<1> SUFFICES ASSUME SessionInv, [SessionNext]_sessionVars PROVE SessionInv'
  OBVIOUS
<1> USE ClockAssumption
<1>1. CASE Sweep
  <2>1. SessionShape' /\ KilledInTime'
    BY <1>1 DEF Sweep, End, jobRowVars, agentVars, SessionInv, SessionShape, KilledInTime
  <2>2. WorkerComesRound'
    BY <1>1 DEF Sweep, End, GateOpen, jobRowVars, agentVars, SessionInv, SessionShape, WorkerComesRound
  <2>3. HeardOf'
    BY <1>1 DEF Sweep, End, jobRowVars, agentVars, SessionInv, SessionShape, HeardOf, Working
  <2>4. KeptWhileTokenLives'
    <3> SUFFICES ASSUME by' = "reaper", by # "reaper" PROVE mute' \/ age' >= Ttl
      BY <1>1 DEF Sweep, SessionInv, KeptWhileTokenLives
    <3>1. jobStatus = "running" /\ quiet > Silence /\ up /\ sweepIn = 0 /\ UNCHANGED <<mute, age>>
      BY <1>1 DEF Sweep, End, jobRowVars
    <3>2. upFor >= SweepEvery
      BY <3>1 DEF SessionInv, SessionShape, WorkerComesRound
    <3>3. SUFFICES ASSUME ~mute, age < Ttl PROVE FALSE
      BY <3>1 DEF SessionInv, SessionShape
    <3>4. quiet + beatIn <= BeatEvery \/ upFor + beatIn <= BeatEvery
      BY <3>1, <3>3 DEF SessionInv, HeardOf
    <3>5. quiet \in Nat /\ upFor \in Nat /\ beatIn \in Nat
      BY DEF SessionInv, SessionShape
    <3> QED BY <3>1, <3>2, <3>4, <3>5
  <2> QED BY <2>1, <2>2, <2>3, <2>4 DEF SessionInv
<1>2. CASE CancelRun
  BY <1>2 DEF CancelRun, End, agentVars, serverVars, SessionInv, SessionShape, WorkerComesRound,
              KilledInTime, HeardOf, KeptWhileTokenLives, Working
<1>3. CASE ComeUp \/ \E clean \in BOOLEAN : GoDown(clean)
  <2>1. /\ UNCHANGED <<age, quiet, stepLeft, beatIn, verdict, phase, jobStatus, by>> /\ mute' = mute
    BY <1>3 DEF ComeUp, GoDown, agentVars, jobRowVars
  <2>2. CASE ComeUp
    <3>1. /\ ~up /\ up' = TRUE /\ sweepIn' = SweepEvery /\ upFor' = 0 /\ UNCHANGED <<lease, owner>>
      BY <2>2 DEF ComeUp, FirstSweep
    <3>2. SweepEvery \in 0 .. SweepEvery /\ 0 \in Nat
      OBVIOUS
    <3>3. SessionShape' /\ KilledInTime' /\ KeptWhileTokenLives'
      BY <2>1, <3>1, <3>2, Zenon DEF SessionInv, SessionShape, KilledInTime, KeptWhileTokenLives
    <3>4. WorkerComesRound' /\ HeardOf'
      BY <2>1, <3>1 DEF SessionInv, SessionShape, WorkerComesRound, HeardOf, Working
    <3> QED BY <3>3, <3>4 DEF SessionInv
  <2>3. ASSUME NEW clean \in BOOLEAN, GoDown(clean) PROVE SessionInv'
    <3>1. /\ up' = FALSE /\ UNCHANGED <<sweepIn, upFor>> /\ owner' \in {"nobody", "former"}
          /\ lease' \in 0 .. LeaseTtl
      BY <2>3 DEF GoDown, SessionInv, SessionShape
    <3>2. SessionShape' /\ KilledInTime' /\ KeptWhileTokenLives'
      BY <2>1, <3>1, Zenon DEF SessionInv, SessionShape, KilledInTime, KeptWhileTokenLives
    <3>3. WorkerComesRound' /\ HeardOf'
      BY <2>1, <3>1 DEF SessionInv, WorkerComesRound, HeardOf, Working
    <3> QED BY <3>2, <3>3 DEF SessionInv
  <2> QED BY <1>3, <2>2, <2>3
<1>4. CASE Prepare \/ LastStepDone \/ BuiltinEnds \/ CachesDone
  BY <1>4, AgentMoves DEF Prepare, LastStepDone, BuiltinEnds, CachesDone, Goes, Ends, Working, SessionInv,
                          SessionShape
<1>5. CASE NextStep
  <2>1. CASE phase' = "run"
    <3>1. /\ AgentStep /\ UNCHANGED <<verdict, beatIn>> /\ age < Timeout /\ phase = "between"
          /\ \E own \in StepTimeouts \cup {Timeout} : stepLeft' = StepLimit(own)
      BY <1>5, <2>1 DEF NextStep, Ends, SessionInv, SessionShape
    <3>2. stepLeft' \in Nat /\ age + stepLeft' <= Timeout
      BY <3>1 DEF StepLimit, MinOf, SessionInv, SessionShape
    <3> QED BY <3>1, <3>2, <2>1 DEF AgentStep, jobRowVars, serverVars, SessionInv, SessionShape, WorkerComesRound,
              KilledInTime, HeardOf, KeptWhileTokenLives, Working
  <2>2. CASE phase' # "run"
    BY <1>5, <2>2, AgentMoves DEF NextStep, Ends, Working, SessionInv, SessionShape
  <2> QED BY <2>1, <2>2
<1>11. CASE StepEnds
  BY <1>11, AgentMoves DEF StepEnds, Outcome, Goes, Ends, Working, SessionInv, SessionShape
<1>6. CASE AppendLogs \/ AgentDies
  <2>1. CASE AppendLogs
    <3>1. /\ quiet' = 0 /\ Working
          /\ UNCHANGED <<age, stepLeft, upFor, beatIn, sweepIn, lease, owner, verdict, phase, jobStatus, by>>
          /\ up' = up /\ mute' = mute
      BY <2>1 DEF AppendLogs, agentVars, serverVars
    <3>2. SessionShape' /\ KilledInTime' /\ KeptWhileTokenLives'
      BY <3>1 DEF SessionInv, SessionShape, KilledInTime, KeptWhileTokenLives
    <3>3. WorkerComesRound' /\ HeardOf'
      BY <3>1 DEF SessionInv, SessionShape, WorkerComesRound, HeardOf, Working
    <3> QED BY <3>2, <3>3 DEF SessionInv
  <2>2. CASE AgentDies
    <3>1. /\ phase' = "dead" /\ mute' = TRUE /\ up' = up
          /\ UNCHANGED <<age, quiet, stepLeft, upFor, beatIn, sweepIn, lease, owner, verdict, jobStatus, by>>
      BY <2>2 DEF AgentDies, Goes, jobRowVars, serverVars
    <3>2. SessionShape' /\ KilledInTime' /\ KeptWhileTokenLives' /\ HeardOf'
      BY <3>1 DEF SessionInv, SessionShape, KilledInTime, KeptWhileTokenLives, HeardOf
    <3>3. WorkerComesRound'
      BY <3>1, WorkerUndisturbed DEF SessionInv
    <3> QED BY <3>2, <3>3 DEF SessionInv
  <2> QED BY <1>6, <2>1, <2>2
<1>7. ASSUME NEW lost \in BOOLEAN, Beat(lost) PROVE SessionInv'
  <2>1. SessionShape' /\ KilledInTime' /\ WorkerComesRound'
    BY <1>7 DEF Beat, serverVars, SessionInv, SessionShape, KilledInTime, WorkerComesRound
  <2>2. HeardOf'
    BY <1>7 DEF Beat, Authorized, serverVars, SessionInv, SessionShape, HeardOf, Working
  <2>3. KeptWhileTokenLives'
    BY <1>7 DEF Beat, SessionInv, SessionShape, KeptWhileTokenLives
  <2> QED BY <2>1, <2>2, <2>3 DEF SessionInv
<1>8. ASSUME NEW lost \in BOOLEAN, Report(lost) PROVE SessionInv'
  <2>1. /\ UNCHANGED <<age, quiet, stepLeft, upFor, beatIn, sweepIn, lease, owner, verdict>> /\ up' = up
        /\ phase' = "over" /\ (mute' <=> (mute \/ lost \/ ~up)) /\ mute' \in BOOLEAN
    BY <1>8 DEF Report, Goes, End, jobRowVars, serverVars
  <2>2. \/ jobStatus' = verdict /\ by' = "runner"
        \/ jobStatus' = jobStatus /\ by' = by /\ ~(up /\ ~lost /\ Authorized)
    BY <1>8 DEF Report, End, jobRowVars
  <2>3. SessionShape' /\ KilledInTime' /\ WorkerComesRound'
    BY <2>1, <2>2, WorkerUndisturbed DEF SessionInv, SessionShape, KilledInTime
  <2>4. HeardOf'
    BY <1>8, <2>1, <2>2 DEF Report, SessionInv, SessionShape, HeardOf, Authorized, Working
  <2>5. KeptWhileTokenLives'
    BY <2>1, <2>2 DEF SessionInv, KeptWhileTokenLives
  <2> QED BY <2>3, <2>4, <2>5 DEF SessionInv
<1>9. CASE ClockTicks
  <2>0. /\ ~(Working /\ beatIn = 0) /\ ~(phase = "run" /\ stepLeft = 0) /\ phase \notin {"report", "between"}
        /\ ~(up /\ sweepIn = 0)
    BY <1>9 DEF ClockTicks, Due
  <2>1. /\ age' \in Nat /\ age' <= age + 1
        /\ quiet' \in Nat /\ quiet' <= quiet + 1
        /\ stepLeft' \in Nat /\ (stepLeft > 0 => stepLeft' = stepLeft - 1)
        /\ lease' \in 0 .. LeaseTtl /\ lease' = IF lease = 0 THEN 0 ELSE lease - 1
        /\ beatIn' \in 0 .. BeatEvery /\ sweepIn' \in 0 .. SweepEvery
        /\ Working => beatIn' = beatIn - 1
        /\ up => sweepIn' = sweepIn - 1
    BY <1>9, <2>0 DEF ClockTicks, MinOf, MaxOf, Less, AgeCap, QuietCap, SessionInv, SessionShape
  <2>2. upFor' \in Nat /\ (up => upFor' <= upFor + 1 /\ (upFor' = upFor + 1 \/ upFor' = UpCap))
    BY <1>9 DEF ClockTicks, MinOf, UpCap, SessionInv, SessionShape
  <2>3. /\ jobStatus' = jobStatus /\ by' = by /\ phase' = phase /\ verdict' = verdict /\ owner' = owner
        /\ (up' <=> up) /\ up' \in BOOLEAN /\ mute' \in BOOLEAN
        /\ (mute' <=> mute) /\ (age' < Ttl => age < Ttl)
        /\ (Working' <=> Working)
    BY <1>9 DEF ClockTicks, Working, MinOf, MaxOf, AgeCap, SessionInv, SessionShape
  <2>4. SessionShape'
    BY <2>1, <2>2, <2>3 DEF SessionInv, SessionShape
  <2>5. KilledInTime'
    <3>1. age \in Nat /\ stepLeft \in Nat /\ KilledInTime
      BY DEF SessionInv, SessionShape
    <3>2. /\ age' \in Nat /\ age' <= age + 1
          /\ stepLeft' \in Nat /\ (stepLeft > 0 => stepLeft' = stepLeft - 1)
          /\ phase' = phase /\ ~(phase = "run" /\ stepLeft = 0)
      BY <2>0, <2>1, <2>3
    <3>3. phase = "run" => stepLeft' = stepLeft - 1
      BY <3>1, <3>2
    <3>4. Timeout \in Nat
      OBVIOUS
    <3> QED BY <3>1, <3>2, <3>3, <3>4, AgeAndCountdown, Zenon DEF KilledInTime
  <2>6. WorkerComesRound'
    <3>1. /\ quiet \in Nat /\ upFor \in Nat /\ sweepIn \in Nat /\ lease \in Nat /\ WorkerComesRound
      BY DEF SessionInv, SessionShape
    <3>2. ~up' => owner' # "this"
      BY <3>1, <2>3 DEF WorkerComesRound
    <3>3. ASSUME up PROVE /\ sweepIn' = sweepIn - 1 /\ sweepIn > 0 /\ upFor' <= upFor + 1
                          /\ upFor' = upFor + 1 \/ upFor' = UpCap
                          /\ upFor + sweepIn >= SweepEvery
      BY <3>1, <3>3, <2>0, <2>1, <2>2 DEF WorkerComesRound
    <3>4. ASSUME up PROVE upFor' + sweepIn' >= SweepEvery
      <4>1. upFor' = upFor + 1 \/ upFor' = SweepEvery + LeaseTtl + 1
        BY <3>3, <3>4 DEF UpCap
      <4>2. sweepIn' = sweepIn - 1 /\ sweepIn' \in Nat /\ upFor + sweepIn >= SweepEvery
        BY <3>3, <3>4, <2>1
      <4>3. CASE upFor' = upFor + 1
        BY <3>1, <4>2, <4>3
      <4>4. CASE upFor' = SweepEvery + LeaseTtl + 1
        BY <4>2, <4>4
      <4> QED BY <4>1, <4>3, <4>4
    <3>5. ASSUME up, owner = "this", jobStatus = "running" PROVE quiet' + sweepIn' <= Silence + SweepEvery
      <4>1. quiet + sweepIn <= Silence + SweepEvery
        BY <3>1, <3>5 DEF WorkerComesRound
      <4>2. sweepIn' = sweepIn - 1 /\ sweepIn' \in Nat /\ quiet' \in Nat /\ quiet' <= quiet + 1
        BY <3>3, <3>5, <2>1
      <4>3. Silence + SweepEvery \in Nat
        OBVIOUS
      <4> QED BY <3>1, <4>1, <4>2, <4>3, AgeAndCountdown, Zenon
    <3>6. ASSUME up, owner = "nobody"
          PROVE  quiet' + sweepIn' <= SweepEvery \/ upFor' + sweepIn' <= SweepEvery
      <4>1. quiet + sweepIn <= SweepEvery \/ upFor + sweepIn <= SweepEvery
        BY <3>1, <3>6 DEF WorkerComesRound
      <4>2. /\ sweepIn' = sweepIn - 1 /\ sweepIn' \in Nat
            /\ quiet' \in Nat /\ quiet' <= quiet + 1 /\ upFor' \in Nat /\ upFor' <= upFor + 1
        BY <3>3, <3>6, <2>1, <2>2
      <4>3. SweepEvery \in Nat
        OBVIOUS
      <4>4. CASE quiet + sweepIn <= SweepEvery
        <5>1. /\ quiet \in Nat /\ sweepIn \in Nat /\ quiet' \in Nat /\ sweepIn' \in Nat /\ SweepEvery \in Nat
              /\ quiet + sweepIn <= SweepEvery /\ quiet' <= quiet + 1 /\ sweepIn' = sweepIn - 1
          BY <3>1, <4>2, <4>3, <4>4
        <5> QED BY <5>1, AgeAndCountdown, Zenon
      <4>5. CASE upFor + sweepIn <= SweepEvery
        BY <3>1, <4>2, <4>3, <4>5, AgeAndCountdown, Zenon
      <4> QED BY <4>1, <4>4, <4>5
    <3>7. ASSUME up, owner = "former"
          PROVE  (lease' > 0 => upFor' + lease' <= LeaseTtl) /\ upFor' + sweepIn' <= LeaseTtl + SweepEvery
      <4>1. (lease > 0 => upFor + lease <= LeaseTtl) /\ upFor + sweepIn <= LeaseTtl + SweepEvery
        BY <3>1, <3>7 DEF WorkerComesRound
      <4>2. sweepIn' = sweepIn - 1 /\ sweepIn' \in Nat /\ upFor' \in Nat /\ upFor' <= upFor + 1
        BY <3>3, <3>7, <2>1, <2>2
      <4>3. lease' \in Nat /\ (lease' > 0 => lease > 0 /\ lease' = lease - 1)
        BY <3>1, <2>1
      <4>4. LeaseTtl \in Nat /\ LeaseTtl + SweepEvery \in Nat
        OBVIOUS
      <4> QED BY <3>1, <4>1, <4>2, <4>3, <4>4, AgeAndCountdown, Zenon
    <3> QED BY <3>2, <3>4, <3>5, <3>6, <3>7, <2>3, Zenon DEF WorkerComesRound
  <2>7. HeardOf'
    <3>1. /\ quiet \in Nat /\ upFor \in Nat /\ beatIn \in Nat /\ age \in Nat /\ HeardOf
      BY DEF SessionInv, SessionShape
    <3> SUFFICES ASSUME ~mute', age' < Ttl
                 PROVE  /\ phase' \in {"over", "dead"} => jobStatus' # "running"
                        /\ up' /\ jobStatus' = "running" => quiet' + beatIn' <= BeatEvery \/ upFor' + beatIn' <= BeatEvery
      BY Zenon DEF HeardOf
    <3>2. ~mute /\ age < Ttl
      BY <2>3
    <3>3. phase' \in {"over", "dead"} => jobStatus' # "running"
      BY <3>1, <3>2, <2>3 DEF HeardOf
    <3>5. ASSUME up, jobStatus = "running"
          PROVE  quiet' + beatIn' <= BeatEvery \/ upFor' + beatIn' <= BeatEvery
      <4>1. Working
        BY <3>1, <3>2, <3>5, <2>0 DEF HeardOf, Working, SessionInv, SessionShape
      <4>2. quiet + beatIn <= BeatEvery \/ upFor + beatIn <= BeatEvery
        BY <3>1, <3>2, <3>5 DEF HeardOf
      <4>3. /\ beatIn' = beatIn - 1 /\ beatIn' \in Nat
            /\ quiet' \in Nat /\ quiet' <= quiet + 1 /\ upFor' \in Nat /\ upFor' <= upFor + 1
        BY <4>1, <3>5, <2>1, <2>2
      <4>4. BeatEvery \in Nat
        OBVIOUS
      <4>5. CASE quiet + beatIn <= BeatEvery
        <5>1. /\ quiet \in Nat /\ beatIn \in Nat /\ quiet' \in Nat /\ beatIn' \in Nat /\ BeatEvery \in Nat
              /\ quiet + beatIn <= BeatEvery /\ quiet' <= quiet + 1 /\ beatIn' = beatIn - 1
          BY <3>1, <4>3, <4>4, <4>5
        <5> QED BY <5>1, AgeAndCountdown, Zenon
      <4>6. CASE upFor + beatIn <= BeatEvery
        BY <3>1, <4>3, <4>4, <4>6, AgeAndCountdown, Zenon
      <4> QED BY <4>2, <4>5, <4>6
    <3> QED BY <3>3, <3>5, <2>3
  <2>8. KeptWhileTokenLives'
    BY <2>1, <2>3 DEF SessionInv, SessionShape, KeptWhileTokenLives
  <2> QED BY <2>4, <2>5, <2>6, <2>7, <2>8 DEF SessionInv
<1>10. CASE UNCHANGED sessionVars
  BY <1>10 DEF sessionVars, agentVars, jobRowVars, serverVars, SessionInv, SessionShape, WorkerComesRound,
              KilledInTime, HeardOf, KeptWhileTokenLives, Working
<1> QED
  BY <1>1, <1>2, <1>3, <1>4, <1>5, <1>11, <1>6, <1>7, <1>8, <1>9, <1>10 DEF SessionNext

\* A job that has fallen silent is ended within the silence and one interval of
\* the worker that sweeps (reapExpiredJobs, workflow-logs.mjs), and no script
\* outlives the deadline of its job (runner-agent.mjs): for every timing, and
\* however often the server goes down and comes up.
THEOREM SilentIsReapedHolds == SessionSpec => [](SilentIsReaped /\ NoScriptPastDeadline)
<1>1. SessionInv /\ [SessionNext]_sessionVars => SessionInv'
  BY SessionSteps
<1>2. SessionInv => SilentIsReaped /\ NoScriptPastDeadline
  BY ClockAssumption DEF SessionInv, SessionShape, WorkerComesRound, KilledInTime, SilentIsReaped, NoScriptPastDeadline
<1> QED BY SessionStarts, <1>1, <1>2, PTL DEF SessionSpec

\* And the reaper ends no job whose agent is alive and heard before the token of the
\* job has expired (reapStalledJobs, authorizeJobToken): a heartbeat comes within
\* the silence and within the worker's interval, 30 s against 300 s and 60 s
\* (runner-agent.mjs:9, workflow-logs.mjs:15 and 241).  The timeout may be any.
THEOREM SessionHolds == SessionSpec => []SessionSound
<1>1. SessionInv /\ [SessionNext]_sessionVars => SessionInv'
  BY SessionSteps
<1>2. SessionInv => SessionSound
  BY ClockAssumption DEF SessionInv, SessionShape, WorkerComesRound, KilledInTime, SilentIsReaped, NoScriptPastDeadline,
     SessionSound
<1> QED BY SessionStarts, <1>1, <1>2, PTL DEF SessionSpec

(***************************************************************************)
(* A job's log: every step moves chunks between the buffer, the requests   *)
(* and the log, and the log only grows.                                    *)
(***************************************************************************)
LogShape ==
  /\ produced \in Nat /\ place \in Nat /\ truncated \in BOOLEAN
  /\ buffer \in Seq(Nat) /\ log \in Seq(Nat) /\ viewed \in Seq(Nat)
  /\ carried \in [Requests -> Seq(Nat)] /\ progress \in [Requests -> Stages]

\* A flush that has been stored is in the log; one that has been answered carries
\* nothing, and the log has room until it says that it has not.
Settled ==
  /\ \A r \in Requests : progress[r] = "free" => carried[r] = <<>>
  /\ \A r \in Requests : progress[r] = "stored" => truncated \/ Carried(carried[r]) \subseteq InLog
  /\ truncated \/ Len(log) <= MaxStored

LogInv == LogShape /\ Settled /\ NothingDropped /\ ViewerReadsPrefix

-----------------------------------------------------------------------------
\* What one batch after another carries is what either does.
LEMMA CarriedOfConcat ==
  ASSUME NEW s \in Seq(Nat), NEW t \in Seq(Nat)
  PROVE  Carried(s \o t) = Carried(s) \cup Carried(t)
<1>1. s \o t \in Seq(Nat) /\ Len(s \o t) = Len(s) + Len(t)
  BY ConcatProperties
<1>2. \A i \in 1 .. Len(s) : (s \o t)[i] = s[i]
  BY ConcatProperties, LenProperties
<1>3. \A i \in 1 .. Len(t) : (s \o t)[Len(s) + i] = t[i]
  BY ConcatProperties, LenProperties
<1>4. Len(s) \in Nat /\ Len(t) \in Nat
  BY LenProperties
<1>5. ASSUME NEW c \in Carried(s \o t) PROVE c \in Carried(s) \cup Carried(t)
  <2>1. PICK i \in 1 .. Len(s) + Len(t) : c = (s \o t)[i]
    BY <1>1, <1>5 DEF Carried
  <2>2. CASE i <= Len(s)
    BY <1>2, <1>4, <2>1, <2>2 DEF Carried
  <2>3. CASE i > Len(s)
    <3>1. i - Len(s) \in 1 .. Len(t) /\ Len(s) + (i - Len(s)) = i
      BY <1>4, <2>3
    <3>2. c = t[i - Len(s)]
      BY <1>3, <2>1, <3>1
    <3> QED BY <3>1, <3>2 DEF Carried
  <2> QED BY <2>2, <2>3, <1>4
<1>6. Carried(s) \subseteq Carried(s \o t)
  BY <1>1, <1>2, <1>4 DEF Carried
<1>7. Carried(t) \subseteq Carried(s \o t)
  <2> SUFFICES ASSUME NEW i \in 1 .. Len(t) PROVE t[i] \in Carried(s \o t)
    BY DEF Carried
  <2>1. Len(s) + i \in 1 .. Len(s) + Len(t)
    BY <1>4
  <2> QED BY <1>1, <1>3, <2>1 DEF Carried
<1> QED BY <1>5, <1>6, <1>7

LEMMA CarriedOfAppend ==
  ASSUME NEW s \in Seq(Nat), NEW n \in Nat
  PROVE  Append(s, n) \in Seq(Nat) /\ Carried(Append(s, n)) = Carried(s) \cup {n}
<1>1. /\ Append(s, n) \in Seq(Nat) /\ Len(Append(s, n)) = Len(s) + 1
      /\ \A i \in 1 .. Len(s) : Append(s, n)[i] = s[i]
      /\ Append(s, n)[Len(s) + 1] = n
  BY AppendProperties
<1>2. Len(s) \in Nat
  BY LenProperties
<1>3. 1 .. Len(s) + 1 = (1 .. Len(s)) \cup {Len(s) + 1}
  BY <1>2
<1> QED BY <1>1, <1>3 DEF Carried

LEMMA CarriedOfNothing == Carried(<<>>) = {}
BY DEF Carried

\* What is read of a log stays what it was when the log grows.
LEMMA PrefixStays ==
  ASSUME NEW s \in Seq(Nat), NEW t \in Seq(Nat), NEW n \in Nat, n <= Len(s)
  PROVE  SubSeq(s \o t, 1, n) = SubSeq(s, 1, n)
<1>1. CASE n = 0
  BY <1>1, SubSeqEmpty
<1>2. CASE n # 0
  <2>1. 1 \in 1 .. Len(s) /\ n \in 1 .. Len(s)
    BY <1>2, LenProperties
  <2> QED BY <2>1, SubSeqOfConcat1
<1> QED BY <1>1, <1>2

\* The transaction of appendJobLog only adds to the log, all of the batch
\* or a notice at which the log ends.
Adds(l, t, chunks, after) ==
  /\ \E x \in Seq(Nat) : after.log = l \o x
  /\ after.truncated \in BOOLEAN
  /\ t => after.truncated
  /\ after.truncated \/ (Len(after.log) <= MaxStored /\ after.log = l \o chunks)

LEMMA StoreAdds ==
  ASSUME NEW l \in Seq(Nat), NEW t \in BOOLEAN, NEW chunks \in Seq(Nat), t \/ Len(l) <= MaxStored
  PROVE  Adds(l, t, chunks, Store(l, t, chunks))
<1> DEFINE after == Store(l, t, chunks)
           room == MaxStored - Len(l)
<1>0. Len(l) \in Nat /\ Len(chunks) \in Nat /\ MaxStored \in Nat
  BY LenProperties, LogAssumption
<1>1. CASE t
  <2>1. after.log = l /\ after.truncated = t
    BY <1>1 DEF Store
  <2>2. <<>> \in Seq(Nat) /\ l \o <<>> = l
    BY EmptySeq, ConcatEmptySeq
  <2> QED BY <1>1, <2>1, <2>2 DEF Adds
<1>2. CASE ~t /\ Len(chunks) <= room
  <2>1. after.log = l \o chunks /\ after.truncated = t
    BY <1>2 DEF Store
  <2>2. Len(l \o chunks) = Len(l) + Len(chunks)
    BY ConcatProperties
  <2> QED BY <1>0, <1>2, <2>1, <2>2 DEF Adds
<1>3. CASE ~t /\ ~(Len(chunks) <= room)
  <2> DEFINE x == SubSeq(chunks, 1, room) \o <<Notice>>
  <2>1. after.log = l \o SubSeq(chunks, 1, room) \o <<Notice>> /\ after.truncated = TRUE
    BY <1>3 DEF Store
  <2>2. room \in Int /\ 1 \in Int /\ \A i \in 1 .. room : chunks[i] \in Nat
    BY <1>0, <1>3, ElementOfSeq
  <2>3. SubSeq(chunks, 1, room) \in Seq(Nat)
    BY <2>2, SubSeqProperties
  <2>4. <<Notice>> \in Seq(Nat)
    BY DEF Notice
  <2>5. x \in Seq(Nat)
    BY <2>3, <2>4, ConcatProperties
  <2>6. l \o SubSeq(chunks, 1, room) \o <<Notice>> = l \o (SubSeq(chunks, 1, room) \o <<Notice>>)
    <3>1. ASSUME NEW a \in Seq(Nat), NEW b \in Seq(Nat) PROVE l \o a \o b = l \o (a \o b)
      BY ConcatAssociative
    <3> QED BY <2>3, <2>4, <3>1
  <2> QED BY <2>1, <2>5, <2>6 DEF Adds
<1> QED BY <1>1, <1>2, <1>3

-----------------------------------------------------------------------------
LEMMA LogStarts == LogInit => LogInv
<1> SUFFICES ASSUME LogInit PROVE LogInv
  OBVIOUS
<1>1. LogShape
  <2>1. truncated \in BOOLEAN
    BY Zenon DEF LogInit
  <2>2. /\ produced \in Nat /\ place \in Nat
        /\ buffer \in Seq(Nat) /\ log \in Seq(Nat) /\ viewed \in Seq(Nat)
        /\ carried \in [Requests -> Seq(Nat)] /\ progress \in [Requests -> Stages]
    BY EmptySeq DEF LogInit, Stages, NoBatch
  <2> QED BY <2>1, <2>2, Zenon DEF LogShape
<1>2. Settled
  BY LogAssumption, EmptySeq DEF LogInit, Settled, NoBatch
<1>3. NothingDropped
  BY DEF LogInit, NothingDropped
<1>4. ViewerReadsPrefix
  BY EmptySeq, SubSeqEmpty DEF LogInit, ViewerReadsPrefix
<1> QED BY <1>1, <1>2, <1>3, <1>4 DEF LogInv

\* A batch goes out on a request that was free, and the buffer is empty.
LEMMA SendKeeps ==
  ASSUME LogInv, NEW r \in Requests, NEW chunks \in Seq(Nat), Send(r, chunks),
         produced' \in Nat, UNCHANGED <<log, truncated, place, viewed>>,
         \A c \in 1 .. produced' : c \in 1 .. produced \/ c \in Carried(chunks),
         Carried(buffer) \subseteq Carried(chunks)
  PROVE  LogInv'
<1>1. LogShape' /\ Settled' /\ ViewerReadsPrefix'
  BY EmptySeq DEF LogInv, LogShape, Settled, ViewerReadsPrefix, Send, Stages, InLog
<1>2. carried[r] = <<>> /\ InLog' = InLog
  BY DEF LogInv, Settled, Send, InLog
<1>3. /\ carried'[r] = chunks
      /\ \A q \in Requests \ {r} : carried'[q] = carried[q]
  BY DEF Send, LogInv, LogShape
<1>4. NothingDropped'
  <2> SUFFICES ASSUME ~truncated, NEW c \in 1 .. produced'
               PROVE  c \in InLog \/ \E q \in Requests : c \in Carried(carried'[q])
    BY <1>2 DEF NothingDropped
  <2>1. CASE c \in Carried(chunks)
    BY <1>3, <2>1
  <2>2. CASE c \notin Carried(chunks)
    <3>1. c \in InLog \/ \E q \in Requests : c \in Carried(carried[q])
      BY <2>2 DEF LogInv, NothingDropped
    <3>2. c \notin Carried(carried[r])
      BY <1>2, CarriedOfNothing
    <3> QED BY <1>3, <3>1, <3>2
  <2> QED BY <2>1, <2>2
<1> QED BY <1>1, <1>4 DEF LogInv

\* A step that moves no chunk.
LEMMA NothingMoves ==
  ASSUME LogInv, UNCHANGED <<produced, buffer, carried, log, truncated, place, viewed>>,
         progress' \in [Requests -> Stages],
         \A q \in Requests : progress'[q] \in {"free", "stored"} => progress'[q] = progress[q]
  PROVE  LogInv'
BY DEF LogInv, LogShape, Settled, NothingDropped, ViewerReadsPrefix, InLog

LEMMA LogSteps == LogInv /\ [LogNext]_logVars => LogInv'
<1> SUFFICES ASSUME LogInv, [LogNext]_logVars PROVE LogInv'
  OBVIOUS
<1>0. LogShape /\ Settled /\ NothingDropped /\ ViewerReadsPrefix
  BY DEF LogInv
<1>1. CASE Push
  <2>1. /\ produced' = produced + 1 /\ buffer' = Append(buffer, produced + 1)
        /\ UNCHANGED <<carried, progress, log, truncated, place, viewed>>
    BY <1>1 DEF Push, server, viewer
  <2>2. buffer' \in Seq(Nat) /\ Carried(buffer') = Carried(buffer) \cup {produced + 1}
    BY <1>0, <2>1, CarriedOfAppend DEF LogShape
  <2>3. LogShape' /\ Settled' /\ ViewerReadsPrefix' /\ InLog' = InLog
    BY <1>0, <2>1, <2>2 DEF LogShape, Settled, ViewerReadsPrefix, InLog
  <2>4. 1 .. produced' = (1 .. produced) \cup {produced + 1}
    <3>1. produced \in Nat /\ produced' = produced + 1
      BY <1>0, <2>1 DEF LogShape
    <3> QED BY <3>1
  <2>5. NothingDropped'
    BY <1>0, <2>1, <2>2, <2>3, <2>4 DEF NothingDropped
  <2> QED BY <2>3, <2>5 DEF LogInv
<1>2. ASSUME NEW r \in Timers, FlushTimer(r) PROVE LogInv'
  <2>1. r \in Requests /\ Send(r, buffer) /\ UNCHANGED <<produced, log, truncated, place, viewed>>
    BY <1>2 DEF FlushTimer, Requests, server, viewer
  <2> QED BY <1>0, <2>1, SendKeeps DEF LogShape
<1>3. CASE FinalFlush
  <2>1. /\ produced' = produced + 1 /\ Send(Last, Append(buffer, produced + 1)) /\ Last \in Requests
        /\ UNCHANGED <<log, truncated, place, viewed>>
    BY <1>3 DEF FinalFlush, Requests, server, viewer
  <2>2. /\ Append(buffer, produced + 1) \in Seq(Nat)
        /\ Carried(Append(buffer, produced + 1)) = Carried(buffer) \cup {produced + 1}
    BY <1>0, CarriedOfAppend DEF LogShape
  <2>3. 1 .. produced' = (1 .. produced) \cup {produced + 1} /\ produced' \in Nat
    <3>1. produced \in Nat /\ produced' = produced + 1
      BY <1>0, <2>1 DEF LogShape
    <3> QED BY <3>1
  <2> QED BY <2>1, <2>2, <2>3, SendKeeps
<1>4. ASSUME NEW r \in Requests, Settle(r) PROVE LogInv'
  <2>1. /\ progress' = [progress EXCEPT ![r] = "free"] /\ carried' = [carried EXCEPT ![r] = <<>>]
        /\ UNCHANGED <<produced, log, truncated, place, viewed>>
    BY <1>4 DEF Settle, NoBatch, server, viewer
  <2>2. /\ progress[r] = "failed" => buffer' = carried[r] \o buffer
        /\ progress[r] # "failed" => buffer' = buffer /\ progress[r] = "stored"
    BY <1>4 DEF Settle, PutBack
  <2>3. /\ buffer' \in Seq(Nat) /\ Carried(buffer) \subseteq Carried(buffer')
        /\ progress[r] = "failed" => Carried(carried[r]) \subseteq Carried(buffer')
    <3>1. carried[r] \in Seq(Nat) /\ buffer \in Seq(Nat)
      BY <1>0 DEF LogShape
    <3> QED BY <2>2, <3>1, ConcatProperties, CarriedOfConcat
  <2>4. LogShape' /\ Settled' /\ ViewerReadsPrefix' /\ InLog' = InLog
    BY <1>0, <2>1, <2>3, EmptySeq DEF LogShape, Settled, ViewerReadsPrefix, InLog, Stages
  <2>5. /\ \A q \in Requests \ {r} : carried'[q] = carried[q]
        /\ truncated \/ Carried(carried[r]) \subseteq InLog \cup Carried(buffer')
    BY <1>0, <2>1, <2>2, <2>3 DEF LogShape, Settled
  <2>6. NothingDropped'
    BY <1>0, <2>1, <2>3, <2>4, <2>5 DEF NothingDropped
  <2> QED BY <2>4, <2>6 DEF LogInv
<1>5. ASSUME NEW r \in Requests, Authorize(r) \/ Lose(r) PROVE LogInv'
  BY <1>5, NothingMoves DEF Authorize, Lose, LogInv, LogShape, Stages, server, viewer
<1>6. ASSUME NEW r \in Requests, AppendJobLog(r) PROVE LogInv'
  <2>1. UNCHANGED <<produced, buffer, carried, place, viewed>>
    BY <1>6 DEF AppendJobLog, viewer
  <2>2. CASE Len(carried[r]) > MaxPerRequest
    BY <1>6, <2>1, <2>2, NothingMoves DEF AppendJobLog, LogInv, LogShape, Stages
  <2>3. CASE ~(Len(carried[r]) > MaxPerRequest)
    <3> DEFINE after == Store(log, truncated, carried[r])
    <3>1. progress' = [progress EXCEPT ![r] = "stored"] /\ log' = after.log /\ truncated' = after.truncated
      BY <1>6, <2>3 DEF AppendJobLog
    <3>2. log \in Seq(Nat) /\ carried[r] \in Seq(Nat) /\ truncated \in BOOLEAN
      BY <1>0 DEF LogShape
    <3>3. /\ \E x \in Seq(Nat) : log' = log \o x
          /\ truncated' \in BOOLEAN
          /\ truncated => truncated'
          /\ truncated' \/ (Len(log') <= MaxStored /\ log' = log \o carried[r])
      <4>1. truncated \/ Len(log) <= MaxStored
        BY <1>0, Zenon DEF Settled
      <4>2. Adds(log, truncated, carried[r], Store(log, truncated, carried[r]))
        BY <3>2, <4>1, StoreAdds
      <4> QED BY <3>1, <4>2, Zenon DEF Adds, after
    <3> HIDE DEF after
    <3>4. PICK x \in Seq(Nat) : log' = log \o x
      BY <3>3
    <3>5. log' \in Seq(Nat) /\ Len(log') = Len(log) + Len(x) /\ Len(log) \in Nat /\ Len(x) \in Nat
      BY <3>2, <3>4, ConcatProperties, LenProperties
    <3>6. InLog = Carried(log) /\ InLog' = Carried(log')
      BY DEF InLog, Carried
    <3>7. InLog \subseteq InLog' /\ (log' = log \o carried[r] => Carried(carried[r]) \subseteq InLog')
      BY <3>2, <3>4, <3>6, CarriedOfConcat
    <3>8. LogShape'
      BY <1>0, <2>1, <3>1, <3>3, <3>5 DEF LogShape, Stages
    <3>9. Settled'
      BY <1>0, <2>1, <3>1, <3>3, <3>7 DEF LogShape, Settled
    <3>10. NothingDropped'
      BY <1>0, <2>1, <3>3, <3>7 DEF NothingDropped
    <3>11. ViewerReadsPrefix'
      <4>1. place \in Nat /\ place <= Len(log) /\ viewed = SubSeq(log, 1, place)
        BY <1>0 DEF LogShape, ViewerReadsPrefix
      <4>2. SubSeq(log', 1, place) = SubSeq(log, 1, place)
        BY <3>2, <3>4, <4>1, PrefixStays
      <4>3. place <= Len(log')
        BY <3>5, <4>1
      <4> QED BY <2>1, <4>1, <4>2, <4>3 DEF ViewerReadsPrefix
    <3> QED BY <3>8, <3>9, <3>10, <3>11 DEF LogInv
  <2> QED BY <2>2, <2>3
<1>7. CASE StopLogger \/ \E arrives \in BOOLEAN : ReportEnd(arrives)
  BY <1>7, NothingMoves DEF StopLogger, ReportEnd, LogInv, LogShape, viewer
<1>8. CASE Read
  <2> DEFINE end == IF place + PageSize < Len(log) THEN place + PageSize ELSE Len(log)
  <2>1. /\ viewed' = viewed \o SubSeq(log, place + 1, end)
        /\ place' = place + Len(SubSeq(log, place + 1, end))
        /\ UNCHANGED <<produced, buffer, carried, progress, log, truncated>>
    BY <1>8 DEF Read, Page, server
  <2>2. /\ place \in Nat /\ log \in Seq(Nat) /\ Len(log) \in Nat /\ place <= Len(log)
        /\ viewed = SubSeq(log, 1, place)
    BY <1>0, LenProperties DEF LogShape, ViewerReadsPrefix
  <2>3. end \in place .. Len(log)
    BY <2>2, LogAssumption
  <2> HIDE DEF end
  <2>4. SubSeq(log, 1, place) \o SubSeq(log, place + 1, end) = SubSeq(log, 1, end)
    <3>1. 1 \in 1 .. Len(log) + 1 /\ place \in 1 - 1 .. Len(log)
      BY <2>2
    <3> QED BY <2>2, <2>3, <3>1, ConcatAdjacentSubSeq
  <2>5. Len(SubSeq(log, place + 1, end)) = end - place
    <3>1. place + 1 \in Int /\ end \in Int /\ \A i \in place + 1 .. end : log[i] \in Nat
      BY <2>2, <2>3, ElementOfSeq
    <3>2. Len(SubSeq(log, place + 1, end)) = IF place + 1 <= end THEN end - (place + 1) + 1 ELSE 0
      BY <3>1, SubSeqProperties
    <3> QED BY <2>2, <2>3, <3>2
  <2>6. place' = end /\ viewed' = SubSeq(log, 1, end)
    <3>1. place' = place + (end - place)
      BY <2>1, <2>5, Zenon
    <3>2. place' = end
      BY <2>2, <2>3, <3>1
    <3>3. viewed' = SubSeq(log, 1, end)
      BY <2>1, <2>2, <2>4, Zenon
    <3> QED BY <3>2, <3>3
  <2>7. viewed' \in Seq(Nat) /\ place' \in Nat /\ place' <= Len(log)
    <3>1. 1 \in Int /\ end \in Int /\ \A i \in 1 .. end : log[i] \in Nat
      BY <2>2, <2>3, ElementOfSeq
    <3>2. SubSeq(log, 1, end) \in Seq(Nat)
      BY <3>1, SubSeqProperties
    <3> QED BY <2>2, <2>3, <2>6, <3>2
  <2> QED
    BY <1>0, <2>1, <2>6, <2>7 DEF LogInv, LogShape, Settled, NothingDropped, ViewerReadsPrefix, InLog
<1>9. CASE UNCHANGED logVars
  BY <1>9, NothingMoves DEF logVars, server, viewer, LogInv, LogShape
<1> QED
  BY <1>1, <1>2, <1>3, <1>4, <1>5, <1>6, <1>7, <1>8, <1>9 DEF LogNext

\* While the log has room, no chunk that was ever printed is lost, however flushes
\* overlap, fail or are answered late, and a viewer has read a prefix of the log:
\* createLogBuffer of src/src/runner-agent.mjs against appendJobLog and readJobLog
\* of src/src/workflow-logs.mjs, for every size of batch, page and log.
THEOREM LogHolds == LogSpec => []LogSound
<1>1. LogInv /\ [LogNext]_logVars => LogInv'
  BY LogSteps
<1>2. LogInv => LogSound
  BY DEF LogInv, LogSound
<1> QED BY LogStarts, <1>1, <1>2, PTL DEF LogSpec

-----------------------------------------------------------------------------
(* RealtimeNotifications: the badge of an open page.                       *)

\* A set of numbers has a least one, and one with a bound a greatest.
LEMMA LeastNumber ==
  ASSUME NEW T \in SUBSET Nat, T # {}
  PROVE  \E n \in T : \A k \in T : n <= k
<1> DEFINE below(n) == 0 .. (n - 1)
           S == {below(n) : n \in T}
           R == StrictSubsetOrdering(Nat)
<1>1. S \subseteq FiniteSubsetsOf(Nat)
  <2> SUFFICES ASSUME NEW n \in T PROVE below(n) \in FiniteSubsetsOf(Nat)
    OBVIOUS
  <2>1. 0 \in Int /\ n - 1 \in Int /\ below(n) \subseteq Nat
    OBVIOUS
  <2>2. IsFiniteSet(below(n))
    BY <2>1, FS_Interval
  <2> QED BY <2>1, <2>2 DEF FiniteSubsetsOf
<1>2. \E x \in S : \A y \in S : ~ (<<y, x>> \in R)
  <2>1. S # {}
    OBVIOUS
  <2> HIDE DEF S, R
  <2>2. IsWellFoundedOn(StrictSubsetOrdering(Nat), FiniteSubsetsOf(Nat))
    BY FS_StrictSubsetOrderingWellFounded
  <2> QED BY <1>1, <2>1, <2>2, WFMin DEF R
<1>3. PICK n \in T : \A k \in T : <<below(k), below(n)>> \notin R
  BY <1>2
<1>4. ASSUME NEW k \in T, k < n PROVE FALSE
  <2>1. below(k) \subseteq below(n) /\ k \in below(n) /\ k \notin below(k)
    BY <1>4
  <2>2. below(k) \in SUBSET Nat /\ below(n) \in SUBSET Nat
    OBVIOUS
  <2>3. <<below(k), below(n)>> \in R
    <3> HIDE DEF below
    <3> QED BY <2>1, <2>2 DEF StrictSubsetOrdering
  <2> QED BY <2>3, <1>3
<1> QED BY <1>4

LEMMA GreatestNumber ==
  ASSUME NEW b \in Nat, NEW T \in SUBSET (0 .. b), T # {}
  PROVE  \E n \in T : \A k \in T : k <= n
<1> DEFINE M == {b - n : n \in T}
<1>a. \A n \in T : n \in Nat /\ n <= b /\ b - n \in Nat
  OBVIOUS
<1>1. M \subseteq Nat /\ M # {}
  <2>1. ASSUME NEW m \in M PROVE m \in Nat
    <3>1. PICK n \in T : m = b - n
      OBVIOUS
    <3> QED BY <3>1, <1>a
  <2>2. PICK n \in T : TRUE
    OBVIOUS
  <2>3. b - n \in M
    OBVIOUS
  <2> QED BY <2>1, <2>3
<1>2. PICK m \in M : \A k \in M : m <= k
  <2> HIDE DEF M
  <2> QED BY <1>1, LeastNumber
<1>3. PICK n \in T : m = b - n
  OBVIOUS
<1>4. ASSUME NEW k \in T PROVE k <= n
  <2>1. b - k \in M
    OBVIOUS
  <2>2. b - n <= b - k
    <3> HIDE DEF M
    <3> QED BY <1>2, <1>3, <2>1
  <2>3. k \in Nat /\ n \in Nat
    BY <1>a
  <2> QED BY <2>2, <2>3
<1> QED BY <1>4

\* A connection asks to be let in, or is open.
Asking == [st : {"asking"}, user : Owners, at : Processes, answer : BOOLEAN]
Opened == [st : {"open"}, user : Owners, at : Processes, shown : Nat, pong : BOOLEAN, due : Nat,
           check : {"no", "stands", "ended"}]

RealShape ==
  /\ unread \in [Owners -> Nat] /\ read \in [Owners -> Nat]
  /\ lastId \in Nat /\ rows \in [DOMAIN rows -> Owners] /\ DOMAIN rows \subseteq 1 .. lastId
  /\ run \in [Processes -> {"down", "booting", "up", "stopped"}]
  /\ cursor \in [Processes -> Nat] /\ \A p \in Processes : cursor[p] <= lastId
  /\ pending \in [Processes -> SUBSET Owners]
  /\ socket \in [Sockets -> {NoSocket} \cup Asking \cup Opened]
  /\ session \in [Sockets -> BOOLEAN]

\* A process that has no poll yet has no connections either.
ConnectedToRunning ==
  \A s \in Sockets : socket[s] # NoSocket => run[socket[s].at] \in {"up", "stopped"}

\* The last change of an inbox is on the page, about to be sent, or a row yet to be read.
Told(s) ==
  \/ socket[s].shown = unread[socket[s].user]
  \/ socket[s].user \in pending[socket[s].at]
  \/ \E i \in Since(cursor[socket[s].at]) : rows[i] = socket[s].user

Following(s) ==
  socket[s].st = "open" /\ run[socket[s].at] = "up" /\ socket[s].user \notin missed => Told(s)

RealInv == RealShape /\ ConnectedToRunning /\ \A s \in Sockets : Following(s)

LEMMA RealStarts == RealInit => RealInv
BY DEF RealInit, RealInv, RealShape, ConnectedToRunning, Following, NoSocket

LEMMA Kinds ==
  /\ NoSocket.st = "closed" /\ NoSocket \notin Asking /\ NoSocket \notin Opened
  /\ \A c \in Asking : c.st = "asking" /\ c.user \in Owners /\ c.at \in Processes /\ c.answer \in BOOLEAN
  /\ \A c \in Opened : c.st = "open" /\ c.user \in Owners /\ c.at \in Processes /\ c.shown \in Nat
                       /\ c.pong \in BOOLEAN /\ c.due \in Nat /\ c.check \in {"no", "stands", "ended"}
BY DEF NoSocket, Asking, Opened

\* What the triggers write reaches every page, since no process has read so far.
LEMMA LoggedIsTold ==
  ASSUME RealInv, NEW u \in Owners, NEW n \in Nat \ {0}, Logged(u, n),
         unread' \in [Owners -> Nat], read' \in [Owners -> Nat], \A v \in Owners \ {u} : unread'[v] = unread[v],
         UNCHANGED <<triggers, run, cursor, pending, socket, session, boots>>
  PROVE  RealInv'
<1>1. CASE triggers
  <2> DEFINE new == NextId .. NextId + n - 1
  <2>1. lastId \in Nat /\ lastId' = lastId + n /\ new = lastId + 1 .. lastId + n
    BY <1>1 DEF Logged, NextId, RealInv, RealShape
  <2>2. rows' = [i \in DOMAIN rows \cup new |-> IF i \in DOMAIN rows THEN rows[i] ELSE u]
    BY <1>1 DEF Logged
  <2>3. DOMAIN rows \subseteq 1 .. lastId /\ \A p \in Processes : cursor[p] \in Nat /\ cursor[p] <= lastId
    BY DEF RealInv, RealShape
  <2>4. lastId + 1 \in new /\ new \subseteq 1 .. lastId' /\ DOMAIN rows \subseteq 1 .. lastId'
    <3>0. lastId \in Nat /\ n \in Nat /\ n >= 1
      BY <2>1
    <3>1. lastId + 1 <= lastId + n /\ lastId + n \in Nat /\ lastId + 1 \in Nat /\ lastId <= lastId + n
      <4> HIDE DEF new
      <4> QED BY <3>0
    <3>2. lastId + 1 \in new
      <4>1. lastId + 1 \in lastId + 1 .. lastId + n
        BY <3>0, <3>1
      <4> HIDE DEF new
      <4> QED BY <2>1, <4>1
    <3>3. ASSUME NEW i \in new PROVE i \in 1 .. lastId'
      <4>1. i \in lastId + 1 .. lastId + n
        BY <2>1
      <4> HIDE DEF new
      <4>2. i \in Int /\ 1 <= i /\ i <= lastId + n
        BY <2>1, <4>1
      <4> QED BY <2>1, <4>2
    <3>4. ASSUME NEW i \in DOMAIN rows PROVE i \in 1 .. lastId'
      <4>1. i \in 1 .. lastId
        BY <2>3
      <4> QED BY <2>1, <3>1, <4>1
    <3> HIDE DEF new
    <3> QED BY <3>2, <3>3, <3>4
  <2>5. lastId + 1 \notin DOMAIN rows /\ \A p \in Processes : lastId + 1 > cursor[p] /\ cursor[p] <= lastId'
    BY <2>1, <2>3
  <2> HIDE DEF new
  <2>6. RealShape'
    <3>1. rows' \in [DOMAIN rows' -> Owners] /\ DOMAIN rows' = DOMAIN rows \cup new
      BY <2>2 DEF RealInv, RealShape
    <3>2. lastId' \in Nat
      BY <2>1
    <3> QED BY <2>4, <2>5, <3>1, <3>2 DEF RealInv, RealShape
  <2>7. rows'[lastId + 1] = u /\ lastId + 1 \in DOMAIN rows' /\ DOMAIN rows \subseteq DOMAIN rows'
        /\ \A i \in DOMAIN rows : rows'[i] = rows[i]
    BY <2>2, <2>4, <2>5
  <2>8. ASSUME NEW s \in Sockets PROVE Following(s)'
    <3> SUFFICES ASSUME socket[s].st = "open", run[socket[s].at] = "up", socket[s].user \notin missed'
                 PROVE  Told(s)'
      BY DEF Following
    <3>1. socket[s].user \in Owners /\ socket[s].at \in Processes
      BY Kinds DEF RealInv, RealShape
    <3>2. CASE socket[s].user = u
      BY <2>5, <2>7, <3>1, <3>2 DEF Told, Since
    <3>3. CASE socket[s].user # u
      <4>1. socket[s].user \notin missed
        BY <1>1, <3>3 DEF Logged
      <4>2. Told(s)
        BY <4>1 DEF RealInv, Following
      <4> QED BY <2>7, <3>1, <3>3, <4>2 DEF Told, Since
    <3> QED BY <3>2, <3>3
  <2> QED BY <2>6, <2>8 DEF RealInv, ConnectedToRunning
<1>2. CASE ~triggers
  <2>1. UNCHANGED <<rows, lastId>> /\ missed' = missed \cup {u}
    BY <1>2 DEF Logged
  <2>2. RealShape'
    BY <2>1 DEF RealInv, RealShape
  <2>3. ASSUME NEW s \in Sockets PROVE Following(s)'
    <3> SUFFICES ASSUME socket[s].st = "open", run[socket[s].at] = "up", socket[s].user \notin missed'
                 PROVE  Told(s)'
      BY DEF Following
    <3>1. socket[s].user \in Owners /\ socket[s].user # u /\ socket[s].user \notin missed
      BY Kinds, <2>1 DEF RealInv, RealShape
    <3> QED BY <2>1, <3>1 DEF RealInv, Following, Told, Since
  <2> QED BY <2>2, <2>3 DEF RealInv, ConnectedToRunning
<1> QED BY <1>1, <1>2

LEMMA InboxOK == ASSUME RealInv, InboxNext PROVE RealInv'
<1>1. PICK u \in Owners : Created(u) \/ MarkedRead(u) \/ MarkedUnread(u) \/ AllMarkedRead(u)
  BY DEF InboxNext
<1>2. unread[u] \in Nat /\ read[u] \in Nat /\ unread \in [Owners -> Nat] /\ read \in [Owners -> Nat]
  BY DEF RealInv, RealShape
<1>3. CASE Created(u) \/ MarkedRead(u) \/ MarkedUnread(u)
  <2>1. Logged(u, 1) /\ UNCHANGED <<triggers, run, cursor, pending, socket, session, boots>>
    BY <1>3 DEF Created, MarkedRead, MarkedUnread
  <2>2. unread' \in [Owners -> Nat] /\ read' \in [Owners -> Nat]
    BY <1>2, <1>3 DEF Created, MarkedRead, MarkedUnread
  <2>3. \A v \in Owners \ {u} : unread'[v] = unread[v]
    BY <1>2, <1>3 DEF Created, MarkedRead, MarkedUnread
  <2> QED BY <2>1, <2>2, <2>3, LoggedIsTold
<1>4. CASE AllMarkedRead(u)
  <2>1. Logged(u, unread[u]) /\ unread[u] \in Nat \ {0}
    BY <1>2, <1>4 DEF AllMarkedRead
  <2>2. unread' \in [Owners -> Nat] /\ read' \in [Owners -> Nat] /\ \A v \in Owners \ {u} : unread'[v] = unread[v]
    BY <1>2, <1>4 DEF AllMarkedRead
  <2> QED BY <1>4, <2>1, <2>2, LoggedIsTold DEF AllMarkedRead
<1> QED BY <1>1, <1>3, <1>4

\* What a reader takes at a time, and the last of it.
BatchOf(p) == {i \in Since(cursor[p]) : Cardinality({k \in Since(cursor[p]) : k <= i}) <= PerTick}
LastOf(page) == CHOOSE i \in page : \A k \in page : k <= i

\* The rows one poll reads end with the last of them, and none before it is left.
LEMMA BatchIsPrefix ==
  ASSUME RealInv, NEW p \in Processes, Since(cursor[p]) # {},
         NEW page, page = BatchOf(p), NEW last, last = LastOf(page)
  PROVE  /\ last \in page /\ last \in 1 .. lastId
         /\ \A i \in Since(cursor[p]) : i <= last => i \in page
<1> USE DEF BatchOf, LastOf
<1> DEFINE S == Since(cursor[p])
<1>1. lastId \in Nat /\ S \subseteq 1 .. lastId /\ S \subseteq 0 .. lastId /\ S \subseteq Nat
  BY DEF RealInv, RealShape, Since
<1>2. IsFiniteSet(S) /\ \A i \in S : IsFiniteSet({k \in S : k <= i})
  <2>1. IsFiniteSet(1 .. lastId)
    BY <1>1, FS_Interval
  <2>2. \A i \in S : {k \in S : k <= i} \in SUBSET S
    OBVIOUS
  <2> HIDE DEF S
  <2> QED BY <1>1, <2>1, <2>2, FS_Subset
<1>3. PerTick \in Nat /\ PerTick >= 1
  BY RealtimeAssumption
<1>4. page # {}
  <2>1. PICK n \in S : \A k \in S : n <= k
    <3> HIDE DEF S
    <3> QED BY <1>1, LeastNumber DEF S
  <2>2. {k \in S : k <= n} = {n}
    BY <1>1, <2>1
  <2>3. Cardinality({n}) = 1
    BY FS_Singleton
  <2> QED BY <1>3, <2>1, <2>2, <2>3
<1>5. page \in SUBSET (0 .. lastId)
  BY <1>1
<1>6. \E i \in page : \A k \in page : k <= i
  BY <1>1, <1>4, <1>5, GreatestNumber
<1>7. last \in page
  BY <1>6
<1>8. ASSUME NEW i \in S, i <= last PROVE i \in page
  <2>1. last \in S /\ Cardinality({k \in S : k <= last}) <= PerTick
    BY <1>7
  <2>2. {k \in S : k <= i} \in SUBSET {k \in S : k <= last}
    <3>1. \A k \in Nat : k <= i => k <= last
      <4> HIDE DEF S
      <4>1. i \in Nat /\ last \in Nat
        BY <1>1, <2>1
      <4> QED BY <1>8, <4>1
    <3> HIDE DEF S
    <3> QED BY <1>1, <3>1
  <2>3. Cardinality({k \in S : k <= i}) <= Cardinality({k \in S : k <= last})
    <3> HIDE DEF S
    <3> QED BY <1>2, <2>1, <2>2, FS_Subset
  <2>4. Cardinality({k \in S : k <= i}) \in Nat /\ Cardinality({k \in S : k <= last}) \in Nat
    <3> HIDE DEF S
    <3> QED BY <1>2, <1>8, <2>1, FS_CardinalityType
  <2>5. Cardinality({k \in S : k <= i}) <= PerTick
    BY <1>3, <2>1, <2>3, <2>4
  <2> HIDE DEF S
  <2>6. i \in Since(cursor[p]) /\ Cardinality({k \in Since(cursor[p]) : k <= i}) <= PerTick
    BY <1>8, <2>5 DEF S
  <2> QED BY <2>6
<1>9. last \in S
  BY <1>7
<1> HIDE DEF S
<1>10. last \in 1 .. lastId
  BY <1>1, <1>9
<1>11. \A i \in S : i <= last => i \in page
  BY <1>8
<1> QED BY <1>7, <1>10, <1>11 DEF S

LEMMA ServerOK == ASSUME RealInv, ServerNext PROVE RealInv'
<1> USE DEF RealInv
<1>1. ASSUME NEW n \in DOMAIN rows, \A p \in Processes : run[p] = "up" => n <= cursor[p],
             rows' = [i \in {k \in DOMAIN rows : k > n} |-> rows[i]],
             UNCHANGED <<unread, read, triggers, lastId, run, cursor, pending, socket, session, boots, missed>>
      PROVE  RealInv'
  <2>1. RealShape'
    BY <1>1 DEF RealShape
  <2>2. ASSUME NEW s \in Sockets PROVE Following(s)'
    <3> SUFFICES ASSUME socket[s].st = "open", run[socket[s].at] = "up", socket[s].user \notin missed
                 PROVE  Told(s)'
      BY <1>1 DEF Following
    <3>1. socket[s].at \in Processes
      BY Kinds DEF RealShape
    <3>2. n <= cursor[socket[s].at] /\ cursor[socket[s].at] \in Nat /\ n \in Nat /\ DOMAIN rows \subseteq Nat
      BY <1>1, <3>1 DEF RealShape
    <3>3. \A i \in Since(cursor[socket[s].at]) : i \in DOMAIN rows' /\ rows'[i] = rows[i] /\ i > cursor[socket[s].at]
      BY <1>1, <3>2 DEF Since
    <3> QED BY <1>1, <3>3 DEF Following, Told, Since
  <2> QED BY <1>1, <2>1, <2>2 DEF ConnectedToRunning
<1>2. ASSUME NEW p \in Processes, BootDropsTriggers(p) PROVE RealInv'
  <2>1. RealShape'
    BY <1>2 DEF BootDropsTriggers, RealShape
  <2>2. \A q \in Processes : run'[q] = "up" <=> run[q] = "up"
    BY <1>2 DEF BootDropsTriggers, RealShape
  <2>3. \A s \in Sockets : Following(s)'
    BY <1>2, <2>2, Kinds DEF BootDropsTriggers, RealShape, Following, Told, Since
  <2>4. ConnectedToRunning'
    BY <1>2, Kinds DEF BootDropsTriggers, RealShape, ConnectedToRunning
  <2> QED BY <2>1, <2>3, <2>4
<1>3. ASSUME NEW p \in Processes, BootMakesTriggers(p) PROVE RealInv'
  <2>1. Latest \in Nat /\ Latest <= lastId
    <3>1. lastId \in Nat /\ DOMAIN rows \subseteq 1 .. lastId /\ DOMAIN rows \in SUBSET (0 .. lastId)
      BY DEF RealShape
    <3>2. CASE DOMAIN rows # {}
      <4>1. \E n \in DOMAIN rows : \A k \in DOMAIN rows : k <= n
        BY <3>1, <3>2, GreatestNumber
      <4>2. Latest \in DOMAIN rows
        BY <3>2, <4>1 DEF Latest
      <4> QED BY <3>1, <4>2
    <3>3. CASE DOMAIN rows = {}
      BY <3>1, <3>3 DEF Latest
    <3> QED BY <3>2, <3>3
  <2>2. RealShape'
    BY <1>3, <2>1 DEF BootMakesTriggers, RealShape
  <2>3. \A s \in Sockets : socket[s] # NoSocket => socket[s].at # p /\ socket[s].at \in Processes
    BY <1>3, Kinds DEF BootMakesTriggers, ConnectedToRunning, RealShape
  <2>4. \A q \in Processes \ {p} : run'[q] = run[q] /\ cursor'[q] = cursor[q]
    BY <1>3 DEF BootMakesTriggers, RealShape
  <2>5. \A s \in Sockets : Following(s)'
    BY <1>3, <2>3, <2>4, Kinds DEF BootMakesTriggers, Following, Told, Since
  <2>6. ConnectedToRunning'
    BY <1>3, <2>3, <2>4 DEF BootMakesTriggers, ConnectedToRunning
  <2> QED BY <2>2, <2>5, <2>6
<1>4. ASSUME NEW p \in Processes, ReaderTick(p) PROVE RealInv'
  <2>1. PICK page : page = BatchOf(p)
    OBVIOUS
  <2>2. PICK last : last = LastOf(page)
    OBVIOUS
  <2>3. /\ cursor' = [cursor EXCEPT ![p] = last]
        /\ pending' = [pending EXCEPT ![p] = @ \cup {rows[i] : i \in page}]
        /\ Since(cursor[p]) # {}
        /\ UNCHANGED <<unread, read, triggers, rows, lastId, run, socket, session, boots, missed>>
    BY <1>4, <2>1, <2>2 DEF ReaderTick, BatchOf, LastOf
  <2>4. /\ last \in page /\ last \in 1 .. lastId
        /\ \A i \in Since(cursor[p]) : i <= last => i \in page
    BY <2>1, <2>2, <2>3, BatchIsPrefix
  <2>5. cursor' \in [Processes -> Nat] /\ cursor'[p] = last /\ \A q \in Processes : cursor'[q] <= lastId
    BY <2>3, <2>4 DEF RealShape
  <2>6. pending' \in [Processes -> SUBSET Owners] /\ pending'[p] = pending[p] \cup {rows[i] : i \in page}
    <3>1. page \subseteq DOMAIN rows
      BY <2>1 DEF BatchOf, Since
    <3>2. {rows[i] : i \in page} \subseteq Owners
      BY <3>1 DEF RealShape
    <3> QED BY <2>3, <3>2 DEF RealShape
  <2>7. RealShape'
    BY <2>3, <2>5, <2>6 DEF RealShape
  <2>8. ASSUME NEW s \in Sockets PROVE Following(s)'
    <3> SUFFICES ASSUME socket[s].st = "open", run[socket[s].at] = "up", socket[s].user \notin missed
                 PROVE  Told(s)'
      BY <2>3 DEF Following
    <3>1. Told(s) /\ socket[s].at \in Processes
      BY Kinds DEF Following, RealShape
    <3>2. CASE socket[s].at # p
      <4>1. cursor'[socket[s].at] = cursor[socket[s].at] /\ pending'[socket[s].at] = pending[socket[s].at]
        BY <2>3, <3>1, <3>2 DEF RealShape
      <4> QED BY <2>3, <3>1, <4>1 DEF Told, Since
    <3>3. CASE socket[s].at = p
      <4>1. ASSUME NEW i \in Since(cursor[p]), rows[i] = socket[s].user PROVE Told(s)'
        <5>1. i \in DOMAIN rows /\ i \in Nat /\ last \in Nat
          BY <2>4, <4>1 DEF Since, RealShape
        <5>2. CASE i <= last
          BY <2>3, <2>4, <2>6, <3>3, <4>1, <5>2 DEF Told
        <5>3. CASE i > last
          BY <2>3, <2>5, <3>3, <4>1, <5>1, <5>3 DEF Told, Since
        <5> QED BY <5>1, <5>2, <5>3
      <4> QED BY <2>3, <2>6, <3>1, <3>3, <4>1 DEF Told
    <3> QED BY <3>2, <3>3
  <2> QED BY <2>3, <2>7, <2>8 DEF ConnectedToRunning
<1>5. ASSUME NEW p \in Processes, FlushPending(p) PROVE RealInv'
  <2>1. socket' \in [Sockets -> {NoSocket} \cup Asking \cup Opened]
    BY <1>5, Kinds DEF FlushPending, RealShape, Of, Asking, Opened
  <2>2. \A s \in Sockets : /\ socket'[s].st = socket[s].st /\ (socket'[s] # NoSocket => socket[s] # NoSocket)
                           /\ socket[s].st = "open" => /\ socket'[s].at = socket[s].at
                                                      /\ socket'[s].user = socket[s].user
                           /\ socket[s].st # "open" => socket'[s] = socket[s]
    BY <1>5, Kinds DEF FlushPending, RealShape, Of, Opened, NoSocket
  <2>3. RealShape'
    BY <1>5, <2>1 DEF FlushPending, RealShape
  <2>4. ConnectedToRunning'
    BY <1>5, <2>2 DEF FlushPending, ConnectedToRunning
  <2>5. ASSUME NEW s \in Sockets PROVE Following(s)'
    <3> SUFFICES ASSUME socket[s].st = "open", run[socket[s].at] = "up", socket[s].user \notin missed
                 PROVE  Told(s)'
      BY <1>5, <2>2 DEF Following, FlushPending
    <3>1. Told(s) /\ socket[s].at \in Processes /\ socket[s] \in Opened
      BY Kinds DEF Following, RealShape
    <3>2. CASE socket[s].at = p /\ socket[s].user \in pending[p]
      BY <1>5, <2>2, <3>1, <3>2 DEF FlushPending, Told, Of, Opened
    <3>3. CASE socket[s].at = p /\ socket[s].user \notin pending[p]
      BY <1>5, <3>1, <3>3 DEF FlushPending, Told, Of, Since
    <3>4. CASE socket[s].at # p
      <4>1. pending'[socket[s].at] = pending[socket[s].at]
        BY <1>5, <3>1, <3>4 DEF FlushPending, RealShape
      <4> QED BY <1>5, <3>1, <3>4, <4>1 DEF FlushPending, Told, Of, Since
    <3> QED BY <3>2, <3>3, <3>4
  <2> QED BY <2>3, <2>4, <2>5
<1>6. ASSUME NEW p \in Processes, StopServer(p) \/ Die(p) PROVE RealInv'
  <2>1. \A s \in Sockets : socket'[s] = NoSocket \/ socket'[s] = socket[s]
    BY <1>6 DEF StopServer, Die
  <2>2. RealShape'
    <3>1. socket' \in [Sockets -> {NoSocket} \cup Asking \cup Opened]
      BY <1>6 DEF StopServer, Die, RealShape
    <3> QED BY <1>6, <3>1 DEF StopServer, Die, RealShape
  <2>3. \A q \in Processes : (run'[q] = "up" => q # p) /\ (q # p => run'[q] = run[q] /\ cursor'[q] = cursor[q]
                                                                   /\ pending'[q] = pending[q])
    BY <1>6 DEF StopServer, Die, RealShape
  <2>4. ASSUME NEW s \in Sockets PROVE Following(s)'
    BY <1>6, <2>1, <2>3, Kinds DEF StopServer, Die, Following, Told, Since, RealShape
  <2>5. ConnectedToRunning'
    <3> SUFFICES ASSUME NEW s \in Sockets, socket'[s] # NoSocket
                 PROVE  run'[socket'[s].at] \in {"up", "stopped"}
      BY DEF ConnectedToRunning
    <3>1. socket'[s] = socket[s] /\ socket[s].at \in Processes /\ run[socket[s].at] \in {"up", "stopped"}
      BY <2>1, Kinds DEF ConnectedToRunning, RealShape
    <3>2. CASE StopServer(p)
      BY <3>1, <3>2 DEF StopServer, RealShape
    <3>3. CASE Die(p)
      <4>1. socket[s].at # p
        BY <3>1, <3>3 DEF Die
      <4> QED BY <2>3, <3>1, <4>1
    <3> QED BY <1>6, <3>2, <3>3
  <2> QED BY <2>2, <2>4, <2>5
<1>7. ASSUME NEW p \in Processes, Heartbeat(p) PROVE RealInv'
  <2>1. ASSUME NEW s \in Sockets
        PROVE  /\ socket'[s] \in {NoSocket} \cup Asking \cup Opened
               /\ socket'[s] # NoSocket => /\ socket[s] # NoSocket /\ socket'[s].at = socket[s].at
                                           /\ socket'[s].st = socket[s].st /\ socket'[s].user = socket[s].user
                                           /\ socket[s].st = "open" => socket'[s].shown = socket[s].shown
    <3>1. CASE s \notin Of(p)
      BY <1>7, <3>1 DEF Heartbeat, RealShape
    <3>2. CASE s \in Of(p)
      <4>1. socket[s] \in Opened /\ socket'[s] = AfterBeat(s)
        BY <1>7, <3>2, Kinds DEF Heartbeat, RealShape, Of
      <4>2. (IF socket[s].due = 0 THEN 0 ELSE socket[s].due - 1) \in Nat
        BY <4>1, Kinds
      <4>3. ASSUME NEW left \in Nat, NEW check \in {"no", "stands", "ended"}, NEW c,
                   c = [socket[s] EXCEPT !.pong = FALSE, !.due = left, !.check = check]
            PROVE  /\ c \in Opened /\ c.at = socket[s].at /\ c.st = "open" /\ c.user = socket[s].user
                   /\ c.shown = socket[s].shown
        BY <4>1, <4>3 DEF Opened
      <4>4. CASE ~socket[s].pong
        BY <4>1, <4>4 DEF AfterBeat
      <4>5. CASE socket[s].pong
        <5>1. PICK left \in Nat : left = IF socket[s].due = 0 THEN 0 ELSE socket[s].due - 1
          BY <4>2
        <5>2. PICK check \in {"no", "stands", "ended"} :
                check = IF left = 0 /\ socket[s].check = "no" THEN IF session[s] THEN "stands" ELSE "ended"
                        ELSE socket[s].check
          BY <4>1, Kinds
        <5>3. AfterBeat(s) = [socket[s] EXCEPT !.pong = FALSE, !.due = left, !.check = check]
          BY <4>1, <4>5, <5>1, <5>2 DEF AfterBeat, Opened
        <5>4. PICK c : c = [socket[s] EXCEPT !.pong = FALSE, !.due = left, !.check = check]
          BY Zenon
        <5>5. /\ c \in Opened /\ c.at = socket[s].at /\ c.st = "open" /\ c.user = socket[s].user
              /\ c.shown = socket[s].shown
          BY <4>3, <5>4, ZenonT(30)
        <5> QED BY <4>1, <5>3, <5>4, <5>5, Kinds
      <4> QED BY <4>4, <4>5
    <3> QED BY <3>1, <3>2
  <2>2. socket' \in [Sockets -> {NoSocket} \cup Asking \cup Opened]
    BY <1>7, <2>1 DEF Heartbeat
  <2>3. RealShape'
    BY <1>7, <2>2 DEF Heartbeat, RealShape
  <2>4. \A s \in Sockets : Following(s)'
    BY <1>7, <2>1, Kinds DEF Heartbeat, Following, Told, Since
  <2>5. ConnectedToRunning'
    BY <1>7, <2>1 DEF Heartbeat, ConnectedToRunning
  <2> QED BY <2>3, <2>4, <2>5
<1> QED BY <1>1, <1>2, <1>3, <1>4, <1>5, <1>6, <1>7 DEF ServerNext, Prune

\* A step of one connection: it goes, asks a running process, or is told the count of now.
LEMMA OneSocket ==
  ASSUME RealInv, NEW s \in Sockets, NEW c \in {NoSocket} \cup Asking \cup Opened,
         socket' = [socket EXCEPT ![s] = c],
         UNCHANGED <<unread, read, triggers, rows, lastId, run, cursor, pending, session, boots, missed>>,
         c # NoSocket => run[c.at] \in {"up", "stopped"},
         \/ c.st # "open"
         \/ c.shown = unread[c.user]
         \/ /\ socket[s].st = "open" /\ c.at = socket[s].at /\ c.user = socket[s].user /\ c.shown = socket[s].shown
  PROVE  RealInv'
<1>1. socket' \in [Sockets -> {NoSocket} \cup Asking \cup Opened] /\ socket'[s] = c
      /\ \A k \in Sockets \ {s} : socket'[k] = socket[k]
  BY DEF RealInv, RealShape
<1>2. RealShape'
  BY <1>1 DEF RealInv, RealShape
<1>3. ASSUME NEW k \in Sockets PROVE Following(k)'
  <2>1. CASE k # s
    BY <1>1, <2>1 DEF RealInv, Following, Told, Since
  <2>2. CASE k = s
    BY <1>1, <2>2 DEF RealInv, Following, Told, Since
  <2> QED BY <2>1, <2>2
<1>4. ConnectedToRunning'
  BY <1>1 DEF RealInv, ConnectedToRunning
<1> QED BY <1>2, <1>3, <1>4 DEF RealInv

LEMMA SocketOK == ASSUME RealInv, SocketNext PROVE RealInv'
<1> USE DEF RealInv
<1>1. ASSUME NEW s \in Sockets, NEW u \in Owners, NEW p \in Processes, Upgrade(s, u, p) PROVE RealInv'
  <2>1. [st |-> "asking", user |-> u, at |-> p, answer |-> session[s]] \in Asking
    BY DEF RealShape, Asking
  <2> QED BY <1>1, <2>1, OneSocket DEF Upgrade
<1>2. ASSUME NEW s \in Sockets, Admit(s) PROVE RealInv'
  <2>1. socket[s] \in Asking /\ socket[s] # NoSocket
    BY <1>2, Kinds DEF Admit, RealShape
  <2> DEFINE c == [st |-> "open", user |-> socket[s].user, at |-> socket[s].at, shown |-> unread[socket[s].user],
                   pong |-> TRUE, due |-> Beats, check |-> "no"]
  <2>2. c \in Opened /\ c.shown = unread[c.user] /\ c.at = socket[s].at
    BY <2>1, Kinds, RealtimeAssumption DEF RealShape, Opened
  <2>3. run[c.at] \in {"up", "stopped"}
    BY <2>1, <2>2 DEF ConnectedToRunning
  <2>4. socket' = [socket EXCEPT ![s] = c] \/ socket' = [socket EXCEPT ![s] = NoSocket]
    BY <1>2 DEF Admit
  <2>5. UNCHANGED <<unread, read, triggers, rows, lastId, run, cursor, pending, session, boots, missed>>
    BY <1>2 DEF Admit
  <2> HIDE DEF c
  <2>6. CASE socket' = [socket EXCEPT ![s] = c]
    BY <2>2, <2>3, <2>5, <2>6, OneSocket
  <2>7. CASE socket' = [socket EXCEPT ![s] = NoSocket]
    BY <2>5, <2>7, OneSocket, Kinds
  <2> QED BY <2>4, <2>6, <2>7
<1>3. ASSUME NEW s \in Sockets, Revalidated(s) \/ Pong(s) \/ Resync(s) \/ Hangup(s) PROVE RealInv'
  <2>1. socket[s] \in Opened /\ socket[s] # NoSocket
    BY <1>3, Kinds DEF Revalidated, Pong, Resync, Hangup, RealShape
  <2>2. UNCHANGED <<unread, read, triggers, rows, lastId, run, cursor, pending, session, boots, missed>>
    BY <1>3 DEF Revalidated, Pong, Resync, Hangup
  <2>3. run[socket[s].at] \in {"up", "stopped"} /\ unread[socket[s].user] \in Nat
    BY <2>1, Kinds DEF ConnectedToRunning, RealShape
  <2>4. CASE socket' = [socket EXCEPT ![s] = NoSocket]
    BY <2>2, <2>4, OneSocket, Kinds
  <2>5. CASE socket' = [socket EXCEPT ![s].check = "no", ![s].due = Beats]
    <3> DEFINE c == [socket[s] EXCEPT !.check = "no", !.due = Beats]
    <3>1. c \in Opened /\ c.at = socket[s].at /\ c.user = socket[s].user /\ c.shown = socket[s].shown
      BY <2>1, RealtimeAssumption DEF Opened
    <3>2. socket' = [socket EXCEPT ![s] = c] /\ socket[s].st = "open"
      BY <2>1, <2>5, Kinds DEF RealShape
    <3> HIDE DEF c
    <3> QED BY <2>2, <2>3, <3>1, <3>2, OneSocket
  <2>6. CASE socket' = [socket EXCEPT ![s].pong = TRUE]
    <3> DEFINE c == [socket[s] EXCEPT !.pong = TRUE]
    <3>1. c \in Opened /\ c.at = socket[s].at /\ c.user = socket[s].user /\ c.shown = socket[s].shown
      BY <2>1 DEF Opened
    <3>2. socket' = [socket EXCEPT ![s] = c] /\ socket[s].st = "open"
      BY <2>1, <2>6, Kinds DEF RealShape
    <3> HIDE DEF c
    <3> QED BY <2>2, <2>3, <3>1, <3>2, OneSocket
  <2>7. CASE socket' = [socket EXCEPT ![s].shown = unread[socket[s].user]]
    <3> DEFINE c == [socket[s] EXCEPT !.shown = unread[socket[s].user]]
    <3>1. c \in Opened /\ c.at = socket[s].at /\ c.shown = unread[c.user]
      BY <2>1, <2>3 DEF Opened
    <3>2. socket' = [socket EXCEPT ![s] = c]
      BY <2>7 DEF RealShape
    <3> HIDE DEF c
    <3> QED BY <2>2, <2>3, <3>1, <3>2, OneSocket
  <2> QED BY <1>3, <2>4, <2>5, <2>6, <2>7 DEF Revalidated, Pong, Resync, Hangup
<1>4. ASSUME NEW s \in Sockets, SessionEnds(s) PROVE RealInv'
  <2>1. RealShape'
    BY <1>4 DEF SessionEnds, RealShape
  <2> QED BY <1>4, <2>1 DEF SessionEnds, ConnectedToRunning, Following, Told, Since
<1> QED BY <1>1, <1>2, <1>3, <1>4 DEF SocketNext

LEMMA RealSteps == RealInv /\ [RealNext]_realVars => RealInv'
<1>1. ASSUME RealInv, UNCHANGED realVars PROVE RealInv'
  BY <1>1 DEF realVars, RealInv, RealShape, ConnectedToRunning, Following, Told, Since
<1> QED BY <1>1, InboxOK, ServerOK, SocketOK DEF RealNext

\* A page that has been told everything its process has read shows the count of its inbox
\* (the triggers of notification-fanout.mjs, the poll and the flush of
\* realtime-notifications.mjs), for any number of processes, sockets and users, however many
\* rows a poll reads and whenever rows are pruned.
THEOREM BadgesFollow == RealSpec => []BadgeFollowsInbox
<1>1. RealInv => BadgeFollowsInbox
  BY DEF RealInv, BadgeFollowsInbox, Following, Told
<1> QED BY <1>1, RealStarts, RealSteps, PTL DEF RealSpec

=============================================================================

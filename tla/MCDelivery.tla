----------------------------- MODULE MCDelivery -----------------------------
(***************************************************************************)
(* What leaves the server, and what ends with it: the log of a job and the *)
(* session of its runner, webhook deliveries, the email outbox, the        *)
(* sockets of open pages, and the shutdown of the process.  State spaces   *)
(* of their own checked by one run; the initial state decides which one    *)
(* moves, and under what fairness.                                         *)
(*                                                                         *)
(* A tick of the session is 30 seconds: the intervals and the lease have   *)
(* the values of the code; the silence, the hour of the token and the      *)
(* timeout are shortened, and the timeout outlasts the token.              *)
(***************************************************************************)
EXTENDS JobLog, RunnerSession, WebhookDeliveries, EmailOutbox, RealtimeNotifications,
        Shutdown, TLC

CONSTANTS
  Parts,          \* the state spaces looked at
  a1,             \* the recipient of every message
  x1, x2, e1, e2  \* members of the sets the states are symmetric in

VARIABLE part

allVars == <<logVars, sessionVars, deliveryVars, mailVars, realVars, downVars, part>>

ToOne == [e \in Emails |-> a1]

Init ==
  /\ LogInit /\ SessionInit /\ DeliveryInit /\ MailInit /\ RealInit /\ DownInit
  /\ part \in Parts
  /\ part # "session" => sweepIn = SweepEvery

Still(p) ==
  /\ p # "log" => UNCHANGED logVars
  /\ p # "session" => UNCHANGED sessionVars
  /\ p # "webhooks" => UNCHANGED deliveryVars
  /\ p # "email" => UNCHANGED mailVars
  /\ p # "realtime" => UNCHANGED realVars
  /\ p # "shutdown" => UNCHANGED downVars

Next ==
  /\ UNCHANGED part /\ Still(part)
  /\ \/ part = "log" /\ LogNext
     \/ part = "session" /\ SessionNext
     \/ part = "webhooks" /\ DeliveryNext
     \/ part = "email" /\ MailNext
     \/ part = "realtime" /\ RealNext
     \/ part = "shutdown" /\ DownNext

Spec == Init /\ [][Next]_allVars

\* At most two of these at once.  Of the session: outages, steps taken.  Of the webhooks: a hung
\* request, one that outlasts the claim, a process that stopped, a redelivery, a webhook deleted.  Of the mail: an event
\* of the provider, a retry by hand, a process that stopped.  Of the sockets: starts of a process, a
\* session that ended; and one that stops has not been started again.  A job
\* that was stopped loses no flush of its log, nor does another lose two.
Affordable ==
  /\ outages + (MaxSteps - steps) <= 2
  /\ Cardinality(hung) + 2 * Cardinality(outlasted) + crashes + redeliveries + Cardinality({d \in Deliveries : status[d] = "deleted"}) <= 2
  /\ Cardinality(seen) + retries + senderCrashes <= 2
  /\ boots + Cardinality({s \in Sockets : ~session[s]}) <= 2
  /\ \A p \in Processes : run[p] = "stopped" => boots = 1
  /\ Cardinality({r \in Timers : progress[r] = "failed"}) + (IF job = "stopped" THEN 1 ELSE 0) <= 1

\* Processes, be they senders of webhooks or of mail or sockets' servers, the flushes of a
\* log, and messages to one recipient are interchangeable.
Symmetry == Permutations({x1, x2}) \cup Permutations({e1, e2})

Fairness ==
  \/ part = "log" /\ LogFairness
  \/ part = "webhooks" /\ DeliveryFairness
  \/ part = "email" /\ MailFairness
  \/ part = "realtime" /\ RealFairness
  \/ part = "shutdown" /\ DownFairness

LiveSpec == Spec /\ Fairness
=============================================================================

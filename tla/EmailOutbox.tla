---------------------------- MODULE EmailOutbox ----------------------------
(***************************************************************************)
(* The email outbox of src/src/notifications.mjs and the suppression of    *)
(* recipients of src/src/email-provider-events.mjs: messages are queued,   *)
(* claimed one by one in batches, accepted or refused by the transport,    *)
(* retried by hand; bounces, complaints and deferrals come back from the   *)
(* provider, late, twice or out of order, and suppress an address, which   *)
(* the triggers of the table then enforce.                                 *)
(*                                                                         *)
(* A sender is one call of processEmailOutbox: the worker of a process or  *)
(* the administrator's "process" route.  Calls may overlap: the route      *)
(* takes no lease, and the worker's may lapse during a batch.              *)
(***************************************************************************)
EXTENDS Naturals, FiniteSets

CONSTANTS
  Senders,
  Emails,           \* messages
  Addresses,
  To,               \* message -> its recipient
  MaxMailAttempts,  \* max_attempts of a message
  Threshold,        \* emailSoftBounceThreshold
  EventIds,         \* provider event ids; one is delivered any number of times
  MaxRetries,       \* retries by hand
  RetryRoutes,      \* the routes they come through
  MaxSenderCrashes

ASSUME OutboxAssumption ==
  /\ To \in [Emails -> Addresses]
  /\ MaxMailAttempts \in Nat \ {0} /\ Threshold \in Nat \ {0}
  /\ MaxRetries \in Nat /\ MaxSenderCrashes \in Nat
  /\ RetryRoutes \subseteq {"notifications", "console"}

MailStatus     == {"none", "pending", "processing", "sent", "failed", "cancelled"}
Waiting    == {"pending", "failed"}
EventTypes == {"delivered", "deferred", "bounce", "complaint"}
Permanent  == {"hard_bounce", "complaint"}
Idle       == "idle"

VARIABLES
  mailStatus,   \* message -> email_outbox.status
  mailTries,    \* message -> attempt_count
  mailDue,      \* the messages whose next_attempt_at has passed
  mailOld,      \* those claimed more than fifteen minutes ago
  suppression,  \* address -> the reason of its active suppression, "expired"
                \* or "none"
  soft,         \* address -> soft_bounce_count
  seen,         \* the event ids recorded
  batch,        \* sender -> candidates it has not come to yet
  sending,      \* sender -> the message it is sending, or Idle
  rejecting,    \* sender -> what recordSmtpRejection has written of its message:
                \* "no"thing, "suppressed" the address, "swept" what waited for it
  cutOff,       \* addresses whose suppression is all that a crash let it write
  retries,
  senderCrashes

mailRowVars  == <<mailStatus, mailTries, mailDue, mailOld>>
supVars  == <<suppression, soft, seen>>
sendVars == <<batch, sending, rejecting, cutOff>>
mailVars     == <<mailRowVars, supVars, sendVars, retries, senderCrashes>>

Suppressed(a) == suppression[a] \notin {"none", "expired"}

MailTypeOK ==
  /\ mailStatus \in [Emails -> MailStatus]
  /\ mailTries \in [Emails -> Nat]
  /\ mailDue \subseteq Emails /\ mailOld \subseteq Emails
  /\ suppression \in [Addresses -> Permanent \cup {"none", "soft_bounce_threshold", "expired"}]
  /\ soft \in [Addresses -> Nat]
  /\ seen \subseteq EventIds
  /\ batch \in [Senders -> SUBSET Emails]
  /\ sending \in [Senders -> Emails \cup {Idle}]
  /\ rejecting \in [Senders -> {"no", "suppressed", "swept"}] /\ cutOff \subseteq Addresses
  /\ retries \in 0 .. MaxRetries /\ senderCrashes \in 0 .. MaxSenderCrashes

MailInit ==
  /\ mailStatus = [e \in Emails |-> "none"]
  /\ mailTries = [e \in Emails |-> 0]
  /\ mailDue = {} /\ mailOld = {}
  /\ suppression = [a \in Addresses |-> "none"]
  /\ soft = [a \in Addresses |-> 0]
  /\ seen = {}
  /\ batch = [s \in Senders |-> {}]
  /\ sending = [s \in Senders |-> Idle]
  /\ rejecting = [s \in Senders |-> "no"] /\ cutOff = {}
  /\ retries = 0 /\ senderCrashes = 0

-----------------------------------------------------------------------------
(* The table and its triggers                                              *)

\* trg_email_outbox_block_suppressed_claim skips the row.
Blocked(e, st) == st \in {"pending", "failed", "processing"} /\ Suppressed(To[e])

\* queueTransactionalEmail, with trg_email_outbox_cancel_suppressed_insert.
Queue(e) ==
  /\ mailStatus[e] = "none"
  /\ mailStatus' = [mailStatus EXCEPT ![e] = IF Suppressed(To[e]) THEN "cancelled" ELSE "pending"]
  /\ mailDue' = mailDue \cup {e}
  /\ UNCHANGED <<mailTries, mailOld, supVars, sendVars, retries, senderCrashes>>

\* cancelQueuedEmail, over statuses that a caller is changing as well.
\* Mutant: only a message that was never tried is cancelled.
SweptPending(a, st) ==
  [e \in Emails |-> IF To[e] = a /\ st[e] = "pending" THEN "cancelled" ELSE st[e]]

Swept(a, st) ==
  [e \in Emails |-> IF To[e] = a /\ st[e] \in Waiting THEN "cancelled" ELSE st[e]]

\* suppress in one transaction: whatever the address was suppressed for, and for
\* how long, is replaced.
Suppress(a, reason) ==
  /\ suppression' = [suppression EXCEPT ![a] = reason]
  /\ mailStatus' = Swept(a, mailStatus)
  /\ cutOff' = cutOff \ {a}

-----------------------------------------------------------------------------
(* processEmailOutbox                                                      *)

\* Mutant: one attempt less than there may be.
ReadyEarly(e) == mailStatus[e] \in Waiting /\ e \in mailDue /\ mailTries[e] + 1 < MaxMailAttempts

Ready(e) == mailStatus[e] \in Waiting /\ e \in mailDue /\ mailTries[e] < MaxMailAttempts

\* Mutant: a row is recovered while its attempt may be under way.
RecoveredAll == {e \in Emails : mailStatus[e] = "processing" /\ ~Blocked(e, "failed")}

Recovered == {e \in Emails : mailStatus[e] = "processing" /\ e \in mailOld /\ ~Blocked(e, "failed")}

\* Up to the loop: interrupted attempts are recovered, candidates selected.
StartBatch(s) ==
  /\ sending[s] = Idle /\ batch[s] = {}
  /\ mailStatus' = [e \in Emails |-> IF e \in Recovered THEN "failed" ELSE mailStatus[e]]
  /\ mailDue' = mailDue \cup Recovered
  /\ batch' = [batch EXCEPT ![s] =
       {e \in Emails : mailTries[e] < MaxMailAttempts /\ (e \in Recovered \/ Ready(e))}]
  /\ UNCHANGED <<mailTries, mailOld, supVars, sending, rejecting, cutOff, retries, senderCrashes>>

Claimed(e) == Ready(e) /\ ~Blocked(e, "processing")

\* claimEmail on the next candidate; it may have been taken, cancelled or
\* suppressed since the list was made.
ClaimEmail(s, e) ==
  /\ sending[s] = Idle /\ e \in batch[s]
  /\ batch' = [batch EXCEPT ![s] = @ \ {e}]
  /\ IF Claimed(e)
     THEN /\ mailStatus'  = [mailStatus EXCEPT ![e] = "processing"]
          /\ mailTries'   = [mailTries EXCEPT ![e] = @ + 1]
          /\ mailOld'     = mailOld \ {e}
          /\ sending' = [sending EXCEPT ![s] = e]
     ELSE UNCHANGED <<mailStatus, mailTries, mailOld, sending>>
  /\ UNCHANGED <<mailDue, supVars, rejecting, cutOff, retries, senderCrashes>>

InHand(s, stage) == sending[s] # Idle /\ rejecting[s] = stage

SendSucceeds(s) ==
  /\ InHand(s, "no")
  /\ mailStatus' = [mailStatus EXCEPT ![sending[s]] = "sent"]
  /\ sending' = [sending EXCEPT ![s] = Idle]
  /\ UNCHANGED <<mailTries, mailDue, mailOld, supVars, batch, rejecting, cutOff, retries, senderCrashes>>

\* The transport failed: the message waits for its next attempt, or for
\* nobody after its last.  The trigger skips the row if its recipient has been
\* suppressed since the claim.
SendFails(s) ==
  LET e == sending[s] IN
  /\ InHand(s, "no")
  /\ IF Blocked(e, "failed")
     THEN UNCHANGED <<mailStatus, mailDue>>
     ELSE /\ mailStatus' = [mailStatus EXCEPT ![e] = "failed"]
          /\ mailDue' = IF mailTries[e] >= MaxMailAttempts THEN mailDue ELSE mailDue \ {e}
  /\ sending' = [sending EXCEPT ![s] = Idle]
  /\ UNCHANGED <<mailTries, mailOld, supVars, batch, rejecting, cutOff, retries, senderCrashes>>

\* The server refused the recipient for good.  recordSmtpRejection has no
\* transaction: the suppression is written, then the sweep of cancelQueuedEmail,
\* and then the caller cancels the message at hand, which the sweep passes over.
SendIsRejected(s) ==
  /\ InHand(s, "no")
  /\ suppression' = [suppression EXCEPT ![To[sending[s]]] = "hard_bounce"]
  /\ rejecting' = [rejecting EXCEPT ![s] = "suppressed"]
  /\ UNCHANGED <<mailRowVars, soft, seen, batch, sending, cutOff, retries, senderCrashes>>

SweepRejected(s) ==
  LET a == To[sending[s]] IN
  /\ InHand(s, "suppressed")
  /\ mailStatus' = Swept(a, mailStatus)
  /\ rejecting' = [rejecting EXCEPT ![s] = "swept"]
  /\ cutOff' = cutOff \ {a}
  /\ UNCHANGED <<mailTries, mailDue, mailOld, supVars, batch, sending, retries, senderCrashes>>

CancelRejected(s) ==
  /\ InHand(s, "swept")
  /\ mailStatus' = [mailStatus EXCEPT ![sending[s]] = "cancelled"]
  /\ rejecting' = [rejecting EXCEPT ![s] = "no"]
  /\ sending' = [sending EXCEPT ![s] = Idle]
  /\ UNCHANGED <<mailTries, mailDue, mailOld, supVars, batch, cutOff, retries, senderCrashes>>

-----------------------------------------------------------------------------
(* ingestEmailProviderEvent                                                *)

\* recordSoftBounce: a bounce outside the window of the first starts over.
SoftCount(a, fresh) == IF fresh THEN 1 ELSE soft[a] + 1

Reason(type) == IF type = "bounce" THEN "hard_bounce" ELSE "complaint"

ProviderEvent(id, a, type, fresh) ==
  /\ id \notin seen
  /\ seen' = seen \cup {id}
  /\ CASE type \in {"bounce", "complaint"} -> Suppress(a, Reason(type)) /\ UNCHANGED soft
       [] type = "delivered" -> /\ soft' = [soft EXCEPT ![a] = 0]
                                /\ UNCHANGED <<suppression, mailStatus, cutOff>>
       [] type = "deferred"  -> /\ soft' = [soft EXCEPT ![a] = SoftCount(a, fresh)]
                                /\ IF soft'[a] < Threshold
                                   THEN UNCHANGED <<suppression, mailStatus, cutOff>>
                                   ELSE Suppress(a, "soft_bounce_threshold")
  /\ UNCHANGED <<mailTries, mailDue, mailOld, batch, sending, rejecting, retries, senderCrashes>>

\* unsuppressEmail.
Unsuppress(a) ==
  /\ suppression[a] # "none"
  /\ suppression' = [suppression EXCEPT ![a] = "none"]
  /\ soft' = [soft EXCEPT ![a] = 0]
  /\ cutOff' = cutOff \ {a}
  /\ UNCHANGED <<mailRowVars, seen, batch, sending, rejecting, retries, senderCrashes>>

-----------------------------------------------------------------------------
(* Retries by hand.  createEmailProviderEventsApiHandler stands before both, *)
(* and the trigger refuses them, while the recipient is suppressed.        *)

Retryable(e, route) ==
  /\ retries < MaxRetries /\ route \in RetryRoutes
  /\ mailStatus[e] \in {"failed", "cancelled"}
  /\ ~Blocked(e, "pending")

\* retryOutboxEmail, of the notifications API.
RetryOutboxEmail(e) ==
  /\ Retryable(e, "notifications")
  /\ mailStatus' = [mailStatus EXCEPT ![e] = "pending"]
  /\ mailDue' = mailDue \cup {e}
  /\ retries' = retries + 1
  /\ UNCHANGED <<mailTries, mailOld, supVars, sendVars, senderCrashes>>

\* retryEmail, of the administrator's console.
RetryEmail(e) ==
  /\ Retryable(e, "console")
  /\ mailStatus' = [mailStatus EXCEPT ![e] = "pending"]
  /\ mailTries' = [mailTries EXCEPT ![e] = 0]
  /\ mailDue' = mailDue \cup {e}
  /\ retries' = retries + 1
  /\ UNCHANGED <<mailOld, supVars, sendVars, senderCrashes>>

-----------------------------------------------------------------------------
(* Time and processes                                                      *)

MailBecomesDue(e) ==
  /\ mailStatus[e] = "failed" /\ e \notin mailDue
  /\ mailDue' = mailDue \cup {e}
  /\ UNCHANGED <<mailStatus, mailTries, mailOld, supVars, sendVars, retries, senderCrashes>>

\* The timers of the transports end every attempt that has connected well
\* inside the fifteen minutes.
MailGrowsOld(e) ==
  /\ mailStatus[e] = "processing" /\ e \notin mailOld
  /\ \A s \in Senders : sending[s] # e
  /\ mailOld' = mailOld \cup {e}
  /\ UNCHANGED <<mailStatus, mailTries, mailDue, supVars, sendVars, retries, senderCrashes>>

SuppressionExpires(a) ==
  /\ suppression[a] = "soft_bounce_threshold"
  /\ suppression' = [suppression EXCEPT ![a] = "expired"]
  /\ UNCHANGED <<mailRowVars, soft, seen, sendVars, retries, senderCrashes>>

\* Whatever the sender had not written yet is never written.
Crash(s) ==
  /\ senderCrashes < MaxSenderCrashes
  /\ sending[s] # Idle \/ batch[s] # {}
  /\ sending' = [sending EXCEPT ![s] = Idle]
  /\ batch' = [batch EXCEPT ![s] = {}]
  /\ rejecting' = [rejecting EXCEPT ![s] = "no"]
  /\ cutOff' = IF rejecting[s] = "suppressed" THEN cutOff \cup {To[sending[s]]} ELSE cutOff
  /\ senderCrashes' = senderCrashes + 1
  /\ UNCHANGED <<mailRowVars, supVars, retries>>

MailNext ==
  \/ \E e \in Emails : \/ Queue(e) \/ RetryOutboxEmail(e) \/ RetryEmail(e)
                       \/ MailBecomesDue(e) \/ MailGrowsOld(e)
  \/ \E s \in Senders : \/ StartBatch(s) \/ SendSucceeds(s) \/ SendFails(s)
                        \/ SendIsRejected(s) \/ SweepRejected(s) \/ CancelRejected(s) \/ Crash(s)
  \/ \E s \in Senders, e \in Emails : ClaimEmail(s, e)
  \/ \E id \in EventIds, a \in Addresses, type \in EventTypes, fresh \in BOOLEAN :
       ProviderEvent(id, a, type, fresh)
  \/ \E a \in Addresses : Unsuppress(a) \/ SuppressionExpires(a)

MailSpec == MailInit /\ [][MailNext]_mailVars

\* The worker ticks, its loop goes on, an attempt ends, and time passes.  What
\* the transport answers, and whether an administrator ever acts, is open.
MailFairness ==
  /\ \A s \in Senders : /\ WF_mailVars(StartBatch(s))
                        /\ WF_mailVars(\E e \in Emails : ClaimEmail(s, e))
                        /\ WF_mailVars(\/ SendSucceeds(s) \/ SendFails(s) \/ SendIsRejected(s)
                                       \/ SweepRejected(s) \/ CancelRejected(s))
  /\ \A e \in Emails : WF_mailVars(MailBecomesDue(e)) /\ WF_mailVars(MailGrowsOld(e))

FairMailSpec == MailSpec /\ MailFairness

-----------------------------------------------------------------------------
(* Properties *)

\* Two calls of processEmailOutbox never send the same message at once, and
\* a message that is being sent is not waiting to be sent.
OneSenderPerMessage ==
  /\ \A s, t \in Senders : sending[s] # Idle /\ sending[s] = sending[t] => s = t
  /\ \A s \in Senders : sending[s] # Idle => mailStatus[sending[s]] = "processing"

\* A suppression has been written and the sweep that belongs to it has not, yet or
\* for good.
Unswept(a) ==
  \/ a \in cutOff
  \/ \E s \in Senders : InHand(s, "suppressed") /\ To[sending[s]] = a

\* Nothing waits for a suppressed recipient, however the suppression, the
\* queue and the retries interleave, but for what a sender that suppressed the
\* address has not swept yet, or died before it swept (recordSmtpRejection).
NothingWaitsForTheSuppressed ==
  \A e \in Emails : Suppressed(To[e]) => mailStatus[e] \notin Waiting \/ Unswept(To[e])

\* A message that is queued with attempts left is attempted or cancelled, unless its
\* address was suppressed by a sender that died before it swept the queue: nothing
\* sweeps it later, and the triggers let nobody claim it.
QueuedIsTried ==
  \A e \in Emails : mailStatus[e] = "pending" /\ mailTries[e] < MaxMailAttempts
                   ~> mailStatus[e] # "pending" \/ To[e] \in cutOff

\* A message that is queued, by hand too, is attempted or cancelled.
RetriedIsTried == \A e \in Emails : mailStatus[e] = "pending" ~> mailStatus[e] # "pending"

\* A message suppressed while it is being sent does not stay in 'processing'.
NothingStrands == \A e \in Emails : mailStatus[e] = "processing" ~> mailStatus[e] # "processing"

\* A suppression for a bounce or a complaint lasts until somebody reviews it:
\* it never becomes one that expires.
PermanentStaysPermanent ==
  [][\A a \in Addresses :
       suppression[a] \in Permanent => suppression'[a] # "soft_bounce_threshold"]_mailVars

\* A message has one sender, and none waits for a suppressed recipient once the
\* suppression is complete (processEmailOutbox, recordSmtpRejection, and the triggers).
MailSound == OneSenderPerMessage /\ NothingWaitsForTheSuppressed

=============================================================================

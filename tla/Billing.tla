------------------------------ MODULE Billing ------------------------------
(***************************************************************************)
(* One organization's plan, and everything that may change it.             *)
(*                                                                         *)
(* The payment provider is outside: it keeps the real subscriptions, tells *)
(* of each change by an event, and delivers the events in any order and as *)
(* often as it likes.  KukGit keeps one billing_subscriptions row for the  *)
(* organization, organizations.plan, the billing_events log that recognises*)
(* a redelivery, the subscriptions it stopped pointing at, and the notices *)
(* it has sent.  Every statement is its own transaction, so a crash inside *)
(* ingestBillingEvent leaves the writes made so far.                       *)
(*                                                                         *)
(* Time is counted in days and only as what is left of the grace period    *)
(* and the age of a failed charge, so it needs no bound.  A date at which  *)
(* a subscription is to end is represented by the subscription it is about.*)
(***************************************************************************)
EXTENDS Naturals, Sequences, FiniteSets

CONSTANTS
    Subscriptions,  \* the subscriptions the provider may come to hold
    Reporting,      \* those of a provider that reports a pending cancellation (Stripe)
    PlanOf,         \* the plan each was created for: its notes
    ManualPlan,     \* what an operator records for an off-provider agreement
    Null,
    GraceDays, ReminderDays, FinalDays,
    MaxEvents,         \* bound: events the provider and the operator produce
    MaxBillingCrashes  \* bound: crashes inside ingestBillingEvent

ASSUME DaysAssumption ==
    /\ GraceDays \in Nat /\ ReminderDays \in Nat /\ FinalDays \in Nat \ {0}
    /\ FinalDays < ReminderDays /\ ReminderDays < GraceDays

ASSUME BoundsAssumption == MaxEvents \in Nat /\ MaxBillingCrashes \in Nat

ASSUME ProviderAssumption ==
    /\ Reporting \subseteq Subscriptions
    /\ Null \notin Subscriptions
    /\ "free" \notin {PlanOf[s] : s \in Subscriptions} \cup {ManualPlan}

VARIABLES
    held,        \* at the provider: the state of each subscription
    ending,      \* at the provider: those that stop at the end of the period
    sent,        \* the provider's events, by event id, and the operator's
    billingRow,  \* billing_subscriptions of the organization, or Null
    plan,        \* organizations.plan
    log,         \* billing_events: outcome, and days since a failed charge arrived
    superseded,  \* billing_superseded_subscriptions: status of each reference
    reminded,    \* stages of payment_reminder sent for the row's grace date
    told,        \* notices whose dedupe key carries no date, sent so far
    ask,         \* the cancel or resume request that awaits the provider, or Null
    writer,      \* history: the event that wrote the row last
    wrote,       \* history: the events that ever wrote it
    billingCrashes

db == <<billingRow, plan, log, superseded>>
notices == <<reminded, told>>
provider == <<held, ending, sent>>
billingVars == <<provider, db, notices, ask, writer, wrote, billingCrashes>>

Events == 1 .. MaxEvents
Plans == {"free", ManualPlan} \cup {PlanOf[s] : s \in Subscriptions}
Statuses == {"active", "past_due", "canceled"}

BillingRow == [plan : Plans, status : Statuses, from : {"provider", "manual"},
        ref : Subscriptions \cup {Null}, grace : 0 .. GraceDays,
        ends : Subscriptions \cup {Null}]

ASSUME NullAssumption == Null \notin BillingRow /\ Null \notin {"reminder", "final"}

BillingInit ==
    /\ held = [s \in Subscriptions |-> "none"]
    /\ ending = {} /\ sent = <<>>
    /\ billingRow = Null /\ plan = "free"
    /\ log = [e \in Events |-> [outcome |-> "unseen", age |-> 0]]
    /\ superseded = [s \in Subscriptions |-> "none"]
    /\ reminded = {} /\ told = {}
    /\ ask = Null /\ writer = 0 /\ wrote = {} /\ billingCrashes = 0

-----------------------------------------------------------------------------
(* What the row entitles the organization to.                              *)

Entitlement(r) ==
    IF r # Null /\ (r.status = "active" \/ (r.status = "past_due" /\ r.grace > 0))
    THEN r.plan ELSE "free"

Entitled == Entitlement(billingRow)

-----------------------------------------------------------------------------
(* The provider.                                                           *)

(* What an event says once it is normalized.  Its plan comes from the      *)
(* notes of the subscription.  Razorpay never reports a pending            *)
(* cancellation; Stripe does on its subscription events, not on a failed   *)
(* invoice.                                                                *)
RazorpayEvent(s, status) ==
    [from |-> "provider", ref |-> s, plan |-> PlanOf[s], status |-> status,
     reports |-> FALSE, ends |-> Null]

StripeEvent(s, status) ==
    [from |-> "provider", ref |-> s, plan |-> PlanOf[s], status |-> status,
     reports |-> status # "past_due",
     ends |-> IF status # "past_due" /\ s \in ending THEN s ELSE Null]

ProviderEvent(s, status) ==
    IF s \in Reporting THEN StripeEvent(s, status) ELSE RazorpayEvent(s, status)

Room == Len(sent) < MaxEvents

Becomes(s, status) ==
    /\ Room
    /\ held' = [held EXCEPT ![s] = status]
    /\ sent' = Append(sent, ProviderEvent(s, status))
    /\ UNCHANGED <<ending, db, notices, ask, writer, wrote, billingCrashes>>

(* The first payment, a renewal, or the payment that clears a failed one.  *)
CustomerPays(s) ==
    held[s] \in {"created", "active", "past_due"} /\ Becomes(s, "active")

(* Each attempt that fails is an event of its own.  Stripe reports a first *)
(* payment that fails too, as incomplete.                                  *)
ChargeFails(s) ==
    /\ held[s] \in {"active", "past_due"} \/ (held[s] = "created" /\ s \in Reporting)
    /\ Becomes(s, "past_due")

PeriodRunsOut(s) ==
    /\ held[s] = "past_due" \/ (held[s] = "active" /\ s \in ending)
    /\ Becomes(s, "canceled")

SeenIfApplied(e) == log[e].outcome = "applied"

-----------------------------------------------------------------------------
(* A billing event c, logged as e, is applied.  The writes are numbered in *)
(* the order of ingestBillingEvent and applyChange; Writes(e, c, n) makes  *)
(* the first n: the log, the reference being replaced, the upsert, the     *)
(* pending end, the plan, the notices, and the outcome.                    *)

Seen(e) == log[e].outcome # "unseen"

Supersedes(c) == billingRow # Null /\ billingRow.ref # Null /\ c.ref # Null /\ c.ref # billingRow.ref

RefOverwritten(c) == c.ref

(* ON CONFLICT DO NOTHING: a reference already on the list stays as it is. *)
Filed(c) ==
    IF Supersedes(c) /\ superseded[billingRow.ref] = "none"
    THEN [superseded EXCEPT ![billingRow.ref] = "open"] ELSE superseded

KeptRef(c) == IF c.ref = Null /\ billingRow # Null THEN billingRow.ref ELSE c.ref

KeptEnds == IF billingRow = Null THEN Null ELSE billingRow.ends

GraceFor(status) == IF status = "past_due" THEN GraceDays ELSE 0

Upserted(c) ==
    [plan |-> c.plan, status |-> c.status, from |-> c.from, ref |-> KeptRef(c),
     grace |-> GraceFor(c.status), ends |-> KeptEnds]

EndsAfter(c) ==
    IF c.status = "canceled" THEN Null ELSE IF c.reports THEN c.ends ELSE KeptEnds

(* The key of this notice has no date in it, so it is sent once for good.  *)
EndedNotice(c) ==
    IF c.status = "canceled" /\ plan # "free" THEN {"subscription_ended"} ELSE {}

LastWrite == 7

Writes(e, c, n) ==
    /\ log' = [log EXCEPT ![e].outcome = IF n = LastWrite THEN "applied" ELSE "received"]
    /\ superseded' = IF n >= 2 THEN Filed(c) ELSE superseded
    /\ billingRow' = IF n >= 4 THEN [Upserted(c) EXCEPT !.ends = EndsAfter(c)]
              ELSE IF n = 3 THEN Upserted(c) ELSE billingRow
    /\ writer' = IF n >= 3 THEN e ELSE writer
    /\ wrote' = IF n >= 3 THEN wrote \cup {e} ELSE wrote
    /\ reminded' = IF n >= 3 THEN {} ELSE reminded
    /\ plan' = IF n >= 5 THEN Entitlement(billingRow') ELSE plan
    /\ told' = IF n >= 6 THEN told \cup EndedNotice(c) ELSE told

(* The whole of it; or the process dies on the way, and the request it had *)
(* open with the provider is gone with it.                                 *)
Ingest(e, c) ==
    \/ Writes(e, c, LastWrite) /\ UNCHANGED <<ask, billingCrashes>>
    \/ /\ billingCrashes < MaxBillingCrashes /\ billingCrashes' = billingCrashes + 1
       /\ ask' = Null
       /\ \E n \in 1 .. LastWrite - 1 : Writes(e, c, n)

(* A redelivery finds the event in the log and writes nothing: a stutter.  *)
Deliver(e) == ~Seen(e) /\ Ingest(e, sent[e]) /\ UNCHANGED provider

(* An operator records an agreement: a manual event with an id of its own, *)
(* without a reference, ingested in the same request.                      *)
Manual(status) ==
    [from |-> "manual", ref |-> Null, plan |-> ManualPlan,
     status |-> status, reports |-> FALSE, ends |-> Null]

OperatorRecords(status) ==
    /\ Room
    /\ sent' = Append(sent, Manual(status))
    /\ Ingest(Len(sent) + 1, Manual(status))
    /\ UNCHANGED <<held, ending>>

OperatorResolves(s) ==
    /\ superseded[s] = "open"
    /\ superseded' = [superseded EXCEPT ![s] = "resolved"]
    /\ UNCHANGED <<provider, billingRow, plan, log, notices, ask, writer, wrote, billingCrashes>>

-----------------------------------------------------------------------------
(* Buying and leaving.                                                     *)

(* assertNoLiveSubscription lets through what nothing charges, and what    *)
(* is already to end.                                                      *)
MayBuy == ~(billingRow # Null /\ billingRow.status = "active" /\ billingRow.ends = Null)

(* The provider object is created, with the notes; the customer may pay it *)
(* at any later time.  A session still open for the plan is handed back    *)
(* and creates nothing.                                                    *)
StartCheckout(s) ==
    /\ held[s] = "none" /\ MayBuy
    /\ held' = [held EXCEPT ![s] = "created"]
    /\ UNCHANGED <<ending, sent, db, notices, ask, writer, wrote, billingCrashes>>

Actionable ==
    /\ billingRow # Null /\ billingRow.status # "canceled"
    /\ billingRow.from # "manual" /\ billingRow.ref # Null

(* The row is read, and the handler awaits the provider.                   *)
RequestCancellation ==
    /\ ask = Null /\ Actionable /\ billingRow.ends = Null
    /\ ask' = [kind |-> "cancel", ref |-> billingRow.ref, acted |-> FALSE]
    /\ UNCHANGED <<provider, db, notices, writer, wrote, billingCrashes>>

(* Only Stripe can undo a cancellation.                                    *)
ResumeSubscription ==
    /\ ask = Null /\ Actionable /\ billingRow.ends # Null /\ billingRow.ref \in Reporting
    /\ ask' = [kind |-> "resume", ref |-> billingRow.ref, acted |-> FALSE]
    /\ UNCHANGED <<provider, db, notices, writer, wrote, billingCrashes>>

ProviderActs ==
    /\ ask # Null /\ ~ask.acted
    /\ held[ask.ref] \in {"active", "past_due"}
    /\ ending' = IF ask.kind = "cancel" THEN ending \cup {ask.ref}
                 ELSE ending \ {ask.ref}
    /\ ask' = [ask EXCEPT !.acted = TRUE]
    /\ UNCHANGED <<held, sent, db, notices, writer, wrote, billingCrashes>>

(* Refused, unreachable or timed out: the request fails and writes nothing.*)
ProviderFails ==
    /\ ask # Null
    /\ ask' = Null
    /\ UNCHANGED <<provider, db, notices, writer, wrote, billingCrashes>>

AnswerEndsSubscription ==
    /\ ask # Null /\ ask.acted
    /\ billingRow' = [billingRow EXCEPT !.ends = Null, !.status = "canceled"]
    /\ ask' = Null
    /\ UNCHANGED <<provider, plan, log, superseded, notices, writer, wrote, billingCrashes>>

(* recordCancellationIntent writes one column of whatever row is there now.*)
ProviderAnswers ==
    /\ ask # Null /\ ask.acted
    /\ billingRow' = [billingRow EXCEPT !.ends = IF ask.kind = "cancel" THEN ask.ref ELSE Null]
    /\ ask' = Null
    /\ UNCHANGED <<provider, plan, log, superseded, notices, writer, wrote, billingCrashes>>

RanOutUnlessLeaving ==
    billingRow # Null /\ billingRow.status = "past_due" /\ billingRow.grace = 0 /\ billingRow.ends = Null

-----------------------------------------------------------------------------
(* The two hourly workers, and the days.                                   *)

GraceRanOut == billingRow # Null /\ billingRow.status = "past_due" /\ billingRow.grace = 0

StageOffByOne ==
    IF billingRow = Null \/ billingRow.status # "past_due" \/ billingRow.grace = 0 THEN Null
    ELSE IF billingRow.grace < FinalDays THEN "final"
    ELSE IF billingRow.grace <= ReminderDays THEN "reminder" ELSE Null

ExpireGracePeriods ==
    /\ GraceRanOut /\ plan # "free"
    /\ plan' = "free"
    /\ told' = told \cup {"grace_expired"}
    /\ UNCHANGED <<provider, billingRow, log, superseded, reminded, ask, writer, wrote, billingCrashes>>

DunningStage ==
    IF billingRow = Null \/ billingRow.status # "past_due" \/ billingRow.grace = 0 THEN Null
    ELSE IF billingRow.grace <= FinalDays THEN "final"
    ELSE IF billingRow.grace <= ReminderDays THEN "reminder" ELSE Null

RunDunning ==
    /\ DunningStage \notin {Null} \cup reminded
    /\ reminded' = reminded \cup {DunningStage}
    /\ UNCHANGED <<provider, db, told, ask, writer, wrote, billingCrashes>>

(* The workers run every hour, so no day passes over something one of them *)
(* has to do.                                                              *)
WorkersAreDone ==
    /\ ~(GraceRanOut /\ plan # "free")
    /\ DunningStage \in {Null} \cup reminded

Older(e) ==
    IF Seen(e) /\ sent[e].status = "past_due" /\ log[e].age < GraceDays
    THEN log[e].age + 1 ELSE log[e].age

DayPasses ==
    /\ WorkersAreDone
    /\ billingRow # Null /\ billingRow.status = "past_due" /\ billingRow.grace > 0
    /\ billingRow' = [billingRow EXCEPT !.grace = @ - 1]
    /\ log' = [e \in Events |-> [log[e] EXCEPT !.age = Older(e)]]
    /\ UNCHANGED <<provider, plan, superseded, notices, ask, writer, wrote, billingCrashes>>

BillingNext ==
    \/ \E s \in Subscriptions :
          \/ StartCheckout(s) \/ CustomerPays(s)
          \/ ChargeFails(s) \/ PeriodRunsOut(s) \/ OperatorResolves(s)
    \/ \E e \in 1 .. Len(sent) : Deliver(e)
    \/ \E status \in Statuses : OperatorRecords(status)
    \/ RequestCancellation \/ ResumeSubscription
    \/ ProviderActs \/ ProviderFails \/ ProviderAnswers
    \/ ExpireGracePeriods \/ RunDunning \/ DayPasses

(* The workers are timers of a running server and the days go by; nothing  *)
(* is assumed of the provider, the customer or the operator.               *)
BillingFairness ==
    WF_billingVars(ExpireGracePeriods) /\ WF_billingVars(RunDunning) /\ WF_billingVars(DayPasses)

BillingSpec ==
    BillingInit /\ [][BillingNext]_billingVars /\ BillingFairness

-----------------------------------------------------------------------------
(* What must hold.                                                         *)

BillingTypeOK ==
    /\ held \in [Subscriptions -> Statuses \cup {"none", "created"}]
    /\ ending \subseteq Subscriptions
    /\ Len(sent) <= MaxEvents
    /\ billingRow \in BillingRow \cup {Null} /\ plan \in Plans
    /\ log \in [Events -> [outcome : {"unseen", "received", "applied"}, age : 0 .. GraceDays]]
    /\ superseded \in [Subscriptions -> {"none", "open", "resolved"}]
    /\ reminded \subseteq {"reminder", "final"}
    /\ told \subseteq {"grace_expired", "subscription_ended"}
    /\ ask \in {Null} \cup [kind : {"cancel", "resume"}, ref : Subscriptions, acted : BOOLEAN]
    /\ writer \in 0 .. MaxEvents /\ wrote \subseteq Events /\ billingCrashes \in 0 .. MaxBillingCrashes

(* organizations.plan, which every limit reads, and the entitlement the    *)
(* billing screen computes are two answers to one question.  They differ   *)
(* only between the end of a grace period and the next turn of the worker, *)
(* or where the log still shows that the event which wrote the row was cut *)
(* short.                                                                  *)
PlanIsEarned ==
    plan # Entitled =>
        \/ GraceRanOut
        \/ writer # 0 /\ log[writer].outcome = "received"

(* However often and in whatever order the provider delivers, the grace    *)
(* period is counted from the first arrival of the event that began it: a  *)
(* redelivery never makes it longer.                                       *)
GraceCountsFromFirstDelivery ==
    billingRow # Null /\ billingRow.status = "past_due" =>
        /\ sent[writer].status = "past_due"
        /\ billingRow.grace + log[writer].age = GraceDays

(* The process died under the event before it wrote the row.  It is in the *)
(* log, so that every redelivery of it is a duplicate.                     *)
CutShort(e) == log[e].outcome = "received" /\ e \notin wrote

(* A subscription KukGit has ever been told of is either the one the row   *)
(* points at or on the list an operator reads, whatever was bought twice,  *)
(* arrived late or was cut short: none goes on charging with nothing here  *)
(* that names it, but one whose only events came to nothing before the row.*)
NoSubscriptionForgotten ==
    \A e \in 1 .. Len(sent) :
        Seen(e) /\ sent[e].ref # Null =>
            \/ billingRow # Null /\ billingRow.ref = sent[e].ref
            \/ superseded[sent[e].ref] # "none"
            \/ CutShort(e)

(* docs/CHECKOUT.md, of a reference: the old one is filed "instead of      *)
(* vanishing"; the one an event was cut short about is named nowhere.      *)
ToldIsNamed ==
    \A e \in 1 .. Len(sent) :
        Seen(e) /\ sent[e].ref # Null =>
            \/ billingRow # Null /\ billingRow.ref = sent[e].ref
            \/ superseded[sent[e].ref] # "none"

(* When the worker takes a plan away, the final reminder for that very     *)
(* grace date has gone out.                                                *)
WarnedBeforeFree ==
    [][GraceRanOut /\ billingRow' = billingRow /\ plan' # plan => "final" \in reminded]_billingVars

(* A failed payment ends: the plan goes, or an event says otherwise.       *)
UnpaidPlanEnds ==
    (billingRow # Null /\ billingRow.status = "past_due")
        ~> (plan = "free" \/ billingRow.status # "past_due")

(* docs/BILLING.md: past_due keeps its plan for 14 days, and after that    *)
(* the entitlement is free; "the provider sends past_due once and then     *)
(* goes quiet".                                                            *)
GraceIsNotRenewed ==
    [][billingRow # Null /\ billingRow.status = "past_due" /\ billingRow'.status = "past_due"
          => billingRow'.grace <= billingRow.grace]_billingVars

(* billing-subscription.mjs, on a row with a pending end: "Already         *)
(* cancelled. Asking the provider again is a second cancellation".         *)
PendingEndIsTheRows ==
    billingRow # Null /\ billingRow.ends # Null => billingRow.status # "canceled" /\ billingRow.ends = billingRow.ref

(* billing-notifications.mjs: "the grace period ran out - the plan has     *)
(* actually changed" is one of the four moments worth a message.           *)
EveryExpiryIsTold ==
    [][GraceRanOut /\ billingRow' = billingRow /\ plan' # plan => told' # told]_billingVars

\* What the limits read, what the log of events says and what the provider
\* charges for agree, however events arrive: the plan is the one earned, the grace
\* period counts from the first arrival, and no subscription is forgotten.
BooksAgree == PlanIsEarned /\ GraceCountsFromFirstDelivery /\ NoSubscriptionForgotten

=============================================================================

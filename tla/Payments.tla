------------------------------- MODULE Payments -------------------------------
(***************************************************************************)
(* Buying a plan: a click on Upgrade asks a provider for a link and offers *)
(* the same link again for thirty minutes (billing-checkout.mjs,           *)
(* billing-stripe.mjs, billing-razorpay.mjs), with credentials an operator *)
(* sets one field at a time (instance-settings.mjs).  The provider charges,*)
(* and tells the instance by signed webhooks that name the organization by *)
(* its slug (billing-api.mjs); organizations come and go under that slug.  *)
(* What becomes of a subscription afterwards is the module Billing.        *)
(*                                                                         *)
(* There is one slug and one plan.  Time is in quarters of an hour.  An    *)
(* organization is the number of its turn under the slug, 0 is nobody.     *)
(***************************************************************************)
EXTENDS FiniteSets, Naturals, Sequences

CONSTANTS Clicks,         \* requests to start a purchase
          Sellers,        \* the providers registered
          Idempotent,     \* the ones whose API takes an idempotency key
          FromEnvironment,\* the fields set in the environment
          LastTick,       \* bound: quarters of an hour
          LastHolder,     \* bound: organizations under the slug, in turn
          MaxEdits,       \* bound: changes by the operator, of the settings or the secret
          MaxInterrupted  \* bound: webhooks the process dies under

ASSUME IdempotentAssumption == Idempotent \subseteq Sellers

Window == 2  \* CHECKOUT_REUSE_MINUTES

Credentials == {"secret", "price"}
Fields == Credentials \cup {"webhook"}

NoClick == [pc |-> "idle", seller |-> "none", org |-> 0, at |-> 0, link |-> 0]
Ended == [NoClick EXCEPT !.pc = "ended"]
NothingBought == [link |-> 0, status |-> "none", ends |-> FALSE]

VARIABLES tick,
          holder,      \* the organization that has the slug
          founded,     \* organizations there have been
          set,         \* set[p]: the fields an operator has set in the console
          hook,        \* hook[p]: the webhook secret set, a generation
          signs,       \* signs[p]: the secret the provider signs with
          edits,
          click,       \* click[c]: a request: the provider asked, since when, the link
          links,       \* the provider's links: [seller, org, key, state]
          sessions,    \* billing_checkout_sessions: [by, org, seller, link, until]
          together,    \* history: pairs of clicks that were asking at the same time
          unsent,      \* webhooks the provider goes on sending: [link, kind]
          seen,        \* billing_events: [link, kind, org, outcome], and whether the row was
                       \*   written (history)
          bought,      \* billing_subscriptions of the holder: [link, status], and whether it
                       \*   ends with the period; "active" stands for trialing too
          replaced,    \* billing_superseded_subscriptions: links whose reference was replaced
          invoices,    \* the holder's invoices: one for each provider, [seller, link]
          interrupted  \* webhooks the process has died under

paymentVars == <<tick, holder, founded, set, hook, signs, edits, click, links, sessions,
                 together, unsent, seen, bought, replaced, invoices, interrupted>>
settings == <<set, hook, signs, edits>>
billing == <<seen, bought, replaced, invoices, interrupted>>
buying == <<click, links, sessions, together>>

\* What an event makes of the subscription; pending and halted are failures.
StatusOf == [activated |-> "active", charged |-> "active", failed |-> "past_due",
             canceled |-> "canceled"]
Kinds == DOMAIN StatusOf

PaymentsTypeOK ==
  /\ tick \in 0..LastTick /\ holder \in 0..LastHolder /\ founded \in 1..LastHolder
  /\ set \in [Sellers -> SUBSET Credentials]
  /\ hook \in [Sellers -> 0..2] /\ signs \in [Sellers -> 1..2] /\ edits \in 0..MaxEdits
  /\ \A c \in Clicks : /\ click[c].pc \in {"idle", "asking", "made", "ended"}
                       /\ click[c].link \in 0..Len(links)
  /\ \A l \in 1..Len(links) : /\ links[l].state \in {"open", "paid", "ended"}
                              /\ links[l].org \in 1..LastHolder
  /\ \A s \in sessions : s.link \in 1..Len(links) /\ s.until \in 0..(LastTick + Window)
  /\ together \subseteq (Clicks \X Clicks)
  /\ unsent \subseteq [link : 1..Len(links), kind : Kinds]
  /\ seen \subseteq [link : 1..Len(links), kind : Kinds, org : 0..LastHolder,
                    outcome : {"received", "applied", "ignored"}, wrote : BOOLEAN]
  /\ bought.status \in {"none", "active", "past_due", "canceled"} /\ bought.ends \in BOOLEAN
  /\ replaced \subseteq 1..Len(links) /\ interrupted \in 0..MaxInterrupted
  /\ \A i \in invoices : i.link \in 1..Len(links)

PaymentsInit ==
  /\ tick = 0 /\ holder = 1 /\ founded = 1
  /\ \E one \in Sellers :
       set = [p \in Sellers |-> IF p = one THEN Credentials ELSE {"secret"}]
  /\ hook = [p \in Sellers |-> 1] /\ signs = [p \in Sellers |-> 1] /\ edits = 0
  /\ click = [c \in Clicks |-> NoClick] /\ links = <<>> /\ sessions = {} /\ together = {}
  /\ unsent = {} /\ seen = {} /\ bought = NothingBought /\ replaced = {} /\ invoices = {}
  /\ interrupted = 0

-----------------------------------------------------------------------------
\* instanceSetting: the environment wins where it is set, the console fills the gaps.
instanceSetting(p, f) == f \in FromEnvironment \cup set[p]
configured(p) == \A f \in Credentials : instanceSetting(p, f)

\* A field is one request; the webhook secret an operator types is the provider's.
putInstanceSetting(p) ==
  \/ UNCHANGED hook /\ \E f \in Credentials : set' = [set EXCEPT ![p] = @ \cup {f}]
  \/ UNCHANGED set /\ hook' = [hook EXCEPT ![p] = signs[p]]
deleteInstanceSetting(p) ==
  \/ UNCHANGED hook /\ \E f \in Credentials : set' = [set EXCEPT ![p] = @ \ {f}]
  \/ UNCHANGED set /\ "webhook" \notin FromEnvironment /\ hook' = [hook EXCEPT ![p] = 0]

EditSetting ==
  /\ edits < MaxEdits /\ edits' = edits + 1
  /\ \E p \in Sellers : putInstanceSetting(p) \/ deleteInstanceSetting(p)
  /\ UNCHANGED <<tick, holder, founded, signs, unsent>> /\ UNCHANGED buying
  /\ UNCHANGED billing

RotateSecret ==
  /\ edits < MaxEdits /\ edits' = edits + 1
  /\ \E p \in Sellers : signs[p] = 1 /\ signs' = [signs EXCEPT ![p] = 2]
  /\ UNCHANGED <<tick, holder, founded, set, hook, unsent>> /\ UNCHANGED buying
  /\ UNCHANGED billing

-----------------------------------------------------------------------------
\* What is not live may be bought beside, and what is live but ends with its period.
assertNoLiveSubscription == bought.status = "active" => bought.ends

\* Mutant: only a session the same person started is offered again.
reusableSessionOfMine(c, p) ==
  {s \in sessions : s.org = holder /\ s.seller = p /\ s.until > tick /\ s.by = c}
\* A session of the organization, whoever started it, that has not run out.
reusableSession(c, p) == {s \in sessions : s.org = holder /\ s.seller = p /\ s.until > tick}

\* The key is the half hour of the clock the click falls in.
idempotencyKey(c) == click[c].at \div Window

\* startCheckout up to the request to the provider, in one stretch.
startCheckout(c) ==
  /\ click[c].pc = "idle" /\ holder # 0
  /\ \E p \in Sellers :
       /\ configured(p) /\ assertNoLiveSubscription
       /\ LET reusable == reusableSession(c, p)
          IN IF reusable # {}
             THEN click' = [click EXCEPT ![c] = Ended] /\ UNCHANGED together
             ELSE /\ click' = [click EXCEPT ![c] = [pc |-> "asking", seller |-> p,
                                 org |-> holder, at |-> tick, link |-> 0]]
                  /\ together' = together \cup
                       {pair \in Clicks \X Clicks :
                          \E d \in Clicks \ {c} : /\ click[d].pc \in {"asking", "made"}
                                                  /\ pair \in {<<c, d>>, <<d, c>>}}
  /\ UNCHANGED <<tick, holder, founded, links, sessions, unsent>> /\ UNCHANGED settings
  /\ UNCHANGED billing

\* The provider makes a link.
NewLink(c) ==
  /\ links' = Append(links, [seller |-> click[c].seller, org |-> click[c].org,
                             key |-> idempotencyKey(c), state |-> "open"])
  /\ click' = [click EXCEPT ![c].pc = "made", ![c].link = Len(links) + 1]

\* One that takes a key returns the link it made under the same key.
SameKey(c) == {l \in 1..Len(links) : links[l] \in
                 [seller : {click[c].seller}, org : {click[c].org},
                  key : {idempotencyKey(c)}, state : {"open", "paid", "ended"}]}
createWithKey(c) ==
  /\ click[c].pc = "asking" /\ click[c].seller \in Idempotent
  /\ \/ SameKey(c) = {} /\ NewLink(c)
     \/ /\ \E l \in SameKey(c) : click' = [click EXCEPT ![c].pc = "made", ![c].link = l]
        /\ UNCHANGED links
  /\ UNCHANGED <<tick, holder, founded, sessions, together, unsent>> /\ UNCHANGED settings
  /\ UNCHANGED billing

createAnew(c) ==
  /\ click[c].pc = "asking" /\ click[c].seller \notin Idempotent /\ NewLink(c)
  /\ UNCHANGED <<tick, holder, founded, sessions, together, unsent>> /\ UNCHANGED settings
  /\ UNCHANGED billing

\* The answer is kept for the half hour that follows the click; a session of an
\* organization deleted meanwhile cannot be inserted.
SessionStarts(c) ==
  /\ click[c].pc = "made" /\ click[c].org = holder
  /\ sessions' = sessions \cup {[by |-> c, org |-> holder, seller |-> click[c].seller,
                                 link |-> click[c].link, until |-> click[c].at + Window]}
  /\ click' = [click EXCEPT ![c] = Ended]
  /\ UNCHANGED <<tick, holder, founded, links, together, unsent>> /\ UNCHANGED settings
  /\ UNCHANGED billing

\* The provider refuses, cannot be reached, or its answer is lost: nothing is kept here.
RequestFails(c) ==
  /\ click[c].pc \in {"asking", "made"}
  /\ click' = [click EXCEPT ![c] = Ended]
  /\ UNCHANGED <<tick, holder, founded, links, sessions, together, unsent>>
  /\ UNCHANGED settings /\ UNCHANGED billing

-----------------------------------------------------------------------------
\* The customer pays on the provider's page, a renewal fails, or the subscription ends.
Charge(l) ==
  /\ links[l].state = "open" /\ links' = [links EXCEPT ![l].state = "paid"]
  /\ unsent' = unsent \cup {[link |-> l, kind |-> k] : k \in {"activated", "charged"}}
  /\ UNCHANGED <<tick, holder, founded, click, sessions, together>> /\ UNCHANGED settings
  /\ UNCHANGED billing

ChargeFails(l) ==
  /\ links[l].state = "paid" /\ unsent' = unsent \cup {[link |-> l, kind |-> "failed"]}
  /\ UNCHANGED <<tick, holder, founded, click, links, sessions, together>>
  /\ UNCHANGED settings /\ UNCHANGED billing

EndAtProvider(l) ==
  /\ links[l].state = "paid" /\ links' = [links EXCEPT ![l].state = "ended"]
  /\ unsent' = unsent \cup {[link |-> l, kind |-> "canceled"]}
  /\ UNCHANGED <<tick, holder, founded, click, sessions, together>> /\ UNCHANGED settings
  /\ UNCHANGED billing

\* The signature is made with the provider's secret and checked with the one set here;
\* a webhook that is refused is sent again.
verify(p) == hook[p] = signs[p]

\* organizationFor: whoever has the slug of the notes now.
organizationFor == holder

\* One invoice for an organization, a month and a provider.
recordInvoice(l) == {i \in invoices : i.seller # links[l].seller}
                      \cup {[seller |-> links[l].seller, link |-> l]}

\* normalize: a charge is an invoice, recorded before anything is asked of the event.
Invoiced(e) ==
  IF e.kind = "charged" /\ organizationFor # 0 THEN recordInvoice(e.link) ELSE invoices

\* An event about an organization moves its row, but for Stripe's of a charge.
MovesPlan(e) ==
  organizationFor # 0 /\ (e.kind = "charged" => links[e.link].seller \notin Idempotent)

\* Stripe says with each subscription what is pending there; what nobody says stays, whichever
\* subscription it was said of; the end clears it.
EndsAfter(e) ==
  CASE e.kind = "canceled" -> {FALSE}
    [] e.kind = "activated" /\ links[e.link].seller \in Idempotent -> BOOLEAN
    [] OTHER -> {bought.ends}

\* The row keeps one reference; the one it replaces is filed before it goes.
Superseded(e) ==
  IF bought.link \in {0, e.link} THEN replaced ELSE replaced \cup {bought.link}

EventRow(e, outcome, wrote) ==
  [link |-> e.link, kind |-> e.kind, org |-> IF MovesPlan(e) THEN organizationFor ELSE 0,
   outcome |-> outcome, wrote |-> wrote]
Upserted(e, ends) == [link |-> e.link, status |-> StatusOf[e.kind], ends |-> ends]

\* An event recorded before is a duplicate, whatever became of it.
Duplicate(e) == \E row \in seen : row.link = e.link /\ row.kind = e.kind

ingestBillingEvent ==
  \E e \in unsent :
    /\ verify(links[e.link].seller) /\ unsent' = unsent \ {e} /\ invoices' = Invoiced(e)
    /\ \/ Duplicate(e) /\ UNCHANGED <<seen, bought, replaced>>
       \/ /\ ~Duplicate(e) /\ ~MovesPlan(e)
          /\ seen' = seen \cup {EventRow(e, "ignored", FALSE)} /\ UNCHANGED <<bought, replaced>>
       \/ /\ ~Duplicate(e) /\ MovesPlan(e)
          /\ seen' = seen \cup {EventRow(e, "applied", TRUE)} /\ replaced' = Superseded(e)
          /\ \E ends \in EndsAfter(e) : bought' = Upserted(e, ends)
    /\ UNCHANGED <<tick, holder, founded, interrupted>> /\ UNCHANGED settings
    /\ UNCHANGED buying

\* The process dies between two of these statements, and every click it served with it;
\* the provider has no answer and sends the event again.
IngestCutShort ==
  \E e \in unsent :
    /\ verify(links[e.link].seller) /\ interrupted < MaxInterrupted
    /\ interrupted' = interrupted + 1 /\ invoices' = Invoiced(e)
    /\ click' = [c \in Clicks |->
                   IF click[c].pc \in {"asking", "made"} THEN Ended ELSE click[c]]
    /\ \/ UNCHANGED <<seen, bought, replaced>>
       \/ /\ ~Duplicate(e) /\ seen' = seen \cup {EventRow(e, "received", FALSE)}
          /\ replaced' = replaced \/ (MovesPlan(e) /\ replaced' = Superseded(e))
          /\ UNCHANGED bought
       \/ /\ ~Duplicate(e) /\ MovesPlan(e) /\ seen' = seen \cup {EventRow(e, "received", TRUE)}
          /\ replaced' = Superseded(e)
          /\ \E ends \in EndsAfter(e) \cup {bought.ends} : bought' = Upserted(e, ends)
    /\ UNCHANGED <<tick, holder, founded, links, sessions, together, unsent>>
    /\ UNCHANGED settings

\* The customer asks for the end of the period, or takes it back where the provider can.
recordCancellationIntent ==
  /\ bought.status \in {"active", "past_due"}
  /\ bought.ends => links[bought.link].seller \in Idempotent
  /\ bought' = [bought EXCEPT !.ends = ~@]
  /\ UNCHANGED <<tick, holder, founded, unsent, seen, replaced, invoices, interrupted>>
  /\ UNCHANGED settings /\ UNCHANGED buying

-----------------------------------------------------------------------------
\* A tenant deletion takes the organization's billing rows with it, and its events are
\* nobody's.
DeleteOrganization ==
  /\ holder # 0 /\ holder' = 0
  /\ sessions' = {} /\ bought' = NothingBought /\ replaced' = {} /\ invoices' = {}
  /\ seen' = {[row EXCEPT !.org = 0] : row \in seen}
  /\ UNCHANGED <<tick, founded, click, links, together, unsent, interrupted>>
  /\ UNCHANGED settings

FoundOrganization ==
  /\ holder = 0 /\ founded < LastHolder /\ founded' = founded + 1 /\ holder' = founded'
  /\ UNCHANGED <<tick, unsent>> /\ UNCHANGED settings /\ UNCHANGED buying
  /\ UNCHANGED billing

\* A request to a provider is given up after twenty seconds.
Tick ==
  /\ tick < LastTick /\ tick' = tick + 1
  /\ \A c \in Clicks : click[c].pc \in {"asking", "made"} => click[c].at = tick
  /\ UNCHANGED <<holder, founded, unsent>> /\ UNCHANGED settings /\ UNCHANGED buying
  /\ UNCHANGED billing

CheckoutNext == \E c \in Clicks : \/ startCheckout(c) \/ createWithKey(c) \/ createAnew(c)
                                  \/ SessionStarts(c) \/ RequestFails(c)
SellerNext == \/ RotateSecret
              \/ \E l \in 1..Len(links) : Charge(l) \/ ChargeFails(l) \/ EndAtProvider(l)
PaymentsNext == \/ CheckoutNext \/ SellerNext \/ ingestBillingEvent \/ IngestCutShort
                \/ recordCancellationIntent \/ EditSetting \/ DeleteOrganization
                \/ FoundOrganization \/ Tick
PaymentsSpec == PaymentsInit /\ [][PaymentsNext]_paymentVars

-----------------------------------------------------------------------------
\* Two links of one provider are on offer to an organization at a time only when two
\* requests were with the provider together, and, where the provider takes a key, in
\* different half hours of the clock.
OneLinkOffered ==
  \A s, t \in {x \in sessions : x.until > tick} :
    s.seller = t.seller /\ s.link # t.link =>
      /\ <<s.by, t.by>> \in together
      /\ s.seller \in Idempotent => links[s.link].key # links[t.link].key

\* What the instance has of money was paid: the plan, each invoice, each subscription on
\* the list of replaced ones.  And whatever an event ever made the plan stand on under the
\* present organization is in the row or on that list, although the process may die
\* between any two statements of an event and the provider then gets no second try.
PlanIsPaidFor ==
  /\ bought.link # 0 => links[bought.link].state # "open"
  /\ \A i \in invoices : links[i.link].state # "open" /\ links[i.link].seller = i.seller
  /\ \A l \in replaced : links[l].state # "open"
  /\ \A row \in seen : row.wrote /\ row.org # 0 =>
       row.org = holder /\ row.link \in replaced \cup {bought.link}

PaymentsSound == OneLinkOffered /\ PlanIsPaidFor

\* docs/BILLING.md: a failure is "visible once" and not repeated silently; here an event
\* that was recorded, and is not coming again, was applied.
RecordedIsApplied ==
  \A row \in seen : row.org # 0 /\ row.outcome = "received" =>
    [link |-> row.link, kind |-> row.kind] \in unsent

\* docs/CHECKOUT.md: a customer "must not end up with two subscriptions to cancel".
OneSubscriptionCharges ==
  \A l, m \in 1..Len(links) :
    links[l].state = "paid" /\ links[m].state = "paid" /\ links[l].org = links[m].org => l = m

\* docs/CHECKOUT.md: with the key "two concurrent clicks that both miss the local
\* lookup still produce one session".
OneSessionWithKey ==
  \A s, t \in {x \in sessions : x.until > tick} :
    (s.seller = t.seller /\ s.seller \in Idempotent) => s.link = t.link

\* docs/CHECKOUT.md: the notes are there because otherwise "somebody's money" goes "to
\* somebody else's account".
MoneyIsTheBuyers == bought.link # 0 => links[bought.link].org = holder

\* billing-stripe.mjs: "a payment that happened is one the customer should be able to see".
PaymentsAreSeen ==
  \A e \in seen : e.kind = "charged" /\ links[e.link].org = holder =>
    \E i \in invoices : i.link = e.link
=============================================================================

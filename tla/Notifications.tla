---------------------------- MODULE Notifications ---------------------------
(***************************************************************************)
(* What people are told, in the inbox and by mail                          *)
(* (src/src/notifications.mjs), and what makes the server tell them:       *)
(* responses that have gone out (notification-events.mjs,                  *)
(* pull-request-notifications.mjs, collaboration-notifications.mjs), a     *)
(* reply to an issue, and two sweeps that come round again                 *)
(* (scheduleTokenExpiryNotifications, operations-notifications.mjs).       *)
(*                                                                         *)
(* To tell one user is two statements, a row in the inbox and a row in the *)
(* outbox; the process may die between them, and other processes write in  *)
(* between.  What hangs on a response is tried once; a sweep tries again,  *)
(* and a key says what has been told.                                      *)
(*                                                                         *)
(* `asked` and `told` are history variables.                               *)
(***************************************************************************)
EXTENDS Naturals, FiniteSets

CONSTANTS
  Recipients,  \* users
  Actor,       \* the one of them who does things
  Servers,     \* server processes; any of them answers, one at a time sweeps
  Happenings,  \* what may happen in a repository: "opened", "merged", "reviewed", "failed", "replied",
               \* and in an organization: "invited", "joined"
  TokenDays,   \* days before the token of Actor expires
  MaxPrefs     \* bound: times somebody's preferences or access change

ASSUME NotificationsAssumption ==
  /\ Actor \in Recipients /\ TokenDays \in Nat /\ MaxPrefs \in Nat
  /\ Happenings \subseteq {"opened", "merged", "reviewed", "failed", "replied", "invited", "joined"}

VARIABLES
  prefs,        \* notification_preferences: inbox and mail, by user
  level,        \* effective access to the repository: 0 none, 1 read, 3 write
  finished,     \* happenings whose response has yet to go out, by process
  done,         \* happenings that have been
  turn,         \* what a process is telling, to whom still, and what is half told
  inbox,        \* notifications: user and dedupe key
  outbox,       \* email_outbox: user and dedupe key
  left,         \* days the token has, 0 when expired
  alive,        \* whether the token is not revoked
  failing,      \* whether a delivery of a webhook has exhausted its attempts
  sweeper,      \* the process that holds the lease
  changes,
  asked,        \* mail a process has decided to send and has not died over
  told          \* users told of a happening of a repository they could not see

notifyVars == <<prefs, level, finished, done, turn, inbox, outbox, left, alive, failing, sweeper, changes,
                asked, told>>
restVars == <<prefs, level, left, alive, failing, sweeper, changes>>

NoTelling == [what |-> "nothing"]

NotifyInit ==
  /\ prefs = [u \in Recipients |-> [inApp |-> TRUE, email |-> TRUE]]
  /\ level = [u \in Recipients |-> 3]
  /\ finished = [p \in Servers |-> {}] /\ done = {} /\ turn = [p \in Servers |-> NoTelling]
  /\ inbox = {} /\ outbox = {} /\ left = TokenDays /\ alive = TRUE /\ failing = FALSE
  /\ sweeper \in Servers /\ changes = 0 /\ asked = {} /\ told = {}

-----------------------------------------------------------------------------
(* Whom a thing concerns                                                   *)

\* repositoryRecipients: whoever may write, now.
Writers == {u \in Recipients : level[u] >= 3}

\* deliverOrganizationInvitation: the one invited; notifyInvitationAccepted: whoever sent the
\* invitation and whoever took it.
Invited == Recipients \ {Actor}
Joined  == Recipients

\* notifyPullRequestCreated to all who may write, the others to the author of the pull request,
\* who is not asked what access is left; an issue to those in the conversation.
Concerned(h) == CASE h = "opened" -> Writers \ {Actor}
                  [] h \in {"merged", "reviewed", "failed"} -> Recipients \ {Actor}
                  [] h = "invited" -> Invited
                  [] h = "joined" -> Joined
                  [] h = "replied" -> Recipients \ {Actor}

\* The bucket of a reminder: one, three or seven days.
Bucket(d) == IF d <= 1 THEN "expiry1" ELSE IF d <= 3 THEN "expiry3" ELSE "expiry7"

\* notifyIssueComment asks again for each recipient.
StillMaySee(u, h) == h = "replied" => level[u] > 0

-----------------------------------------------------------------------------
(* A response goes out                                                     *)

\* The handler has written and answered with a 2xx; `finish` is yet to come.
Happens(h, p) ==
  /\ h \notin done /\ turn[p] = NoTelling
  /\ done' = done \cup {h} /\ finished' = [finished EXCEPT ![p] = @ \cup {h}]
  /\ UNCHANGED <<restVars, turn, inbox, outbox, asked, told>>

\* createNotificationEventCapture: the recipients are listed and then told one after another.
Finish(h, p) ==
  /\ h \in finished[p] /\ turn[p] = NoTelling
  /\ finished' = [finished EXCEPT ![p] = @ \ {h}]
  /\ turn' = [turn EXCEPT ![p] = IF Concerned(h) = {} THEN NoTelling
                                  ELSE [what |-> h, to |-> Concerned(h), half |-> {}]]
  /\ UNCHANGED <<restVars, done, inbox, outbox, asked, told>>

\* What is left of a turn once u is told, but for the mail.
After(p, u, mail) == IF turn[p].to = {u} /\ mail = {} THEN NoTelling
                     ELSE [turn[p] EXCEPT !.to = @ \ {u}, !.half = mail]

\* createNotification, in the inbox.  The preferences are those of this moment.  A key that is
\* there already is the notification asked for.
TellInbox(u, p) ==
  /\ turn[p] # NoTelling /\ turn[p].half = {} /\ u \in turn[p].to
  /\ LET h == turn[p].what IN
     IF StillMaySee(u, h)
     THEN /\ inbox' = IF prefs[u].inApp THEN inbox \cup {<<u, h>>} ELSE inbox
          /\ told' = IF h \in Happenings /\ level[u] = 0 THEN told \cup {<<u, h>>} ELSE told
          /\ turn' = [turn EXCEPT ![p] = After(p, u, IF prefs[u].email THEN {u} ELSE {})]
     ELSE turn' = [turn EXCEPT ![p] = After(p, u, {})] /\ UNCHANGED <<inbox, told>>
  /\ UNCHANGED <<restVars, finished, done, outbox, asked>>

\* As below, had a notification found in the inbox been taken for told.
QueuedIfNew(u, h, p) == IF <<u, h>> \in inbox /\ sweeper = p THEN {} ELSE {<<u, h>>}

\* queueTransactionalEmail: a row, unless its key is there.
Queued(u, h, p) == {<<u, h>>} \ outbox

\* createNotification, by mail.
TellByMail(p) ==
  /\ turn[p] # NoTelling /\ turn[p].half # {}
  /\ LET u == CHOOSE u \in turn[p].half : TRUE IN
     /\ outbox' = outbox \cup Queued(u, turn[p].what, p)
     /\ asked' = asked \cup {<<u, turn[p].what>>}
  /\ turn' = [turn EXCEPT ![p] = IF @.to = {} THEN NoTelling ELSE [@ EXCEPT !.half = {}]]
  /\ UNCHANGED <<restVars, finished, done, inbox, told>>

-----------------------------------------------------------------------------
(* Sweeps, by the process that holds the lease                             *)

\* scheduleTokenExpiryNotifications: a token that is alive and has a week or less.
SweepTokens(p) ==
  /\ sweeper = p /\ turn[p] = NoTelling /\ alive /\ left \in 1 .. 7
  /\ turn' = [turn EXCEPT ![p] = [what |-> Bucket(left), to |-> {Actor}, half |-> {}]]
  /\ UNCHANGED <<restVars, finished, done, inbox, outbox, asked, told>>

\* scheduleWebhookFailureAlerts, for the administrator.
SweepWebhooks(p) ==
  /\ sweeper = p /\ turn[p] = NoTelling /\ failing
  /\ turn' = [turn EXCEPT ![p] = [what |-> "webhook", to |-> {Actor}, half |-> {}]]
  /\ UNCHANGED <<restVars, finished, done, inbox, outbox, asked, told>>

-----------------------------------------------------------------------------
(* Meanwhile *)

\* updateNotificationPreferences.
Prefer(u, choice) ==
  /\ changes < MaxPrefs /\ choice # prefs[u]
  /\ prefs' = [prefs EXCEPT ![u] = choice] /\ changes' = changes + 1
  /\ UNCHANGED <<level, finished, done, turn, inbox, outbox, left, alive, failing, sweeper, asked, told>>

AccessChanges(u, l) ==
  /\ changes < MaxPrefs /\ l # level[u] /\ level' = [level EXCEPT ![u] = l] /\ changes' = changes + 1
  /\ UNCHANGED <<prefs, finished, done, turn, inbox, outbox, left, alive, failing, sweeper, asked, told>>

DayPasses ==
  /\ left > 0 /\ left' = left - 1
  /\ UNCHANGED <<prefs, level, finished, done, turn, inbox, outbox, alive, failing, sweeper, changes, asked, told>>

TokenRevoked ==
  /\ alive /\ alive' = FALSE
  /\ UNCHANGED <<prefs, level, finished, done, turn, inbox, outbox, left, failing, sweeper, changes, asked, told>>

DeliveryExhausted ==
  /\ ~failing /\ failing' = TRUE
  /\ UNCHANGED <<prefs, level, finished, done, turn, inbox, outbox, left, alive, sweeper, changes, asked, told>>

\* A process dies and comes back: what hung on its responses is lost, and the lease goes to
\* another once it has run out.
ProcessDies(p) ==
  /\ turn[p] # NoTelling \/ finished[p] # {}
  /\ turn' = [turn EXCEPT ![p] = NoTelling] /\ finished' = [finished EXCEPT ![p] = {}]
  /\ \E q \in Servers : sweeper' = IF sweeper = p THEN q ELSE sweeper
  /\ UNCHANGED <<prefs, level, done, inbox, outbox, left, alive, failing, changes, asked, told>>

CaptureNext == \E p \in Servers, h \in Happenings : Happens(h, p) \/ Finish(h, p)
TellNext == \E p \in Servers : (\E u \in Recipients : TellInbox(u, p)) \/ TellByMail(p)
SweepNext == \E p \in Servers : SweepTokens(p) \/ SweepWebhooks(p)
ApiNext ==
  \E u \in Recipients : \/ \E choice \in [inApp : BOOLEAN, email : BOOLEAN] : Prefer(u, choice)
                        \/ \E l \in {0, 1, 3} : AccessChanges(u, l)
WorldNext == DayPasses \/ TokenRevoked \/ DeliveryExhausted \/ \E p \in Servers : ProcessDies(p)
NotifyNext == CaptureNext \/ TellNext \/ SweepNext \/ ApiNext \/ WorldNext

NotifySpec == NotifyInit /\ [][NotifyNext]_notifyVars

-----------------------------------------------------------------------------
(* Properties *)

\* A sweep that found a reminder half told by a process that died, the inbox written and the
\* mail not, sends the mail all the same: what a process has gone through with is in the outbox.
HalfToldIsFinished == asked \subseteq outbox

\* The title of an issue somebody replied to reaches nobody who had lost sight of
\* the repository by the time it is written, though the conversation was listed before.
RepliesReachOnlyReaders == \A u \in Recipients : <<u, "replied">> \notin told

\* Nobody is reminded of a token by a bucket it has not reached: the last warnings are not used
\* up early, however the sweeps of several processes fall.
RemindersInTime ==
  /\ \A u \in Recipients : <<u, "expiry1">> \in inbox \cup outbox => left <= 1
  /\ \A u \in Recipients : <<u, "expiry3">> \in inbox \cup outbox => left <= 3

ToldRight == HalfToldIsFinished /\ RepliesReachOnlyReaders /\ RemindersInTime

=============================================================================

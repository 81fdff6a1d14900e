# KukGit in TLA+

KukGit is a Git forge in one Node.js process per server, SQLite underneath, bare repositories beside it, and workers
on timers. These modules model the parts of it whose correctness depends on order: what happens when a handler waits
for a body and the world goes on, when two processes share one database, when a process dies between two statements,
when an answer is lost, late or repeated. TLC checks small instances; TLAPS proves for all of them what matters most.

    tlc -config MCBilling.cfg MCBilling        # any MC module with its .cfg
    tlapm LifecycleProofs.tla                  # any *Proofs module

Paths below are relative to `src/`, so `src/billing.mjs` is `src/src/billing.mjs` of the tree.

## 1. The system

| Part | State it keeps | Operations | Talks to | What is hard | What makes it correct |
|---|---|---|---|---|---|
| Workflow runs and checks (`workflow-runs`, `workflow-checks`) | rows of runs and jobs, the status on the commit | create, claim, complete, cancel, advance, reap, publish | runner routes, triggers, Git | late reports, several processes, crash between statements | dependencies first; a run ends when its jobs do; an outcome is final; limit and groups hold; the check tells the truth |
| Workflow files and triggers (`workflow-schema`, `-triggers`, `-dispatch`) | snapshots of refs, schedules | validate, compare refs before and after a request, start, cancel | runs, pull requests | requests that overlap, runs opened after the answer | each head is built once, a refused file starts nothing |
| Job logs and the runner (`workflow-logs`, `runner-agent`) | log rows; in the runner a buffer, timers | flush, append, page; step, beat, report, sweep | each other over HTTP | overlapping and failed flushes, outages, deadlines | nothing is dropped, a viewer reads a prefix; the healthy live, the silent are failed |
| Queues (`webhooks`, `notifications`, `email-*`, `job-leases`) | deliveries, outbox, suppressions, leases | enqueue, claim, attempt, retry, provider event | endpoints, SMTP or Resend | a lease that lapses in a batch, crashes, events late and twice | one sender at a time, an end for every row, nothing waits for a suppressed address |
| Open pages (`realtime-notifications`, `notification-fanout`) | fan-out log and its triggers, sockets | poll, flush, admit, beat, revalidate | the inbox | several processes, restarts, answers that were true once | a badge follows its inbox, an ended session loses its socket |
| Shutdown (`graceful-shutdown`) | trackers of connections | drain, cut, stop, close | all workers | clients and handlers that hang | nothing is cut before its budget; the process exits |
| Money (`billing*`, `billing-checkout`) | subscription row, plan, events, notices, links | link, event, grace, dunning, cancel | Stripe, Razorpay | any order, repetition, crash between writes | the plan is the row's, no subscription is forgotten, an unpaid plan ends after a warning |
| Usage (`usage*`, `plan-limits`) | samples, closed months, two caches per process | measure, sample, close | repositories, LFS, jobs | caches of several processes | a closed month stands, an upload is seen by the next question |
| Repositories (`repository-lifecycle`, `app`, `git`) | rows, bare directories | create, import, archive, transfer, Trash, restore, purge | plan limits, tenants | two stores, rows read before an await | row and directory stay together, bytes are in one place |
| Large files, artifacts, caches (`git-lfs`, `lfs-*`, `workflow-storage`) | rows, associations, files or bucket | upload, verify, collect, migrate, evict | volume, bucket | deduplication, collection beside uploads, a store that changes | what a row says is stored can be read |
| Reviews and merging (`branch-governance`, `review-threads`, `status-checks`) | rules, reviews, threads, statuses | review, publish, merge, write a file | Git clones | a head that moves between judgement, clone and push | nothing lands that no approval covers |
| Secrets (`secrets-vault`, `push-protection`, `secret-*`) | sealed rows, findings, bypasses | put, hand over, mask, scan, resolve | jobs, pushes | rotation, time, overlap of scan and push | a secret reaches nobody it was not given to |
| Identity (`auth`, `two-factor`, `oauth-*`, `authkit-*`, `phone-*`, `user-identities`) | passwords, factors, sessions, links, tokens | sign in, enrol, reset, link, refresh | providers, AuthKit | one code presented twice, answers from outside | a code is good once, a reset ends what went before |
| Access (`repository-access`, `organization-onboarding`, `external-*`, `ssh-keys`, `tokens`) | roles, teams, grants, invitations, keys | grant, accept, expire, review, serve | Git over HTTP and SSH | permission looked up before an await, dates, transfer | what somebody may do is what somebody gave and nobody took back |
| Collaboration (`issue-*`, `notification-events*`) | issues, comments, reactions, inbox | write, import, tell | outbox | statements cut off, preferences that change | nothing crosses a repository, people are told once |
| Operation (`backups*`, `maintenance-windows`, `abuse-reports`) | archives, locks, windows, marker, cases | back up, restore, prune, begin and end, decide, appeal | the whole instance | writes during a copy, crash between row and file | a passed archive restores whole, orders stand |
| Moves (`tenant-*`, `repository-import-*`, `database-portability`, `postgresql-*`) | requests, exports, jobs, journals | export, verify, import, delete, shadow | every table, forges, PostgreSQL | tables read one after another, one step of several failing | what arrives is what left, or the report says so |

`PROJECT.json` lists all 48 components, those without a module too, with the reason, and the hazards of the code at
the lines where they bite.

How they interact: all components share one SQLite database (several processes may open it; `OPERATIONS_BOUNDARY.md`).
A handler of Node.js is not interrupted between two awaits, so in one process what lies between two awaits is one
step; a second process can come between any two statements that are not in one transaction, and a crash can too.
Workers tick on timers under a lease. Runners, payment and mail providers, endpoints, browsers and forges are outside
and are modelled from what the code accepts from them.

## 2. Modules

Each module is one component: its rows and files are variables, a handler, or the part of it between two awaits, is an
action, and a bound on what people may do is a constant. The comment of a module says what its steps are.

| Module | Models | State and code | Actions and code |
|---|---|---|---|
| `WorkflowRuns` | the scheduler of one process | `run`, `job`, `token` are the rows; `agent`, `request` what a runner has in hand; `check` the row of each repository, commit and context, which runs of one file share | `CreateRun`, `ClaimNextJob`, `BeginComplete` and `FinishComplete` (the route reads its body in between), `CancelRun`, `Reap`; a report of a status may fail and is swallowed |
| `RunContract` | what one run promises to those who watch its status | file, run and jobs | the abstract specification of `WorkflowRuns` and, for one process, of `WorkflowRunsShared` |
| `WorkflowRunsShared` | one run, each SQL statement a step, several processes, crashes | `mem` is what a handler remembers between statements, `owed` the reports still to come | one action per statement |
| `WorkflowStart` | what starts runs, and before it what a file may say | snapshots per request, runs; the document and the depth-first search over its jobs | `Arrive`, `Commit`, `ResponseFinishes`, `FireSchedule`, ...; `CheckShape`, `Enter`, `Leave`, `FindCycle` |
| `JobLog` | one log from the runner's buffer to a viewer's page | `buffer`, `carried` by a request, `log`, `truncated`, `viewed` | `FlushTimer`, `Authorize`, `AppendJobLog`, `Settle`, paging |
| `RunnerSession` | one job against the clock: steps, heartbeats, token, the sweep and its lease, outages | ages and countdowns in ticks | `ClockTicks`, `Beat`, `Sweep`, `NextStep`, `Report`, ... |
| `WebhookDeliveries` | the webhook queue on several processes with its lease | rows, the turn of each worker, the attempts on the wire | worker, ping and redeliver routes, shutdown, crash, `Lapse` |
| `EmailOutbox` | the outbox, its triggers, suppressions | rows, counters per address, the batch of each sender | batch, claim, outcomes, the statements of a rejection one by one (`SendIsRejected`, `SweepRejected`, `CancelRejected`), provider events, both retry routes |
| `RealtimeNotifications` | fan-out log, pollers, sockets | triggers, `rows`, a `cursor` per process, a connection per socket | inbox writes, the two statements of a start, `ReaderTick`, `FlushPending`, `Upgrade`/`Admit`, `Heartbeat`/`Revalidated` |
| `Shutdown` | how a process stops | requests, transfers, pages, what each drain answered | `Signal`, `ShutdownStep`, what clients do, also on connections that are kept alive |
| `Billing` | one organization, its provider, notices | the row, the event log, what the provider really holds | `Ingest` is every write of `ingestBillingEvent`, cut off anywhere by a crash; grace and dunning workers |
| `Payments` | buying a plan at two providers | credentials, clicks, links, webhooks in flight | `startCheckout` with `assertNoLiveSubscription` and the answers it waits for, `Charge`, failed charges, pending ends, `ingestBillingEvent` cut off between recording and applying, organizations under one slug |
| `Usage` | what is metered and limited | packs, uploads, jobs, both caches, samples, closed months | `assertWithinPlan`, `PutObject`, `sampleUsage`, `closePeriod`, `MinutePasses` |
| `Repositories` | rows and directories | `row`, `disk`, and what each request has read | one action per lifecycle function, one per await of an import |
| `ObjectStorage` | Git LFS on volume or bucket; artifacts and caches | rows, associations, pending uploads, both stores; shared blobs and files of a run | uploads by call to the bucket, collection, migration, cutover, reclaim; put, save, restore, expire; the row of a cache and its eviction apart; a death between any two statements |
| `Credentials` | keys, tokens and what Git serves | keys in force, rights, places, the command whose child starts | create, revoke, `GitCommand`/`OpenDirectory`, signed links |
| `MergeGovernance` | a pull request before a protected branch | commits of both branches, rule, reviews, checks, each clone at work | `SubmitReview`, `PublishStatus`, `LetMerge`, `Clone`, `PushMerge`, `CommitFile`, ... |
| `Secrets` | secrets on their way to a build and its log; push protection and the scans | sealed rows, key of the server, what jobs were handed; tips, policy, bypasses, findings, pushes under way | put (authorised, then written), claim, print whole or cut, restart under another key; `Judge`, `Land`, `ScanAfterPush`, backfill, `Resolve`, `Bypass` |
| `SignIn` | password, second factor, reset link; sessions that stand for one at the account service (AuthKit) | numbered passwords and secrets, challenges, sessions; bridge rows, generations of tokens | login, enrolment, `FinishSignIn`, disabling, reset; one action per question a request or a socket (`OpenSocket`) asks of the service, and each answer it can get |
| `Identities` | providers, addresses, phone numbers of accounts | links, one-time states, flows waiting | sign-up, verification, `ClaimState` and the ways it settles, unlinking |
| `Access` | organizations, teams, grants, support; people from outside, with dates, and reviews | ranks by user, requests waiting; invitations, grants with a last day, campaign | invite, accept, grant, revoke, `InviteToRepository`, `AcceptRepositoryInvitation`, `Transfer`; `ExpireGrants`, `Decide`, `RestoreGrant`, `Purge` |
| `Issues` | issues, labels, comments, reactions, imports | rows, numbers, the request whose body is awaited | ask, then write; delete; `ImportIssues` |
| `Notifications` | who is told of what | preferences, inbox, outbox, the turn of each process | `Finish`, `TellInbox`, `TellByMail`, sweeps |
| `Backups` | archives, second pass, restore, rehearsal | lock, archives, what each worker does | `WorkerStep`, prune, pushes and collections meanwhile |
| `Maintenance` | windows, marker, status page | window rows, the marker file, requests at the guard | schedule, approve, start, end, cancel, the command line, incidents |
| `Moderation` | reports, cases, appeals | cases, appeals, places, disabled repositories | report, decide, appeal, the two statements of a reinstatement, moves under way, reads |
| `DatabaseMove` | the move to PostgreSQL and the observer of its shadow | export, attempts with session, lock and transaction; queue and circuit | `AttemptNext`, `ShadowRead`; `observe`, `schedule`, workers, stop |
| `TenantMove` | a tenant exported and imported | rows at both sides, directories, objects, runs of the import | `ReadTable`, `RecordExport`, `Load`, `cloneRepository`, `CleanUp` |
| `TenantDeletion` | deletion requests and exports of one tenant | dates in half-days, which kinds of rows are left, when each item was written and what an archive has of it | request, cancel, write, begin and record an export, verify, execute |
| `ImportJob` | one bulk import | job, items, the credential in memory | from one await of the loop to the next |
| `WorkflowRunsProofs`, `WorkflowRunsSharedProofs`, `LifecycleProofs`, `ServerProofs`, `OperationsProofs`, `DevelopmentProofs`, `PeopleProofs`, `MovesProofs` | theorems (section 5) | | |

The `MC*` modules give instances. Most set several components *side by side*: the initial state decides which of them
moves, so one run explores the state space of each and none constrains another.

Names follow the code. Definitions whose comment begins with *Mutant* or *As below, had* are no part of a
specification: each is a plausible mistake in the definition after it, which some property would notice.

## 3. Runs

| Run | Question | Bounds, and why they are enough |
|---|---|---|
| `workflow` | do statuses, tokens, groups and checks stay right, and is every run a `RunContract`? | three jobs in a join, a chain or a fork, three runs for a group with limit 2 (one over), two runners with different rights; `Affordable` keeps the large files from meeting each other: runs only meet through the group, the limit and the order of claiming, which the small files exercise, and through the row of a commit, which two runs of one file share. A report that fails goes with small files and tokens that last |
| `workflow_liveness` | is every run concluded? | two runs, one that supersedes the other or waits for its own first job |
| `shared` | the same promises, statement by statement: is anything offered too early, twice, or of a run that is over? | one process, four jobs in which a chain and a join overlap, two crashes, so that recovery itself is cut off |
| `delivery` | logs, sessions, webhooks, mail, badges, shutdown | three chunks on two timers, pages of one, a cap that is reached; beat 1, sweep 2, lease 3, silence 4, token 6, timeout 7 (the order of the code's times at the scale of single ticks; the job may outlive its token, as its default timeout lets it), two steps, two outages; two processes, two deliveries, two attempts, a redelivery, a crash, answers that break off or trickle; two senders, two messages to one address, threshold and events 2, two retries, a crash; two processes and one socket over three rows and two starts; two calls, a transfer and a page. `Affordable` lets at most two of the accidents of one component meet, where an answer that trickles counts for two |
| `delivery_liveness` | does each of them end? | one timer, three chunks of which a request takes one, one delivery, one event, one retry, one polling process; without the session, whose liveness is a proved bound |
| `development` | merging, starting, files, secrets, scanning | two merges and one reviewer besides the author over two commits, rules with and without approvals and staleness; two overlapping requests on two branches with one pull request, four commits and four runs, so that a pull request is built again after its head moved and a branch after a merge, two in flight; files of every shape the checks tell apart and every field a command may name; two secrets in two scopes, printed whole or cut; two pushes around one policy change and one bypass. `Affordable` keeps one clone at work where checks and threads are asked for, the scan of the trees to one push, and the last of the runs and commits to one request and to pushes and pull requests |
| `people` | accounts, access, collaboration, usage | two of what competes: sign-ins, flows, requests, organizations, users, externals, trackers, processes, samples of an organization; one provider account and one number, which two addresses want; one day or step of term, so that before, on and after the edge occur; two kinds of happenings. `Affordable` lets at most two rare things about one outsider meet, keeps support, invitations to the repository and invitations to the organization apart, and the second kind of happening from the ageing of tokens; a socket meets another request before the clock's first step; months are closed while no upload waits |
| `operations` | backups, orders, moves, payments | two workers, windows, repositories, attempts, imports and clicks; two pushes, two archives of which one is of the bucket, a cut, a death; two appeals; two hours before, at and after which windows start; a queue of two, a circuit of two errors. `Affordable` keeps apart what one component has twice: a second push goes with one archive and no cut, a second organization or an edit of credentials with one time, pending ends, failed charges and an event cut short with one organization and no edit, a move under way with cases reported once |
| `storage` | bytes, large files, artifacts, credentials | two organizations with one slug (so that all names collide), two repositories, requests and objects, quotas that one more passes, a crash each. `Affordable`: two of a request under way, a crash and a deleted tenant, and a repository that keys lead to is archived, trashed or disabled one at a time |
| `billing` | plan, grace, notices; bulk import; deletion | two subscriptions, three events each delivered any number of times (two beside a crash), grace of three days with a reminder and a last notice; three items of which two are private; two requests, one export, an item that is written at any time, a day of grace, a day and a half |
| `runner_session_cancel` | does a runner learn of a cancellation? *It does not* | one long step, no outage |
| `email_strands` | is a message ever left in `processing`? *It is* | one message, one sender, one event |

What a property conjoins is defined in its module or, where it spans components, at the end of the MC module
(`AccountsSound` is `SignInSound`, `IdentitiesSound` and `AuthKitSound`, and so on). A run that shows a violation
checks one property, quoted from a document of the repository in the comment above it.

Each module states more than its run checks. `InFlightLimit`, `JobLifecycle` and `GreenMeansAllGreen` of the
scheduler, `CancelledStays` of `ImportJob`, `OneDateAtATime`, `ReportsAreFinal` and `ReportIsTrue` of `TenantDeletion`,
and `BytesInOnePlace` of `Repositories` are proved (section 5).

The following do not hold of the code. Each is stated and explained in its module; to see the behaviour, put the
property in the place of those of the configuration, with `Parts`, where there is one, reduced to its component:

| Configuration | Property | Changes | What happens |
|---|---|---|---|
| `MCShared` | `HandedOutOnce` | `Procs <- TwoProcs`, `MaxCrashes = 0`, `Spec` (any of the three graphs) | a job that was handed out goes back to `queued` |
| `MCShared` | `SuccessKept`, `FinishedRunKept` | the same with `ApartJobs`, `ApartNeeds`, `ApartPlace` | a success is overwritten |
| `MCShared` | `CheckCatchesUp`, `KeepsContract` | the same | two processes publish in the other order; two processes are no longer the contract |
| `MCWorkflowRuns` | `EveryRunIsTold` | none | the row is another run's of the same file and commit, or the report of the last change failed |
| `MCShared` | `PendingIsResolved` | `JoinJobs`, `JoinNeeds`, `JoinPlace`, `MaxCrashes = 1` | a crash between the end of a job and `advanceRun` leaves its dependants |
| `MCDelivery` | `CompleteIsFinal`, `NothingLeftBehind`, `LogInOrder` | none | a chunk after the word complete; output lost at the end; batches swapped |
| `MCDeliveryLive` | `BacklogGetsThrough` | none | a backlog larger than a request never gets through, though it is "never dropped" (`SELF_HOSTED_RUNNERS.md:114`) |
| `MCDelivery` | `HealthyKept` | none | a job that outlives the hour of its token is failed as stalled although its runner reports |
| `MCDeliveryLive` | `EveryDeliverySettles` | none | an answer that breaks off stops the worker for good |
| `MCDelivery` | `LiveIsNotReclaimed` | none | a row whose answer has trickled for fifteen minutes is requeued while it is still being sent |
| `MCDelivery` | `AcceptedIsFinal`, `OutcomesAreFenced` | none | the failure of an attempt older than a redelivery comes in last; an outcome is recorded without the lease |
| `MCDelivery` | `PermanentStaysPermanent` | `EventIds = {1, 2, 3}`, one sender, one message, no retries | a late deferral makes a permanent suppression one that expires |
| `MCDeliveryLive` | `RetriedIsTried` | none | a message retried by hand that no claim takes |
| `MCDeliveryLive` | `ShutdownEnds` | none | an open page holds the close of the server |
| `MCBilling` | `GraceIsNotRenewed`, `PendingEndIsTheRows`, `EveryExpiryIsTold` | none | each failed charge starts the grace again; an end is written to another subscription; a notice that is sent once for good |
| `MCBilling` | `ToldIsNamed` | none | an event recorded, and cut short before its first write, names a subscription that no row and no list has |
| `MCBilling` | `EveryJobEnds` | none | a job interrupted by a restart is running for good |
| `MCBilling` | `WaitsItsDays`, `ExportTakenAfterRequest`, `NothingStays` | none | due hours early; an export begun before the request counts; Trash survives |
| `MCStorage` | `OwnBytes`, `TrashCounts`, `OfferedIfServed` | none | two clones in one directory; a repository is created while Trash alone fills the plan; a batch asks the volume for what a download would serve from the bucket |
| `MCOperations` | `VerifiedRestores` | none | an archive that verified and whose large objects stayed in their bucket is refused: the restore looks for every object inside the archive |
| `MCOperations` | `InProgressIsReadOnly` | none | of two overlapping windows the first to end opens the instance |
| `MCOperations` | `StopClosesAll` | none | a connection made while the observer stops stays open |
| `MCOperations` | `LoadsBack`, `FailedImportLeavesNothing` | none | a complete archive whose rows the target refuses; a failed clone leaves rows, and a second try is refused |
| `MCOperations` | `OneSessionWithKey`, `MoneyIsTheBuyers` | none | two sessions across the edge of an idempotency bucket; a slug that has changed hands |
| `MCOperations` | `RecordedIsApplied`, `OneSubscriptionCharges` | none | an event recorded before a crash is a duplicate ever after and never applied; two subscriptions of one organization are paid |
| `MCOperations` | `AnsweredByReinstatement`, `ReadByNobody` | none | a death between the two statements of a reinstatement leaves its appeal open; a deploy key reads what is disabled |
| `MCDevelopment` | `HookGuardsBothTransports` | none | over SSH the hook finds no database in its environment and exits |
| `MCDevelopment` | `CommandsAreTheFilesOwn`, `AcceptedIsResolved` | none | the runner writes the name of a branch, which whoever pushes it chooses, into the text of a command; an expression the file was accepted with is left as it stands, for the runner does not know its value |
| `MCDevelopment` | `ClosedOnce` | none | a closed pull request is given its run again |
| `MCDevelopment` | `FirstRunIsOpened` | `Pulls = {1, 2}` | the first run of a pull request is `synchronize`, since another one of that branch has a run |
| `MCDevelopment` | `NoSecretInTheLog`, `OnlyCredentialsRefused` | none | a secret that is cut, as output is at a data event and at the size of a chunk, is stored in the clear; a push without a credential is refused when its difference cannot be computed |
| `MCPeople` | `RefusedIsNotRejected` | none | a refresh answered with an error of the service, and for a socket with its limit, deletes the session |
| `MCPeople` | `TransferLeavesOutsidersBehind`, `ReviewsEnd` | none | an invitation of the old organization opens a repository that was transferred; a campaign whose last undecided items went with a purge stays open, and no other can start |
| `MCPeople` | `RevokedDeviceEnds`, `SomebodyCanSignIn` | none | with a window the guard never asks which sessions live; a phone number counts as a way in and is none |

More limits are stated in the properties themselves, each by a history variable that says when: what was suppressed by a process that died
before it swept the queue waits for good (`cutOff` in `MailSound` and `QueuedIsTried`), a delivery whose answer trickled for fifteen minutes may have two
senders (`outlasted`), a request that came on a kept connection after the listener closed has no budget of its own (`late` in
`DrainedInOrder`), a reinstatement cut short leaves its appeals (`forgotten` in `OrdersStand`), an invitation or a grant written
after a transfer stands (`late` in `AccessSound`), a review whose items were purged stays open (`stuck`), a cut secret is in the log (`cut` in
`SecretsSound`), a save of a cache cut short leaves the quota passed (`overrun` in `StoredIsKept`), a push that meets the limit of queued runs is skipped for good (`StartsSound`), a
head pushed between judgement and clone lands unjudged (`excused` in `MergeSound`), and rows of a user whose inbox changes while a
starting process has the triggers dropped are missed (`missed` in `BadgeFollowsInbox`).

Models that look more generous than a document: deploy keys survive a transfer (`Credentials`), pushes over SSH start no run and
are not scanned (`WorkflowStart`, `Secrets`), a challenge begun before a reset can finish and a provider's sign-in
asks for no second factor (`SignIn`), concurrent refreshes delete the bridge row, and so does any answer to one but success and, outside a socket, 429 (`SignIn`), two processes or one batch pass
the storage limit within the minute of a cache, and only the month before is closed (`Usage`), a failed second pass leaves the archive of the
first as the newest (`Backups`), and a COMMIT without an answer leaves an attempt unsure (`DatabaseMove`).
All of them are translated as the code has them.

History variables (`calm`, `settled`, `cause`, `handed`, `vouched`, `missed` and others; each module names its own)
record what happened and guard nothing. `calm` of `Repositories` deserves its own word: `StorageWhereRowSays`, `NothingLeftBehind` and
`TrashIsArchived` are promised only as long as no request acts on a row that changed since it was read, no crash falls
between the two stores and no two clones meet in a directory. The code does nothing about these three; the hazards name
them. `BytesInOnePlace` and `PurgeSparesTheRestored` hold whatever meets what. `calm` of `Maintenance` and `settled` of
`ObjectStorage` exclude a crash between row and file in the same way.

## 4. Fairness

* A server runs its handlers to their end: weak fairness of every step of a handler under way (`WorkflowRunsShared`,
  `WebhookDeliveries`, `EmailOutbox`, `Shutdown`).
* Runners poll, so a claim is taken in the end: weak fairness of `ClaimNextJob` with an answer that arrives; strong in
  `WorkflowRunsShared`, where a claim is possible only between handlers. Nothing is promised of a runner that died, but
  the stalled-job worker is on a timer, so `Reap` is fair, and so is the clock that makes a job silent.
* A lease lapses by the clock and is asked for every few seconds: strong fairness of a worker's turn in
  `WebhookDeliveries`, as it finds the lease taken now and then.
* An attempt to send ends, since sockets have timeouts; the exceptions are an answer that breaks off (`hung`), of which nothing is
  promised, and one that trickles, which is long but ends.
* The log of a job needs strong fairness of a request's steps: a job that keeps working asks again and again.
* A clone ends within three minutes (`git.mjs:143`): weak fairness of `ItemStep`.
* `setInterval` keeps calling the poll, the heartbeat and the daily workers: weak fairness of `ReaderTick`,
  `FlushPending`, `Heartbeat`, of the answers to questions about a session, of `ExpireGracePeriods` and `RunDunning`, and of the day
  that passes.
* A request in flight ends for the drains of `Shutdown` by its budget and not by fairness to the client.
* Nobody is fair to a crash, a redelivery, an event of a provider or a person.

## 5. Proofs

All theorems rest on the assumptions about constants that the modules declare, which TLC evaluates in the runs, and on those named here.

**The scheduler** (`WorkflowRunsProofs`), for every number of jobs, runs, runners, workflow files without cyclic
dependencies, and any limit. The invariants are not inductive by themselves. `IInv` adds to `TypeOK` what ties the
pieces together: `RunsInv` (the status of a run follows from those of its jobs, every pending job has a job it waits
for, jobs are started in order of need, rows nobody created are blank), `ClaimsInv` (what a runner or a request on the
wire holds is a job that was handed out) and `TokenWhileRunning`. The one step that is not bookkeeping is `Completing`:
after `advanceRun` no pending job has only finished needs, and so some job is open unless all are done. It rests on
`FirstJob`, that a non-empty set of jobs has one that needs none of the others, for which the position of
`resolveJobOrder` is the well-founded measure. From `IInv` follow `RunsAreSoundHolds` and its parts; from it and the step lemmas the
action properties `DiagramHolds` and `OutcomesAreFinal`. `GroupsDoNotOverlap`, `LimitHolds` and `ChecksAreTrue` are
invariants of their own beside it; the last one is of a row that several runs share and that a failed report leaves behind, so it says
what the row is of the run it links to, and that it has the last report of a run unless that failed or another run took the row. `ImplementsContract` shows that every behaviour is one of `RunContract`, run by run:
initial states to initial states and each step to a step or a stutter.

**The scheduler, statement by statement** (`WorkflowRunsSharedProofs`), for one process (`OneProcess`; with two the
properties fail, section 3) and any jobs. `SharedInv` says what a handler may rely on between two statements: what it
remembers is what the rows say (`MemoryIsFresh`), what was handed out is no longer queued (`HandedIsTaken`), a run is concluded after its
last job (`RunEndsLast`), and jobs come in order. It gives `HandOutsHold`, with crashes anywhere. For
`OneProcessKeepsContract` the contract's state is the last one at which no handler ran; `StageInv` says what each
statement has made of it, so that the statement that ends a handler is one step of the contract.

**Logs** (`ServerProofs`): `LogHolds`, no chunk is lost between buffer, request and log while there is room, and a
viewer has a prefix. **Sessions**: `SilentIsReapedHolds` for any five times: the silence, one interval of the worker
and the rest of a lease (`HeardOf`, `WorkerComesRound`), and no script past its deadline (`KilledInTime`). `SessionHolds` adds that the
healthy are kept until their token is an hour old: a beat comes within the silence and within an interval of the worker, 30 s
(`runner-agent.mjs:9`) against 300 s and 60 s (`workflow-logs.mjs:15`, `:241`), which is `ClockAssumption`. The timeout may be any: of a job
that outlives its token, as one with the default timeout may, nothing is claimed here, and section 3 shows what happens to it.

**Webhooks**: `OneSenderHolds` and `RequeueHolds` for any number of processes, deliveries, redeliveries, crashes and lapses of the
lease. The code bounds the wait for the headers of an answer and not its body, so an attempt can outlast `strandedMinutes`:
such deliveries are recorded (`outlasted`) and excused one by one, not assumed away. The invariant adds `OldAreDead` (what is old enough to
be requeued has no sender but one that has gone on so long) and `Fenced` (until somebody redelivers by hand, what is on the wire is
`processing` or `deleted` and has one sender). The lease appears nowhere in the argument: the claim of a row asks for its status, and that is enough.

**Mail**: `MailHolds`, one sender per message and nothing left waiting for a suppressed address, from what a batch may
still hold of each row. The statements of a rejection are steps of their own, so between the suppression and the sweep, and for good after a death
there (`cutOff`), the queue does hold such messages, and the theorem says that it never does otherwise.
**Shutdown**: `DrainHolds`, from what each stage of `shutdown()` has seen; a connection kept alive may ask again until it is closed.

**Open pages**: `BadgesFollow`, for any processes, sockets, users and pages of rows. `RealInv` says that an open page shows the count
of its inbox, or its user is among those to be told, or a row its process has not read names them (`Told`). A change writes a row beyond every
cursor because ids are not given twice; a poll reads a prefix of what is left (`BatchIsPrefix`), which needs
that a set of numbers has a least element, here from the well-foundedness of inclusion on finite sets.

**Repositories** (`LifecycleProofs`): the bytes of a repository are in one directory at most (`OnePlaceHolds`) and a purge spares
what was restored meanwhile (`PurgeSparesHolds`), without any promise that requests are calm. The invariant adds
`Shape` (what a request remembers is a row its operation asks for), `Ids` (the id of a clone that has ended is nobody
else's and has no row) and `OnDisk` (whatever has bytes has a row, had one, or is such a clone): without it a new
repository might get an id that has a directory already. `BytesFollowRowsHolds` is about calm behaviours: the
directory of a home is its repository's (`BytesAtHome`), that of a clone its request's until the row is written (`Claimed`),
any other is empty or of a tenant that went (`Accounted`), and what lies in Trash has no organization, so that no tenant
takes it along (`TrashApart`). It rests on two names no organization can have: `kukgit-trash`, which is reserved, and NULL.

**Imports**: the credential goes with the job, a job that is over has an outcome for each item, a cancelled job stays
cancelled; `Agree` says what an item may be in each state of its job, and that only the item being cloned is `importing`.

**Deletion**: what was there is in the archive the report names, but for what was written while that archive was read or after the deletion was asked
for (`SurvivesHolds`; `ArchivesOK` says what an archive has of an item by when both were written), an unhurried deletion goes
at most half a day before it is due (`DayHolds`, on `WithinTheDay`, the arithmetic of comparing the first ten characters
of two dates), there is one date at a time, and a report is true and final.

**Billing**: `BooksHold` and `WarnedHolds`, for any subscriptions, events, crashes and any grace with its two windows. `BillShape` types the
log, `LogFollows` ties what is seen to what was sent, `RowFollows` the row to the event that wrote it (`wrote` has every event that got so far, applied
or cut short after it), `CutShort` names the one case in which a subscription is forgotten: an event that died before its first write, and `WarnedAtTheEnd`
the last notice to the days that are left.

**Large files, artifacts and caches**: `StoredIsKeptHolds`. `BytesStand` says that every object a row names is on the volume or
in the bucket, and so is the object of an upload that is about to write its row; it holds for as long as every crash left store and row
together (`settled`), `QuotaHolds` and `RowsStand` (no association without a row) whatever happens. For artifacts and caches
`NamedAreThere` needs no such condition, because the code writes the file first and drops it last. A save of a cache writes its row and evicts later,
so the quota of caches holds between saves, and not after one that died in between (`QuotaOrCut`). `CacheInOrder`, that the order of
eviction and the order of saving list the same entries once each, is what makes the removal by index remove one and the same entry.

**Payments** (`OperationsProofs`): `PaymentsAreSound`, for any clicks, providers, organizations in turn and edits of the settings. A link is
offered twice only by clicks that met at the provider (`WereTogether`: whoever is there is written down with everyone
else who is, and with every session on offer that somebody else got meanwhile), and a provider that takes a key has one link under
it (`OneUnderKey`). `ToldOfPaid` ties webhooks, row, invoices and replaced references to links that were paid, and `Booked` what an event wrote to the row or to the list of
replaced subscriptions, wherever the process died. That an event on record was applied does not hold and is not claimed (section 3).

**Credentials**: `CredentialsHold`; `StillAuthorised` says of the command whose child starts what held when it was
authorised and what has overtaken it.

**Merging** (`DevelopmentProofs`): `MergesAreSound`, for any reviewers, commits, rules and merges at once. `MergeInv` follows one merge through
its three moments: what it was judged by is covered by an approval in force then (`GuardsBackTheHead`), what it has
cloned is that and what came in between, which is `excused` by name, and what it pushes stays (`MergeIsBacked`).
Approvals are withdrawn and dismissed, but that they were given is not forgotten, which is what the property says.

**What starts runs** (`DevelopmentProofs`): `StartsSoundHolds`, in two parts. Of the runs, `HeadsStand`, `PullsStand` and `SchedulesStand` say
what is owed while a request is out: a branch is built where it is, or somebody who is out remembers it elsewhere and
will see that it moved (`Runnable`); `QueueStands` says the same of what waits for a deleted branch. A response goes through
all branches and pull requests in three folds over sets. The library's fold is `CHOOSE` of a function on subsets,
so the proof first shows, by well-founded induction over finite subsets, that there is such a function (`LoopRuns`, `LoopsAre`), and
then that one turn of a loop keeps what earlier turns did (`LoopAdds`, `FinishAdds`). Of the files,
`StackIsAPath` says that the depth-first search holds a path of needs and `OrderIsOfTheDone` that a job is put in the order after all it needs:
so an accepted order is topological and a reported cycle is one.

**Secrets** (`DevelopmentProofs`): `SecretsHold`. A row is what was last answered as stored and opens until the server has another key
(`RowsAreTold`, `RowsOpen`), and a value that a job holds resolves or did (`HandedAreKnown`). Masking sees one chunk: the theorem is about what was printed in one piece, and a value that was
cut is excused by name (`cut`). Of the scanner, `BackfillIsTrue` ties what the
scan of all trees has read to what has been on a branch. The attempt to prove that whatever stands on a branch becomes a finding failed
for a reason: nothing scans what comes over SSH, what was pushed when the process died, or a push whose difference cannot be computed.
`StandingIsFound` names those credentials (`unscanned`), as the code leaves them.

**People** (`PeopleProofs`). `AccessHolds`: access comes from where the repository is, because teams consist of members (`CrewsAreMembers`) and grants are
of its organization, of somebody it invited to the repository, or were written or accepted after a transfer on a permission from before it
(`GrantsAreOfHome`); for outsiders (`OutsidersWereInvited`), the trigger dates whatever a request leaves without a day, save a grant from before
there were days that nobody has written since (`old`), and a campaign is open without anything undecided only after a purge (`stuck`). `IssuesHold`: numbers are apart and below the highest given (`Numbered`), and the one request
whose body is awaited concerns what it was authorised for or what is gone (`AwaitedStands`). `NotificationsHold`: nothing is told of a future
day (`TurnsInTime`, `RowsInTime`). `AccountsHold` has three parts. `SignInHolds`: what was taken is of an earlier secret or no later than
the last step (`TakenIsBehind`), so no code is good twice; a session remembers the password it was opened under (`PasswordsMoveOn`).
`IdentitiesHold` is inductive almost as it is stated, given that addresses are only ever added to the proved. `AuthKitHolds`:
a bridge row is of tokens that were given and was validated no later than the service vouched (`BridgesStand`), and a lost row has a reason
(`LossesStand`): revoked, its age, or an access token that ran out and a refresh answered with anything but yes (outside a socket, 429 is none). `UsageIsRightHolds`: readings are numbered in order and a month is closed after its last one, so a reading that is added
later is of another month; of the uploads of a process, its cache counts at least its own (`Mine`).

**Orders** (`OperationsProofs`): `OrdersHold`. A window exists with two names and ends after it starts (`Agreed`); a case asks for
something only when it is decided (`OpenIsUndecided`), and an appeal that is open names a place and never Trash (`OpenAppealIsAtPlace`), unless a
reinstatement was cut short before it answered it (`forgotten`).

**Moves** (`MovesProofs`): `MovesAreTrueHolds`. The advisory lock belongs to a session and there is one (`OneSession`); between the question whether the schema is
empty and the COMMIT nobody else commits (`Under`), so that a transaction is over an empty schema and, once verified, holds the export
(`TransactionsStand`); what is said to have failed has ended or is unsure (`ClaimsStand`). Of the observer, a stopped one has an empty queue
(`StoppedIsEmpty`) and every read a fate. Of the tenant, the organization is read last and never dropped (`OrganizationComes`), so a complete export can be
loaded as a whole (`OneLoaded`), and what an import made is no stranger's directory (`CreatedStand`).

**Backups** (`OperationsProofs`): `BackupsAreSound`, for any processes, archives, pushes, collections, prunes and deaths, whichever archives were
made while the large objects were in a bucket (`Bucketed`): of those it says that a restore refuses them rather than leave a target without its objects. That
what verified is restored holds of the others alone (section 3). What a process remembers of its archive is tied
to the file: `InTheMaking` says that a reference is what it was when the backup began, or is among those that moved since;
`ArchiveIsTrue` carries that to the file and adds that a second pass leaves all large objects inside; `WorkIsTrue` and
`WorkApart` say what each worker may count on while the others go on, which needs the lock only for the
base archive and for the target being built. `SameNames` gives each number one list of large objects, so that a target that
is filled later is filled from an archive that names the same; `NewestIsThere` needs that a list that is not empty has a last archive.

Every invariant and action property without fairness that a passing run checks is stated by a theorem.

With TLC only: liveness under fairness and whatever needs ENABLED (`EveryRunConcludes`, `OutputGetsThrough`, `DeliveriesSettle`, `QueuedIsTried`,
`EndedSessionLosesSocket`, `StopsWithoutPages`, `UnpaidPlanEnds`, `PendingIsResolvedAlive`), and the two violations.

## 6. Not modelled

`PROJECT.json` gives a reason per component. Without a module are the PostgreSQL runtime writes and schema (not reached
by the server yet), rate limits, instance settings and console, operator health, configuration and helpers, the
composition root, the browser client and scripts. In all modules the wording of answers, audit rows, e-mail texts and Git
itself are left out. SQL statements are atomic and transactions serial, as SQLite makes them. In particular:

* `Repositories` has no retention worker, because the code has none: `purge_after` is shown and not acted on.
* `TenantDeletion` knows two kinds of rows, those reached over columns that are NOT NULL and those in Trash; that the
  walk over the foreign keys finds every table is a matter of the schema, not of order.
* `Billing` has one organization: organizations share nothing but the provider's webhook. `Payments` has several, one
  after another under one slug.
* `JobLog` has one job and `RunnerSession` too: jobs share the sweep, which treats each row by itself.
* What `SCAN_LIMITS` skips (files beyond 3000, beyond 1 MiB, findings beyond 500) the code reports as skipped; `StandingIsFound` is about pushes within them.
* Permission is a rank in every module but `Access`, which says where it comes from.
* Encryption, signatures, patterns of secrets, diffs, YAML and the frames of WebSockets are what they promise.

## 7. Plan

Done: the components of section 2, the runs of section 3, the theorems of section 5.

What could come next: the parts of `src/` that are listed as not modelled once they carry state of their own (the write path of PostgreSQL,
when the server reaches it); registration and rotation of runners beside `WorkflowRuns`; and, in `RunnerSession`, the workspace and its cleaning up.

--------------------------- MODULE MergeGovernance ---------------------------
(***************************************************************************)
(* A pull request and what stands between it and a protected branch:       *)
(* branch rules and reviews (src/src/branch-governance.mjs), review        *)
(* threads (review-threads.mjs, pull-request-diffs*.mjs), required status  *)
(* checks (status-checks.mjs), the merge route (app.mjs) and the clone it  *)
(* works in (git.mjs).                                                     *)
(*                                                                         *)
(* A commit is a number and a branch the set of commits it contains, which *)
(* is also its head SHA.  The three guards judge the head of the moment;   *)
(* the merge then clones whatever the head is, merges, and pushes.  A      *)
(* review is let in by a pull request read before its body is awaited.     *)
(* Permissions are those of Access; everybody here has the one the route   *)
(* asks for.                                                               *)
(*                                                                         *)
(* `vouched`, `ran`, `excused` and `landed` are history variables.         *)
(***************************************************************************)
EXTENDS Naturals, FiniteSets

CONSTANTS
  Reviewers,   \* who may review, the author among them
  PullAuthor,  \* who opened the pull request
  Verdicts,    \* states of a review the model gives
  Jobs,        \* requests at work in a clone: merges and file commits
  BranchRules, \* rules an administrator gives the base branch
  MaxCommits   \* bound: commits made after the first of the head branch

ASSUME MergeAssumption ==
  /\ PullAuthor \in Reviewers
  /\ MaxCommits \in Nat \ {0}
  /\ \A r \in BranchRules : r.needed \in Nat /\ r.dismiss \in BOOLEAN /\ r.closed \in BOOLEAN

VARIABLES
  onBase, onHead,  \* commits of the base and of the head branch
  made,            \* commits made so far
  pull,            \* pull_requests.status
  rule,            \* the branch protection rule of the base branch, or NoRule
  demands,         \* what else the base branch asks for: a green check, resolved threads
  reviews,         \* pull_request_reviews: one row per reviewer
  checks,          \* commit_status_checks of the context: state by SHA
  threads,         \* pull_request_review_threads: SHA and whether resolved
  work,            \* what each job does, how far it is, and its clone
  vouched,         \* SHAs somebody other than the author has ever approved
  ran,             \* SHAs on which the context has ever succeeded
  excused,         \* commits that took a way past the rules, see below
  landed           \* heads that merges have pushed

mergeVars == <<onBase, onHead, made, pull, rule, demands, reviews, checks, threads,
               work, vouched, ran, excused, landed>>

NoRule == [needed |-> 0, dismiss |-> FALSE, closed |-> FALSE]
NoReview == [state |-> "none", sha |-> {}]
NoJob == [at |-> "idle", what |-> "none", base |-> {}, head |-> {}, judged |-> {}, asked |-> FALSE]

MergeInit ==
  /\ onBase = {} /\ onHead = {1} /\ made = 1
  /\ pull = "none"
  /\ rule \in BranchRules \cup {NoRule} /\ demands \in {{}, {"check", "threads"}}
  /\ reviews = [p \in Reviewers |-> NoReview]
  /\ checks = {} /\ threads = {} 
  /\ work = [j \in Jobs |-> NoJob]
  /\ vouched = {} /\ ran = {} /\ excused = {} /\ landed = {}

-----------------------------------------------------------------------------
(* The three gates                                                         *)

\* As below, had staleness been left to the screen.
ActiveWhateverTheHead(p) == reviews[p].state # "none"

\* listReviews: with dismissal on, a review of another head is stale.
Active(p) == reviews[p].state # "none" /\ (rule.dismiss => reviews[p].sha = onHead)

Approving == {p \in Reviewers : Active(p) /\ reviews[p].state = "approved"}

\* getPullRequestGovernance.
ReviewsAllow ==
  /\ \A p \in Reviewers : Active(p) => reviews[p].state # "changes_requested"
  /\ Cardinality(Approving) >= rule.needed
  /\ pull = "open"

\* listReviewThreads: a thread of another head is outdated.
Outdated(t) == t.sha # onHead

\* reviewThreadSummary.
ThreadsAllow == "threads" \in demands => \A t \in threads : Outdated(t) \/ t.resolved

\* statusCheckSummary: the context has succeeded on the head commit.
ChecksAllow == "check" \in demands => [sha |-> onHead, state |-> "success"] \in checks

\* assertDirectBranchWriteAllowed and the pre-receive hook.
DirectWriteAllowed == ~rule.closed

\* Commits of `these` the rule in force does not hold back.
Unheld(these) == IF rule.needed >= 1 /\ rule.dismiss THEN {} ELSE these

-----------------------------------------------------------------------------
(* Pushes and files                                                        *)

New == made + 1

\* compareBranches: the head branch has commits the base branch lacks.
Ahead == ~(onHead \subseteq onBase)

\* The pull request, numbered and inserted after its body has come.
OpenPullRequest ==
  /\ pull = "none" /\ Ahead
  /\ pull' = "open"
  /\ UNCHANGED <<onBase, onHead, made, rule, demands, reviews, checks, threads, work, vouched,
                 ran, excused, landed>>

\* git push of a commit to the head branch.
PushHead ==
  /\ New <= MaxCommits
  /\ made' = New /\ onHead' = onHead \cup {New}
  /\ UNCHANGED <<onBase, pull, rule, demands, reviews, checks, threads, work, vouched, ran,
                 excused, landed>>

\* git push to the base branch over HTTP, past the hook.
PushBase ==
  /\ New <= MaxCommits /\ DirectWriteAllowed
  /\ made' = New /\ onBase' = onBase \cup {New} /\ excused' = excused \cup {New}
  /\ UNCHANGED <<onHead, pull, rule, demands, reviews, checks, threads, work, vouched, ran,
                 landed>>

\* The same over SSH: the hook runs, finds no database in its environment and
\* exits at once.
PushBaseOverSsh ==
  /\ New <= MaxCommits
  /\ made' = New /\ onBase' = onBase \cup {New} /\ excused' = excused \cup {New}
  /\ UNCHANGED <<onHead, pull, rule, demands, reviews, checks, threads, work, vouched, ran,
                 landed>>

\* The guard lets a browser's file commit through when its body has come.
CommitFile(j) ==
  /\ work[j].at = "idle" /\ DirectWriteAllowed
  /\ work' = [work EXCEPT ![j] = [NoJob EXCEPT !.what = "file", !.at = "let"]]
  /\ UNCHANGED <<onBase, onHead, made, pull, rule, demands, reviews, checks, threads,
                 vouched, ran, excused, landed>>

\* withWorkingClone: what the branches are now is what will be worked on.
Clone(j) ==
  /\ work[j].at = "let"
  /\ work' = [work EXCEPT ![j].at = "cloned", ![j].base = onBase, ![j].head = onHead]
  /\ excused' = IF work[j].what = "merge" THEN excused \cup (onHead \ work[j].judged) ELSE excused
  /\ UNCHANGED <<onBase, onHead, made, pull, rule, demands, reviews, checks, threads,
                 vouched, ran, landed>>

\* receive.denyNonFastForwards; the hook finds no database in the environment
\* of these pushes and lets them through.
FastForward(j) == onBase = work[j].base

\* commitFile: the commit and its push.
PushFile(j) ==
  /\ work[j].at = "cloned" /\ work[j].what = "file" /\ New <= MaxCommits
  /\ work' = [work EXCEPT ![j] = NoJob]
  /\ IF FastForward(j)
     THEN /\ made' = New /\ onBase' = work[j].base \cup {New} /\ excused' = excused \cup {New}
     ELSE UNCHANGED <<made, onBase, excused>>
  /\ UNCHANGED <<onHead, pull, rule, demands, reviews, checks, threads, vouched, ran, landed>>

-----------------------------------------------------------------------------
(* Rules, reviews, threads and checks                                      *)

\* upsertBranchProtectionRule, and its deletion.
SetRule ==
  /\ \E r \in BranchRules \cup {NoRule} : rule' = r /\ r # rule
  /\ UNCHANGED <<onBase, onHead, made, pull, demands, reviews, checks, threads, work,
                 vouched, ran, excused, landed>>

\* upsertRequiredStatusPolicy and upsertReviewThreadPolicy.
SetPolicies ==
  /\ demands = {} /\ demands' = {"check", "threads"}
  /\ UNCHANGED <<onBase, onHead, made, pull, rule, reviews, checks, threads, work,
                 vouched, ran, excused, landed>>

\* An author comments, and does not judge his own pull request.
MaySay(p, s) == p = PullAuthor => s = "commented"

\* submitPullRequestReview: the row of the reviewer is replaced and bears the
\* head of this moment, which need not be the one he has read.  The pull
\* request was open when its row was read, before the body was awaited; it may
\* have been merged since.
SubmitReview(p, s) ==
  /\ pull # "none" /\ MaySay(p, s)
  /\ reviews' = [reviews EXCEPT ![p] = [state |-> s, sha |-> onHead]]
  /\ vouched' = IF s = "approved" /\ p # PullAuthor THEN vouched \cup {onHead} ELSE vouched
  /\ UNCHANGED <<onBase, onHead, made, pull, rule, demands, checks, threads, work, ran,
                 excused, landed>>

\* createDiffReviewThread: the thread bears the head the patch was made from.
Anchored == [sha |-> onHead, resolved |-> FALSE]

\* A thread on a line of the patch, which has lines while the head is ahead.
OpenThread ==
  /\ pull = "open" /\ threads = {} /\ Ahead
  /\ threads' = {Anchored}
  /\ UNCHANGED <<onBase, onHead, made, pull, rule, demands, reviews, checks, work,
                 vouched, ran, excused, landed>>

\* setReviewThreadResolved, whatever the pull request is.
SetResolved ==
  /\ \E t \in threads : threads' = (threads \ {t}) \cup {[t EXCEPT !.resolved = ~t.resolved]}
  /\ UNCHANGED <<onBase, onHead, made, pull, rule, demands, reviews, checks, work,
                 vouched, ran, excused, landed>>

\* publishCommitStatus on the head commit: one row for the context, replaced.
PublishStatus(s) ==
  /\ checks' = {c \in checks : c.sha # onHead} \cup {[sha |-> onHead, state |-> s]}
  /\ checks' # checks
  /\ ran' = IF s = "success" THEN ran \cup {onHead} ELSE ran
  /\ UNCHANGED <<onBase, onHead, made, pull, rule, demands, reviews, threads, work,
                 vouched, excused, landed>>

-----------------------------------------------------------------------------
(* The merge *)

\* The guards and the route, one after the other without a pause.
LetMerge(j) ==
  /\ work[j].at = "idle"
  /\ ReviewsAllow /\ ThreadsAllow /\ ChecksAllow
  /\ work' = [work EXCEPT ![j] = [NoJob EXCEPT !.what = "merge", !.at = "let", !.judged = onHead,
                                              !.asked = "check" \in demands]]
  /\ excused' = excused \cup Unheld(onHead)
  /\ UNCHANGED <<onBase, onHead, made, pull, rule, demands, reviews, checks, threads,
                 vouched, ran, landed>>

\* git merge --no-ff and its push.
PushMerge(j) ==
  /\ work[j].at = "cloned" /\ work[j].what = "merge"
  /\ IF FastForward(j)
     THEN /\ onBase' = work[j].base \cup work[j].head
          /\ work' = [work EXCEPT ![j] = [NoJob EXCEPT !.what = "merge", !.at = "pushed"]]
          /\ landed' = landed \cup {work[j].head}
     ELSE work' = [work EXCEPT ![j] = NoJob] /\ UNCHANGED <<onBase, landed>>
  /\ UNCHANGED <<onHead, made, pull, rule, demands, reviews, checks, threads, vouched, ran,
                 excused>>

\* git merge stops at a conflict.
MergeConflict(j) ==
  /\ work[j].at = "cloned" /\ work[j].what = "merge" /\ ~(work[j].base \subseteq work[j].head)
  /\ work' = [work EXCEPT ![j] = NoJob]
  /\ UNCHANGED <<onBase, onHead, made, pull, rule, demands, reviews, checks, threads,
                 vouched, ran, excused, landed>>

\* The row is marked when git has answered, whatever it has become meanwhile.
MarkMerged(j) ==
  /\ work[j].at = "pushed"
  /\ pull' = "merged" /\ work' = [work EXCEPT ![j] = NoJob]
  /\ UNCHANGED <<onBase, onHead, made, rule, demands, reviews, checks, threads,
                 vouched, ran, excused, landed>>

\* The server dies; a merge that has been pushed stays an open pull request.
MergeServerDies ==
  /\ \E j \in Jobs : work[j] # NoJob
  /\ work' = [j \in Jobs |-> NoJob]
  /\ UNCHANGED <<onBase, onHead, made, pull, rule, demands, reviews, checks, threads,
                 vouched, ran, excused, landed>>

-----------------------------------------------------------------------------

CloneNext ==
  \/ \E j \in Jobs : \/ CommitFile(j) \/ LetMerge(j) \/ Clone(j) \/ PushFile(j)
                     \/ PushMerge(j) \/ MergeConflict(j) \/ MarkMerged(j)
  \/ MergeServerDies

ReviewNext ==
  \/ SetRule
  \/ \E p \in Reviewers, s \in Verdicts : SubmitReview(p, s)

ThreadNext == SetPolicies \/ OpenThread \/ SetResolved

StatusNext == \E s \in {"success", "failure"} : PublishStatus(s)

MergeNext == OpenPullRequest \/ PushHead \/ PushBase \/ PushBaseOverSsh \/ ReviewNext \/ ThreadNext \/ StatusNext \/ CloneNext

MergeSpec == MergeInit /\ [][MergeNext]_mergeVars

-----------------------------------------------------------------------------

\* A commit on the base branch has been approved, in a head that contains it,
\* by somebody other than the author; or it came by one of the ways `excused`
\* names: a direct write the rule of its moment allowed, a merge judged under
\* a rule that asks for no approval or lets stale ones count, a push to the head
\* between the guards and the clone of a merge, or a push over SSH.
NothingLandsUnvouched ==
  \A c \in onBase \ excused : \E v \in vouched : c \in v

\* A merge on its way that was asked for a green head has had one, if not the
\* head it has cloned.
GreenWhenJudged == \A j \in Jobs : work[j].asked => work[j].judged \in ran

\* What merges have pushed stays on the base branch, and a merged pull request
\* is one a merge has pushed.
MergedIsThere ==
  /\ \A h \in landed : h \subseteq onBase
  /\ pull = "merged" => landed # {}

\* docs/SSH_KEYS.md, Branch protection: the pre-receive hook enforces the rules
\* for pushes over SSH as over HTTP, so that no push moves a closed branch; only
\* a clone at work in the server does.
HookGuardsBothTransports ==
  [][(rule.closed /\ onBase' # onBase) => work' # work]_mergeVars

\* Approvals, checks and pushes of several people at once leave a protected
\* branch with nothing but what its rules let in.
MergeSound == NothingLandsUnvouched /\ GreenWhenJudged /\ MergedIsThere
=============================================================================

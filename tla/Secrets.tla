------------------------------- MODULE Secrets -------------------------------
(***************************************************************************)
(* Secrets of a repository on both sides of the vault: those that are kept *)
(* for its builds, and credentials that are pushed where they should not   *)
(* be.  Each side has state of its own.                                    *)
(***************************************************************************)
EXTENDS Naturals, FiniteSets

(***************************************************************************)
(* The secrets of one repository and of its organization                   *)
(* (src/src/secrets-vault.mjs), their way to a build (runners.mjs,         *)
(* workflow-runs.mjs) and what is taken out of its log again               *)
(* (workflow-logs.mjs).                                                    *)
(*                                                                         *)
(* A row is a value and the key it is sealed under; it opens under that    *)
(* key only.  A job is handed every secret once, at its claim; each batch  *)
(* of output is masked by the secrets of the moment it arrives.  A write   *)
(* is authorised before its body is awaited.                               *)
(*                                                                         *)
(* `told`, `due`, `withdrawn` and `rekeyed` are history variables.         *)
(***************************************************************************)
CONSTANTS
  SecretNames,   \* names a secret may have
  SecretValues,  \* values
  Maskable,      \* values of five characters and more
  VaultKeys,     \* keys the instance may be started with
  NoVaultKey,    \* it was started with none, or one too short
  ScopeLimit,    \* SECRET_LIMITS.maxPerScope
  BuildJobs,     \* jobs that are claimed
  ForkJobs       \* those of a pull request from a fork

ASSUME VaultAssumption ==
  /\ Maskable \subseteq SecretValues /\ ForkJobs \subseteq BuildJobs /\ ScopeLimit \in Nat
  /\ IsFiniteSet(SecretNames) /\ "none" \notin SecretValues

Scopes == {"organization", "repository"}
NoSecret == [value |-> "none", key |-> NoVaultKey]

VARIABLES
  vault,      \* the rows of secrets
  vaultKey,   \* secretsEncryptionKey of the running server
  vaultAdmin, \* scopes whose secrets the author may administer
  putting,    \* scopes of the PUTs whose body is awaited
  given,      \* what each job was handed at its claim, or "unclaimed", or "lost"
  jobLog,     \* values that can be read in each job's stored log
  told,       \* values answered as stored
  due,        \* values each claim owed its job
  withdrawn,  \* values that once resolved and then did not: replaced, deleted or shadowed
  rekeyed,    \* the server has been started again under another key
  cut         \* a value that one job's output brought in pieces, though it would have been masked

vaultVars == <<vault, vaultKey, vaultAdmin, putting, given, jobLog, told, due, withdrawn, rekeyed, cut>>

VaultInit ==
  /\ vault = [s \in Scopes |-> [n \in SecretNames |-> NoSecret]]
  /\ vaultKey \in VaultKeys
  /\ vaultAdmin = Scopes /\ putting = {}
  /\ given = [j \in BuildJobs |-> [state |-> "unclaimed", secrets |-> {}]]
  /\ jobLog = [j \in BuildJobs |-> {}]
  /\ told = [s \in Scopes |-> [n \in SecretNames |-> "none"]]
  /\ due = [j \in BuildJobs |-> {}]
  /\ withdrawn = {} /\ rekeyed = FALSE /\ cut = {}

-----------------------------------------------------------------------------
(* What the vault reads                                                    *)

Stored(s) == {n \in SecretNames : vault[s][n] # NoSecret}

\* decryptSecretValue: under the key it was sealed with, and in its own place.
Opens(row) == row.key = vaultKey

\* The scope resolveSecrets takes a name from: the repository's shadows the organization's.
Nearest(n) == IF n \in Stored("repository") THEN "repository" ELSE "organization"

\* resolveSecrets: one row that does not open, shadowed or not, refuses them all.
Resolvable == \A s \in Scopes : \A n \in Stored(s) : Opens(vault[s][n])
Resolved == {<<n, vault[Nearest(n)][n].value>> : n \in UNION {Stored(s) : s \in Scopes}}

ResolvedValues == {e[2] : e \in Resolved}

\* As below, were only the repository's own secrets masked.
MaskedOfRepository == {vault["repository"][n].value : n \in Stored("repository")} \cap Maskable

\* What appendJobLog masks: what resolves now, and nothing when the vault cannot be read.
Masked == IF Resolvable THEN ResolvedValues \cap Maskable ELSE {}

-----------------------------------------------------------------------------
(* The routes *)

\* A PUT is authorised; its body is awaited.
AskPut(s) ==
  /\ s \in vaultAdmin /\ s \notin putting
  /\ putting' = putting \cup {s}
  /\ UNCHANGED <<vault, vaultKey, vaultAdmin, given, jobLog, told, due, withdrawn, rekeyed, cut>>

\* putSecret: a name there is may be replaced whatever the count; a new one must fit.
PutSecret(s, n, v) ==
  /\ s \in putting /\ putting' = putting \ {s}
  /\ vaultKey # NoVaultKey
  /\ n \in Stored(s) \/ Cardinality(Stored(s)) < ScopeLimit
  /\ vault' = [vault EXCEPT ![s][n] = [value |-> v, key |-> vaultKey]]
  /\ withdrawn' = withdrawn \cup (ResolvedValues \ ResolvedValues')
  /\ told' = [told EXCEPT ![s][n] = v]
  /\ UNCHANGED <<vaultKey, vaultAdmin, given, jobLog, due, rekeyed, cut>>

\* 409 at the limit, 503 without a key, or a body that is refused.
PutRefused(s) ==
  /\ s \in putting /\ putting' = putting \ {s}
  /\ UNCHANGED <<vault, vaultKey, vaultAdmin, given, jobLog, told, due, withdrawn, rekeyed, cut>>

\* deleteSecret, in the same turn as its authorisation: a DELETE awaits no body.
DeleteSecret(s, n) ==
  /\ s \in vaultAdmin /\ n \in Stored(s)
  /\ vault' = [vault EXCEPT ![s][n] = NoSecret]
  /\ withdrawn' = withdrawn \cup (ResolvedValues \ ResolvedValues')
  /\ told' = [told EXCEPT ![s][n] = "none"]
  /\ UNCHANGED <<vaultKey, vaultAdmin, putting, given, jobLog, due, rekeyed, cut>>

\* A membership or a grant is taken away, or given (Access).
AdminChanges(s) ==
  /\ vaultAdmin' = (vaultAdmin \ {s}) \cup ({s} \ vaultAdmin)
  /\ UNCHANGED <<vault, vaultKey, putting, given, jobLog, told, due, withdrawn, rekeyed, cut>>

\* The server is started again, perhaps under another key; requests in flight are gone.
RestartVault(k) ==
  /\ vaultKey' = k /\ putting' = {}
  /\ rekeyed' = (rekeyed \/ k # vaultKey)
  /\ UNCHANGED <<vault, vaultAdmin, given, jobLog, told, due, withdrawn, cut>>

VaultRouteNext ==
  \/ \E s \in Scopes : \/ AskPut(s) \/ PutRefused(s) \/ AdminChanges(s)
                       \/ \E n \in SecretNames : DeleteSecret(s, n)
  \/ \E s \in Scopes, n \in SecretNames, v \in SecretValues : PutSecret(s, n, v)

-----------------------------------------------------------------------------
(* The build *)

\* What a claim owes a job: the answered values, the repository's before the organization's.
Owed == {<<n, IF told["repository"][n] # "none" THEN told["repository"][n] ELSE told["organization"][n]>> :
           n \in {m \in SecretNames : \E s \in Scopes : told[s][m] # "none"}}

\* claimJob: the row is claimed first, the secrets resolved after; a fork gets none.
\* When they do not resolve the answer is a 500 and the job runs nowhere.
ClaimBuild(j) ==
  /\ given[j].state = "unclaimed"
  /\ given' = [given EXCEPT ![j] = CASE j \in ForkJobs -> [state |-> "held", secrets |-> {}]
                                     [] j \notin ForkJobs /\ Resolvable -> [state |-> "held", secrets |-> Resolved]
                                     [] OTHER -> [state |-> "lost", secrets |-> {}]]
  /\ due' = [due EXCEPT ![j] = IF j \in ForkJobs THEN {} ELSE Owed]
  /\ UNCHANGED <<vault, vaultKey, vaultAdmin, putting, jobLog, told, withdrawn, rekeyed, cut>>

\* appendJobLog: the build prints one of its values, and masked or not it is stored chunk by
\* chunk. What executeCommand's data events or createLogBuffer's limit cut in two, and what
\* sanitizeLogContent has altered, is no longer the value that maskSecrets looks for.
PrintSecret(j, v, whole) ==
  /\ \E e \in given[j].secrets : e[2] = v
  /\ jobLog' = [jobLog EXCEPT ![j] = @ \cup (IF whole THEN {v} \ Masked ELSE {v})]
  /\ cut' = IF whole \/ v \notin Masked THEN cut ELSE cut \cup {<<j, v>>}
  /\ UNCHANGED <<vault, vaultKey, vaultAdmin, putting, given, told, due, withdrawn, rekeyed>>

VaultBuildNext ==
  \E j \in BuildJobs : \/ ClaimBuild(j)
                       \/ \E v \in SecretValues, whole \in BOOLEAN : PrintSecret(j, v, whole)

VaultNext == \/ VaultRouteNext
             \/ VaultBuildNext
             \/ \E k \in VaultKeys \cup {NoVaultKey} : RestartVault(k)

VaultSpec == VaultInit /\ [][VaultNext]_vaultVars

-----------------------------------------------------------------------------
(* Properties *)

\* resolveSecrets: a job holds what was answered as stored, nearest first, however
\* writes, deletions and restarts fell between; a fork's job holds nothing.
JobsHoldTheirOwn == \A j \in BuildJobs : given[j].state = "held" => given[j].secrets = due[j]

\* appendJobLog: of the values a job was handed, its log shows those too short to mask,
\* those that stopped resolving after a claim, or whose vault lost its key, and those that
\* its own output broke into pieces.
LogShowsNoLiveSecret ==
  \A j \in BuildJobs : \A v \in jobLog[j] :
    v \in Maskable => v \in withdrawn \/ rekeyed \/ <<j, v>> \in cut

\* A secret is handed, kept and hidden as the vault says.
VaultIsKept ==
  /\ JobsHoldTheirOwn /\ LogShowsNoLiveSecret
  /\ \A s \in Scopes : Cardinality(Stored(s)) <= ScopeLimit

\* docs/BUILD_LOGS.md: secret values are replaced before the bytes are stored.
NoSecretInTheLog == \A j \in BuildJobs : jobLog[j] \cap Maskable = {}

-----------------------------------------------------------------------------
(***************************************************************************)
(* Credentials in what is pushed to one repository: the refusal before     *)
(* (src/src/push-protection.mjs, push-protection-hook.mjs and the hook of  *)
(* branch-governance.mjs), the scan after (secret-scanning.mjs, called by  *)
(* the observer server.mjs registers) and the scan of what was there       *)
(* before (secret-backfill.mjs).                                           *)
(*                                                                         *)
(* A tree maps paths to blobs, and a blob is the credential it holds, or   *)
(* Plain.  A push is judged by the hook, moves the ref, and is scanned     *)
(* when its response has finished: between the three, others push.  Only   *)
(* a push over HTTPS gives the hook its environment; only requests of the  *)
(* HTTP server are scanned after.                                          *)
(*                                                                         *)
(* `slipped`, `settledFor`, `ever` and `unscanned` are history variables.  *)
(***************************************************************************)

CONSTANTS
  PushRefs,     \* branches
  FirstTips,    \* the branches there are at first, with their trees
  Trees,        \* trees pushed: functions from paths to blobs
  Vendored,     \* paths under node_modules, dist, vendor and the like
  Examples,     \* paths that look like an example
  Severity,     \* severity of each credential, a function
  Policies,     \* policies an administrator sets
  Pushes,       \* pushes
  LastMinute,   \* bound: the clock, which a bypass outlives by nothing
  BypassFor,    \* minutes a bypass lasts
  FailOpen      \* KUKGIT_SECRET_PUSH_PROTECTION_FAIL_OPEN

Credentials == DOMAIN Severity
Plain == "plain"
Gone == "gone"           \* no file at that path
TreeFiles == UNION {DOMAIN t : t \in Trees}
NoTree == [f \in {} |-> Plain]
Transports == {"https", "ssh", "browser"}

ASSUME ScanningAssumption ==
  /\ LastMinute \in Nat /\ BypassFor \in Nat /\ FailOpen \in BOOLEAN
  /\ FirstTips \in [PushRefs -> Trees \cup {NoTree}]
  /\ \A t \in Trees : t \in [TreeFiles -> Credentials \cup {Plain, Gone}]
  /\ {Plain, Gone} \cap Credentials = {}

VARIABLES
  branchTip,   \* the tree at the head of each branch
  protection,  \* secret_push_protection: whether enabled, the severities it stops, examples let through
  bypasses,    \* secret_push_bypasses: until when by credential, 0 for none, and whether used
  found,       \* secret_scan_findings: the status of each credential at each path
  pushed,      \* each push: how far it is, what it saw
  minute,      \* the clock
  backfill,    \* the scan of current trees: branches left, blobs seen, tips read
  slipped,     \* credentials a judged push brought to a path past policy and bypasses
  settledFor,  \* findings an administrator has resolved
  ever,        \* credentials any branch ever pointed at
  unscanned    \* findings no scan was to follow: there at first, or landed without one

scanVars == <<branchTip, protection, bypasses, found, pushed, minute, backfill, slipped, settledFor, ever, unscanned>>

Waiting == [at |-> "waiting", ref |-> "none", by |-> "none", tree |-> NoTree, old |-> NoTree,
            snapshot |-> [r \in PushRefs |-> NoTree]]
Over == [Waiting EXCEPT !.at = "over"]
PolicyDefault == [on |-> FALSE, stops |-> {"critical", "high"}, examples |-> TRUE]
NoScan == [at |-> "idle", left |-> {}, seen |-> {}, tips |-> [r \in PushRefs |-> NoTree]]

\* scanFiles: the credentials at these paths, vendored ones left out.
Found(tree, files) == {<<tree[f], f>> : f \in {g \in files \ Vendored : tree[g] \in Credentials}}

ScanInit ==
  /\ branchTip = FirstTips
  /\ protection = PolicyDefault
  /\ bypasses = [c \in Credentials |-> [until |-> 0, used |-> FALSE]]
  /\ found = [e \in Credentials \X TreeFiles |-> "none"]
  /\ pushed = [p \in Pushes |-> Waiting]
  /\ minute = 1
  /\ backfill = NoScan
  /\ slipped = {} /\ settledFor = {}
  /\ ever = {c \in Credentials : \E r \in PushRefs : \E f \in DOMAIN branchTip[r] : branchTip[r][f] = c}
  /\ unscanned = UNION {Found(branchTip[r], DOMAIN branchTip[r]) : r \in PushRefs}

-----------------------------------------------------------------------------
(* What a scan sees                                                        *)

\* git diff of two trees, --diff-filter=ACMR: the paths that are new or changed.
Changed(old, new) == {f \in TreeFiles : new[f] # old[f] /\ new[f] # Gone}

\* Without an old commit the hook and the observer both name the new one alone, which
\* git compares with a work tree, and a bare repository has none.
DiffFails(old) == old = NoTree

Live(c) == bypasses[c].until > minute

\* evaluatePush.
Blocking(findings) ==
  {e \in findings : /\ Severity[e[1]] \in protection.stops
                    /\ ~(protection.examples /\ e[2] \in Examples)
                    /\ ~Live(e[1])}

-----------------------------------------------------------------------------
(* A push *)

\* The request is taken: over HTTP the observer's snapshot of every ref first.
StartPush(p, r, t, by) ==
  /\ pushed[p].at = "waiting" /\ t # branchTip[r]
  /\ pushed' = [pushed EXCEPT ![p] = [at |-> "hook", ref |-> r, by |-> by, tree |-> t, old |-> branchTip[r],
                                      snapshot |-> branchTip]]
  /\ UNCHANGED <<branchTip, protection, bypasses, found, minute, backfill, slipped, settledFor, ever, unscanned>>

\* runPushProtection, for a push whose environment names the database: off, it asks nothing.
Judge(p) ==
  LET push == pushed[p]
      asks == push.by = "https" /\ protection.on
      new == IF DiffFails(push.old) THEN {} ELSE Found(push.tree, Changed(push.old, push.tree))
      refuses == asks /\ (IF DiffFails(push.old) THEN ~FailOpen ELSE Blocking(new) # {})
  IN /\ push.at = "hook"
     /\ pushed' = [pushed EXCEPT ![p].at = IF refuses THEN "refused" ELSE "accepted"]
     /\ slipped' = IF asks /\ ~refuses
                   THEN slipped \cup {e \in new : Severity[e[1]] \in protection.stops /\ e[2] \notin Examples
                                                  /\ bypasses[e[1]].until <= minute}
                   ELSE slipped
     /\ UNCHANGED <<branchTip, protection, bypasses, found, minute, backfill, settledFor, ever, unscanned>>

\* Git moves the ref, if it is still where the push found it.
Land(p) ==
  LET push == pushed[p]
  IN /\ push.at = "accepted"
     /\ IF branchTip[push.ref] = push.old
        THEN /\ branchTip' = [branchTip EXCEPT ![push.ref] = push.tree]
             /\ ever' = ever \cup {c \in Credentials : \E f \in TreeFiles : push.tree[f] = c}
             /\ pushed' = [pushed EXCEPT ![p] = IF push.by = "ssh" THEN Over ELSE [push EXCEPT !.at = "finishing"]]
             /\ unscanned' = IF push.by = "ssh" \/ DiffFails(push.old)
                              THEN unscanned \cup Found(push.tree, TreeFiles) ELSE unscanned
        ELSE /\ pushed' = [pushed EXCEPT ![p] = Over]
             /\ UNCHANGED <<branchTip, ever, unscanned>>
     /\ UNCHANGED <<protection, bypasses, found, minute, backfill, slipped, settledFor>>

\* As below, a finding opened again each time it is seen.
RecordedAnew(old, new) == [k \in DOMAIN old |-> IF k \in new THEN "open" ELSE old[k]]

\* recordFindings: a row there is keeps its status.
Recorded(old, new) == [k \in DOMAIN old |-> IF k \in new /\ old[k] = "none" THEN "open" ELSE old[k]]

\* The observer of a finished response: scanPushedContent over every ref that moved since
\* the snapshot, whoever moved it, and markBypassesUsed for all that was found.
ScanAfterPush(p) ==
  LET push == pushed[p]
      moved == {r \in PushRefs : branchTip[r] # push.snapshot[r] /\ ~DiffFails(push.snapshot[r])}
      new == UNION {Found(branchTip[r], Changed(push.snapshot[r], branchTip[r])) : r \in moved}
  IN /\ push.at = "finishing"
     /\ found' = Recorded(found, new)
     /\ bypasses' = [c \in Credentials |->
                       [bypasses[c] EXCEPT !.used = @ \/ (bypasses[c].until > 0 /\ \E f \in TreeFiles : <<c, f>> \in new)]]
     /\ pushed' = [pushed EXCEPT ![p].at = "scanned"]
     /\ UNCHANGED <<branchTip, protection, minute, backfill, slipped, settledFor, ever, unscanned>>

\* The process dies, with every request it had: what landed is not scanned.
ScannerDies ==
  /\ \E p \in Pushes : pushed[p].at \in {"hook", "accepted", "finishing"}
  /\ pushed' = [p \in Pushes |-> IF pushed[p].at \in {"hook", "accepted", "finishing"}
                                 THEN Over ELSE pushed[p]]
  /\ unscanned' = unscanned \cup UNION {Found(pushed[p].tree, TreeFiles) :
                                          p \in {q \in Pushes : pushed[q].at = "finishing"}}
  /\ UNCHANGED <<branchTip, protection, bypasses, found, minute, backfill, slipped, settledFor, ever>>

PushNext == \/ \E p \in Pushes : \/ Judge(p) \/ Land(p) \/ ScanAfterPush(p)
                                 \/ \E r \in PushRefs, t \in Trees, by \in Transports : StartPush(p, r, t, by)
            \/ ScannerDies

-----------------------------------------------------------------------------
(* What administrators do, and the clock                                   *)

\* setPushProtectionPolicy.
SetProtection(policy) ==
  /\ protection' = policy /\ policy # protection
  /\ UNCHANGED <<branchTip, bypasses, found, pushed, minute, backfill, slipped, settledFor, ever, unscanned>>

\* createBypass: one more row; the credential is let through until the last of them expires.
Bypass(c) ==
  /\ bypasses[c].until <= minute
  /\ bypasses' = [bypasses EXCEPT ![c] = [until |-> minute + BypassFor, used |-> FALSE]]
  /\ UNCHANGED <<branchTip, protection, found, pushed, minute, backfill, slipped, settledFor, ever, unscanned>>

ProtectionNext == \/ \E policy \in Policies : SetProtection(policy)
                  \/ \E c \in Credentials : Bypass(c)

\* resolveFinding, of a finding there is.
Resolve(c, f) ==
  /\ found[<<c, f>>] # "none"
  /\ found' = [found EXCEPT ![<<c, f>>] = "resolved"]
  /\ settledFor' = settledFor \cup {<<c, f>>}
  /\ UNCHANGED <<branchTip, protection, bypasses, pushed, minute, backfill, slipped, ever, unscanned>>

ResolveNext == \E c \in Credentials, f \in TreeFiles : Resolve(c, f)

Minute ==
  /\ minute < LastMinute /\ minute' = minute + 1
  /\ UNCHANGED <<branchTip, protection, bypasses, found, pushed, backfill, slipped, settledFor, ever, unscanned>>

-----------------------------------------------------------------------------
(* The scan of current trees                                               *)

StartBackfill ==
  /\ backfill.at = "idle"
  /\ backfill' = [NoScan EXCEPT !.at = "scanning", !.left = {r \in PushRefs : branchTip[r] # NoTree}]
  /\ UNCHANGED <<branchTip, protection, bypasses, found, pushed, minute, slipped, settledFor, ever, unscanned>>

\* One branch of scanCurrentTrees.  A blob already read is passed over, under whatever path it
\* was read; of the paths that share it, `first` says which ls-tree names first.
ScanBranch(r, first) ==
  LET tree == branchTip[r]
      fresh == {tree[f] : f \in {g \in TreeFiles : tree[g] # Gone}} \ backfill.seen
  IN /\ backfill.at = "scanning" /\ r \in backfill.left
     /\ \A b \in fresh : tree[first[b]] = b
     /\ found' = Recorded(found, Found(tree, {first[b] : b \in fresh}))
     /\ backfill' = [backfill EXCEPT !.left = @ \ {r}, !.seen = @ \cup fresh, !.tips[r] = tree,
                                     !.at = IF backfill.left = {r} THEN "done" ELSE @]
     /\ UNCHANGED <<branchTip, protection, bypasses, pushed, minute, slipped, settledFor, ever, unscanned>>

\* Killed, it is run again from the start.
BackfillDies ==
  /\ backfill.at = "scanning" /\ backfill' = NoScan
  /\ UNCHANGED <<branchTip, protection, bypasses, found, pushed, minute, slipped, settledFor, ever, unscanned>>

BackfillNext == \/ StartBackfill \/ BackfillDies
                \/ \E r \in PushRefs, first \in [Credentials \cup {Plain} -> TreeFiles] : ScanBranch(r, first)

ScanNext == PushNext \/ ProtectionNext \/ ResolveNext \/ Minute \/ BackfillNext

ScanSpec == ScanInit /\ [][ScanNext]_scanVars

-----------------------------------------------------------------------------
(* Properties *)

\* recordFindings: what an administrator has resolved no push and no scan opens again.
ResolvedStaysResolved == \A e \in settledFor : found[e] = "resolved"

\* markBypassesUsed: a bypass marked used let something in that has been on a branch.
UsedWasPushed == \A c \in Credentials : bypasses[c].used => c \in ever

\* scanPushedContent: a credential that stands on a branch is a finding, however many
\* pushes went on beside the one that brought it, unless that push is about to be scanned
\* or no scan was to follow: over SSH, on a new branch, before a death, or before all pushes.
\* A push here is within SCAN_LIMITS (3000 files, 1 MiB a file, 500 findings): beyond them the
\* code leaves the rest unread or unrecorded and says so.
StandingIsFound ==
  \A r \in PushRefs : \A e \in Found(branchTip[r], DOMAIN branchTip[r]) :
    \/ found[e] # "none" \/ e \in unscanned
    \/ \E p \in Pushes : /\ pushed[p].at = "finishing" /\ pushed[p].ref = r
                          /\ ~DiffFails(pushed[p].old) /\ e \in Found(pushed[p].tree, Changed(pushed[p].old, pushed[p].tree))

\* scanCurrentTrees: a credential on a tip the scan has read is a finding at some path, unless
\* the same blob lies under a vendored path too and was read there.
ScannedIsFound ==
  backfill.at = "done" =>
    \A r \in PushRefs : \A f \in DOMAIN backfill.tips[r] \ Vendored :
      LET b == backfill.tips[r][f]
          hidden == \E q \in PushRefs : \E g \in Vendored \cap DOMAIN backfill.tips[q] : backfill.tips[q][g] = b
      IN b \in Credentials => hidden \/ \E g \in TreeFiles : found[<<b, g>>] # "none"

\* runPushProtection: where it is asked, no credential it stops gets past it without a bypass of the moment.
NothingSlips == slipped = {}

\* Credentials are stopped, found and settled as the scanner says.
ScanningSound ==
  ResolvedStaysResolved /\ UsedWasPushed /\ StandingIsFound /\ ScannedIsFound /\ NothingSlips

\* docs/PUSH_PROTECTION.md: the hook scans what the push introduces, and refuses credentials.
OnlyCredentialsRefused ==
  \A p \in Pushes : pushed[p].at = "refused" => \E f \in TreeFiles : pushed[p].tree[f] \in Credentials
=============================================================================

--------------------------- MODULE DevelopmentProofs ---------------------------
(***************************************************************************)
(* What reaches a branch, what is started for it, a build and its log:     *)
(* proofs about the two sides of Secrets, about MergeGovernance and about  *)
(* the two sides of WorkflowStart, for any number of secrets, jobs,        *)
(* pushes, branches, credentials, reviewers, commits, requests and files.  *)
(* They share no variable; each has its own invariant and its own part.    *)
(***************************************************************************)
EXTENDS MCDevelopment, Integers, FiniteSetTheorems, SequenceTheorems, WellFoundedInduction, TLAPS

(***************************************************************************)
(* The vault: a row is what was answered as stored, and opens until the    *)
(* server has been given another key.                                      *)
(***************************************************************************)
SecretRow == [value : SecretValues \cup {"none"}, key : VaultKeys \cup {NoVaultKey}]
Handed == [state : {"unclaimed", "held", "lost"}, secrets : SUBSET (SecretNames \X SecretValues)]

VaultType ==
  /\ vault \in [Scopes -> [SecretNames -> SecretRow]] /\ vaultKey \in VaultKeys \cup {NoVaultKey}
  /\ told \in [Scopes -> [SecretNames -> SecretValues \cup {"none"}]]
  /\ given \in [BuildJobs -> Handed] /\ jobLog \in [BuildJobs -> SUBSET SecretValues]
  /\ due \in [BuildJobs -> SUBSET (SecretNames \X SecretValues)] /\ rekeyed \in BOOLEAN

\* A row holds what the last answer said, and there is none where nothing was answered.
RowsAreTold ==
  \A s \in Scopes, n \in SecretNames :
    /\ vault[s][n].value = told[s][n]
    /\ vault[s][n] = NoSecret <=> told[s][n] = "none"

\* Every row opens until the key is another.
RowsOpen == ~rekeyed => Resolvable

\* A value handed to a job resolves now, or did and was replaced, deleted or shadowed.
HandedAreKnown == \A j \in BuildJobs : \A e \in given[j].secrets : e[2] \in ResolvedValues \cup withdrawn

VaultInv == VaultType /\ RowsAreTold /\ RowsOpen /\ HandedAreKnown /\ VaultIsKept

LEMMA StoredIsTold ==
  ASSUME RowsAreTold
  PROVE  \A s \in Scopes, n \in SecretNames : n \in Stored(s) <=> told[s][n] # "none"
BY DEF RowsAreTold, Stored

LEMMA ScopesAreTwo == \A s : s \in Scopes <=> s = "organization" \/ s = "repository"
BY DEF Scopes

\* What resolves is what is owed, and each value of it is a value.
LEMMA ResolvedIsOwed ==
  ASSUME VaultType, RowsAreTold
  PROVE  Resolved = Owed /\ Resolved \subseteq SecretNames \X SecretValues
<1>1. UNION {Stored(s) : s \in Scopes} = {m \in SecretNames : \E s \in Scopes : told[s][m] # "none"}
  BY StoredIsTold DEF Stored
<1>2. \A n \in SecretNames :
        vault[Nearest(n)][n].value = IF told["repository"][n] # "none" THEN told["repository"][n] ELSE told["organization"][n]
  BY StoredIsTold, ScopesAreTwo DEF Nearest, RowsAreTold
<1>3. Resolved = Owed
  BY <1>1, <1>2 DEF Resolved, Owed
<1>4. ASSUME NEW e \in Owed PROVE e \in SecretNames \X SecretValues
  <2>1. PICK n \in SecretNames :
          /\ \E s \in Scopes : told[s][n] # "none"
          /\ e = <<n, IF told["repository"][n] # "none" THEN told["repository"][n] ELSE told["organization"][n]>>
    BY <1>4 DEF Owed
  <2>2. \A s \in Scopes : told[s][n] \in SecretValues \cup {"none"}
    BY DEF VaultType
  <2>3. (IF told["repository"][n] # "none" THEN told["repository"][n] ELSE told["organization"][n]) \in SecretValues
    BY <2>1, <2>2, ScopesAreTwo
  <2> QED BY <2>1, <2>3
<1> QED BY <1>3, <1>4

LEMMA VaultStarts == VaultInit => VaultInv
<1> SUFFICES ASSUME VaultInit PROVE VaultInv
  OBVIOUS
<1>1. VaultType
  BY DEF VaultInit, VaultType, SecretRow, NoSecret, Handed
<1>2. \A s \in Scopes, n \in SecretNames : vault[s][n] = NoSecret /\ told[s][n] = "none"
  BY DEF VaultInit
<1>3. \A s \in Scopes : Stored(s) = {}
  BY <1>2 DEF Stored
<1>4. RowsAreTold /\ RowsOpen
  BY <1>2, <1>3 DEF RowsAreTold, RowsOpen, Resolvable, NoSecret
<1>5. \A j \in BuildJobs : given[j].state = "unclaimed" /\ given[j].secrets = {} /\ jobLog[j] = {}
  BY DEF VaultInit
<1>6. \A s \in Scopes : Cardinality(Stored(s)) <= ScopeLimit
  BY <1>3, FS_EmptySet, VaultAssumption
<1> QED BY <1>1, <1>4, <1>5, <1>6 DEF VaultInv, HandedAreKnown, VaultIsKept, JobsHoldTheirOwn, LogShowsNoLiveSecret

\* The routes write one row, and what resolved and does not any more is withdrawn.
LEMMA OneSecret ==
  ASSUME VaultInv, NEW s \in Scopes, NEW n \in SecretNames, NEW row \in SecretRow, NEW v \in SecretValues \cup {"none"},
         row.value = v, row = NoSecret <=> v = "none", row # NoSecret => row.key = vaultKey,
         n \in Stored(s) \/ Cardinality(Stored(s)) < ScopeLimit,
         vault' = [vault EXCEPT ![s][n] = row], told' = [told EXCEPT ![s][n] = v],
         withdrawn' = withdrawn \cup (ResolvedValues \ ResolvedValues'),
         UNCHANGED <<vaultKey, given, jobLog, due, rekeyed, cut>>
  PROVE  VaultInv'
<1>1. /\ vault' \in [Scopes -> [SecretNames -> SecretRow]]
      /\ told' \in [Scopes -> [SecretNames -> SecretValues \cup {"none"}]]
  BY DEF VaultInv, VaultType
<1>2. /\ vault'[s][n] = row /\ told'[s][n] = v
      /\ \A t \in Scopes, m \in SecretNames : <<t, m>> # <<s, n>> => vault'[t][m] = vault[t][m] /\ told'[t][m] = told[t][m]
  BY DEF VaultInv, VaultType
<1>3. VaultType'
  BY <1>1 DEF VaultInv, VaultType
<1>4. RowsAreTold'
  BY <1>2 DEF VaultInv, RowsAreTold
<1>5. RowsOpen'
  BY <1>2 DEF VaultInv, RowsOpen, Resolvable, Stored, Opens
<1>6. HandedAreKnown'
  BY DEF VaultInv, HandedAreKnown
<1>7. JobsHoldTheirOwn' /\ LogShowsNoLiveSecret'
  BY DEF VaultInv, VaultIsKept, JobsHoldTheirOwn, LogShowsNoLiveSecret
<1>8. \A t \in Scopes : Cardinality(Stored(t)') <= ScopeLimit
  <2> SUFFICES ASSUME NEW t \in Scopes PROVE Cardinality(Stored(t)') <= ScopeLimit
    OBVIOUS
  <2>1. /\ IsFiniteSet(Stored(t)) /\ Cardinality(Stored(t)) <= ScopeLimit
        /\ Cardinality(Stored(t)) \in Nat /\ ScopeLimit \in Nat
    BY FS_Subset, FS_CardinalityType, VaultAssumption DEF Stored, VaultInv, VaultIsKept
  <2>2. Stored(t)' \subseteq Stored(t) \/ (t = s /\ n \notin Stored(s) /\ Stored(t)' = Stored(t) \cup {n})
    BY <1>2 DEF Stored
  <2>3. CASE Stored(t)' \subseteq Stored(t)
    <3>1. Cardinality(Stored(t)') <= Cardinality(Stored(t)) /\ Cardinality(Stored(t)') \in Nat
      BY <2>1, <2>3, FS_Subset, FS_CardinalityType
    <3> QED BY <2>1, <3>1
  <2>4. CASE t = s /\ n \notin Stored(s) /\ Stored(t)' = Stored(t) \cup {n}
    <3>1. Cardinality(Stored(t) \cup {n}) = Cardinality(Stored(t)) + 1
      BY <2>1, <2>4, FS_AddElement
    <3>2. Cardinality(Stored(t)) < ScopeLimit
      BY <2>4
    <3>3. Cardinality(Stored(t)') = Cardinality(Stored(t)) + 1
      BY <2>4, <3>1
    <3> QED BY <2>1, <3>2, <3>3
  <2> QED BY <2>2, <2>3, <2>4
<1> QED BY <1>3, <1>4, <1>5, <1>6, <1>7, <1>8 DEF VaultInv, VaultIsKept

LEMMA PutSecretOK ==
  ASSUME VaultInv, NEW s \in Scopes, NEW n \in SecretNames, NEW v \in SecretValues, PutSecret(s, n, v)
  PROVE  VaultInv'
<1> DEFINE row == [value |-> v, key |-> vaultKey]
<1>1. row \in SecretRow /\ row.value = v /\ row.key = vaultKey /\ row # NoSecret /\ v # "none"
  BY VaultAssumption DEF SecretRow, NoSecret, VaultInv, VaultType, PutSecret
<1>2. /\ vault' = [vault EXCEPT ![s][n] = row] /\ told' = [told EXCEPT ![s][n] = v]
      /\ n \in Stored(s) \/ Cardinality(Stored(s)) < ScopeLimit
      /\ withdrawn' = withdrawn \cup (ResolvedValues \ ResolvedValues')
      /\ UNCHANGED <<vaultKey, given, jobLog, due, rekeyed, cut>>
  BY DEF PutSecret
<1> HIDE DEF row
<1> QED BY <1>1, <1>2, OneSecret

LEMMA DeleteSecretOK ==
  ASSUME VaultInv, NEW s \in Scopes, NEW n \in SecretNames, DeleteSecret(s, n)
  PROVE  VaultInv'
<1>1. NoSecret \in SecretRow /\ NoSecret.value = "none"
  BY DEF SecretRow, NoSecret
<1>2. /\ vault' = [vault EXCEPT ![s][n] = NoSecret] /\ told' = [told EXCEPT ![s][n] = "none"] /\ n \in Stored(s)
      /\ withdrawn' = withdrawn \cup (ResolvedValues \ ResolvedValues')
      /\ UNCHANGED <<vaultKey, given, jobLog, due, rekeyed, cut>>
  BY DEF DeleteSecret
<1> QED BY <1>1, <1>2, OneSecret

\* Steps that leave the rows and the builds alone.
LEMMA RowsStand ==
  ASSUME VaultInv, UNCHANGED <<vault, told, given, jobLog, due, withdrawn, cut>>,
         vaultKey' \in VaultKeys \cup {NoVaultKey}, rekeyed' \in BOOLEAN, rekeyed => rekeyed', ~rekeyed' => vaultKey' = vaultKey
  PROVE  VaultInv'
<1>1. /\ \A s : Stored(s)' = Stored(s)
      /\ ResolvedValues' = ResolvedValues
  BY DEF Stored, ResolvedValues, Resolved, Nearest
<1>2. VaultType' /\ RowsAreTold' /\ HandedAreKnown'
  BY <1>1 DEF VaultInv, VaultType, RowsAreTold, HandedAreKnown
<1>3. RowsOpen'
  BY <1>1 DEF VaultInv, RowsOpen, Resolvable, Opens
<1>4. VaultIsKept'
  BY <1>1 DEF VaultInv, VaultIsKept, JobsHoldTheirOwn, LogShowsNoLiveSecret
<1> QED BY <1>2, <1>3, <1>4 DEF VaultInv

LEMMA ClaimBuildOK ==
  ASSUME VaultInv, NEW j \in BuildJobs, ClaimBuild(j)
  PROVE  VaultInv'
<1>1. UNCHANGED <<vault, vaultKey, jobLog, told, withdrawn, rekeyed, cut>>
  BY DEF ClaimBuild
<1>2. /\ \A s : Stored(s)' = Stored(s)
      /\ ResolvedValues' = ResolvedValues /\ Resolvable' = Resolvable
  BY <1>1 DEF Stored, ResolvedValues, Resolved, Nearest, Resolvable, Opens
<1>3. Resolved = Owed /\ Resolved \subseteq SecretNames \X SecretValues
  BY ResolvedIsOwed DEF VaultInv
<1>4. PICK x \in Handed, d \in SUBSET (SecretNames \X SecretValues) :
        /\ given' = [given EXCEPT ![j] = x] /\ due' = [due EXCEPT ![j] = d]
        /\ x.state = "held" => x.secrets = d
        /\ x.secrets = {} \/ x.secrets = Resolved
  <2>1. CASE j \in ForkJobs
    <3>1. [state |-> "held", secrets |-> {}] \in Handed
      BY DEF Handed
    <3> QED BY <2>1, <3>1 DEF ClaimBuild
  <2>2. CASE j \notin ForkJobs /\ Resolvable
    <3>1. [state |-> "held", secrets |-> Resolved] \in Handed
      BY <1>3 DEF Handed
    <3> QED BY <1>3, <2>2, <3>1 DEF ClaimBuild
  <2>3. CASE j \notin ForkJobs /\ ~Resolvable
    <3>1. [state |-> "lost", secrets |-> {}] \in Handed
      BY DEF Handed
    <3> QED BY <1>3, <2>3, <3>1 DEF ClaimBuild
  <2> QED BY <2>1, <2>2, <2>3
<1>5. VaultType' /\ RowsAreTold' /\ RowsOpen'
  BY <1>1, <1>2, <1>4 DEF VaultInv, VaultType, RowsAreTold, RowsOpen
<1>6. /\ given'[j] = x /\ due'[j] = d
      /\ \A i \in BuildJobs \ {j} : given'[i] = given[i] /\ due'[i] = due[i]
  BY <1>4 DEF VaultInv, VaultType
<1>7. HandedAreKnown'
  BY <1>1, <1>2, <1>4, <1>6 DEF VaultInv, HandedAreKnown, ResolvedValues
<1>8. VaultIsKept'
  BY <1>1, <1>2, <1>4, <1>6 DEF VaultInv, VaultIsKept, JobsHoldTheirOwn, LogShowsNoLiveSecret
<1> QED BY <1>5, <1>7, <1>8 DEF VaultInv

LEMMA PrintOK ==
  ASSUME VaultInv, NEW j \in BuildJobs, NEW v \in SecretValues, NEW whole \in BOOLEAN, PrintSecret(j, v, whole)
  PROVE  VaultInv'
<1>1. /\ UNCHANGED <<vault, vaultKey, given, told, due, withdrawn, rekeyed>> /\ cut \subseteq cut'
      /\ jobLog' = [jobLog EXCEPT ![j] = @ \cup (IF whole THEN {v} \ Masked ELSE {v})]
  BY DEF PrintSecret
<1>2. /\ \A s : Stored(s)' = Stored(s)
      /\ ResolvedValues' = ResolvedValues /\ Resolvable' = Resolvable
  BY <1>1 DEF Stored, ResolvedValues, Resolved, Nearest, Resolvable, Opens
<1>3. VaultType' /\ RowsAreTold' /\ RowsOpen' /\ HandedAreKnown' /\ JobsHoldTheirOwn'
  BY <1>1, <1>2 DEF VaultInv, VaultType, RowsAreTold, RowsOpen, HandedAreKnown, VaultIsKept, JobsHoldTheirOwn
<1>4. v \in ResolvedValues \cup withdrawn
  BY DEF PrintSecret, VaultInv, HandedAreKnown
<1>5. v \in Maskable /\ v \notin Masked => v \in withdrawn \/ rekeyed
  BY <1>4 DEF Masked, VaultInv, RowsOpen
<1>6. v \in jobLog'[j] \ jobLog[j] /\ v \in Maskable => v \in withdrawn \/ rekeyed \/ <<j, v>> \in cut'
  <2>1. CASE v \in Masked /\ whole
    BY <1>1, <2>1 DEF VaultInv, VaultType
  <2>2. CASE v \in Masked /\ ~whole
    BY <2>2 DEF PrintSecret
  <2> QED BY <1>5, <2>1, <2>2
<1>7. \A i \in BuildJobs, w \in SecretValues : w \in jobLog'[i] => w \in jobLog[i] \/ (i = j /\ w = v)
  BY <1>1 DEF VaultInv, VaultType
<1>8. LogShowsNoLiveSecret'
  BY <1>1, <1>3, <1>6, <1>7 DEF VaultInv, VaultType, VaultIsKept, LogShowsNoLiveSecret
<1> QED BY <1>2, <1>3, <1>8 DEF VaultInv, VaultIsKept

LEMMA VaultStep == VaultInv /\ [VaultNext]_vaultVars => VaultInv'
<1> SUFFICES ASSUME VaultInv, [VaultNext]_vaultVars PROVE VaultInv'
  OBVIOUS
<1>1. ASSUME NEW s \in Scopes, AskPut(s) \/ PutRefused(s) \/ AdminChanges(s) PROVE VaultInv'
  <2>1. UNCHANGED <<vault, vaultKey, told, given, jobLog, due, withdrawn, rekeyed, cut>>
    BY <1>1 DEF AskPut, PutRefused, AdminChanges
  <2> QED BY <2>1, RowsStand DEF VaultInv, VaultType
<1>2. ASSUME NEW s \in Scopes, NEW n \in SecretNames, DeleteSecret(s, n) PROVE VaultInv'
  BY <1>2, DeleteSecretOK
<1>3. ASSUME NEW s \in Scopes, NEW n \in SecretNames, NEW v \in SecretValues, PutSecret(s, n, v) PROVE VaultInv'
  BY <1>3, PutSecretOK
<1>4. ASSUME NEW j \in BuildJobs, ClaimBuild(j) \/ \E v \in SecretValues, whole \in BOOLEAN : PrintSecret(j, v, whole) PROVE VaultInv'
  BY <1>4, ClaimBuildOK, PrintOK
<1>5. ASSUME NEW k \in VaultKeys \cup {NoVaultKey}, RestartVault(k) PROVE VaultInv'
  <2>1. rekeyed' \in BOOLEAN
    BY <1>5 DEF RestartVault, VaultInv, VaultType
  <2> QED BY <1>5, <2>1, RowsStand DEF RestartVault
<1>6. CASE UNCHANGED vaultVars
  BY <1>6, RowsStand DEF vaultVars, VaultInv, VaultType
<1> QED BY <1>1, <1>2, <1>3, <1>4, <1>5, <1>6 DEF VaultNext, VaultRouteNext, VaultBuildNext

\* A job holds the secrets that were answered as stored, nearest first, and a fork's job
\* none; a log shows no value long enough to mask unless it stopped resolving, the vault
\* lost its key, or the output brought it in pieces; a scope stays within its limit (secrets-vault.mjs, workflow-logs.mjs).
THEOREM VaultHolds == VaultSpec => []VaultIsKept
<1>1. VaultInv => VaultIsKept
  BY DEF VaultInv
<1> QED BY <1>1, VaultStarts, VaultStep, PTL DEF VaultSpec

(***************************************************************************)
(* Scanning: whoever brings a credential to a branch answers for it until  *)
(* its push is scanned; a scan of the trees answers for what it has read.  *)
(***************************************************************************)
FullTree == [TreeFiles -> Credentials \cup {Plain, Gone}]
AnyTree == FullTree \cup {NoTree}
PushRow ==
  [at : {"waiting", "hook", "accepted", "refused", "finishing", "scanned", "over"}, ref : PushRefs \cup {"none"},
   by : Transports \cup {"none"}, tree : AnyTree, old : AnyTree, snapshot : [PushRefs -> AnyTree]]
Backfill ==
  [at : {"idle", "scanning", "done"}, left : SUBSET PushRefs, seen : SUBSET (Credentials \cup {Plain}),
   tips : [PushRefs -> AnyTree]]
Statuses == [Credentials \X TreeFiles -> {"none", "open", "resolved"}]

ScanType ==
  /\ branchTip \in [PushRefs -> AnyTree] /\ bypasses \in [Credentials -> [until : Nat, used : BOOLEAN]]
  /\ found \in Statuses /\ pushed \in [Pushes -> PushRow] /\ minute \in Nat /\ backfill \in Backfill
  /\ settledFor \subseteq Credentials \X TreeFiles

\* A push under way knows its branch, and its snapshot says what it was to replace; a
\* branch that was there stays.
PushesMade ==
  \A p \in Pushes :
    /\ pushed[p].at \in {"hook", "accepted", "finishing"} =>
         pushed[p].ref \in PushRefs /\ pushed[p].tree \in FullTree /\ pushed[p].old = pushed[p].snapshot[pushed[p].ref]
    /\ \A r \in PushRefs : pushed[p].snapshot[r] # NoTree => branchTip[r] \in FullTree

\* Whatever is on a branch has been on one.
TipsAreKnown == \A r \in PushRefs : \A f \in DOMAIN branchTip[r] : branchTip[r][f] \in Credentials => branchTip[r][f] \in ever

\* What the scan of the trees has read, it has seen; and what it has seen is a finding
\* or lies under a vendored path it has read.
Hidden(b) == \E q \in PushRefs : \E g \in Vendored \cap DOMAIN backfill.tips[q] : backfill.tips[q][g] = b
BackfillIsTrue ==
  /\ \A r \in backfill.left : branchTip[r] \in FullTree /\ backfill.tips[r] = NoTree
  /\ \A r \in PushRefs : \A f \in DOMAIN backfill.tips[r] : backfill.tips[r][f] # Gone => backfill.tips[r][f] \in backfill.seen
  /\ \A b \in backfill.seen \cap Credentials : Hidden(b) \/ \E g \in TreeFiles : found[<<b, g>>] # "none"

ScanInv ==
  /\ ScanType /\ PushesMade /\ TipsAreKnown /\ BackfillIsTrue
  /\ ResolvedStaysResolved /\ UsedWasPushed /\ StandingIsFound /\ NothingSlips

LEMMA FoundIs ==
  \A tree, files, e : e \in Found(tree, files) <=> \E f \in files \ Vendored : tree[f] \in Credentials /\ e = <<tree[f], f>>
BY DEF Found

LEMMA NoTreeIsEmpty == DOMAIN NoTree = {} /\ \A t \in FullTree : DOMAIN t = TreeFiles
BY DEF NoTree, FullTree

LEMMA ScanFollows == ScanInv => ScanningSound
<1> SUFFICES ASSUME ScanInv PROVE ScannedIsFound
  BY DEF ScanInv, ScanningSound
<1> SUFFICES ASSUME NEW r \in PushRefs, NEW f \in DOMAIN backfill.tips[r] \ Vendored, backfill.tips[r][f] \in Credentials
             PROVE  Hidden(backfill.tips[r][f]) \/ \E g \in TreeFiles : found[<<backfill.tips[r][f], g>>] # "none"
  BY DEF ScannedIsFound, Hidden
<1>1. backfill.tips[r][f] # Gone
  BY ScanningAssumption
<1>2. backfill.tips[r][f] \in backfill.seen
  BY <1>1 DEF ScanInv, BackfillIsTrue
<1> QED BY <1>2 DEF ScanInv, BackfillIsTrue

LEMMA ScanStarts == ScanInit => ScanInv
<1> SUFFICES ASSUME ScanInit PROVE ScanInv
  OBVIOUS
<1>1. branchTip \in [PushRefs -> AnyTree]
  BY ScanningAssumption DEF ScanInit, AnyTree, FullTree
<1>2. Waiting \in PushRow
  BY DEF Waiting, PushRow, AnyTree
<1>3. NoScan \in Backfill
  BY DEF NoScan, Backfill, AnyTree
<1>4. ScanType
  BY <1>1, <1>2, <1>3 DEF ScanInit, ScanType, Statuses
<1>5. PushesMade
  BY DEF ScanInit, PushesMade, Waiting
<1>6. TipsAreKnown
  BY DEF ScanInit, TipsAreKnown
<1>7. BackfillIsTrue
  BY NoTreeIsEmpty DEF ScanInit, BackfillIsTrue, NoScan
<1>8. ResolvedStaysResolved /\ UsedWasPushed /\ NothingSlips
  BY DEF ScanInit, ResolvedStaysResolved, UsedWasPushed, NothingSlips
<1>9. StandingIsFound
  BY DEF ScanInit, StandingIsFound
<1> QED BY <1>4, <1>5, <1>6, <1>7, <1>8, <1>9 DEF ScanInv

\* A finding that is there is never taken away.
Grows == found' \in Statuses /\ \A e \in Credentials \X TreeFiles : found[e] # "none" => found'[e] # "none"

LEMMA RecordedGrows ==
  ASSUME ScanInv, NEW new, found' = Recorded(found, new), settledFor' = settledFor
  PROVE  /\ Grows /\ ResolvedStaysResolved'
         /\ \A e \in new : e \in Credentials \X TreeFiles => found'[e] # "none"
<1>1. DOMAIN found = Credentials \X TreeFiles /\ found \in Statuses
  BY DEF ScanInv, ScanType, Statuses
<1>2. \A e \in Credentials \X TreeFiles : found'[e] = IF e \in new /\ found[e] = "none" THEN "open" ELSE found[e]
  BY <1>1 DEF Recorded
<1>3. found' \in Statuses
  BY <1>1 DEF Recorded, Statuses
<1>4. ResolvedStaysResolved'
  BY <1>2 DEF ScanInv, ScanType, ResolvedStaysResolved
<1> QED BY <1>2, <1>3, <1>4 DEF Grows

LEMMA BackfillStands ==
  ASSUME ScanInv, Grows, backfill' = backfill,
         \A r \in PushRefs : branchTip[r] \in FullTree => branchTip'[r] \in FullTree
  PROVE  BackfillIsTrue'
<1>1. \A r \in backfill.left : r \in PushRefs
  BY DEF ScanInv, ScanType, Backfill
<1>2. \A b : Hidden(b) <=> Hidden(b)'
  BY DEF Hidden
<1>3. \A b \in backfill.seen \cap Credentials : (\E g \in TreeFiles : found[<<b, g>>] # "none") => \E g \in TreeFiles : found'[<<b, g>>] # "none"
  BY DEF Grows
<1> QED BY <1>1, <1>2, <1>3 DEF ScanInv, BackfillIsTrue

\* Nothing lands, and whoever answered for a credential still does, or it is found.
LEMMA TipsStand ==
  ASSUME ScanInv, Grows, UNCHANGED <<branchTip, ever>>, unscanned \subseteq unscanned',
         \A p \in Pushes : pushed[p].at = "finishing" /\ ~DiffFails(pushed[p].old) =>
           \/ pushed'[p] = pushed[p]
           \/ \A e \in Found(pushed[p].tree, Changed(pushed[p].old, pushed[p].tree)) :
                e \in Found(branchTip[pushed[p].ref], DOMAIN branchTip[pushed[p].ref]) => found'[e] # "none" \/ e \in unscanned'
  PROVE  StandingIsFound' /\ TipsAreKnown'
<1>1. TipsAreKnown'
  BY DEF ScanInv, TipsAreKnown
<1>2. StandingIsFound'
  <2> SUFFICES ASSUME NEW r \in PushRefs, NEW e \in Found(branchTip[r], DOMAIN branchTip[r])
               PROVE  \/ found'[e] # "none" \/ e \in unscanned'
                      \/ \E p \in Pushes :
                           /\ pushed'[p].at = "finishing" /\ pushed'[p].ref = r /\ ~DiffFails(pushed'[p].old)
                           /\ e \in Found(pushed'[p].tree, Changed(pushed'[p].old, pushed'[p].tree))
    BY DEF StandingIsFound, Found, Changed, DiffFails
  <2>1. e \in Credentials \X TreeFiles
    BY FoundIs, NoTreeIsEmpty DEF ScanInv, ScanType, AnyTree
  <2>2. \/ found[e] # "none" \/ e \in unscanned
        \/ \E p \in Pushes : /\ pushed[p].at = "finishing" /\ pushed[p].ref = r /\ ~DiffFails(pushed[p].old)
                             /\ e \in Found(pushed[p].tree, Changed(pushed[p].old, pushed[p].tree))
    BY DEF ScanInv, StandingIsFound
  <2> QED BY <2>1, <2>2 DEF Grows
<1> QED BY <1>1, <1>2

\* Steps that move no branch and find nothing new, and leave the pushes that have landed.
LEMMA ScanStands ==
  ASSUME ScanInv, UNCHANGED <<branchTip, found, backfill, settledFor, ever, unscanned>>,
         bypasses' \in [Credentials -> [until : Nat, used : BOOLEAN]], minute' \in Nat, pushed' \in [Pushes -> PushRow],
         \A c \in Credentials : bypasses'[c].used => bypasses[c].used,
         \A p \in Pushes : pushed[p].at = "finishing" => pushed'[p] = pushed[p],
         PushesMade', NothingSlips'
  PROVE  ScanInv'
<1>1. Grows
  BY DEF Grows, ScanInv, ScanType
<1>2. ScanType'
  BY DEF ScanInv, ScanType
<1>3. StandingIsFound' /\ TipsAreKnown'
  BY <1>1, TipsStand
<1>4. BackfillIsTrue'
  BY <1>1, BackfillStands
<1>5. ResolvedStaysResolved' /\ UsedWasPushed'
  BY DEF ScanInv, ResolvedStaysResolved, UsedWasPushed
<1> QED BY <1>2, <1>3, <1>4, <1>5 DEF ScanInv

\* A push that becomes another row, when it has not landed.
LEMMA OnePush ==
  ASSUME ScanInv, NEW p \in Pushes, NEW x \in PushRow, pushed' = [pushed EXCEPT ![p] = x]
  PROVE  pushed' \in [Pushes -> PushRow] /\ pushed'[p] = x /\ \A q \in Pushes \ {p} : pushed'[q] = pushed[q]
BY DEF ScanInv, ScanType

LEMMA StartPushOK ==
  ASSUME ScanInv, NEW p \in Pushes, NEW r \in PushRefs, NEW t \in Trees, NEW by \in Transports, StartPush(p, r, t, by)
  PROVE  ScanInv'
<1> DEFINE x == [at |-> "hook", ref |-> r, by |-> by, tree |-> t, old |-> branchTip[r], snapshot |-> branchTip]
<1>1. t \in FullTree /\ branchTip \in [PushRefs -> AnyTree]
  BY ScanningAssumption DEF FullTree, ScanInv, ScanType
<1>2. x \in PushRow /\ x.ref = r /\ x.tree = t /\ x.old = x.snapshot[x.ref] /\ x.snapshot = branchTip
  BY <1>1 DEF PushRow, AnyTree
<1>3. pushed' = [pushed EXCEPT ![p] = x] /\ pushed[p].at = "waiting"
      /\ UNCHANGED <<branchTip, bypasses, found, minute, backfill, slipped, settledFor, ever, unscanned>>
  BY DEF StartPush
<1> HIDE DEF x
<1>4. pushed' \in [Pushes -> PushRow] /\ pushed'[p] = x /\ \A q \in Pushes \ {p} : pushed'[q] = pushed[q]
  BY <1>2, <1>3, OnePush
<1>5. PushesMade'
  BY <1>1, <1>2, <1>3, <1>4 DEF ScanInv, PushesMade, AnyTree
<1>6. /\ NothingSlips' /\ bypasses' \in [Credentials -> [until : Nat, used : BOOLEAN]] /\ minute' \in Nat
      /\ \A c \in Credentials : bypasses'[c].used => bypasses[c].used
      /\ \A q \in Pushes : pushed[q].at = "finishing" => pushed'[q] = pushed[q]
  BY <1>3, <1>4 DEF ScanInv, ScanType, NothingSlips
<1> QED BY <1>3, <1>4, <1>5, <1>6, ScanStands

\* What the hook lets past was bypassed, is no example's business, or is not stopped.
LEMMA HookLetsNothingBy ==
  ASSUME ScanInv, NEW p \in Pushes, Judge(p)
  PROVE  slipped' = {}
<1> DEFINE push == pushed[p]
           asks == push.by = "https" /\ protection.on
           new == IF DiffFails(push.old) THEN {} ELSE Found(push.tree, Changed(push.old, push.tree))
           refuses == asks /\ (IF DiffFails(push.old) THEN ~FailOpen ELSE Blocking(new) # {})
           past == {e \in new : Severity[e[1]] \in protection.stops /\ e[2] \notin Examples /\ bypasses[e[1]].until <= minute}
<1>1. slipped = {} /\ slipped' = IF asks /\ ~refuses THEN slipped \cup past ELSE slipped
  BY DEF Judge, ScanInv, NothingSlips
<1>2. ASSUME asks, ~refuses PROVE past = {}
  <2>1. CASE DiffFails(push.old)
    BY <2>1
  <2>2. CASE ~DiffFails(push.old)
    <3>1. Blocking(new) = {}
      BY <1>2, <2>2
    <3> SUFFICES ASSUME NEW e \in past PROVE FALSE
      OBVIOUS
    <3>2. e \in new /\ e[1] \in Credentials
      BY <2>2, FoundIs
    <3>3. bypasses[e[1]].until \in Nat /\ minute \in Nat
      BY <3>2 DEF ScanInv, ScanType
    <3>4. ~Live(e[1])
      BY <3>3 DEF Live
    <3> QED BY <3>1, <3>2, <3>4 DEF Blocking
  <2> QED BY <2>1, <2>2
<1> QED BY <1>1, <1>2

LEMMA JudgeOK ==
  ASSUME ScanInv, NEW p \in Pushes, Judge(p)
  PROVE  ScanInv'
<1>1. pushed[p] \in PushRow /\ pushed[p].at = "hook"
      /\ UNCHANGED <<branchTip, bypasses, found, minute, backfill, settledFor, ever, unscanned>>
  BY DEF Judge, ScanInv, ScanType
<1>2. PICK at \in {"refused", "accepted"} : pushed' = [pushed EXCEPT ![p].at = at]
  BY DEF Judge
<1> DEFINE x == [pushed[p] EXCEPT !.at = at]
<1>3. x \in PushRow /\ x.ref = pushed[p].ref /\ x.tree = pushed[p].tree /\ x.old = pushed[p].old /\ x.snapshot = pushed[p].snapshot
  BY <1>1 DEF PushRow
<1>4. pushed' = [pushed EXCEPT ![p] = x]
  BY <1>2
<1> HIDE DEF x
<1>5. pushed' \in [Pushes -> PushRow] /\ pushed'[p] = x /\ \A q \in Pushes \ {p} : pushed'[q] = pushed[q]
  BY <1>3, <1>4, OnePush
<1>6. PushesMade'
  BY <1>1, <1>3, <1>5 DEF ScanInv, PushesMade
<1>7. /\ NothingSlips' /\ bypasses' \in [Credentials -> [until : Nat, used : BOOLEAN]] /\ minute' \in Nat
      /\ \A c \in Credentials : bypasses'[c].used => bypasses[c].used
      /\ \A q \in Pushes : pushed[q].at = "finishing" => pushed'[q] = pushed[q]
  BY <1>1, <1>5, HookLetsNothingBy DEF ScanInv, ScanType, NothingSlips
<1> QED BY <1>1, <1>5, <1>6, <1>7, ScanStands

\* A push that lands answers for what it brought, or no scan was to follow it.
LEMMA LandOK ==
  ASSUME ScanInv, NEW p \in Pushes, Land(p)
  PROVE  ScanInv'
<1> DEFINE push == pushed[p]
           r == push.ref
<1>1. push \in PushRow /\ push.at = "accepted" /\ r \in PushRefs /\ push.tree \in FullTree /\ push.old = push.snapshot[r]
      /\ UNCHANGED <<protection, bypasses, found, minute, backfill, slipped, settledFor>>
  BY DEF Land, ScanInv, ScanType, PushesMade
<1>2. Over \in PushRow /\ Over.at = "over" /\ \A s \in PushRefs : Over.snapshot[s] = NoTree
  BY DEF Over, Waiting, PushRow, AnyTree
<1>3. CASE branchTip[r] # push.old
  <2>1. pushed' = [pushed EXCEPT ![p] = Over] /\ UNCHANGED <<branchTip, ever, unscanned>>
    BY <1>3 DEF Land
  <2>2. pushed' \in [Pushes -> PushRow] /\ pushed'[p] = Over /\ \A q \in Pushes \ {p} : pushed'[q] = pushed[q]
    BY <1>2, <2>1, OnePush
  <2>3. PushesMade'
    BY <1>2, <2>1, <2>2 DEF ScanInv, PushesMade
  <2>4. /\ NothingSlips' /\ bypasses' \in [Credentials -> [until : Nat, used : BOOLEAN]] /\ minute' \in Nat
        /\ \A c \in Credentials : bypasses'[c].used => bypasses[c].used
        /\ \A q \in Pushes : pushed[q].at = "finishing" => pushed'[q] = pushed[q]
    BY <1>1, <2>2 DEF ScanInv, ScanType, NothingSlips
  <2> QED BY <1>1, <2>1, <2>2, <2>3, <2>4, ScanStands
<1>4. CASE branchTip[r] = push.old
  <2> DEFINE x == IF push.by = "ssh" THEN Over ELSE [push EXCEPT !.at = "finishing"]
             blind == push.by = "ssh" \/ DiffFails(push.old)
  <2>1. /\ branchTip' = [branchTip EXCEPT ![r] = push.tree]
        /\ ever' = ever \cup {c \in Credentials : \E f \in TreeFiles : push.tree[f] = c}
        /\ pushed' = [pushed EXCEPT ![p] = x]
        /\ unscanned' = IF blind THEN unscanned \cup Found(push.tree, TreeFiles) ELSE unscanned
    BY <1>4 DEF Land
  <2>2. /\ x \in PushRow
        /\ x.at = "finishing" => x.ref = r /\ x.tree = push.tree /\ x.old = push.old /\ x.snapshot = push.snapshot
        /\ push.by # "ssh" => x.at = "finishing"
        /\ x.at \in {"over", "finishing"}
        /\ \A s \in PushRefs : x.snapshot[s] # NoTree => push.snapshot[s] # NoTree
    BY <1>1, <1>2 DEF PushRow
  <2> HIDE DEF x
  <2>3. pushed' \in [Pushes -> PushRow] /\ pushed'[p] = x /\ \A q \in Pushes \ {p} : pushed'[q] = pushed[q]
    BY <2>1, <2>2, OnePush
  <2>4. branchTip' \in [PushRefs -> AnyTree] /\ branchTip'[r] = push.tree /\ \A s \in PushRefs \ {r} : branchTip'[s] = branchTip[s]
    BY <1>1, <2>1 DEF ScanInv, ScanType, AnyTree
  <2>5. ScanType'
    BY <1>1, <2>3, <2>4 DEF ScanInv, ScanType
  <2>6. PushesMade'
    BY <1>1, <2>2, <2>3, <2>4 DEF ScanInv, PushesMade
  <2>7. DOMAIN push.tree = TreeFiles
    BY <1>1, NoTreeIsEmpty
  <2>8. TipsAreKnown'
    BY <2>1, <2>4, <2>7 DEF ScanInv, TipsAreKnown
  <2>9. Grows
    BY <1>1 DEF Grows, ScanInv, ScanType
  <2>10. BackfillIsTrue'
    BY <1>1, <2>4, <2>9, BackfillStands
  <2>11. ResolvedStaysResolved' /\ UsedWasPushed' /\ NothingSlips'
    BY <1>1, <2>1 DEF ScanInv, ResolvedStaysResolved, UsedWasPushed, NothingSlips
  <2>12. StandingIsFound'
    <3> SUFFICES ASSUME NEW s \in PushRefs, NEW e \in Found(branchTip'[s], DOMAIN branchTip'[s])
                 PROVE  \/ found[e] # "none" \/ e \in unscanned'
                        \/ \E q \in Pushes :
                             /\ pushed'[q].at = "finishing" /\ pushed'[q].ref = s /\ ~DiffFails(pushed'[q].old)
                             /\ e \in Found(pushed'[q].tree, Changed(pushed'[q].old, pushed'[q].tree))
      BY <1>1 DEF StandingIsFound, Found, Changed, DiffFails
    <3>1. ASSUME e \in Found(branchTip[s], DOMAIN branchTip[s])
          PROVE  \/ found[e] # "none" \/ e \in unscanned'
                 \/ \E q \in Pushes :
                      /\ pushed'[q].at = "finishing" /\ pushed'[q].ref = s /\ ~DiffFails(pushed'[q].old)
                      /\ e \in Found(pushed'[q].tree, Changed(pushed'[q].old, pushed'[q].tree))
      <4>1. \/ found[e] # "none" \/ e \in unscanned
            \/ \E q \in Pushes : /\ pushed[q].at = "finishing" /\ pushed[q].ref = s /\ ~DiffFails(pushed[q].old)
                                 /\ e \in Found(pushed[q].tree, Changed(pushed[q].old, pushed[q].tree))
        BY <3>1 DEF ScanInv, StandingIsFound
      <4> QED BY <1>1, <2>1, <2>3, <4>1
    <3>2. CASE s # r
      BY <2>4, <3>1, <3>2
    <3>3. CASE s = r
      <4>1. PICK f \in TreeFiles \ Vendored : push.tree[f] \in Credentials /\ e = <<push.tree[f], f>>
        BY <2>4, <2>7, <3>3, FoundIs
      <4>2. CASE blind
        BY <2>1, <4>1, <4>2, FoundIs
      <4>3. CASE ~blind /\ push.old[f] = push.tree[f]
        <5>1. DOMAIN push.old = TreeFiles
          BY <1>1, <4>3, NoTreeIsEmpty DEF PushRow, AnyTree, DiffFails
        <5>2. e \in Found(branchTip[s], DOMAIN branchTip[s])
          BY <1>4, <3>3, <4>1, <4>3, <5>1, FoundIs
        <5> QED BY <3>1, <5>2
      <4>4. CASE ~blind /\ push.old[f] # push.tree[f]
        <5>1. f \in Changed(push.old, push.tree)
          BY <4>1, <4>4, ScanningAssumption DEF Changed
        <5>2. e \in Found(push.tree, Changed(push.old, push.tree))
          BY <4>1, <5>1, FoundIs
        <5>3. /\ pushed'[p].at = "finishing" /\ pushed'[p].ref = s /\ ~DiffFails(pushed'[p].old)
              /\ pushed'[p].tree = push.tree /\ pushed'[p].old = push.old
          BY <2>2, <2>3, <3>3, <4>4
        <5> QED BY <5>2, <5>3
      <4> QED BY <4>2, <4>3, <4>4
    <3> QED BY <3>2, <3>3
  <2> QED BY <2>5, <2>6, <2>8, <2>10, <2>11, <2>12 DEF ScanInv
<1> QED BY <1>3, <1>4

LEMMA EitherIsBoolean ==
  ASSUME NEW x, NEW y
  PROVE  (x \/ y) \in BOOLEAN
OBVIOUS

LEMMA ScanAfterPushOK ==
  ASSUME ScanInv, NEW p \in Pushes, ScanAfterPush(p)
  PROVE  ScanInv'
<1> DEFINE push == pushed[p]
           moved == {r \in PushRefs : branchTip[r] # push.snapshot[r] /\ ~DiffFails(push.snapshot[r])}
           new == UNION {Found(branchTip[r], Changed(push.snapshot[r], branchTip[r])) : r \in moved}
           seen(c) == bypasses[c].until > 0 /\ \E f \in TreeFiles : <<c, f>> \in new
           x == [push EXCEPT !.at = "scanned"]
<1>1. push \in PushRow /\ push.at = "finishing" /\ push.ref \in PushRefs /\ push.old = push.snapshot[push.ref]
      /\ UNCHANGED <<branchTip, protection, minute, backfill, slipped, settledFor, ever, unscanned>>
  BY DEF ScanAfterPush, ScanInv, ScanType, PushesMade
<1>2. found' = Recorded(found, new) /\ pushed' = [pushed EXCEPT ![p] = x]
      /\ bypasses' = [c \in Credentials |-> [bypasses[c] EXCEPT !.used = @ \/ seen(c)]]
  BY DEF ScanAfterPush
<1>3. x \in PushRow /\ x.at = "scanned" /\ x.snapshot = push.snapshot
  BY <1>1 DEF PushRow
<1>4. \A e \in new : /\ e \in Credentials \X TreeFiles
                     /\ \E r \in PushRefs : \E f \in DOMAIN branchTip[r] : branchTip[r][f] = e[1]
  <2> SUFFICES ASSUME NEW e \in new PROVE /\ e \in Credentials \X TreeFiles
                                          /\ \E r \in PushRefs : \E f \in DOMAIN branchTip[r] : branchTip[r][f] = e[1]
    OBVIOUS
  <2>1. PICK r \in moved : e \in Found(branchTip[r], Changed(push.snapshot[r], branchTip[r]))
    OBVIOUS
  <2>2. PICK f \in TreeFiles : branchTip[r][f] \in Credentials /\ e = <<branchTip[r][f], f>>
    BY <2>1, FoundIs DEF Changed
  <2>3. branchTip[r] \in AnyTree
    BY DEF ScanInv, ScanType
  <2>4. f \in DOMAIN branchTip[r]
    <3>1. CASE branchTip[r] \in FullTree
      BY <3>1, NoTreeIsEmpty
    <3>2. CASE branchTip[r] = NoTree
      <4>1. push.snapshot[r] # NoTree
        BY DEF DiffFails
      <4> QED BY <3>2, <4>1, NoTreeIsEmpty DEF ScanInv, PushesMade
    <3> QED BY <2>3, <3>1, <3>2 DEF AnyTree
  <2> QED BY <2>2, <2>4
<1>5. ASSUME NEW c \in Credentials PROVE /\ bypasses'[c] \in [until : Nat, used : BOOLEAN]
                                         /\ bypasses'[c].used => bypasses[c].used \/ seen(c)
  <2>1. bypasses[c] \in [until : Nat, used : BOOLEAN]
    BY DEF ScanInv, ScanType
  <2>2. bypasses'[c] = [bypasses[c] EXCEPT !.used = bypasses[c].used \/ seen(c)]
    BY <1>2
  <2>3. (bypasses[c].used \/ seen(c)) \in BOOLEAN
    BY EitherIsBoolean
  <2> HIDE DEF seen
  <2> QED BY <2>1, <2>2, <2>3
<1>6. UsedWasPushed'
  <2>1. ASSUME NEW c \in Credentials, seen(c) PROVE c \in ever
    <3>1. PICK f \in TreeFiles : <<c, f>> \in new
      BY <2>1
    <3>2. PICK r \in PushRefs : \E g \in DOMAIN branchTip[r] : branchTip[r][g] = c
      BY <1>4, <3>1
    <3> QED BY <3>2 DEF ScanInv, TipsAreKnown
  <2> HIDE DEF seen
  <2> QED BY <1>1, <1>5, <2>1 DEF ScanInv, UsedWasPushed
<1> HIDE DEF x, seen
<1>7. pushed' \in [Pushes -> PushRow] /\ pushed'[p] = x /\ \A q \in Pushes \ {p} : pushed'[q] = pushed[q]
  BY <1>2, <1>3, OnePush
<1>8. Grows /\ ResolvedStaysResolved' /\ \A e \in new : e \in Credentials \X TreeFiles => found'[e] # "none"
  BY <1>1, <1>2, RecordedGrows
<1>9. ScanType'
  <2>1. bypasses' \in [Credentials -> [until : Nat, used : BOOLEAN]]
    BY <1>2, <1>5
  <2> QED BY <1>1, <1>7, <1>8, <2>1 DEF ScanInv, ScanType, Grows
<1>10. PushesMade' /\ NothingSlips'
  BY <1>1, <1>3, <1>7 DEF ScanInv, PushesMade, NothingSlips
<1>11. BackfillIsTrue'
  BY <1>1, <1>8, BackfillStands
<1>12. ASSUME NEW e, e \in Found(push.tree, Changed(push.old, push.tree)), ~DiffFails(push.old),
              e \in Found(branchTip[push.ref], DOMAIN branchTip[push.ref])
       PROVE  found'[e] # "none"
  <2>1. PICK f \in TreeFiles \ Vendored : /\ push.tree[f] # push.old[f] /\ push.tree[f] # Gone
                                          /\ push.tree[f] \in Credentials /\ e = <<push.tree[f], f>>
    BY <1>12, FoundIs DEF Changed
  <2>2. branchTip[push.ref][f] = push.tree[f]
    BY <1>12, <2>1, FoundIs
  <2>3. push.ref \in moved /\ f \in Changed(push.snapshot[push.ref], branchTip[push.ref])
    BY <1>1, <1>12, <2>1, <2>2 DEF Changed
  <2>4. e \in Found(branchTip[push.ref], Changed(push.snapshot[push.ref], branchTip[push.ref]))
    BY <2>1, <2>2, <2>3, FoundIs
  <2>5. e \in new
    BY <2>3, <2>4
  <2> QED BY <1>4, <1>8, <2>5
<1>13. StandingIsFound' /\ TipsAreKnown'
  <2>1. \A q \in Pushes : pushed[q].at = "finishing" /\ ~DiffFails(pushed[q].old) =>
          \/ pushed'[q] = pushed[q]
          \/ \A e \in Found(pushed[q].tree, Changed(pushed[q].old, pushed[q].tree)) :
               e \in Found(branchTip[pushed[q].ref], DOMAIN branchTip[pushed[q].ref]) => found'[e] # "none" \/ e \in unscanned'
    BY <1>7, <1>12
  <2> QED BY <1>1, <1>8, <2>1, TipsStand
<1> QED BY <1>6, <1>8, <1>9, <1>10, <1>11, <1>13 DEF ScanInv

\* A death leaves what landed and was not scanned yet to no scan.
LEMMA ScannerDiesOK ==
  ASSUME ScanInv, ScannerDies
  PROVE  ScanInv'
<1>1. /\ UNCHANGED <<branchTip, protection, bypasses, found, minute, backfill, slipped, settledFor, ever>>
      /\ unscanned \subseteq unscanned'
      /\ \A p \in Pushes : pushed[p].at = "finishing" => Found(pushed[p].tree, TreeFiles) \subseteq unscanned'
  BY DEF ScannerDies
<1>2. Over \in PushRow /\ Over.at = "over" /\ \A s \in PushRefs : Over.snapshot[s] = NoTree
  BY DEF Over, Waiting, PushRow, AnyTree
<1>3. /\ pushed' \in [Pushes -> PushRow]
      /\ \A p \in Pushes : pushed'[p] = IF pushed[p].at \in {"hook", "accepted", "finishing"} THEN Over ELSE pushed[p]
  BY <1>2 DEF ScannerDies, ScanInv, ScanType
<1>4. Grows
  BY <1>1 DEF Grows, ScanInv, ScanType
<1>5. ScanType' /\ PushesMade' /\ ResolvedStaysResolved' /\ UsedWasPushed' /\ NothingSlips'
  BY <1>1, <1>2, <1>3 DEF ScanInv, ScanType, PushesMade, ResolvedStaysResolved, UsedWasPushed, NothingSlips
<1>6. \A p \in Pushes : pushed[p].at = "finishing" =>
        \A e \in Found(pushed[p].tree, Changed(pushed[p].old, pushed[p].tree)) : e \in unscanned'
  BY <1>1, FoundIs DEF Changed
<1>7. StandingIsFound' /\ TipsAreKnown'
  BY <1>1, <1>4, <1>6, TipsStand
<1>8. BackfillIsTrue'
  BY <1>1, <1>4, BackfillStands
<1> QED BY <1>5, <1>7, <1>8 DEF ScanInv

LEMMA BypassOK ==
  ASSUME ScanInv, NEW c \in Credentials, Bypass(c)
  PROVE  ScanInv'
<1>1. UNCHANGED <<branchTip, protection, found, pushed, minute, backfill, slipped, settledFor, ever, unscanned>>
      /\ bypasses' = [bypasses EXCEPT ![c] = [until |-> minute + BypassFor, used |-> FALSE]]
  BY DEF Bypass
<1>2. minute + BypassFor \in Nat
  BY ScanningAssumption DEF ScanInv, ScanType
<1>3. /\ bypasses' \in [Credentials -> [until : Nat, used : BOOLEAN]]
      /\ \A d \in Credentials : bypasses'[d].used => bypasses[d].used
  BY <1>1, <1>2 DEF ScanInv, ScanType
<1>4. PushesMade' /\ NothingSlips' /\ minute' \in Nat /\ pushed' \in [Pushes -> PushRow]
  BY <1>1 DEF ScanInv, ScanType, PushesMade, NothingSlips
<1> QED BY <1>1, <1>3, <1>4, ScanStands

\* The policy, the clock: no push and no finding.
LEMMA AsideOK ==
  ASSUME ScanInv, minute' \in Nat,
         UNCHANGED <<branchTip, bypasses, found, pushed, backfill, slipped, settledFor, ever, unscanned>>
  PROVE  ScanInv'
<1>1. PushesMade' /\ NothingSlips' /\ pushed' \in [Pushes -> PushRow] /\ bypasses' \in [Credentials -> [until : Nat, used : BOOLEAN]]
  BY DEF ScanInv, ScanType, PushesMade, NothingSlips
<1> QED BY <1>1, ScanStands

LEMMA ResolveOK ==
  ASSUME ScanInv, NEW c \in Credentials, NEW f \in TreeFiles, Resolve(c, f)
  PROVE  ScanInv'
<1>1. UNCHANGED <<branchTip, protection, bypasses, pushed, minute, backfill, slipped, ever, unscanned>>
      /\ found' = [found EXCEPT ![<<c, f>>] = "resolved"] /\ settledFor' = settledFor \cup {<<c, f>>}
  BY DEF Resolve
<1>2. Grows /\ ResolvedStaysResolved'
  BY <1>1 DEF Grows, ScanInv, ScanType, Statuses, ResolvedStaysResolved
<1>3. ScanType' /\ PushesMade' /\ UsedWasPushed' /\ NothingSlips'
  BY <1>1, <1>2 DEF Grows, ScanInv, ScanType, PushesMade, UsedWasPushed, NothingSlips
<1>4. StandingIsFound' /\ TipsAreKnown'
  BY <1>1, <1>2, TipsStand
<1>5. BackfillIsTrue'
  BY <1>1, <1>2, BackfillStands
<1> QED BY <1>2, <1>3, <1>4, <1>5 DEF ScanInv

\* The scan of the trees begins, or is killed: it has seen nothing.
LEMMA BackfillEndsOK ==
  ASSUME ScanInv, StartBackfill \/ BackfillDies
  PROVE  ScanInv'
<1>1. UNCHANGED <<branchTip, protection, bypasses, found, pushed, minute, slipped, settledFor, ever, unscanned>>
  BY DEF StartBackfill, BackfillDies
<1>2. NoScan.seen = {} /\ NoScan.left = {} /\ NoScan \in Backfill /\ \A r \in PushRefs : NoScan.tips[r] = NoTree
  BY DEF NoScan, Backfill, AnyTree
<1>3. /\ backfill' \in Backfill /\ backfill'.seen = {} /\ \A r \in PushRefs : backfill'.tips[r] = NoTree
      /\ \A r \in backfill'.left : r \in PushRefs /\ branchTip[r] # NoTree
  <2>1. CASE BackfillDies
    BY <1>2, <2>1 DEF BackfillDies
  <2>2. CASE StartBackfill
    <3> DEFINE left == {r \in PushRefs : branchTip[r] # NoTree}
    <3>1. backfill' = [NoScan EXCEPT !.at = "scanning", !.left = left]
      BY <2>2 DEF StartBackfill
    <3>2. left \subseteq PushRefs /\ \A r \in left : branchTip[r] # NoTree
      OBVIOUS
    <3> HIDE DEF left
    <3>3. /\ backfill' \in Backfill /\ backfill'.seen = NoScan.seen /\ backfill'.tips = NoScan.tips
          /\ backfill'.left = left
      BY <1>2, <3>1, <3>2 DEF Backfill
    <3> QED BY <1>2, <3>2, <3>3
  <2> QED BY <2>1, <2>2
<1>4. BackfillIsTrue'
  BY <1>1, <1>3, NoTreeIsEmpty DEF BackfillIsTrue, ScanInv, ScanType, AnyTree
<1>5. Grows
  BY <1>1 DEF Grows, ScanInv, ScanType
<1>6. StandingIsFound' /\ TipsAreKnown'
  BY <1>1, <1>5, TipsStand
<1>7. ScanType' /\ PushesMade' /\ ResolvedStaysResolved' /\ UsedWasPushed' /\ NothingSlips'
  BY <1>1, <1>3 DEF ScanInv, ScanType, PushesMade, ResolvedStaysResolved, UsedWasPushed, NothingSlips
<1> QED BY <1>4, <1>6, <1>7 DEF ScanInv

LEMMA ScanBranchOK ==
  ASSUME ScanInv, NEW r \in PushRefs, NEW first \in [Credentials \cup {Plain} -> TreeFiles], ScanBranch(r, first)
  PROVE  ScanInv'
<1> DEFINE tree == branchTip[r]
           fresh == {tree[f] : f \in {g \in TreeFiles : tree[g] # Gone}} \ backfill.seen
           new == Found(tree, {first[b] : b \in fresh})
<1>1. /\ r \in backfill.left /\ \A b \in fresh : tree[first[b]] = b
      /\ found' = Recorded(found, new)
      /\ UNCHANGED <<branchTip, protection, bypasses, pushed, minute, slipped, settledFor, ever, unscanned>>
  BY DEF ScanBranch
<1>2. backfill \in Backfill /\ tree \in FullTree /\ backfill.tips[r] = NoTree
  BY <1>1 DEF ScanInv, ScanType, BackfillIsTrue
<1>3. fresh \subseteq Credentials \cup {Plain}
  BY <1>2 DEF FullTree
<1>4. PICK at \in {"scanning", "done"} :
        backfill' = [backfill EXCEPT !.left = @ \ {r}, !.seen = @ \cup fresh, !.tips[r] = tree, !.at = at]
  <2>1. backfill' = [backfill EXCEPT !.left = @ \ {r}, !.seen = @ \cup fresh, !.tips[r] = tree,
                                     !.at = IF backfill.left = {r} THEN "done" ELSE @]
        /\ backfill.at = "scanning"
    BY DEF ScanBranch
  <2> HIDE DEF tree, fresh
  <2> QED BY <1>2, <2>1 DEF Backfill
<1>5. /\ backfill'.left = backfill.left \ {r} /\ backfill'.seen = backfill.seen \cup fresh
      /\ backfill'.tips = [backfill.tips EXCEPT ![r] = tree] /\ backfill' \in Backfill
  <2>1. tree \in AnyTree /\ backfill.seen \cup fresh \subseteq Credentials \cup {Plain}
    BY <1>2, <1>3 DEF AnyTree, Backfill
  <2> HIDE DEF tree, fresh
  <2> QED BY <1>2, <1>4, <2>1 DEF Backfill
<1>6. backfill'.tips[r] = tree /\ \A q \in PushRefs \ {r} : backfill'.tips[q] = backfill.tips[q]
  BY <1>2, <1>5 DEF Backfill
<1>7. Grows /\ ResolvedStaysResolved' /\ \A e \in new : e \in Credentials \X TreeFiles => found'[e] # "none"
  BY <1>1, RecordedGrows
<1>8. BackfillIsTrue'
  <2>1. \A q \in backfill'.left : branchTip'[q] \in FullTree /\ backfill'.tips[q] = NoTree
    BY <1>1, <1>2, <1>5, <1>6 DEF ScanInv, BackfillIsTrue, Backfill
  <2>2. ASSUME NEW q \in PushRefs, NEW f \in DOMAIN backfill'.tips[q], backfill'.tips[q][f] # Gone
        PROVE  backfill'.tips[q][f] \in backfill'.seen
    <3>1. CASE q = r
      <4>1. f \in TreeFiles /\ backfill'.tips[q][f] = tree[f]
        BY <1>2, <1>6, <3>1, NoTreeIsEmpty
      <4> QED BY <1>5, <2>2, <4>1
    <3>2. CASE q # r
      BY <1>5, <1>6, <2>2, <3>2 DEF ScanInv, BackfillIsTrue
    <3> QED BY <3>1, <3>2
  <2>3. ASSUME NEW b \in backfill'.seen \cap Credentials
        PROVE  Hidden(b)' \/ \E g \in TreeFiles : found'[<<b, g>>] # "none"
    <3>1. CASE b \in backfill.seen /\ Hidden(b)
      <4>1. PICK q \in PushRefs : \E g \in Vendored \cap DOMAIN backfill.tips[q] : backfill.tips[q][g] = b
        BY <3>1 DEF Hidden
      <4>2. q # r
        BY <1>2, <4>1, NoTreeIsEmpty
      <4> QED BY <1>6, <4>1, <4>2 DEF Hidden
    <3>2. CASE b \in backfill.seen /\ ~Hidden(b)
      <4>1. PICK g \in TreeFiles : found[<<b, g>>] # "none"
        BY <3>2 DEF ScanInv, BackfillIsTrue
      <4>2. found'[<<b, g>>] # "none"
        BY <1>7, <4>1 DEF Grows
      <4> QED BY <4>2
    <3>3. CASE b \in fresh
      <4>1. first[b] \in TreeFiles /\ tree[first[b]] = b
        BY <1>1, <3>3
      <4>2. CASE first[b] \in Vendored
        BY <1>2, <1>6, <4>1, <4>2, NoTreeIsEmpty DEF Hidden
      <4>3. CASE first[b] \notin Vendored
        <5>1. <<b, first[b]>> \in new
          BY <3>3, <4>1, <4>3, FoundIs
        <5>2. found'[<<b, first[b]>>] # "none"
          BY <1>7, <4>1, <5>1
        <5> QED BY <4>1, <5>2
      <4> QED BY <4>2, <4>3
    <3> QED BY <1>5, <3>1, <3>2, <3>3
  <2> QED BY <2>1, <2>2, <2>3 DEF BackfillIsTrue
<1>9. StandingIsFound' /\ TipsAreKnown'
  BY <1>1, <1>7, TipsStand
<1>10. ScanType' /\ PushesMade' /\ UsedWasPushed' /\ NothingSlips'
  BY <1>1, <1>5, <1>7 DEF Grows, ScanInv, ScanType, PushesMade, UsedWasPushed, NothingSlips
<1> QED BY <1>7, <1>8, <1>9, <1>10 DEF ScanInv

LEMMA ScanStep == ScanInv /\ [ScanNext]_scanVars => ScanInv'
<1> SUFFICES ASSUME ScanInv, [ScanNext]_scanVars PROVE ScanInv'
  OBVIOUS
<1>1. ASSUME NEW p \in Pushes, Judge(p) \/ Land(p) \/ ScanAfterPush(p) PROVE ScanInv'
  BY <1>1, JudgeOK, LandOK, ScanAfterPushOK
<1>2. ASSUME NEW p \in Pushes, NEW r \in PushRefs, NEW t \in Trees, NEW by \in Transports, StartPush(p, r, t, by) PROVE ScanInv'
  BY <1>2, StartPushOK
<1>3. CASE ScannerDies
  BY <1>3, ScannerDiesOK
<1>4. CASE ProtectionNext
  <2>1. ASSUME NEW policy \in Policies, SetProtection(policy) PROVE ScanInv'
    BY <2>1, AsideOK DEF SetProtection, ScanInv, ScanType
  <2> QED BY <1>4, <2>1, BypassOK DEF ProtectionNext
<1>5. CASE ResolveNext
  BY <1>5, ResolveOK DEF ResolveNext
<1>6. CASE Minute
  BY <1>6, AsideOK DEF Minute, ScanInv, ScanType
<1>7. CASE BackfillNext
  BY <1>7, BackfillEndsOK, ScanBranchOK DEF BackfillNext
<1>8. CASE UNCHANGED scanVars
  BY <1>8, AsideOK DEF scanVars, ScanInv, ScanType
<1> QED BY <1>1, <1>2, <1>3, <1>4, <1>5, <1>6, <1>7, <1>8 DEF ScanNext, PushNext

\* A finding resolved stays resolved; a bypass is used by what was pushed; what stands on a
\* branch is a finding, or its push is about to be scanned, or no scan was to follow; what
\* the scan of the trees has read is a finding; and nothing the policy stops gets past the
\* hook without a bypass (secret-scanning.mjs, push-protection.mjs, secret-backfill.mjs).
THEOREM ScanningHolds == ScanSpec => []ScanningSound
BY ScanFollows, ScanStarts, ScanStep, PTL DEF ScanSpec

\* A secret is read by nobody it was not given to, in the vault and in what is pushed,
\* which share no state.
THEOREM SecretsHold == VaultSpec /\ ScanSpec => []SecretsSound
BY VaultHolds, ScanningHolds, PTL DEF SecretsSound

-----------------------------------------------------------------------------
(* MergeGovernance: what a protected branch is given.  A merge is judged   *)
(* at one moment, clones at another and pushes at a third; MergeInv says   *)
(* what is known of the commits it carries at each.                        *)

\* Commits are numbers, which concerns nothing but their making.
CommitNumbers == Nat

MergeJob ==
  [at : {"idle", "let", "cloned", "pushed"}, what : {"none", "file", "merge"},
   base : SUBSET CommitNumbers, head : SUBSET CommitNumbers, judged : SUBSET CommitNumbers, asked : BOOLEAN]

MergeShape ==
  /\ onBase \subseteq CommitNumbers /\ onHead \subseteq CommitNumbers /\ made \in CommitNumbers
  /\ rule \in BranchRules \cup {NoRule}
  /\ reviews \in [Reviewers -> [state : Verdicts \cup {"none"}, sha : SUBSET CommitNumbers]]
  /\ work \in [Jobs -> MergeJob]

\* Every commit of a set was approved, or took a way past the rules.
Backed(commits) == \A c \in commits \ excused : \E v \in vouched : c \in v

\* An approval in force and a green check are remembered.
ApprovalsCount == \A p \in Reviewers : reviews[p].state = "approved" => reviews[p].sha \in vouched
GreenHasRun    == \A c \in checks : c.state = "success" => c.sha \in ran

\* What a merge was judged by, and what it has cloned, may land.
MergeIsBacked(j) ==
  /\ work[j].at = "let" /\ work[j].what = "merge" => Backed(work[j].judged)
  /\ work[j].at = "cloned" /\ work[j].what = "merge" => Backed(work[j].head)
  /\ work[j].at = "pushed" => landed # {}

MergeInv ==
  /\ MergeShape /\ ApprovalsCount /\ GreenHasRun /\ \A j \in Jobs : MergeIsBacked(j)
  /\ MergeSound

LEMMA MergeStarts == MergeInit => MergeInv
BY MergeAssumption DEF MergeInit, MergeInv, MergeShape, ApprovalsCount, GreenHasRun, MergeIsBacked, MergeSound,
  NothingLandsUnvouched, GreenWhenJudged, MergedIsThere, NoReview, NoJob, MergeJob, CommitNumbers

LEMMA NewIsCommit == made \in CommitNumbers => New \in CommitNumbers
BY DEF CommitNumbers, New

LEMMA JobShapes ==
  /\ NoJob \in MergeJob /\ ~NoJob.asked /\ NoJob.at = "idle"
  /\ [NoJob EXCEPT !.what = "file", !.at = "let"] \in MergeJob
  /\ [NoJob EXCEPT !.what = "merge", !.at = "pushed"] \in MergeJob
BY DEF NoJob, MergeJob

LEMMA WorkStays == ASSUME MergeShape, NEW j \in Jobs, NEW w \in MergeJob
                   PROVE  [work EXCEPT ![j] = w] \in [Jobs -> MergeJob] /\ [work EXCEPT ![j] = w][j] = w
BY DEF MergeShape

\* What was backed stays backed: approvals and exceptions are not forgotten.
LEMMA BackedStays ==
  ASSUME NEW commits, Backed(commits), excused \subseteq excused', vouched \subseteq vouched'
  PROVE  \A c \in commits \ excused' : \E v \in vouched' : c \in v
BY DEF Backed

\* Guards that pass leave nothing of the head that is neither approved nor let through.
LEMMA GuardsBackTheHead ==
  ASSUME MergeInv, ReviewsAllow
  PROVE  \A c \in onHead \ Unheld(onHead) : onHead \in vouched
<1> SUFFICES ASSUME rule.needed >= 1, rule.dismiss PROVE onHead \in vouched
  BY DEF Unheld
<1>1. rule.needed \in Nat
  BY MergeAssumption DEF MergeInv, MergeShape, NoRule
<1>2. Approving # {}
  <2>1. Cardinality(Approving) >= rule.needed
    BY DEF ReviewsAllow
  <2>2. Approving = {} => Cardinality(Approving) = 0
    BY FS_EmptySet
  <2> QED BY <1>1, <2>1, <2>2
<1>3. PICK p \in Approving : TRUE
  BY <1>2
<1>4. p \in Reviewers /\ reviews[p].state = "approved" /\ reviews[p].sha = onHead
  BY DEF Approving, Active
<1> QED BY <1>4 DEF MergeInv, ApprovalsCount

\* A step keeps every part it says nothing of.
LEMMA MergeStays ==
  ASSUME MergeInv, excused \subseteq excused', vouched \subseteq vouched', UNCHANGED <<work, landed>>
  PROVE  \A j \in Jobs : MergeIsBacked(j)'
BY BackedStays DEF MergeInv, MergeIsBacked, Backed

\* Neither a clone nor a merge is concerned: what lands on the base is excused.
LEMMA BesideTheMerge ==
  ASSUME MergeInv, MergeShape', ApprovalsCount', GreenHasRun', UNCHANGED <<work, landed>>,
         onBase \subseteq onBase', onBase' \ onBase \subseteq excused',
         excused \subseteq excused', vouched \subseteq vouched', ran \subseteq ran',
         pull' = "merged" => pull = "merged"
  PROVE  MergeInv'
<1>1. \A j \in Jobs : MergeIsBacked(j)'
  BY MergeStays
<1>2. NothingLandsUnvouched'
  BY DEF MergeInv, MergeSound, NothingLandsUnvouched
<1>3. GreenWhenJudged'
  BY DEF MergeInv, MergeSound, GreenWhenJudged
<1>4. MergedIsThere'
  BY DEF MergeInv, MergeSound, MergedIsThere
<1> QED BY <1>1, <1>2, <1>3, <1>4 DEF MergeInv, MergeSound

\* A step of one clone: the others are as they were.
LEMMA OneClone ==
  ASSUME MergeInv, NEW j \in Jobs, NEW w, work' = [work EXCEPT ![j] = w],
         MergeShape', UNCHANGED <<rule, reviews, checks, vouched, ran>>,
         onBase \subseteq onBase', NothingLandsUnvouched', excused \subseteq excused',
         landed \subseteq landed', \A h \in landed' \ landed : h \subseteq onBase',
         pull' = "merged" => landed' # {},
         w.asked => w.judged \in ran, MergeIsBacked(j)'
  PROVE  MergeInv'
<1>1. ApprovalsCount' /\ GreenHasRun'
  BY DEF MergeInv, ApprovalsCount, GreenHasRun
<1>2. \A k \in Jobs \ {j} : work'[k] = work[k]
  BY DEF MergeInv, MergeShape
<1>3. work'[j] = w
  BY DEF MergeInv, MergeShape
<1>4. ASSUME NEW k \in Jobs PROVE MergeIsBacked(k)'
  <2>1. CASE k = j
    BY <2>1
  <2>2. CASE k # j
    BY <2>2, <1>2, BackedStays DEF MergeInv, MergeIsBacked, Backed
  <2> QED BY <2>1, <2>2
<1>5. GreenWhenJudged'
  BY <1>2, <1>3 DEF MergeInv, MergeSound, GreenWhenJudged
<1>6. MergedIsThere'
  BY DEF MergeInv, MergeSound, MergedIsThere
<1> QED BY <1>1, <1>4, <1>5, <1>6 DEF MergeInv, MergeSound

LEMMA MergeSteps == MergeInv /\ [MergeNext]_mergeVars => MergeInv'
<1> SUFFICES ASSUME MergeInv, [MergeNext]_mergeVars PROVE MergeInv'
  OBVIOUS
<1> USE DEF MergeInv, MergeShape
<1>1. CASE OpenPullRequest \/ PushHead \/ PushBase \/ PushBaseOverSsh
  <2>1. onBase' \subseteq CommitNumbers /\ onHead' \subseteq CommitNumbers /\ made' \in CommitNumbers
    BY <1>1, NewIsCommit DEF OpenPullRequest, PushHead, PushBase, PushBaseOverSsh
  <2>2. UNCHANGED <<rule, reviews, work, checks, vouched, ran>>
    BY <1>1 DEF OpenPullRequest, PushHead, PushBase, PushBaseOverSsh
  <2>3. MergeShape' /\ ApprovalsCount' /\ GreenHasRun'
    BY <2>1, <2>2 DEF ApprovalsCount, GreenHasRun
  <2> QED BY <1>1, <2>3, BesideTheMerge DEF OpenPullRequest, PushHead, PushBase, PushBaseOverSsh
<1>2. CASE SetRule \/ ThreadNext
  <2>1. MergeShape' /\ ApprovalsCount' /\ GreenHasRun'
    BY <1>2 DEF SetRule, ThreadNext, SetPolicies, OpenThread, SetResolved, ApprovalsCount, GreenHasRun
  <2> QED BY <1>2, <2>1, BesideTheMerge DEF SetRule, ThreadNext, SetPolicies, OpenThread, SetResolved
<1>3. ASSUME NEW p \in Reviewers, NEW s \in Verdicts, SubmitReview(p, s) PROVE MergeInv'
  <2>1. MergeShape' /\ GreenHasRun'
    BY <1>3 DEF SubmitReview, GreenHasRun
  <2>2. ApprovalsCount'
    BY <1>3 DEF SubmitReview, ApprovalsCount, MaySay
  <2> QED BY <1>3, <2>1, <2>2, BesideTheMerge DEF SubmitReview
<1>4. ASSUME NEW s \in {"success", "failure"}, PublishStatus(s) PROVE MergeInv'
  <2>1. MergeShape' /\ ApprovalsCount'
    BY <1>4 DEF PublishStatus, ApprovalsCount
  <2>2. GreenHasRun'
    BY <1>4 DEF PublishStatus, GreenHasRun
  <2> QED BY <1>4, <2>1, <2>2, BesideTheMerge DEF PublishStatus
<1>5. ASSUME NEW j \in Jobs, CommitFile(j) PROVE MergeInv'
  <2> DEFINE w == [NoJob EXCEPT !.what = "file", !.at = "let"]
  <2>0. w \in MergeJob /\ w.at = "let" /\ w.what = "file"
    BY DEF NoJob, MergeJob
  <2>2. ~w.asked
    BY DEF NoJob
  <2>1. MergeShape' /\ MergeIsBacked(j)' /\ work' = [work EXCEPT ![j] = w]
    <3>1. work' = [work EXCEPT ![j] = w]
      BY <1>5 DEF CommitFile
    <3> HIDE DEF w
    <3>2. work' \in [Jobs -> MergeJob] /\ work'[j] = w
      BY <2>0, <3>1, WorkStays
    <3> QED BY <1>5, <2>0, <3>1, <3>2 DEF CommitFile, MergeIsBacked
  <2> QED BY <1>5, <2>1, <2>2, OneClone DEF CommitFile, MergeSound, NothingLandsUnvouched, MergedIsThere
<1>6. ASSUME NEW j \in Jobs, LetMerge(j) PROVE MergeInv'
  <2> DEFINE w == [NoJob EXCEPT !.what = "merge", !.at = "let", !.judged = onHead, !.asked = "check" \in demands]
  <2>0. w \in MergeJob /\ w.at = "let" /\ w.judged = onHead
    <3>1. ("check" \in demands) \in BOOLEAN
      OBVIOUS
    <3> QED BY <3>1 DEF NoJob, MergeJob
  <2>1. MergeShape' /\ excused \subseteq excused' /\ work' = [work EXCEPT ![j] = w]
    <3> HIDE DEF w
    <3>1. work' = [work EXCEPT ![j] = w]
      BY <1>6 DEF LetMerge, w
    <3>2. work' \in [Jobs -> MergeJob]
      BY <2>0, <3>1, WorkStays
    <3> QED BY <1>6, <3>1, <3>2 DEF LetMerge
  <2>2. work'[j].at = "let" /\ work'[j].judged = onHead
    BY <2>0, <2>1, WorkStays
  <2>3. MergeIsBacked(j)'
    BY <1>6, <2>2, GuardsBackTheHead DEF LetMerge, MergeIsBacked, Backed
  <2>4. w.asked => w.judged \in ran
    BY <1>6 DEF LetMerge, ChecksAllow, GreenHasRun, NoJob
  <2>5. NothingLandsUnvouched'
    BY <1>6, <2>1 DEF LetMerge, MergeSound, NothingLandsUnvouched
  <2> QED BY <1>6, <2>1, <2>3, <2>4, <2>5, OneClone DEF LetMerge, MergeSound, MergedIsThere
<1>7. ASSUME NEW j \in Jobs, Clone(j) PROVE MergeInv'
  <2> DEFINE w == [work[j] EXCEPT !.at = "cloned", !.base = onBase, !.head = onHead]
  <2>0. w \in MergeJob /\ w.at = "cloned" /\ w.head = onHead /\ w.what = work[j].what
    BY DEF MergeJob
  <2>1. MergeShape' /\ excused \subseteq excused' /\ work' = [work EXCEPT ![j] = w]
    <3>1. work' = [work EXCEPT ![j] = w]
      BY <1>7 DEF Clone
    <3> HIDE DEF w
    <3>2. work' \in [Jobs -> MergeJob]
      BY <2>0, <3>1, WorkStays
    <3>3. UNCHANGED <<onBase, onHead, made, rule, reviews>> /\ excused \subseteq excused'
      BY <1>7 DEF Clone
    <3>4. MergeShape'
      BY <3>2, <3>3 DEF MergeShape
    <3> QED BY <3>1, <3>3, <3>4
  <2>2. work'[j].at = "cloned" /\ work'[j].head = onHead /\ work'[j].what = work[j].what
    BY <2>0, <2>1, WorkStays
  <2>3. MergeIsBacked(j)'
    <3>1. work[j].what = "merge" => Backed(work[j].judged)
      BY <1>7 DEF Clone, MergeIsBacked
    <3> QED BY <1>7, <2>2, <3>1 DEF Clone, MergeIsBacked, Backed
  <2>4. w.asked => w.judged \in ran
    BY DEF MergeSound, GreenWhenJudged
  <2>5. NothingLandsUnvouched'
    BY <1>7, <2>1 DEF Clone, MergeSound, NothingLandsUnvouched
  <2> QED BY <1>7, <2>1, <2>3, <2>4, <2>5, OneClone DEF Clone, MergeSound, MergedIsThere
<1>8. ASSUME NEW j \in Jobs, PushFile(j) PROVE MergeInv'
  <2>0. work' = [work EXCEPT ![j] = NoJob] /\ work' \in [Jobs -> MergeJob] /\ work'[j].at = "idle"
    BY <1>8, JobShapes, WorkStays DEF PushFile
  <2>1. MergeShape' /\ excused \subseteq excused' /\ onBase \subseteq onBase'
    BY <1>8, <2>0, NewIsCommit DEF PushFile, FastForward
  <2>4. MergeIsBacked(j)'
    BY <2>0 DEF MergeIsBacked
  <2>2. NothingLandsUnvouched'
    BY <1>8 DEF PushFile, FastForward, MergeSound, NothingLandsUnvouched
  <2> QED BY <1>8, <2>1, <2>2, <2>4, JobShapes, OneClone DEF PushFile, MergeSound, MergedIsThere
<1>9. ASSUME NEW j \in Jobs, PushMerge(j) PROVE MergeInv'
  <2>1. CASE FastForward(j)
    <3> DEFINE w == [NoJob EXCEPT !.what = "merge", !.at = "pushed"]
    <3>5. w \in MergeJob /\ w.at = "pushed"
      BY DEF NoJob, MergeJob
    <3>6. work' = [work EXCEPT ![j] = w]
      BY <1>9, <2>1 DEF PushMerge
    <3>0. work' = [work EXCEPT ![j] = w] /\ work' \in [Jobs -> MergeJob] /\ work'[j].at = "pushed"
      <4> HIDE DEF w
      <4> QED BY <3>5, <3>6, WorkStays
    <3>1. MergeShape' /\ onBase' = onBase \cup work[j].head /\ landed' = landed \cup {work[j].head}
      BY <1>9, <2>1, <3>0 DEF PushMerge, FastForward, MergeJob
    <3>2. MergeIsBacked(j)'
      BY <3>0, <3>1 DEF MergeIsBacked
    <3>3. NothingLandsUnvouched'
      BY <1>9, <3>1 DEF PushMerge, MergeIsBacked, Backed, MergeSound, NothingLandsUnvouched
    <3>4. ~w.asked
      BY DEF NoJob
    <3> QED BY <1>9, <2>1, <3>1, <3>2, <3>3, <3>4, OneClone DEF PushMerge, MergeSound, MergedIsThere
  <2>2. CASE ~FastForward(j)
    <3>1. work' \in [Jobs -> MergeJob] /\ work'[j].at = "idle"
      BY <1>9, <2>2, JobShapes, WorkStays DEF PushMerge
    <3>2. MergeShape' /\ MergeIsBacked(j)'
      BY <1>9, <2>2, <3>1 DEF PushMerge, MergeIsBacked
    <3> QED BY <1>9, <2>2, <3>2, JobShapes, OneClone DEF PushMerge, MergeSound, NothingLandsUnvouched, MergedIsThere
  <2> QED BY <2>1, <2>2
<1>10. ASSUME NEW j \in Jobs, MergeConflict(j) \/ MarkMerged(j) PROVE MergeInv'
  <2>0. work' \in [Jobs -> MergeJob] /\ work'[j].at = "idle"
    BY <1>10, JobShapes, WorkStays DEF MergeConflict, MarkMerged
  <2>1. MergeShape' /\ MergeIsBacked(j)'
    BY <1>10, <2>0 DEF MergeConflict, MarkMerged, MergeIsBacked
  <2>2. pull' = "merged" => landed' # {}
    BY <1>10 DEF MergeConflict, MarkMerged, MergeIsBacked, MergeSound, MergedIsThere
  <2> QED BY <1>10, <2>1, <2>2, JobShapes, OneClone DEF MergeConflict, MarkMerged, MergeSound, NothingLandsUnvouched
<1>11. CASE MergeServerDies
  <2>0. work' \in [Jobs -> MergeJob] /\ \A j \in Jobs : work'[j].at = "idle"
    BY <1>11, JobShapes DEF MergeServerDies
  <2>1. MergeShape' /\ ApprovalsCount' /\ GreenHasRun' /\ \A j \in Jobs : MergeIsBacked(j)'
    BY <1>11, <2>0 DEF MergeServerDies, ApprovalsCount, GreenHasRun, MergeIsBacked
  <2>2. MergeSound'
    BY <1>11 DEF MergeServerDies, NoJob, MergeSound, NothingLandsUnvouched, GreenWhenJudged, MergedIsThere
  <2> QED BY <2>1, <2>2
<1>12. CASE UNCHANGED mergeVars
  <2>1. MergeShape' /\ ApprovalsCount' /\ GreenHasRun'
    BY <1>12 DEF mergeVars, ApprovalsCount, GreenHasRun
  <2> QED BY <1>12, <2>1, BesideTheMerge DEF mergeVars
<1> QED
  BY <1>1, <1>2, <1>3, <1>4, <1>5, <1>6, <1>7, <1>8, <1>9, <1>10, <1>11, <1>12
  DEF MergeNext, ReviewNext, StatusNext, CloneNext

\* Nothing reaches a protected branch unapproved but on the ways `excused` names, a merge
\* that was asked for a green head had one, and a merge that landed stays (mergePullRequest
\* behind the guards of branch-governance.mjs), for any number of reviewers, commits and
\* clones at once.
THEOREM MergesAreSound == MergeSpec => []MergeSound
<1>1. MergeInv => MergeSound
  BY DEF MergeInv
<1> QED BY <1>1, MergeStarts, MergeSteps, PTL DEF MergeSpec

\* A run is a record of these fields, of a branch.
IsRun(x) ==
  /\ x = [n |-> x.n, status |-> x.status, closed |-> x.closed, event |-> x.event, ref |-> x.ref, sha |-> x.sha,
          pull |-> x.pull, as |-> x.as]
  /\ x.ref \in Branches

RequestAt == {Idle} \cup [st : {"working", "worked"}, before : [Branches -> Nat]]
Busy(r) == request[r].st # "idle"

StartShape ==
  /\ refs \in [Branches -> Nat] /\ refs["main"] # 0
  /\ \E n \in Nat : Commits = 1 .. n
  /\ request \in [Requests -> RequestAt]
  /\ IsFiniteSet(runs) /\ \A x \in runs : IsRun(x)

\* No ref is at a commit that is still to come, nor was it when a request looked.
RefsArePast ==
  \A b \in Branches :
    /\ refs[b] <= Cardinality(Commits)
    /\ \A r \in Requests : Busy(r) => request[r].before[b] <= Cardinality(Commits)

\* A branch is built where it is, or a request is out that will see that it moved.
Runnable(b) == file[refs[b]] \in {"all", "broken"}
Built(Q, b) == \E x \in Q : x.event = "push" /\ x.ref = b /\ x.sha = refs[b]
HeadsStand ==
  \A b \in Branches :
    Seen(b) /\ refs[b] > 1 /\ Runnable(b) =>
      Built(runs, b) \/ \E r \in Requests : Busy(r) /\ request[r].before[b] # refs[b]

\* Whoever is out reconciles every pull request and the schedule, not only what he moved.
PullBuilt(Q) == \E x \in OfBranch(Q, PullHead) : x.sha = refs[PullHead]
PullsStand ==
  (\E r \in Requests : Busy(r))
  \/ \A k \in Pulls : pulls[k] = "open" /\ Seen(PullHead) /\ Seen("main") /\ refs[PullHead] # 0 /\ Runnable(PullHead)
                        => PullBuilt(runs)
SchedulesStand ==
  (\E r \in Requests : Busy(r)) \/ (Seen("main") /\ schedule # "none" => file[refs["main"]] = "all")

\* What waits for a deleted branch will be cancelled by who saw it there.
QueueStands ==
  \A x \in InQueue(runs) :
    refs[x.ref] = 0 /\ Seen(x.ref) =>
      x.closed \/ \E r \in Requests : Busy(r) /\ request[r].before[x.ref] # 0

StartInv == StartShape /\ RefsArePast /\ HeadsStand /\ PullsStand /\ SchedulesStand /\ QueueStands

LEMMA StartStarts == StartInit => StartInv
<1> SUFFICES ASSUME StartInit PROVE StartInv
  OBVIOUS
<1>1. \A r \in Requests : request[r] = Idle /\ ~Busy(r)
  BY DEF StartInit, Busy, Idle
<1>2. Commits = 1 .. 1 /\ Cardinality(Commits) = 1
  <2>1. Commits = {1}
    BY DEF StartInit, Commits
  <2>2. Cardinality({1}) = 1
    BY FS_Singleton
  <2> QED BY <2>1, <2>2
<1>3. StartShape
  BY <1>1, <1>2, FS_EmptySet, WorkflowStartAssumption DEF StartInit, StartShape, RequestAt
<1>4. RefsArePast
  BY <1>1, <1>2 DEF StartInit, RefsArePast
<1>5. HeadsStand /\ PullsStand /\ SchedulesStand /\ QueueStands
  BY <1>1 DEF StartInit, HeadsStand, PullsStand, SchedulesStand, QueueStands, InQueue
<1> QED BY <1>3, <1>4, <1>5 DEF StartInv

-----------------------------------------------------------------------------
(* What a dispatch adds, and what one after another add.                   *)

\* The three loops, by what they go through.
Loops == {"push", "pull", "closed"}
StepOf(loop, x, Q) == CASE loop = "push" -> PushedFor(x, Q)
                        [] loop = "pull" -> ReconciledFor(x, Q)
                        [] loop = "closed" -> ClosedFor(x, Q)
Through(loop, x) == CASE loop = "push" -> x \in Branches /\ refs[x] # 0
                      [] loop = "pull" -> refs[PullHead] # 0
                      [] loop = "closed" -> TRUE
\* What it has seen to, if the queue has room.
SeenTo(loop, x, Q) == CASE loop = "push" -> Runnable(x) => Built(Q, x)
                        [] loop = "pull" -> Runnable(PullHead) => PullBuilt(Q)
                        [] loop = "closed" -> TRUE

\* Runs are added, none of them for a branch that is gone, but of a closed pull request.
Adds(R, Q) ==
  /\ R \subseteq Q /\ IsFiniteSet(Q)
  /\ \A x \in Q \ R : IsRun(x) /\ (x.status = "queued" => refs[x.ref] # 0 \/ x.closed)

LEMMA QueueGrows ==
  ASSUME NEW R, NEW Q, R \subseteq Q, IsFiniteSet(Q)
  PROVE  /\ Cardinality(InQueue(R)) \in Nat /\ Cardinality(InQueue(Q)) \in Nat
         /\ Cardinality(InQueue(R)) <= Cardinality(InQueue(Q))
<1>1. InQueue(Q) \subseteq Q /\ InQueue(R) \subseteq InQueue(Q)
  BY DEF InQueue
<1>2. IsFiniteSet(InQueue(Q))
  BY <1>1, FS_Subset
<1>3. IsFiniteSet(InQueue(R)) /\ Cardinality(InQueue(R)) <= Cardinality(InQueue(Q))
  BY <1>1, <1>2, FS_Subset
<1> QED BY <1>2, <1>3, FS_CardinalityType

\* One dispatch adds at most one run, and adds it if the file calls for it and the queue has room.
LEMMA DispatchAdds ==
  ASSUME NEW R, IsFiniteSet(R), NEW e, e.ref \in Branches
  PROVE  /\ R \subseteq Dispatched(R, e) /\ IsFiniteSet(Dispatched(R, e))
         /\ \E z : Dispatched(R, e) \subseteq R \cup {z}
         /\ \A x \in Dispatched(R, e) \ R :
              IsRun(x) /\ x.event = e.event /\ x.ref = e.ref /\ x.sha = e.sha /\ ~x.closed
         /\ (file[e.sha] = "broken" \/ (Matches(file[e.sha], e) /\ Cardinality(InQueue(Dispatched(R, e))) < InFlight))
              => \E x \in Dispatched(R, e) : x.event = e.event /\ x.ref = e.ref /\ x.sha = e.sha
<1>1. ASSUME NEW status, Dispatched(R, e) = R \cup {RunOf(R, e, status)}
      PROVE  /\ R \subseteq Dispatched(R, e) /\ IsFiniteSet(Dispatched(R, e))
             /\ \E z : Dispatched(R, e) \subseteq R \cup {z}
             /\ \A x \in Dispatched(R, e) \ R :
                  IsRun(x) /\ x.event = e.event /\ x.ref = e.ref /\ x.sha = e.sha /\ ~x.closed
             /\ \E x \in Dispatched(R, e) : x.event = e.event /\ x.ref = e.ref /\ x.sha = e.sha
  <2> DEFINE z == RunOf(R, e, status)
  <2>1. IsRun(z) /\ z.event = e.event /\ z.ref = e.ref /\ z.sha = e.sha /\ ~z.closed
    <3>1. z.closed = FALSE
      BY DEF RunOf
    <3> HIDE DEF z
    <3>2. ~z.closed
      BY <3>1
    <3>3. IsRun(z) /\ z.event = e.event /\ z.ref = e.ref /\ z.sha = e.sha
      BY DEF z, RunOf, IsRun
    <3> QED BY <3>2, <3>3
  <2>2. Dispatched(R, e) = R \cup {z}
    BY <1>1
  <2> HIDE DEF z
  <2>3. IsFiniteSet(R \cup {z})
    BY FS_AddElement
  <2>4. z \in Dispatched(R, e) /\ R \subseteq Dispatched(R, e) /\ \A x \in Dispatched(R, e) \ R : x = z
    BY <2>2
  <2>5. \E y : Dispatched(R, e) \subseteq R \cup {y}
    BY <2>2
  <2> QED BY <2>1, <2>2, <2>3, <2>4, <2>5
<1>2. CASE file[e.sha] = "broken"
  BY <1>1, <1>2 DEF Dispatched
<1>3. CASE file[e.sha] # "broken" /\ Matches(file[e.sha], e) /\ Cardinality(InQueue(R)) < InFlight
  BY <1>1, <1>3 DEF Dispatched
<1>4. CASE file[e.sha] # "broken" /\ ~(Matches(file[e.sha], e) /\ Cardinality(InQueue(R)) < InFlight)
  <2>1. Dispatched(R, e) = R
    BY <1>4 DEF Dispatched
  <2> QED BY <1>4, <2>1
<1> QED BY <1>2, <1>3, <1>4

LEMMA StepAdds ==
  ASSUME NEW loop \in Loops, NEW x, Through(loop, x), NEW Q, IsFiniteSet(Q)
  PROVE  /\ Adds(Q, StepOf(loop, x, Q))
         /\ Cardinality(InQueue(StepOf(loop, x, Q))) < InFlight => SeenTo(loop, x, StepOf(loop, x, Q))
<1>0. PullHead \in Branches
  BY WorkflowStartAssumption
<1>1. CASE loop = "push"
  <2> DEFINE e == [event |-> "push", ref |-> x, sha |-> refs[x], pull |-> 0, as |-> "push"]
  <2>1. StepOf(loop, x, Q) = Dispatched(Q, e) /\ e.ref \in Branches /\ refs[x] # 0 /\ e.ref = x /\ e.sha = refs[x]
        /\ e.event = "push"
    BY <1>1 DEF StepOf, PushedFor, Through
  <2>2. file[e.sha] = "all" => Matches(file[e.sha], e)
    BY <2>1 DEF Matches
  <2> HIDE DEF e
  <2>3. /\ Q \subseteq Dispatched(Q, e) /\ IsFiniteSet(Dispatched(Q, e))
        /\ \A y \in Dispatched(Q, e) \ Q : IsRun(y) /\ y.event = e.event /\ y.ref = e.ref /\ y.sha = e.sha /\ ~y.closed
        /\ (file[e.sha] = "broken" \/ (Matches(file[e.sha], e) /\ Cardinality(InQueue(Dispatched(Q, e))) < InFlight))
              => \E y \in Dispatched(Q, e) : y.event = e.event /\ y.ref = e.ref /\ y.sha = e.sha
    BY <2>1, DispatchAdds
  <2>4. Adds(Q, Dispatched(Q, e))
    BY <2>1, <2>3 DEF Adds
  <2>5. Cardinality(InQueue(Dispatched(Q, e))) < InFlight => (Runnable(x) => Built(Dispatched(Q, e), x))
    BY <2>1, <2>2, <2>3 DEF Runnable, Built
  <2> QED BY <1>1, <2>1, <2>4, <2>5 DEF SeenTo
<1>2. CASE loop = "pull" /\ PullBuilt(Q)
  <2>1. StepOf(loop, x, Q) = Q
    BY <1>2 DEF StepOf, ReconciledFor, PullBuilt
  <2>2. SeenTo(loop, x, Q)
    BY <1>2 DEF SeenTo
  <2> QED BY <2>1, <2>2 DEF Adds
<1>3. CASE loop = "pull" /\ ~PullBuilt(Q)
  <2> DEFINE e == [event |-> "pull_request", ref |-> PullHead, sha |-> refs[PullHead], pull |-> x,
                   as |-> IF OfBranch(Q, PullHead) = {} THEN "opened" ELSE "synchronize"]
  <2>1. /\ StepOf(loop, x, Q) = Dispatched(Q, e) /\ e.ref \in Branches /\ refs[PullHead] # 0 /\ e.ref = PullHead
        /\ e.sha = refs[PullHead] /\ e.event = "pull_request"
    BY <1>0, <1>3 DEF StepOf, ReconciledFor, Through, PullBuilt
  <2>2. file[e.sha] = "all" => Matches(file[e.sha], e)
    BY <2>1 DEF Matches
  <2> HIDE DEF e
  <2>3. /\ Q \subseteq Dispatched(Q, e) /\ IsFiniteSet(Dispatched(Q, e))
        /\ \A y \in Dispatched(Q, e) \ Q : IsRun(y) /\ y.event = e.event /\ y.ref = e.ref /\ y.sha = e.sha /\ ~y.closed
        /\ (file[e.sha] = "broken" \/ (Matches(file[e.sha], e) /\ Cardinality(InQueue(Dispatched(Q, e))) < InFlight))
              => \E y \in Dispatched(Q, e) : y.event = e.event /\ y.ref = e.ref /\ y.sha = e.sha
    BY <2>1, DispatchAdds
  <2>4. Adds(Q, Dispatched(Q, e))
    BY <2>1, <2>3 DEF Adds
  <2>5. Cardinality(InQueue(Dispatched(Q, e))) < InFlight => (Runnable(PullHead) => PullBuilt(Dispatched(Q, e)))
    BY <2>1, <2>2, <2>3 DEF Runnable, PullBuilt, OfBranch
  <2> QED BY <1>3, <2>1, <2>4, <2>5 DEF SeenTo
<1>4. CASE loop = "closed"
  <2> DEFINE e == [event |-> "pull_request", ref |-> PullHead, sha |-> LastBuilt(Q, PullHead), pull |-> x,
                   as |-> "closed"]
             D == Dispatched(Q, e)
             added == {IF y.status = "queued" THEN [y EXCEPT !.closed = TRUE] ELSE y : y \in D \ Q}
  <2>1. StepOf(loop, x, Q) = Q \/ StepOf(loop, x, Q) = Q \cup added
    BY <1>4 DEF StepOf, ClosedFor
  <2>2. IsFiniteSet(D) /\ (\E z : D \subseteq Q \cup {z}) /\ \A y \in D \ Q : IsRun(y)
    <3>1. e.ref \in Branches
      BY <1>0
    <3> HIDE DEF e
    <3> QED BY <3>1, DispatchAdds
  <2> HIDE DEF e, D
  <2>3. \A z \in added : IsRun(z) /\ (z.status = "queued" => z.closed)
    <3> SUFFICES ASSUME NEW y \in D \ Q,
                        NEW z, z = IF y.status = "queued" THEN [y EXCEPT !.closed = TRUE] ELSE y
                 PROVE  IsRun(z) /\ (z.status = "queued" => z.closed)
      OBVIOUS
    <3>1. CASE y.status # "queued"
      BY <2>2, <3>1
    <3>2. CASE y.status = "queued"
      <4>1. y = [n |-> y.n, status |-> y.status, closed |-> y.closed, event |-> y.event, ref |-> y.ref,
                 sha |-> y.sha, pull |-> y.pull, as |-> y.as] /\ y.ref \in Branches
        BY <2>2 DEF IsRun
      <4>2. z = [n |-> y.n, status |-> y.status, closed |-> TRUE, event |-> y.event, ref |-> y.ref,
                 sha |-> y.sha, pull |-> y.pull, as |-> y.as]
        BY <3>2, <4>1
      <4> QED BY <4>1, <4>2 DEF IsRun
    <3> QED BY <3>1, <3>2
  <2>4. IsFiniteSet(added)
    <3>1. PICK z : D \subseteq Q \cup {z}
      BY <2>2
    <3> DEFINE only == IF z.status = "queued" THEN [z EXCEPT !.closed = TRUE] ELSE z
    <3>2. added \in SUBSET {only}
      BY <3>1
    <3> HIDE DEF only
    <3>3. IsFiniteSet({only})
      BY FS_Singleton
    <3> QED BY <3>2, <3>3, FS_Subset
  <2>5. IsFiniteSet(Q \cup added)
    BY <2>4, FS_Union
  <2> HIDE DEF added
  <2>6. Adds(Q, Q) /\ Adds(Q, Q \cup added)
    BY <2>3, <2>5 DEF Adds
  <2> QED BY <1>4, <2>1, <2>6 DEF SeenTo
<1> QED BY <1>1, <1>2, <1>3, <1>4 DEF Loops

-----------------------------------------------------------------------------
(* A loop: there is one function on the subsets that goes through them as   *)
(* FoldSet does, and what holds of one step holds of all.                   *)

\* A set of numbers has a least one.
LEMMA LeastNumber ==
  ASSUME NEW T \in SUBSET Nat, T # {}
  PROVE  \E n \in T : \A k \in T : n <= k
<1> DEFINE below(n) == 0 .. (n - 1)
           S == {below(n) : n \in T}
           R == StrictSubsetOrdering(Nat)
<1>1. S \subseteq FiniteSubsetsOf(Nat)
  <2> SUFFICES ASSUME NEW n \in T PROVE below(n) \in FiniteSubsetsOf(Nat)
    OBVIOUS
  <2>1. 0 \in Int /\ n - 1 \in Int /\ below(n) \subseteq Nat
    OBVIOUS
  <2>2. IsFiniteSet(below(n))
    BY <2>1, FS_Interval
  <2> QED BY <2>1, <2>2 DEF FiniteSubsetsOf
<1>2. \E x \in S : \A y \in S : ~ (<<y, x>> \in R)
  <2>1. S # {}
    OBVIOUS
  <2> HIDE DEF S, R
  <2>2. IsWellFoundedOn(StrictSubsetOrdering(Nat), FiniteSubsetsOf(Nat))
    BY FS_StrictSubsetOrderingWellFounded
  <2> QED BY <1>1, <2>1, <2>2, WFMin DEF R
<1>3. PICK n \in T : \A k \in T : <<below(k), below(n)>> \notin R
  BY <1>2
<1>4. ASSUME NEW k \in T, k < n PROVE FALSE
  <2>1. below(k) \subseteq below(n) /\ k \in below(n) /\ k \notin below(k)
    BY <1>4
  <2>2. below(k) \in SUBSET Nat /\ below(n) \in SUBSET Nat
    OBVIOUS
  <2>3. <<below(k), below(n)>> \in R
    <3> HIDE DEF below
    <3> QED BY <2>1, <2>2 DEF StrictSubsetOrdering
  <2> QED BY <2>3, <1>3
<1> QED BY <1>4

\* What is left when x is taken out, and what the loop makes of the rest.
Taken(s) == CHOOSE x \in s : TRUE
LoopAt(loop, R, f, s) == IF s = {} THEN R ELSE StepOf(loop, Taken(s), f[s \ {Taken(s)}])
GoesThrough(loop, R, S, f) == f = [s \in SUBSET S |-> LoopAt(loop, R, f, s)]

LEMMA TakenFrom ==
  ASSUME NEW s, IsFiniteSet(s), s # {}
  PROVE  /\ Taken(s) \in s /\ IsFiniteSet(s \ {Taken(s)}) /\ Cardinality(s) \in Nat /\ Cardinality(s) # 0
         /\ Cardinality(s \ {Taken(s)}) = Cardinality(s) - 1
<1>1. Taken(s) \in s
  BY DEF Taken
<1>2. IsFiniteSet(s \ {Taken(s)}) /\ Cardinality(s \ {Taken(s)}) = Cardinality(s) - 1
  BY <1>1, FS_RemoveElement
<1>3. Cardinality(s) \in Nat /\ Cardinality(s) # 0
  BY FS_CardinalityType, FS_EmptySet
<1> QED BY <1>1, <1>2, <1>3

LEMMA LoopRuns ==
  ASSUME NEW loop, NEW R, NEW S, IsFiniteSet(S)
  PROVE  \E f : GoesThrough(loop, R, S, f)
<1> DEFINE Upto(n, f) == \A s \in SUBSET S : Cardinality(s) <= n => f[s] = LoopAt(loop, R, f, s)
           bad == {n \in Nat : ~\E f : Upto(n, f)}
<1>0. \A s \in SUBSET S : IsFiniteSet(s) /\ Cardinality(s) \in Nat /\ Cardinality(s) <= Cardinality(S)
  BY FS_Subset, FS_CardinalityType
<1>1. bad = {}
  <2> SUFFICES ASSUME bad # {} PROVE FALSE
    OBVIOUS
  <2>1. PICK n \in bad : \A k \in bad : n <= k
    <3>1. bad \in SUBSET Nat
      OBVIOUS
    <3> HIDE DEF bad
    <3> QED BY <3>1, LeastNumber
  <2>2. n # 0
    <3> DEFINE f == [s \in SUBSET S |-> R]
    <3>1. ASSUME NEW s \in SUBSET S, Cardinality(s) <= 0 PROVE f[s] = LoopAt(loop, R, f, s)
      <4>1. s = {}
        BY <1>0, <3>1, FS_EmptySet
      <4> QED BY <4>1 DEF LoopAt
    <3>2. Upto(0, f)
      BY <3>1
    <3> HIDE DEF Upto, f
    <3>3. 0 \notin bad
      BY <3>2
    <3> QED BY <2>1, <3>3
  <2>3. PICK f : Upto(n - 1, f)
    <3>1. n - 1 \in Nat /\ n \in Nat /\ ~(n <= n - 1)
      BY <2>1, <2>2
    <3> HIDE DEF Upto
    <3> QED BY <2>1, <3>1
  <2> DEFINE g == [s \in SUBSET S |-> IF Cardinality(s) <= n - 1 THEN f[s] ELSE LoopAt(loop, R, f, s)]
  <2>4. ASSUME NEW s \in SUBSET S, Cardinality(s) <= n PROVE g[s] = LoopAt(loop, R, g, s)
    <3>1. g[s] = LoopAt(loop, R, f, s)
      BY <2>3
    <3>2. CASE s = {}
      BY <3>1, <3>2 DEF LoopAt
    <3>3. CASE s # {}
      <4>1. s \ {Taken(s)} \in SUBSET S /\ Cardinality(s \ {Taken(s)}) <= n - 1
        BY <1>0, <2>1, <2>4, <3>3, TakenFrom
      <4>2. g[s \ {Taken(s)}] = f[s \ {Taken(s)}]
        BY <4>1
      <4> HIDE DEF g
      <4> QED BY <3>1, <3>3, <4>2 DEF LoopAt
    <3> QED BY <3>2, <3>3
  <2>5. Upto(n, g)
    BY <2>4
  <2> HIDE DEF Upto, g
  <2> QED BY <2>1, <2>5
<1>2. PICK f : Upto(Cardinality(S), f)
  <2>1. Cardinality(S) \in Nat
    BY FS_CardinalityType
  <2> HIDE DEF Upto
  <2> QED BY <1>1, <2>1
<1> DEFINE g == [s \in SUBSET S |-> f[s]]
<1>3. ASSUME NEW s \in SUBSET S PROVE g[s] = LoopAt(loop, R, g, s)
  <2>1. g[s] = LoopAt(loop, R, f, s)
    BY <1>0, <1>2
  <2>2. CASE s = {}
    BY <2>1, <2>2 DEF LoopAt
  <2>3. CASE s # {}
    <3>1. g[s \ {Taken(s)}] = f[s \ {Taken(s)}]
      OBVIOUS
    <3> HIDE DEF g
    <3> QED BY <2>1, <2>3, <3>1 DEF LoopAt
  <2> QED BY <2>2, <2>3
<1>4. GoesThrough(loop, R, S, g)
  <2>1. g = [s \in SUBSET S |-> g[s]]
    OBVIOUS
  <2> HIDE DEF g
  <2> QED BY <1>3, <2>1 DEF GoesThrough
<1> QED BY <1>4

\* FoldSet is such a function at the whole set.
LEMMA LoopsAre ==
  ASSUME NEW R, NEW S, IsFiniteSet(S)
  PROVE  /\ \E f : GoesThrough("push", R, S, f) /\ FoldSet(PushedFor, R, S) = f[S]
         /\ \E f : GoesThrough("pull", R, S, f) /\ FoldSet(ReconciledFor, R, S) = f[S]
         /\ \E f : GoesThrough("closed", R, S, f) /\ FoldSet(ClosedFor, R, S) = f[S]
<1>1. \E f : GoesThrough("push", R, S, f) /\ FoldSet(PushedFor, R, S) = f[S]
  <2> DEFINE iter == CHOOSE f : GoesThrough("push", R, S, f)
  <2>1. GoesThrough("push", R, S, iter)
    BY LoopRuns
  <2>2. FoldSet(PushedFor, R, S) = iter[S]
    BY Zenon DEF FoldSet, MapThenFoldSet, GoesThrough, LoopAt, Taken, StepOf
  <2> QED BY <2>1, <2>2
<1>2. \E f : GoesThrough("pull", R, S, f) /\ FoldSet(ReconciledFor, R, S) = f[S]
  <2> DEFINE iter == CHOOSE f : GoesThrough("pull", R, S, f)
  <2>1. GoesThrough("pull", R, S, iter)
    BY LoopRuns
  <2>2. FoldSet(ReconciledFor, R, S) = iter[S]
    BY Zenon DEF FoldSet, MapThenFoldSet, GoesThrough, LoopAt, Taken, StepOf
  <2> QED BY <2>1, <2>2
<1>3. \E f : GoesThrough("closed", R, S, f) /\ FoldSet(ClosedFor, R, S) = f[S]
  <2> DEFINE iter == CHOOSE f : GoesThrough("closed", R, S, f)
  <2>1. GoesThrough("closed", R, S, iter)
    BY LoopRuns
  <2>2. FoldSet(ClosedFor, R, S) = iter[S]
    BY Zenon DEF FoldSet, MapThenFoldSet, GoesThrough, LoopAt, Taken, StepOf
  <2> QED BY <2>1, <2>2
<1> QED BY <1>1, <1>2, <1>3

LEMMA QueueOfMore ==
  ASSUME NEW R, NEW Q, Adds(R, Q)
  PROVE  Cardinality(InQueue(Q)) < InFlight => Cardinality(InQueue(R)) < InFlight
<1>1. R \subseteq Q /\ IsFiniteSet(Q)
  BY DEF Adds
<1> QED BY <1>1, QueueGrows, WorkflowStartAssumption

LEMMA SeenToStays ==
  ASSUME NEW loop \in Loops, NEW x, NEW R, NEW Q, R \subseteq Q, SeenTo(loop, x, R)
  PROVE  SeenTo(loop, x, Q)
<1>1. (Built(R, x) => Built(Q, x)) /\ (PullBuilt(R) => PullBuilt(Q))
  BY DEF Built, PullBuilt, OfBranch
<1>2. CASE loop = "push"
  BY <1>1, <1>2 DEF SeenTo
<1>3. CASE loop = "pull"
  BY <1>1, <1>3 DEF SeenTo
<1>4. CASE loop = "closed"
  BY <1>4 DEF SeenTo
<1> QED BY <1>2, <1>3, <1>4 DEF Loops

\* What the loop adds, and that it sees to all it goes through if the queue has room to the end.
LEMMA LoopAdds ==
  ASSUME NEW loop \in Loops, NEW R, IsFiniteSet(R), NEW S, IsFiniteSet(S), \A x \in S : Through(loop, x),
         NEW f, GoesThrough(loop, R, S, f)
  PROVE  Adds(R, f[S]) /\ (Cardinality(InQueue(f[S])) < InFlight => \A x \in S : SeenTo(loop, x, f[S]))
<1> DEFINE Fits(s) == Adds(R, f[s]) /\ (Cardinality(InQueue(f[s])) < InFlight => \A x \in s : SeenTo(loop, x, f[s]))
           bad == {s \in SUBSET S : ~Fits(s)}
           sizes == {Cardinality(s) : s \in bad}
<1>0. \A s \in SUBSET S : IsFiniteSet(s) /\ Cardinality(s) \in Nat
  BY FS_Subset, FS_CardinalityType
<1>1. bad = {}
  <2> SUFFICES ASSUME bad # {} PROVE FALSE
    OBVIOUS
  <2>1. PICK s \in bad : \A t \in bad : Cardinality(s) <= Cardinality(t)
    <3>1. sizes \in SUBSET Nat /\ sizes # {}
      BY <1>0
    <3>2. \E n \in sizes : \A k \in sizes : n <= k
      <4> HIDE DEF sizes
      <4> QED BY <3>1, LeastNumber
    <3> HIDE DEF bad
    <3> QED BY <3>2
  <2>2. f[s] = LoopAt(loop, R, f, s)
    BY <2>1 DEF GoesThrough
  <2>3. CASE s = {}
    <3>1. f[s] = R /\ Adds(R, R)
      BY <2>2, <2>3 DEF LoopAt, Adds
    <3> QED BY <2>1, <2>3, <3>1
  <2>4. CASE s # {}
    <3> DEFINE x == Taken(s)
               Q == f[s \ {x}]
    <3>1. x \in s /\ s \ {x} \in SUBSET S /\ ~(Cardinality(s) <= Cardinality(s \ {x}))
      BY <1>0, <2>1, <2>4, TakenFrom
    <3>2. Fits(s \ {x})
      BY <2>1, <3>1
    <3>3. f[s] = StepOf(loop, x, Q)
      BY <2>2, <2>4 DEF LoopAt
    <3>4. Through(loop, x) /\ IsFiniteSet(Q) /\ Adds(R, Q) /\ x \in s
      BY <2>1, <3>1, <3>2 DEF Adds
    <3>5. Cardinality(InQueue(Q)) < InFlight => \A y \in s \ {x} : SeenTo(loop, y, Q)
      BY <3>2
    <3> HIDE DEF x, Q, Fits
    <3>6. Adds(Q, f[s]) /\ (Cardinality(InQueue(f[s])) < InFlight => SeenTo(loop, x, f[s]))
      BY <3>3, <3>4, StepAdds
    <3>7. Adds(R, f[s])
      BY <3>4, <3>6 DEF Adds
    <3>8. ASSUME Cardinality(InQueue(f[s])) < InFlight, NEW y \in s PROVE SeenTo(loop, y, f[s])
      <4>1. CASE y = x
        BY <3>6, <3>8, <4>1
      <4>2. CASE y # x
        <5>1. SeenTo(loop, y, Q)
          BY <3>5, <3>6, <3>8, <4>2, QueueOfMore
        <5>2. Q \subseteq f[s]
          BY <3>6 DEF Adds
        <5> QED BY <5>1, <5>2, SeenToStays
      <4> QED BY <4>1, <4>2
    <3> QED BY <2>1, <3>7, <3>8 DEF Fits
  <2> QED BY <2>3, <2>4
<1> QED BY <1>1

LEMMA AddsOn ==
  ASSUME NEW R, NEW Q, NEW P, Adds(R, Q), Adds(Q, P)
  PROVE  Adds(R, P)
BY DEF Adds

\* The three loops of `finish`, one after another.
LEMMA FinishAdds ==
  ASSUME NEW before, IsFiniteSet(runs), \A x \in runs : IsRun(x)
  PROVE  LET R == Cancelled(runs, before)
             Q == Closed(Reconciled(Pushed(R, before)))
         IN  /\ Adds(R, Q)
             /\ Cardinality(InQueue(Q)) < InFlight =>
                  /\ \A b \in RefChanges(before) : Runnable(b) => Built(Q, b)
                  /\ OpenPulls # {} /\ Runnable(PullHead) => PullBuilt(Q)
<1> DEFINE R0 == Cancelled(runs, before)
           R1 == Pushed(R0, before)
           R2 == Reconciled(R1)
           R3 == Closed(R2)
           C == {k \in Pulls : pulls[k] = "merged" /\ ~\E x \in OfBranch(R2, PullHead) : x.closed}
<1>0. IsFiniteSet(R0)
  <2> DEFINE g == [x \in runs |-> IF x.status = "queued" /\ before[x.ref] # 0 /\ refs[x.ref] = 0
                                  THEN [x EXCEPT !.status = "cancelled"] ELSE x]
  <2>1. g \in Surjection(runs, R0)
    <3>1. g \in [runs -> R0]
      BY DEF Cancelled
    <3>2. \A y \in R0 : \E x \in runs : g[x] = y
      BY DEF Cancelled
    <3> HIDE DEF g, R0
    <3> QED BY <3>1, <3>2 DEF Surjection
  <2> HIDE DEF g, R0
  <2> QED BY <2>1, FS_Surjection
<1>1. /\ Adds(R0, R1)
      /\ Cardinality(InQueue(R1)) < InFlight => \A b \in RefChanges(before) : SeenTo("push", b, R1)
  <2>1. RefChanges(before) \in SUBSET Branches /\ \A x \in RefChanges(before) : Through("push", x)
    BY DEF RefChanges, Through
  <2>2. IsFiniteSet(RefChanges(before))
    BY <2>1, FS_Subset, WorkflowStartAssumption
  <2> HIDE DEF R0
  <2>3. PICK f : GoesThrough("push", R0, RefChanges(before), f) /\ R1 = f[RefChanges(before)]
    BY <1>0, <2>2, LoopsAre DEF Pushed
  <2> HIDE DEF R1
  <2> QED BY <1>0, <2>1, <2>2, <2>3, LoopAdds DEF Loops
<1>2. /\ Adds(R1, R2)
      /\ Cardinality(InQueue(R2)) < InFlight => \A k \in OpenPulls : SeenTo("pull", k, R2)
  <2>0. IsFiniteSet(R1)
    BY <1>1 DEF Adds
  <2>1. OpenPulls \in SUBSET Pulls /\ \A x \in OpenPulls : Through("pull", x)
    BY DEF OpenPulls, Through
  <2>2. IsFiniteSet(OpenPulls)
    BY <2>1, FS_Subset, WorkflowStartAssumption
  <2> HIDE DEF R1
  <2>3. PICK f : GoesThrough("pull", R1, OpenPulls, f) /\ R2 = f[OpenPulls]
    BY <2>0, <2>2, LoopsAre DEF Reconciled
  <2> HIDE DEF R2
  <2> QED BY <2>0, <2>1, <2>2, <2>3, LoopAdds DEF Loops
<1>3. Adds(R2, R3)
  <2>0. IsFiniteSet(R2)
    BY <1>2 DEF Adds
  <2>1. C \in SUBSET Pulls /\ \A x \in C : Through("closed", x)
    BY DEF Through
  <2>2. IsFiniteSet(C)
    BY <2>1, FS_Subset, WorkflowStartAssumption
  <2>3. R3 = FoldSet(ClosedFor, R2, C)
    BY DEF Closed
  <2> HIDE DEF R2, R3, C
  <2>4. PICK f : GoesThrough("closed", R2, C, f) /\ R3 = f[C]
    BY <2>0, <2>2, <2>3, LoopsAre
  <2> QED BY <2>0, <2>1, <2>2, <2>4, LoopAdds DEF Loops
<1> HIDE DEF R0, R1, R2, R3
<1>4. Adds(R0, R3) /\ R1 \subseteq R3 /\ R2 \subseteq R3
  <2>1. Adds(R0, R2) /\ Adds(R1, R3)
    BY <1>1, <1>2, <1>3, AddsOn
  <2>2. Adds(R0, R3)
    BY <1>3, <2>1, AddsOn
  <2> QED BY <1>3, <2>1, <2>2 DEF Adds
<1>5. ASSUME Cardinality(InQueue(R3)) < InFlight
      PROVE  /\ \A b \in RefChanges(before) : Runnable(b) => Built(R3, b)
             /\ OpenPulls # {} /\ Runnable(PullHead) => PullBuilt(R3)
  <2>1. Cardinality(InQueue(R2)) < InFlight
    BY <1>3, <1>5, QueueOfMore
  <2>2. Cardinality(InQueue(R1)) < InFlight
    BY <1>2, <2>1, QueueOfMore
  <2>3. \A b \in RefChanges(before) : SeenTo("push", b, R1)
    BY <1>1, <2>2
  <2>4. \A k \in OpenPulls : SeenTo("pull", k, R2)
    BY <1>2, <2>1
  <2>5. \A b \in RefChanges(before) : Runnable(b) => Built(R3, b)
    BY <1>4, <2>3 DEF SeenTo, Built
  <2>6. OpenPulls # {} /\ Runnable(PullHead) => PullBuilt(R3)
    BY <1>4, <2>4 DEF SeenTo, PullBuilt, OfBranch
  <2> QED BY <2>5, <2>6
<1> QED BY <1>4, <1>5 DEF R0, R1, R2, R3

-----------------------------------------------------------------------------
(* The steps.                                                              *)

LEMMA RequestIs ==
  ASSUME StartShape, NEW r \in Requests
  PROVE  /\ Busy(r) => request[r].before \in [Branches -> Nat] /\ request[r].st \in {"working", "worked"}
         /\ ~Busy(r) <=> request[r] = Idle
BY DEF StartShape, RequestAt, Busy, Idle

\* A request that has done its work is out as before, and saw what it saw.
LEMMA WorkedIs ==
  ASSUME StartShape, NEW r \in Requests, Working(r), request' = Worked(r)
  PROVE  /\ request' \in [Requests -> RequestAt] /\ Busy(r)
         /\ \A q \in Requests : (Busy(q)' <=> Busy(q)) /\ (Busy(q) => request'[q].before = request[q].before)
<1>1. Busy(r)
  BY DEF Working, Busy
<1>2. request[r] \in [st : {"working", "worked"}, before : [Branches -> Nat]] /\ request \in [Requests -> RequestAt]
  BY <1>1 DEF StartShape, RequestAt, Busy, Idle
<1>3. request' = [request EXCEPT ![r] = [request[r] EXCEPT !.st = "worked"]]
  BY DEF Worked
<1>4. request'[r] \in RequestAt /\ request'[r].st = "worked" /\ request'[r].before = request[r].before
  BY <1>2, <1>3 DEF RequestAt
<1>5. \A q \in Requests : q # r => request'[q] = request[q]
  BY <1>3
<1> QED BY <1>1, <1>2, <1>3, <1>4, <1>5 DEF Busy

FileWith(c, what) == [k \in 1 .. c |-> IF k = c THEN what ELSE file[k]]

Lands(b, c) ==
  /\ Commits' = 1 .. c /\ Cardinality(Commits)' = c /\ c \in Nat /\ c > Cardinality(Commits)
  /\ refs' \in [Branches -> Nat] /\ refs'[b] = c /\ refs'["main"] # 0
  /\ \A d \in Branches : refs'[d] <= c
  /\ \A d \in Branches : d # b => refs'[d] = refs[d] /\ (refs[d] # 0 => file'[refs'[d]] = file[refs[d]])

\* A new commit, and a branch that is at it: nothing else is elsewhere.
LEMMA CommitIs ==
  ASSUME StartShape, RefsArePast, NEW b \in Branches, NEW what, NEW c, c = Cardinality(Commits) + 1,
         refs' = [refs EXCEPT ![b] = c], file' = FileWith(c, what)
  PROVE  Lands(b, c)
<1>1. PICK n \in Nat : Commits = 1 .. n
  BY DEF StartShape
<1>2. Cardinality(Commits) = n
  BY <1>1, FS_Interval
<1>3. c = n + 1 /\ c \in Nat /\ c > n
  BY <1>2
<1>4. Commits' = 1 .. c
  BY DEF Commits, FileWith
<1>5. Cardinality(1 .. c) = c
  BY <1>3, FS_Interval
<1>6. refs \in [Branches -> Nat] /\ refs["main"] # 0 /\ \A d \in Branches : refs[d] <= n
  BY <1>2 DEF StartShape, RefsArePast
<1>7. /\ refs' \in [Branches -> Nat] /\ refs'[b] = c
      /\ \A d \in Branches : d # b => refs'[d] = refs[d]
  BY <1>3, <1>6
<1>8. refs'["main"] # 0
  BY <1>3, <1>6, <1>7, WorkflowStartAssumption
<1>9. ASSUME NEW d \in Branches, d # b, refs[d] # 0 PROVE file'[refs'[d]] = file[refs[d]]
  <2>1. refs'[d] = refs[d] /\ refs[d] \in 1 .. c /\ refs[d] # c
    BY <1>3, <1>6, <1>7, <1>9
  <2> QED BY <2>1 DEF FileWith
<1>10. \A d \in Branches : refs'[d] <= c
  BY <1>3, <1>6, <1>7
<1> QED BY <1>2, <1>3, <1>4, <1>5, <1>7, <1>8, <1>9, <1>10 DEF Lands

\* Every run has another of the same event, branch and commit.
Keeps(R, Q) == \A x \in R : \E y \in Q : y.event = x.event /\ y.ref = x.ref /\ y.sha = x.sha

LEMMA RunsMove ==
  ASSUME StartInv, UNCHANGED <<refs, file, request, pulls, unseen>>, schedule' # "none" => schedule # "none",
         IsFiniteSet(runs'), \A x \in runs' : IsRun(x), Keeps(runs, runs'),
         \A x \in InQueue(runs') : x \in InQueue(runs) \/ refs[x.ref] # 0
  PROVE  StartInv'
<1>1. StartShape'
  <2>1. \A x \in runs' : IsRun(x)'
    BY DEF IsRun
  <2> QED BY <2>1 DEF StartInv, StartShape, Commits
<1>2. RefsArePast'
  BY DEF StartInv, RefsArePast, Busy, Commits
<1>3. HeadsStand'
  <2>1. \A b \in Branches : Built(runs, b) => Built(runs, b)'
    BY DEF Keeps, Built
  <2> QED BY <2>1 DEF StartInv, HeadsStand, Busy, Seen, Runnable
<1>4. PullsStand'
  <2>1. PullBuilt(runs) => PullBuilt(runs)'
    BY DEF Keeps, PullBuilt, OfBranch
  <2> QED BY <2>1 DEF StartInv, PullsStand, Busy, Seen, Runnable
<1>5. SchedulesStand'
  BY DEF StartInv, SchedulesStand, Busy, Seen
<1>6. QueueStands'
  BY DEF StartInv, QueueStands, Busy, Seen
<1> QED BY <1>1, <1>2, <1>3, <1>4, <1>5, <1>6 DEF StartInv

\* A request that makes a commit: it will see that the branch is elsewhere than where it was.
LEMMA CommitKeeps ==
  ASSUME StartInv, NEW r \in Requests, Working(r), request' = Worked(r), NEW b \in Branches, NEW what,
         NEW c, c = Cardinality(Commits) + 1,
         refs' = [refs EXCEPT ![b] = c], file' = FileWith(c, what),
         UNCHANGED <<runs, schedule, unseen>>
  PROVE  StartInv'
<1>1. /\ Commits' = 1 .. c /\ Cardinality(Commits)' = c /\ c \in Nat /\ c > Cardinality(Commits)
      /\ refs' \in [Branches -> Nat] /\ refs'[b] = c /\ refs'["main"] # 0
      /\ \A d \in Branches : refs'[d] <= c
      /\ \A d \in Branches : d # b => refs'[d] = refs[d] /\ (refs[d] # 0 => file'[refs'[d]] = file[refs[d]])
  <2>1. StartShape /\ RefsArePast
    BY DEF StartInv
  <2>2. Lands(b, c)
    BY <2>1, CommitIs
  <2> QED BY <2>2 DEF Lands
<1>2. /\ request' \in [Requests -> RequestAt] /\ Busy(r)
      /\ \A q \in Requests : (Busy(q)' <=> Busy(q)) /\ (Busy(q) => request'[q].before = request[q].before)
  BY WorkedIs DEF StartInv
<1>3. /\ refs \in [Branches -> Nat]
      /\ \A d \in Branches : refs[d] <= Cardinality(Commits)
      /\ \A q \in Requests : Busy(q) => request[q].before \in [Branches -> Nat]
                                        /\ \A d \in Branches : request[q].before[d] <= Cardinality(Commits)
  <2>1. \A q \in Requests : Busy(q) => request[q].before \in [Branches -> Nat]
    BY RequestIs DEF StartInv
  <2> QED BY <2>1 DEF StartInv, StartShape, RefsArePast
<1>4. Cardinality(Commits) \in Nat
  <2>1. PICK n \in Nat : Commits = 1 .. n
    BY DEF StartInv, StartShape
  <2>2. Cardinality(1 .. n) = n
    BY FS_Interval
  <2> QED BY <2>1, <2>2
<1>5. StartShape'
  <2>1. \A x \in runs' : IsRun(x)'
    BY DEF IsRun, StartInv, StartShape
  <2>2. IsFiniteSet(runs')
    BY DEF StartInv, StartShape
  <2> QED BY <1>1, <1>2, <2>1, <2>2 DEF StartShape
<1>6. RefsArePast'
  <2>1. ASSUME NEW d \in Branches, NEW q \in Requests, Busy(q)' PROVE request'[q].before[d] <= c
    BY <1>1, <1>2, <1>3, <1>4, <2>1
  <2> QED BY <1>1, <2>1 DEF RefsArePast
<1>7. HeadsStand'
  <2> SUFFICES ASSUME NEW d \in Branches, Seen(d)', refs'[d] > 1, Runnable(d)',
                      \A q \in Requests : Busy(q)' => request'[q].before[d] = refs'[d]
               PROVE  Built(runs, d)'
    BY DEF HeadsStand
  <2>1. d # b
    BY <1>1, <1>2, <1>3, <1>4
  <2>2. refs'[d] = refs[d] /\ refs[d] > 1 /\ refs[d] # 0
    BY <1>1, <1>3, <2>1
  <2>3. file'[refs'[d]] = file[refs[d]]
    BY <1>1, <2>1, <2>2
  <2>4. Runnable(d) /\ Seen(d)
    BY <2>3 DEF Runnable, Seen
  <2>5. Built(runs, d)
    BY <1>2, <2>2, <2>4 DEF StartInv, HeadsStand
  <2> QED BY <2>2, <2>5 DEF Built
<1>8. PullsStand' /\ SchedulesStand'
  BY <1>2 DEF PullsStand, SchedulesStand
<1>9. QueueStands'
  <2> SUFFICES ASSUME NEW x \in InQueue(runs), refs'[x.ref] = 0, Seen(x.ref), ~x.closed
               PROVE  \E q \in Requests : Busy(q)' /\ request'[q].before[x.ref] # 0
    BY DEF QueueStands, Seen
  <2>1. x.ref \in Branches
    BY DEF StartInv, StartShape, InQueue, IsRun
  <2>2. x.ref # b /\ refs[x.ref] = 0
    BY <1>1, <1>4, <2>1
  <2> QED BY <1>2, <2>2 DEF StartInv, QueueStands
<1> QED BY <1>5, <1>6, <1>7, <1>8, <1>9 DEF StartInv

LEMMA ResponseKeeps ==
  ASSUME StartInv, NEW r \in Requests, ResponseFinishes(r)
  PROVE  StartInv'
<1> DEFINE before == request[r].before
           R0 == Cancelled(runs, before)
           R == Closed(Reconciled(Pushed(R0, before)))
<1>1. /\ Busy(r) /\ runs' = R /\ schedule' = Synced /\ UNCHANGED <<refs, file, pulls>>
      /\ request' = [request EXCEPT ![r] = Idle]
      /\ unseen' = IF Cardinality(InQueue(R)) < InFlight THEN unseen ELSE unseen \cup Branches
  BY DEF ResponseFinishes, Busy
<1>2. IsFiniteSet(runs) /\ \A x \in runs : IsRun(x)
  BY DEF StartInv, StartShape
<1>3. /\ Adds(R0, R)
      /\ Cardinality(InQueue(R)) < InFlight =>
           /\ \A b \in RefChanges(before) : Runnable(b) => Built(R, b)
           /\ OpenPulls # {} /\ Runnable(PullHead) => PullBuilt(R)
  BY <1>2, FinishAdds
<1>4. \A y \in R0 : \E x \in runs : /\ y.event = x.event /\ y.ref = x.ref /\ y.sha = x.sha /\ IsRun(y)
                                    /\ y.status = "queued" => y = x /\ (before[x.ref] = 0 \/ refs[x.ref] # 0)
  <2> SUFFICES ASSUME NEW x \in runs,
                      NEW y, y = IF x.status = "queued" /\ before[x.ref] # 0 /\ refs[x.ref] = 0
                                 THEN [x EXCEPT !.status = "cancelled"] ELSE x
               PROVE  /\ y.event = x.event /\ y.ref = x.ref /\ y.sha = x.sha /\ IsRun(y)
                      /\ y.status = "queued" => y = x /\ (before[x.ref] = 0 \/ refs[x.ref] # 0)
    BY DEF Cancelled
  <2>1. IsRun(x)
    BY <1>2
  <2>2. CASE x.status = "queued" /\ before[x.ref] # 0 /\ refs[x.ref] = 0
    <3>1. y = [n |-> x.n, status |-> "cancelled", closed |-> x.closed, event |-> x.event, ref |-> x.ref, sha |-> x.sha,
               pull |-> x.pull, as |-> x.as]
      BY <2>1, <2>2 DEF IsRun
    <3> QED BY <2>1, <3>1 DEF IsRun
  <2>3. CASE ~(x.status = "queued" /\ before[x.ref] # 0 /\ refs[x.ref] = 0)
    BY <2>1, <2>3
  <2> QED BY <2>2, <2>3
<1>5. \A x \in runs : \E y \in R0 : y.event = x.event /\ y.ref = x.ref /\ y.sha = x.sha
  <2> SUFFICES ASSUME NEW x \in runs PROVE \E y \in R0 : y.event = x.event /\ y.ref = x.ref /\ y.sha = x.sha
    OBVIOUS
  <2> DEFINE y == IF x.status = "queued" /\ before[x.ref] # 0 /\ refs[x.ref] = 0
                  THEN [x EXCEPT !.status = "cancelled"] ELSE x
  <2>1. y \in R0
    BY DEF Cancelled
  <2>2. y.event = x.event /\ y.ref = x.ref /\ y.sha = x.sha
    BY <1>2 DEF IsRun
  <2> QED BY <2>1, <2>2
<1> HIDE DEF R, R0, before
<1>6. /\ R0 \subseteq R /\ IsFiniteSet(R) /\ \A x \in R : IsRun(x)
      /\ \A x \in R : x.status = "queued" /\ ~x.closed /\ refs[x.ref] = 0 => x \in R0
  BY <1>3, <1>4 DEF Adds
<1>7. Keeps(runs, R)
  BY <1>5, <1>6 DEF Keeps
<1>8. /\ request' \in [Requests -> RequestAt] /\ ~Busy(r)'
      /\ \A q \in Requests : q # r => request'[q] = request[q] /\ (Busy(q)' <=> Busy(q))
  <2>1. request \in [Requests -> RequestAt] /\ Idle \in RequestAt
    BY DEF StartInv, StartShape, RequestAt
  <2>2. request' \in [Requests -> RequestAt] /\ request'[r] = Idle
    BY <1>1, <2>1
  <2>3. \A q \in Requests : q # r => request'[q] = request[q]
    BY <1>1, <2>1
  <2> QED BY <2>2, <2>3 DEF Busy, Idle
<1>9. StartShape'
  <2>1. \A x \in runs' : IsRun(x)'
    BY <1>1, <1>6 DEF IsRun
  <2> QED BY <1>1, <1>6, <1>8, <2>1 DEF StartInv, StartShape, Commits
<1>10. RefsArePast'
  BY <1>1, <1>8 DEF StartInv, RefsArePast, Commits
<1>11. \A b \in Branches : Seen(b)' => Seen(b) /\ Cardinality(InQueue(R)) < InFlight
  BY <1>1 DEF Seen
<1>12. HeadsStand'
  <2> SUFFICES ASSUME NEW b \in Branches, Seen(b)', refs[b] > 1, Runnable(b),
                      \A q \in Requests : Busy(q)' => request'[q].before[b] = refs[b]
               PROVE  Built(R, b)
    BY <1>1 DEF HeadsStand, Runnable, Built
  <2>1. Built(runs, b) \/ before[b] # refs[b]
    BY <1>8, <1>11 DEF StartInv, HeadsStand, before
  <2>2. CASE Built(runs, b)
    BY <1>7, <2>2 DEF Keeps, Built
  <2>3. CASE before[b] # refs[b]
    <3>1. b \in RefChanges(before)
      BY <2>3 DEF RefChanges
    <3> QED BY <1>3, <1>11, <3>1
  <2> QED BY <2>1, <2>2, <2>3
<1>13. PullsStand'
  <2> SUFFICES ASSUME NEW k \in Pulls, pulls[k] = "open", Seen(PullHead)', refs[PullHead] # 0, Runnable(PullHead)
               PROVE  PullBuilt(R)
    BY <1>1 DEF PullsStand, Runnable, PullBuilt, OfBranch
  <2>1. OpenPulls # {} /\ PullHead \in Branches
    BY WorkflowStartAssumption DEF OpenPulls
  <2> QED BY <1>3, <1>11, <2>1
<1>14. SchedulesStand'
  BY <1>1 DEF SchedulesStand, Synced
<1>15. QueueStands'
  <2> SUFFICES ASSUME NEW x \in InQueue(R), refs[x.ref] = 0, Seen(x.ref)', ~x.closed
               PROVE  \E q \in Requests : Busy(q)' /\ request'[q].before[x.ref] # 0
    BY <1>1 DEF QueueStands
  <2>1. x \in R0 /\ x.status = "queued" /\ x.ref \in Branches
    BY <1>6 DEF InQueue, IsRun
  <2>2. x \in InQueue(runs) /\ before[x.ref] = 0
    BY <1>4, <2>1 DEF InQueue
  <2>3. PICK q \in Requests : Busy(q) /\ request[q].before[x.ref] # 0
    BY <1>11, <2>1, <2>2 DEF StartInv, QueueStands
  <2>4. q # r
    BY <2>2, <2>3 DEF before
  <2> QED BY <1>8, <2>3, <2>4
<1> QED BY <1>9, <1>10, <1>12, <1>13, <1>14, <1>15 DEF StartInv

LEMMA PushKeeps ==
  ASSUME StartInv, NEW b \in Branches, NEW what, NEW c, c = Cardinality(Commits) + 1,
         refs' = [refs EXCEPT ![b] = c], file' = FileWith(c, what), unseen' = unseen \cup {b},
         UNCHANGED <<request, runs, pulls, schedule>>
  PROVE  StartInv'
<1>0. StartShape /\ RefsArePast /\ HeadsStand /\ PullsStand /\ SchedulesStand /\ QueueStands
  BY DEF StartInv
<1>1. Lands(b, c)
  BY <1>0, CommitIs
<1>2. \A q \in Requests : (Busy(q)' <=> Busy(q)) /\ request'[q] = request[q]
  BY DEF Busy
<1>3. \A q \in Requests : Busy(q) => \A d \in Branches : request[q].before[d] <= c
  <2>1. \A q \in Requests : Busy(q) => request[q].before \in [Branches -> Nat]
    BY <1>0, RequestIs
  <2>2. Cardinality(Commits) \in Nat
    <3>1. PICK n \in Nat : Commits = 1 .. n
      BY <1>0 DEF StartShape
    <3>2. Cardinality(1 .. n) = n
      BY FS_Interval
    <3> QED BY <3>1, <3>2
  <2>3. ASSUME NEW q \in Requests, Busy(q), NEW d \in Branches PROVE request[q].before[d] <= c
    <3>1. request[q].before[d] \in Nat /\ request[q].before[d] <= Cardinality(Commits)
      BY <1>0, <2>1, <2>3 DEF RefsArePast
    <3> QED BY <1>1, <2>2, <3>1 DEF Lands
  <2> QED BY <2>3
<1>4. \A d \in Branches : d # b => refs'[d] = refs[d] /\ (refs[d] # 0 => (Runnable(d)' <=> Runnable(d)))
  BY <1>1 DEF Lands, Runnable
<1>5. ~Seen(b)' /\ \A d : Seen(d)' => Seen(d)
  BY DEF Seen
<1>6. StartShape'
  <2>1. \A x \in runs' : IsRun(x)'
    BY <1>0 DEF IsRun, StartShape
  <2> QED BY <1>0, <1>1, <2>1 DEF StartShape, Lands
<1>7. RefsArePast'
  BY <1>1, <1>2, <1>3 DEF RefsArePast, Lands
<1>8. HeadsStand'
  <2> SUFFICES ASSUME NEW d \in Branches, Seen(d)', refs'[d] > 1, Runnable(d)',
                      \A q \in Requests : Busy(q)' => request'[q].before[d] = refs'[d]
               PROVE  Built(runs, d)'
    BY DEF HeadsStand
  <2>1. d # b /\ Seen(d)
    BY <1>5
  <2>2. refs'[d] = refs[d] /\ refs[d] > 1 /\ refs[d] # 0
    BY <1>4, <2>1
  <2>3. Runnable(d)
    BY <1>4, <2>1, <2>2
  <2>4. Built(runs, d)
    BY <1>0, <1>2, <2>1, <2>2, <2>3 DEF HeadsStand
  <2> QED BY <2>2, <2>4 DEF Built
<1>9. PullsStand'
  <2> SUFFICES ASSUME \A q \in Requests : ~Busy(q),
                      NEW k \in Pulls, pulls[k] = "open", Seen(PullHead)', Seen("main")', refs'[PullHead] # 0, Runnable(PullHead)'
               PROVE  PullBuilt(runs)'
    BY <1>2 DEF PullsStand
  <2>1. PullHead \in Branches /\ PullHead # b /\ Seen(PullHead) /\ Seen("main")
    BY <1>5, WorkflowStartAssumption
  <2>2. refs'[PullHead] = refs[PullHead] /\ Runnable(PullHead) /\ refs[PullHead] # 0
    BY <1>4, <2>1
  <2>3. PullBuilt(runs)
    BY <1>0, <2>1, <2>2 DEF PullsStand
  <2> QED BY <2>2, <2>3 DEF PullBuilt, OfBranch
<1>10. SchedulesStand'
  <2> SUFFICES ASSUME \A q \in Requests : ~Busy(q), Seen("main")', schedule # "none"
               PROVE  file'[refs'["main"]] = "all"
    BY <1>2 DEF SchedulesStand
  <2>1. "main" \in Branches /\ "main" # b /\ Seen("main") /\ refs["main"] # 0
    BY <1>0, <1>5, WorkflowStartAssumption DEF StartShape
  <2>2. file'[refs'["main"]] = file[refs["main"]]
    BY <1>1, <2>1 DEF Lands
  <2> QED BY <1>0, <2>1, <2>2 DEF SchedulesStand
<1>11. QueueStands'
  <2> SUFFICES ASSUME NEW x \in InQueue(runs), refs'[x.ref] = 0, Seen(x.ref)', ~x.closed
               PROVE  \E q \in Requests : Busy(q) /\ request[q].before[x.ref] # 0
    BY <1>2 DEF QueueStands
  <2>1. x.ref \in Branches /\ x.ref # b /\ Seen(x.ref)
    BY <1>0, <1>5 DEF StartShape, InQueue, IsRun
  <2>2. refs[x.ref] = 0
    BY <1>4, <2>1
  <2> QED BY <1>0, <2>1, <2>2 DEF QueueStands
<1> QED BY <1>6, <1>7, <1>8, <1>9, <1>10, <1>11 DEF StartInv

\* A dispatch for a branch that is there.
LEMMA DispatchKeeps ==
  ASSUME StartInv, UNCHANGED <<refs, file, request, pulls, unseen>>, schedule' # "none" => schedule # "none",
         NEW e, e.ref \in Branches, refs[e.ref] # 0, runs' = Dispatched(runs, e)
  PROVE  StartInv'
<1>1. IsFiniteSet(runs) /\ \A x \in runs : IsRun(x)
  BY DEF StartInv, StartShape
<1>2. /\ runs \subseteq runs' /\ IsFiniteSet(runs')
      /\ \A x \in runs' \ runs : IsRun(x) /\ x.ref = e.ref
  BY <1>1, DispatchAdds
<1>3. Keeps(runs, runs') /\ (\A x \in runs' : IsRun(x)) /\ \A x \in InQueue(runs') : x \in InQueue(runs) \/ refs[x.ref] # 0
  BY <1>1, <1>2 DEF Keeps, InQueue
<1> QED BY <1>2, <1>3, RunsMove

LEMMA ArriveKeeps == ASSUME StartInv, NEW r \in Requests, Arrive(r) PROVE StartInv'
<1>0. StartShape /\ RefsArePast /\ HeadsStand /\ PullsStand /\ SchedulesStand /\ QueueStands
  BY DEF StartInv
<1>1. /\ request' \in [Requests -> RequestAt] /\ Busy(r)' /\ ~Busy(r) /\ request'[r].before = refs
      /\ \A q \in Requests : q # r => request'[q] = request[q]
      /\ \A q \in Requests : Busy(q) => Busy(q)' /\ request'[q] = request[q]
  <2> DEFINE now == [st |-> "working", before |-> refs]
  <2>1. now \in RequestAt
    BY <1>0 DEF StartShape, RequestAt
  <2>2. request' = [request EXCEPT ![r] = now] /\ request \in [Requests -> RequestAt] /\ request[r] = Idle
    BY <1>0 DEF Arrive, StartShape
  <2>3. request' \in [Requests -> RequestAt] /\ request'[r] = now /\ \A q \in Requests : q # r => request'[q] = request[q]
    BY <2>1, <2>2
  <2>4. now.st = "working" /\ now.before = refs /\ ~Busy(r)
    BY <2>2 DEF Busy, Idle
  <2> HIDE DEF now
  <2> QED BY <2>3, <2>4 DEF Busy
<1>2. UNCHANGED <<refs, file, runs, pulls, schedule, unseen>>
  BY DEF Arrive
<1>3. StartShape'
  <2>1. \A x \in runs' : IsRun(x)'
    BY <1>0, <1>2 DEF IsRun, StartShape
  <2> QED BY <1>0, <1>1, <1>2, <2>1 DEF StartShape, Commits
<1>4. RefsArePast'
  BY <1>0, <1>1, <1>2 DEF RefsArePast, Busy, Commits
<1>5. HeadsStand'
  BY <1>0, <1>1, <1>2 DEF HeadsStand, Seen, Runnable, Built
<1>6. PullsStand' /\ SchedulesStand'
  BY <1>1 DEF PullsStand, SchedulesStand
<1>7. QueueStands'
  BY <1>0, <1>1, <1>2 DEF QueueStands, Seen, InQueue
<1> QED BY <1>3, <1>4, <1>5, <1>6, <1>7 DEF StartInv

\* A request that makes no commit, and empties a branch only that it saw there.
LEMMA WorkKeeps ==
  ASSUME StartInv, NEW r \in Requests, Working(r), request' = Worked(r), UNCHANGED <<file, runs, schedule, unseen>>,
         \/ UNCHANGED refs
         \/ \E b \in Branches : b # "main" /\ refs[b] # 0 /\ request[r].before[b] = refs[b] /\ refs' = [refs EXCEPT ![b] = 0]
  PROVE  StartInv'
<1>0. StartShape /\ RefsArePast /\ HeadsStand /\ PullsStand /\ SchedulesStand /\ QueueStands
  BY DEF StartInv
<1>1. /\ request' \in [Requests -> RequestAt] /\ Busy(r)
      /\ \A q \in Requests : (Busy(q)' <=> Busy(q)) /\ (Busy(q) => request'[q].before = request[q].before)
  BY <1>0, WorkedIs
<1>2. /\ refs' \in [Branches -> Nat] /\ refs'["main"] # 0
      /\ \A d \in Branches : refs'[d] = refs[d] \/ (refs'[d] = 0 /\ request[r].before[d] # 0)
  <2>0. refs \in [Branches -> Nat] /\ refs["main"] # 0 /\ "main" \in Branches
    BY <1>0, WorkflowStartAssumption DEF StartShape
  <2>1. CASE UNCHANGED refs
    BY <2>0, <2>1
  <2>2. CASE ~UNCHANGED refs
    <3>1. PICK b \in Branches : b # "main" /\ refs[b] # 0 /\ request[r].before[b] = refs[b] /\ refs' = [refs EXCEPT ![b] = 0]
      BY <2>2
    <3>2. refs' \in [Branches -> Nat] /\ refs'[b] = 0 /\ request[r].before[b] # 0
      BY <2>0, <3>1
    <3>3. \A d \in Branches : d # b => refs'[d] = refs[d]
      BY <2>0, <3>1
    <3> QED BY <2>0, <3>1, <3>2, <3>3
  <2> QED BY <2>1, <2>2
<1>3. StartShape'
  <2>1. \A x \in runs' : IsRun(x)'
    BY <1>0 DEF IsRun, StartShape
  <2> QED BY <1>0, <1>1, <1>2, <2>1 DEF StartShape, Commits
<1>4. RefsArePast'
  <2>1. Cardinality(Commits) \in Nat /\ Cardinality(Commits)' = Cardinality(Commits)
    <3>1. PICK n \in Nat : Commits = 1 .. n
      BY <1>0 DEF StartShape
    <3>2. Cardinality(1 .. n) = n
      BY FS_Interval
    <3> QED BY <3>1, <3>2 DEF Commits
  <2>2. \A d \in Branches : refs'[d] <= Cardinality(Commits)
    BY <1>0, <1>2, <2>1 DEF RefsArePast
  <2> QED BY <1>0, <1>1, <2>1, <2>2 DEF RefsArePast
<1>5. HeadsStand'
  <2> SUFFICES ASSUME NEW d \in Branches, Seen(d)', refs'[d] > 1, Runnable(d)',
                      \A q \in Requests : Busy(q)' => request'[q].before[d] = refs'[d]
               PROVE  Built(runs, d)'
    BY DEF HeadsStand
  <2>1. refs'[d] = refs[d]
    BY <1>2
  <2> QED BY <1>0, <1>1, <2>1 DEF HeadsStand, Seen, Runnable, Built
<1>6. PullsStand' /\ SchedulesStand'
  BY <1>1 DEF PullsStand, SchedulesStand
<1>7. QueueStands'
  <2> SUFFICES ASSUME NEW x \in InQueue(runs), refs'[x.ref] = 0, Seen(x.ref), ~x.closed
               PROVE  \E q \in Requests : Busy(q)' /\ request'[q].before[x.ref] # 0
    BY DEF QueueStands, Seen
  <2>1. x.ref \in Branches
    BY <1>0 DEF StartShape, InQueue, IsRun
  <2>2. CASE refs[x.ref] = 0
    BY <1>0, <1>1, <2>2 DEF QueueStands
  <2>3. CASE refs[x.ref] # 0
    BY <1>1, <1>2, <2>1, <2>3
  <2> QED BY <2>2, <2>3
<1> QED BY <1>3, <1>4, <1>5, <1>6, <1>7 DEF StartInv

LEMMA UnseenKeeps == ASSUME StartInv, NEW r \in Requests, FinishUnseen(r) PROVE StartInv'
<1>0. StartShape /\ RefsArePast /\ HeadsStand /\ PullsStand /\ SchedulesStand /\ QueueStands
  BY DEF StartInv
<1>1. /\ request' \in [Requests -> RequestAt] /\ ~Busy(r)' /\ Busy(r)
      /\ \A q \in Requests : q # r => request'[q] = request[q] /\ (Busy(q)' <=> Busy(q))
  <2>1. request \in [Requests -> RequestAt] /\ Idle \in RequestAt
    BY <1>0 DEF StartShape, RequestAt
  <2>2. request' \in [Requests -> RequestAt] /\ request'[r] = Idle /\ \A q \in Requests : q # r => request'[q] = request[q]
    BY <2>1 DEF FinishUnseen
  <2> QED BY <2>2 DEF Busy, Idle, FinishUnseen
<1>2. /\ UNCHANGED <<refs, file, runs, pulls, schedule>> /\ ~Seen("main")'
      /\ \A b \in Branches : Seen(b)' => Seen(b) /\ refs[b] = request[r].before[b]
  BY DEF FinishUnseen, Seen
<1>3. StartShape'
  <2>1. \A x \in runs' : IsRun(x)'
    BY <1>0, <1>2 DEF IsRun, StartShape
  <2> QED BY <1>0, <1>1, <1>2, <2>1 DEF StartShape, Commits
<1>4. RefsArePast'
  BY <1>0, <1>1, <1>2 DEF RefsArePast, Commits
<1>5. HeadsStand'
  BY <1>0, <1>1, <1>2 DEF HeadsStand, Runnable, Built
<1>6. PullsStand' /\ SchedulesStand'
  BY <1>2 DEF PullsStand, SchedulesStand
<1>7. QueueStands'
  <2> SUFFICES ASSUME NEW x \in InQueue(runs), refs[x.ref] = 0, Seen(x.ref)', ~x.closed
               PROVE  \E q \in Requests : Busy(q)' /\ request'[q].before[x.ref] # 0
    BY <1>2 DEF QueueStands
  <2>1. x.ref \in Branches
    BY <1>0 DEF StartShape, InQueue, IsRun
  <2>2. PICK q \in Requests : Busy(q) /\ request[q].before[x.ref] # 0
    BY <1>0, <1>2, <2>1 DEF QueueStands
  <2>3. q # r
    BY <1>2, <2>1, <2>2
  <2> QED BY <1>1, <2>2, <2>3
<1> QED BY <1>3, <1>4, <1>5, <1>6, <1>7 DEF StartInv

LEMMA RunFinishKeeps == ASSUME StartInv, NEW x \in runs, RunFinishes(x) PROVE StartInv'
<1> DEFINE y == [x EXCEPT !.status = "success"]
<1>1. IsFiniteSet(runs) /\ \A z \in runs : IsRun(z)
  BY DEF StartInv, StartShape
<1>2. /\ y = [n |-> x.n, status |-> "success", closed |-> x.closed, event |-> x.event, ref |-> x.ref, sha |-> x.sha,
              pull |-> x.pull, as |-> x.as]
      /\ x.ref \in Branches
  BY <1>1 DEF IsRun
<1>3. IsRun(y) /\ y.event = x.event /\ y.ref = x.ref /\ y.sha = x.sha /\ y.status # "queued"
  BY <1>2 DEF IsRun
<1>4. runs' = (runs \ {x}) \cup {y} /\ UNCHANGED <<refs, file, request, pulls, schedule, unseen>>
  BY DEF RunFinishes
<1> HIDE DEF y
<1>5. IsFiniteSet(runs')
  <2>1. runs \ {x} \in SUBSET runs
    OBVIOUS
  <2>2. IsFiniteSet(runs \ {x})
    BY <1>1, <2>1, FS_Subset
  <2> QED BY <1>4, <2>2, FS_AddElement
<1>6. (\A z \in runs' : IsRun(z)) /\ Keeps(runs, runs')
  BY <1>1, <1>3, <1>4 DEF Keeps
<1>7. \A z \in InQueue(runs') : z \in InQueue(runs)
  BY <1>3, <1>4 DEF InQueue
<1> QED BY <1>4, <1>5, <1>6, <1>7, RunsMove

LEMMA StartSteps == StartInv /\ [StartNext]_startVars => StartInv'
<1> SUFFICES ASSUME StartInv, [StartNext]_startVars PROVE StartInv'
  OBVIOUS
<1>0. "main" \in Branches /\ refs["main"] # 0 /\ IsFiniteSet(runs) /\ \A x \in runs : IsRun(x)
  BY WorkflowStartAssumption DEF StartInv, StartShape
<1>1. ASSUME NEW r \in Requests, Arrive(r) PROVE StartInv'
  BY <1>1, ArriveKeeps
<1>2. ASSUME NEW r \in Requests, NEW b \in Branches, NEW what \in FileKinds, Commit(r, b, what) PROVE StartInv'
  <2> DEFINE c == Cardinality(Commits) + 1
  <2>1. /\ Working(r) /\ request' = Worked(r) /\ UNCHANGED <<runs, schedule, unseen>>
        /\ refs' = [refs EXCEPT ![b] = c] /\ file' = FileWith(c, what)
    BY <1>2 DEF Commit, FileWith
  <2>2. c = Cardinality(Commits) + 1
    OBVIOUS
  <2> HIDE DEF c
  <2> QED BY <2>1, <2>2, CommitKeeps
<1>3. ASSUME NEW r \in Requests, NEW b \in Branches, DeleteBranch(r, b) PROVE StartInv'
  <2>1. /\ Working(r) /\ request' = Worked(r) /\ UNCHANGED <<file, runs, schedule, unseen>>
        /\ b # "main" /\ refs[b] # 0 /\ request[r].before[b] = refs[b] /\ refs' = [refs EXCEPT ![b] = 0]
    BY <1>3 DEF DeleteBranch
  <2> QED BY <2>1, WorkKeeps
<1>4. ASSUME NEW r \in Requests, NEW k \in Pulls, OpenPull(r, k) PROVE StartInv'
  <2>1. Working(r) /\ request' = Worked(r) /\ UNCHANGED <<file, runs, schedule, unseen>> /\ UNCHANGED refs
    BY <1>4 DEF OpenPull
  <2> QED BY <2>1, WorkKeeps
<1>5. ASSUME NEW r \in Requests, NEW k \in Pulls, MergePull(r, k) PROVE StartInv'
  <2> DEFINE c == Cardinality(Commits) + 1
             what == file[refs[PullHead]]
  <2>1. /\ Working(r) /\ request' = Worked(r) /\ UNCHANGED <<runs, schedule, unseen>>
        /\ refs' = [refs EXCEPT !["main"] = c] /\ file' = FileWith(c, what)
    BY <1>5 DEF MergePull, FileWith
  <2>2. c = Cardinality(Commits) + 1
    OBVIOUS
  <2> HIDE DEF c, what
  <2> QED BY <1>0, <2>1, <2>2, CommitKeeps
<1>6. ASSUME NEW r \in Requests, ResponseFinishes(r) PROVE StartInv'
  BY <1>6, ResponseKeeps
<1>7. ASSUME NEW r \in Requests, FinishUnseen(r) PROVE StartInv'
  BY <1>7, UnseenKeeps
<1>8. ASSUME NEW b \in Branches, NEW what \in FileKinds, PushOverSsh(b, what) PROVE StartInv'
  <2> DEFINE c == Cardinality(Commits) + 1
  <2>1. /\ unseen' = unseen \cup {b} /\ UNCHANGED <<request, runs, pulls, schedule>>
        /\ refs' = [refs EXCEPT ![b] = c] /\ file' = FileWith(c, what)
    BY <1>8 DEF PushOverSsh, FileWith
  <2>2. c = Cardinality(Commits) + 1
    OBVIOUS
  <2> HIDE DEF c
  <2> QED BY <2>1, <2>2, PushKeeps
<1>9. CASE FireSchedule
  <2> DEFINE e == [event |-> "schedule", ref |-> "main", sha |-> refs["main"], pull |-> 0, as |-> "schedule"]
  <2>1. /\ UNCHANGED <<refs, file, request, pulls, unseen>> /\ schedule # "none" /\ runs' = Dispatched(runs, e)
        /\ e.ref = "main"
    BY <1>9 DEF FireSchedule
  <2> HIDE DEF e
  <2> QED BY <1>0, <2>1, DispatchKeeps
<1>10. ASSUME NEW b \in Branches, StartByHand(b) PROVE StartInv'
  <2> DEFINE e == [event |-> "manual", ref |-> b, sha |-> refs[b], pull |-> 0, as |-> "manual"]
  <2>1. /\ UNCHANGED <<refs, file, request, pulls, unseen>> /\ UNCHANGED schedule /\ runs' = Dispatched(runs, e)
        /\ e.ref = b /\ refs[b] # 0
    BY <1>10 DEF StartByHand
  <2> HIDE DEF e
  <2> QED BY <2>1, DispatchKeeps
<1>11. ASSUME NEW x \in runs, RunFinishes(x) PROVE StartInv'
  BY <1>11, RunFinishKeeps
<1>12. CASE MinutePasses \/ UNCHANGED startVars
  <2>1. UNCHANGED <<refs, file, request, pulls, unseen>> /\ UNCHANGED runs /\ (schedule' # "none" => schedule # "none")
    BY <1>12 DEF MinutePasses, startVars
  <2>2. /\ IsFiniteSet(runs') /\ (\A x \in runs' : IsRun(x)) /\ Keeps(runs, runs')
        /\ \A x \in InQueue(runs') : x \in InQueue(runs) \/ refs[x.ref] # 0
    BY <1>0, <2>1 DEF Keeps, InQueue
  <2> QED BY <2>1, <2>2, RunsMove
<1> QED
  BY <1>1, <1>2, <1>3, <1>4, <1>5, <1>6, <1>7, <1>8, <1>9, <1>10, <1>11, <1>12
  DEF StartNext, RequestNext, TriggerNext, WorldNext

\* Once no request is out, every head and every open pull request has its run, nothing waits for
\* a branch that is gone and no schedule is another than the default branch declares
\* (workflow-dispatch.mjs), for any number of branches, pull requests and requests at once.
THEOREM StartsHold == StartSpec => []StartsAreRight
<1>1. StartInv => StartsAreRight
  <2> SUFFICES ASSUME StartInv PROVE StartsAreRight
    OBVIOUS
  <2>1. Quiet => \A r \in Requests : ~Busy(r)
    BY DEF Quiet, Busy, Idle
  <2>2. HeadsStand /\ PullsStand /\ SchedulesStand /\ QueueStands
    BY DEF StartInv
  <2>3. EveryHeadIsBuilt
    BY <2>1, <2>2 DEF EveryHeadIsBuilt, HeadsStand, Runnable, Built
  <2>4. EveryPullIsBuilt
    BY <2>1, <2>2 DEF EveryPullIsBuilt, PullsStand, Runnable, PullBuilt
  <2>5. NothingQueuedForTheDeleted /\ ScheduleIsDeclared
    BY <2>1, <2>2 DEF NothingQueuedForTheDeleted, ScheduleIsDeclared, QueueStands, SchedulesStand
  <2> QED BY <2>3, <2>4, <2>5 DEF StartsAreRight
<1> QED BY <1>1, StartStarts, StartSteps, PTL DEF StartSpec

(***************************************************************************)
(* The file: what resolveJobOrder has on its stack is a path of needs, and *)
(* what it has ordered is done, after all it needs.                        *)
(***************************************************************************)
FileShape ==
  /\ doc \in Documents /\ phase \in {"shape", "order", "accepted", "refused"}
  /\ mark \in [JobsOf(doc) -> {"new", "visiting", "done"}]
  /\ stack \in Seq(JobsOf(doc)) /\ order \in Seq(JobsOf(doc))
  /\ phase \in {"order", "accepted"} => Refusal(doc) = "none"

Onces(s) == \A i, k \in 1 .. Len(s) : s[i] = s[k] => i = k
Among(j, s) == \E i \in 1 .. Len(s) : s[i] = j

StackIsAPath ==
  /\ Onces(stack) /\ \A j \in JobsOf(doc) : mark[j] = "visiting" <=> Among(j, stack)
  /\ \A i \in 1 .. Len(stack) - 1 : stack[i + 1] \in doc.needs[stack[i]]

OrderIsOfTheDone ==
  /\ Onces(order) /\ \A j \in JobsOf(doc) : mark[j] = "done" <=> Among(j, order)
  /\ \A i \in 1 .. Len(order) : \A k \in doc.needs[order[i]] : \E h \in 1 .. i - 1 : order[h] = k
  /\ phase = "accepted" => \A j \in JobsOf(doc) : mark[j] = "done"

FileInv == FileShape /\ StackIsAPath /\ OrderIsOfTheDone /\ CycleIsReal

LEMMA AppendIs ==
  ASSUME NEW T, NEW s \in Seq(T), NEW x \in T
  PROVE  /\ Append(s, x) \in Seq(T) /\ Len(s) \in Nat /\ Len(Append(s, x)) = Len(s) + 1
         /\ Append(s, x)[Len(s) + 1] = x /\ \A i \in 1 .. Len(s) : Append(s, x)[i] = s[i]
OBVIOUS

LEMMA FrontIs ==
  ASSUME NEW T, NEW s \in Seq(T), s # <<>>
  PROVE  /\ Len(s) \in Nat /\ Len(s) >= 1 /\ Last(s) = s[Len(s)] /\ Last(s) \in T
         /\ Front(s) \in Seq(T) /\ Len(Front(s)) = Len(s) - 1
         /\ \A i \in 1 .. Len(s) - 1 : Front(s)[i] = s[i]
<1>1. Len(s) \in Nat /\ Len(s) >= 1
  BY EmptySeq, LenProperties
<1>2. Last(s) = s[Len(s)] /\ Last(s) \in T
  BY <1>1 DEF Last
<1>3. /\ Front(s) \in Seq(T) /\ Len(Front(s)) = Len(s) - 1
      /\ \A i \in 1 .. Len(s) - 1 : Front(s)[i] = s[i]
  BY <1>1 DEF Front
<1> QED BY <1>1, <1>2, <1>3

\* A file with no refusal was refused by none of the four.
LEMMA NoneRefused ==
  ASSUME NEW d, Refusal(d) = "none"
  PROVE  StepRefused(d.step) = "none" /\ NeedsRefused(d) = "none"
<1> DEFINE bad == {i \in DOMAIN Refusals(d) : Refusals(d)[i] # "none"}
<1>1. bad \in SUBSET Nat /\ DOMAIN Refusals(d) = 1 .. 4
  BY DEF Refusals
<1>2. bad = {}
  <2> SUFFICES ASSUME bad # {} PROVE FALSE
    OBVIOUS
  <2>1. \E x \in bad : \A y \in bad : x <= y
    <3> HIDE DEF bad
    <3> QED BY <1>1, LeastNumber
  <2>2. Min(bad) \in bad
    <3> HIDE DEF bad
    <3> QED BY <2>1 DEF Min
  <2>3. Refusal(d) = Refusals(d)[Min(bad)]
    BY DEF Refusal
  <2> QED BY <2>2, <2>3
<1>3. Refusals(d)[3] = "none" /\ Refusals(d)[4] = "none"
  BY <1>1, <1>2
<1> QED BY <1>3 DEF Refusals

LEMMA FileStarts == FileInit => FileInv
<1> SUFFICES ASSUME FileInit PROVE FileInv
  OBVIOUS
<1>1. FileShape
  BY DEF FileInit, FileShape
<1>2. Len(stack) = 0 /\ Len(order) = 0
  BY DEF FileInit
<1>3. StackIsAPath /\ OrderIsOfTheDone /\ CycleIsReal
  BY <1>2 DEF FileInit, StackIsAPath, OrderIsOfTheDone, CycleIsReal, Onces, Among
<1> QED BY <1>1, <1>3 DEF FileInv

LEMMA EnterKeeps == ASSUME FileInv, NEW j \in JobsOf(doc), Enter(j) PROVE FileInv'
<1>0. FileShape /\ StackIsAPath /\ OrderIsOfTheDone /\ CycleIsReal
  BY DEF FileInv
<1>1. /\ mark' = [mark EXCEPT ![j] = "visiting"] /\ stack' = Append(stack, j) /\ UNCHANGED <<doc, phase, why, order, cycle>>
      /\ phase = "order" /\ mark[j] = "new" /\ (stack # <<>> => j \in doc.needs[Last(stack)])
  BY DEF Enter
<1>2. /\ stack' \in Seq(JobsOf(doc)) /\ Len(stack) \in Nat /\ Len(stack') = Len(stack) + 1
      /\ stack'[Len(stack) + 1] = j /\ \A i \in 1 .. Len(stack) : stack'[i] = stack[i]
  BY <1>0, <1>1, AppendIs DEF FileShape
<1>3. /\ mark' \in [JobsOf(doc) -> {"new", "visiting", "done"}] /\ mark'[j] = "visiting"
      /\ \A k \in JobsOf(doc) : k # j => mark'[k] = mark[k]
  BY <1>0, <1>1 DEF FileShape
<1>4. FileShape'
  BY <1>0, <1>1, <1>2, <1>3 DEF FileShape, JobsOf
<1>5. ~Among(j, stack) /\ ~Among(j, order)
  BY <1>0, <1>1 DEF StackIsAPath, OrderIsOfTheDone
<1>6. Onces(stack')
  <2> SUFFICES ASSUME NEW i \in 1 .. Len(stack) + 1, NEW k \in 1 .. Len(stack) + 1, stack'[i] = stack'[k] PROVE i = k
    BY <1>2 DEF Onces
  <2>1. i \in 1 .. Len(stack) => stack'[i] # j
    BY <1>2, <1>5 DEF Among
  <2>2. k \in 1 .. Len(stack) => stack'[k] # j
    BY <1>2, <1>5 DEF Among
  <2>3. CASE i \in 1 .. Len(stack) /\ k \in 1 .. Len(stack)
    BY <1>0, <1>2, <2>3 DEF StackIsAPath, Onces
  <2> QED BY <1>2, <2>1, <2>2, <2>3
<1>7. \A k \in JobsOf(doc) : mark'[k] = "visiting" <=> Among(k, stack')
  <2>1. \A k \in JobsOf(doc) : Among(k, stack') <=> (Among(k, stack) \/ k = j)
    <3>1. Among(j, stack')
      BY <1>2 DEF Among
    <3>2. \A k : Among(k, stack) => Among(k, stack')
      BY <1>2 DEF Among
    <3>3. ASSUME NEW k, Among(k, stack'), k # j PROVE Among(k, stack)
      <4>1. PICK i \in 1 .. Len(stack) + 1 : stack'[i] = k
        BY <1>2, <3>3 DEF Among
      <4>2. i \in 1 .. Len(stack)
        BY <1>2, <3>3, <4>1
      <4> QED BY <1>2, <4>1, <4>2 DEF Among
    <3> QED BY <3>1, <3>2, <3>3
  <2> QED BY <1>0, <1>3, <2>1 DEF StackIsAPath
<1>8. \A i \in 1 .. Len(stack') - 1 : stack'[i + 1] \in doc.needs[stack'[i]]
  <2> SUFFICES ASSUME NEW i \in 1 .. Len(stack) PROVE stack'[i + 1] \in doc.needs[stack'[i]]
    BY <1>2
  <2>1. CASE i = Len(stack)
    <3>1. stack # <<>>
      BY <2>1
    <3>2. Last(stack) = stack[Len(stack)]
      BY DEF Last
    <3> QED BY <1>1, <1>2, <2>1, <3>1, <3>2
  <2>2. CASE i # Len(stack)
    <3>1. i \in 1 .. Len(stack) - 1 /\ i + 1 \in 1 .. Len(stack)
      BY <1>2, <2>2
    <3> QED BY <1>0, <1>2, <3>1 DEF StackIsAPath
  <2> QED BY <2>1, <2>2
<1>9. StackIsAPath'
  BY <1>1, <1>6, <1>7, <1>8 DEF StackIsAPath, JobsOf, Onces, Among
<1>10. OrderIsOfTheDone'
  <2>1. \A k \in JobsOf(doc) : mark'[k] = "done" <=> Among(k, order)
    BY <1>0, <1>3, <1>5 DEF OrderIsOfTheDone
  <2> QED BY <1>0, <1>1, <2>1 DEF OrderIsOfTheDone, JobsOf, Onces, Among
<1> QED BY <1>0, <1>1, <1>4, <1>9, <1>10 DEF FileInv, CycleIsReal

LEMMA CycleKeeps == ASSUME FileInv, NEW j \in JobsOf(doc), FindCycle(j) PROVE FileInv'
<1>0. FileShape /\ StackIsAPath /\ OrderIsOfTheDone /\ CycleIsReal
  BY DEF FileInv
<1> DEFINE at == CHOOSE i \in DOMAIN stack : stack[i] = j
           rest == SubSeq(stack, at, Len(stack))
<1>1. /\ phase' = "refused" /\ UNCHANGED <<doc, mark, stack, order>> /\ cycle' = rest \o <<j>>
      /\ stack # <<>> /\ j \in doc.needs[Last(stack)] /\ mark[j] = "visiting"
  BY DEF FindCycle
<1>2. Len(stack) \in Nat /\ DOMAIN stack = 1 .. Len(stack) /\ Last(stack) = stack[Len(stack)] /\ stack \in Seq(JobsOf(doc))
  <2>1. stack \in Seq(JobsOf(doc))
    BY <1>0 DEF FileShape
  <2>2. Len(stack) \in Nat /\ DOMAIN stack = 1 .. Len(stack)
    BY <2>1, LenProperties
  <2>3. Last(stack) = stack[Len(stack)]
    BY DEF Last
  <2> QED BY <2>1, <2>2, <2>3
<1>3. at \in 1 .. Len(stack) /\ stack[at] = j
  <2>1. \E i \in DOMAIN stack : stack[i] = j
    BY <1>0, <1>1, <1>2 DEF StackIsAPath, Among
  <2> QED BY <1>2, <2>1
<1> HIDE DEF at
<1> DEFINE n == Len(stack) - at + 1
<1>n. n = Len(stack) - at + 1
  OBVIOUS
<1>4. n \in Nat /\ n >= 1 /\ Len(rest) = n /\ rest \in Seq(JobsOf(doc)) /\ \A i \in 1 .. n : rest[i] = stack[at + i - 1]
  BY <1>2, <1>3
<1> HIDE DEF rest, n
<1>5. Len(cycle') = n + 1 /\ cycle'[n + 1] = j /\ \A i \in 1 .. n : cycle'[i] = stack[at + i - 1]
  BY <1>1, <1>4
<1>6. cycle'[1] = j
  BY <1>2, <1>3, <1>4, <1>5
<1>7. \A i \in 1 .. n : cycle'[i + 1] \in doc.needs[cycle'[i]]
  <2> SUFFICES ASSUME NEW i \in 1 .. n PROVE cycle'[i + 1] \in doc.needs[cycle'[i]]
    OBVIOUS
  <2>1. CASE i = n
    <3>1. at + i - 1 = Len(stack)
      BY <1>2, <1>3, <1>n, <2>1
    <3>2. cycle'[i] = Last(stack) /\ cycle'[i + 1] = j
      BY <1>2, <1>5, <2>1, <3>1
    <3> QED BY <1>1, <3>2
  <2>2. CASE i # n
    <3>1. i + 1 \in 1 .. n /\ at + i - 1 \in 1 .. Len(stack) - 1 /\ at + (i + 1) - 1 = (at + i - 1) + 1
      <4> DEFINE l == Len(stack)
      <4>1. l \in Nat /\ at \in 1 .. l /\ n = l - at + 1 /\ i \in 1 .. n /\ i # n
        BY <1>2, <1>3, <1>n, <2>2
      <4> HIDE DEF l
      <4>2. i + 1 \in 1 .. n /\ at + i - 1 \in 1 .. l - 1 /\ at + (i + 1) - 1 = (at + i - 1) + 1
        BY <4>1
      <4> QED BY <4>2 DEF l
    <3>2. cycle'[i] = stack[at + i - 1] /\ cycle'[i + 1] = stack[(at + i - 1) + 1]
      BY <1>5, <3>1
    <3> QED BY <1>0, <3>1, <3>2 DEF StackIsAPath
  <2> QED BY <2>1, <2>2
<1>8. CycleIsReal'
  <2>1. Last(cycle') = cycle'[Len(cycle')]
    BY DEF Last
  <2>2. doc' = doc
    BY <1>1
  <2>3. Len(cycle') >= 2 /\ cycle'[1] = Last(cycle') /\ Len(cycle') - 1 = n
    BY <1>4, <1>5, <1>6, <2>1
  <2> QED BY <1>7, <2>2, <2>3 DEF CycleIsReal
<1>9. FileShape' /\ StackIsAPath' /\ OrderIsOfTheDone'
  BY <1>0, <1>1 DEF FileShape, StackIsAPath, OrderIsOfTheDone, JobsOf, Onces, Among
<1> QED BY <1>8, <1>9 DEF FileInv

LEMMA LeaveKeeps == ASSUME FileInv, Leave PROVE FileInv'
<1>0. FileShape /\ StackIsAPath /\ OrderIsOfTheDone /\ CycleIsReal
  BY DEF FileInv
<1> DEFINE j == Last(stack)
           n == Len(stack)
<1>1. /\ mark' = [mark EXCEPT ![j] = "done"] /\ order' = Append(order, j) /\ stack' = Front(stack)
      /\ UNCHANGED <<doc, phase, why, cycle>> /\ phase = "order" /\ stack # <<>> /\ \A k \in doc.needs[j] : mark[k] = "done"
  BY DEF Leave, Visited
<1>2. /\ n \in Nat /\ n >= 1 /\ j = stack[n] /\ j \in JobsOf(doc) /\ stack' \in Seq(JobsOf(doc)) /\ Len(stack') = n - 1
      /\ \A i \in 1 .. n - 1 : stack'[i] = stack[i]
  BY <1>0, <1>1, FrontIs DEF FileShape
<1> HIDE DEF j, n
<1>3. /\ order' \in Seq(JobsOf(doc)) /\ Len(order) \in Nat /\ Len(order') = Len(order) + 1
      /\ order'[Len(order) + 1] = j /\ \A i \in 1 .. Len(order) : order'[i] = order[i]
  BY <1>0, <1>1, <1>2, AppendIs DEF FileShape
<1>4. /\ mark' \in [JobsOf(doc) -> {"new", "visiting", "done"}] /\ mark'[j] = "done"
      /\ \A k \in JobsOf(doc) : k # j => mark'[k] = mark[k]
  BY <1>0, <1>1, <1>2 DEF FileShape
<1>5. mark[j] = "visiting" /\ ~Among(j, order)
  <2>1. Among(j, stack)
    BY <1>2 DEF Among, n
  <2> QED BY <1>0, <1>2, <2>1 DEF StackIsAPath, OrderIsOfTheDone
<1>6. FileShape'
  BY <1>0, <1>1, <1>2, <1>3, <1>4 DEF FileShape, JobsOf
<1>7. StackIsAPath'
  <2>1. Onces(stack) /\ Len(stack) = n
    BY <1>0 DEF StackIsAPath, n
  <2>2. Onces(stack')
    BY <1>2, <2>1 DEF Onces
  <2>3. \A k \in JobsOf(doc) : mark'[k] = "visiting" <=> Among(k, stack')
    <3> SUFFICES ASSUME NEW k \in JobsOf(doc) PROVE mark'[k] = "visiting" <=> Among(k, stack')
      OBVIOUS
    <3>1. CASE k = j
      <4>1. ~Among(j, stack')
        BY <1>2, <2>1 DEF Among, Onces
      <4> QED BY <1>4, <3>1, <4>1
    <3>2. CASE k # j
      <4>1. Among(k, stack) <=> Among(k, stack')
        <5>1. Among(k, stack') => Among(k, stack)
          BY <1>2, <2>1 DEF Among
        <5>2. ASSUME NEW i \in 1 .. n, stack[i] = k PROVE Among(k, stack')
          <6>1. i \in 1 .. n - 1
            BY <1>2, <3>2, <5>2
          <6> QED BY <1>2, <5>2, <6>1 DEF Among
        <5> QED BY <2>1, <5>1, <5>2 DEF Among
      <4> QED BY <1>0, <1>4, <3>2, <4>1 DEF StackIsAPath
    <3> QED BY <3>1, <3>2
  <2>4. \A i \in 1 .. Len(stack') - 1 : stack'[i + 1] \in doc.needs[stack'[i]]
    <3> SUFFICES ASSUME NEW i \in 1 .. Len(stack') - 1 PROVE stack'[i + 1] \in doc.needs[stack'[i]]
      OBVIOUS
    <3>1. i \in 1 .. n - 1 /\ i + 1 \in 1 .. n - 1
      BY <1>2
    <3> QED BY <1>0, <1>2, <2>1, <3>1 DEF StackIsAPath
  <2> QED BY <1>1, <2>2, <2>3, <2>4 DEF StackIsAPath, JobsOf, Onces, Among
<1>8. OrderIsOfTheDone'
  <2> DEFINE m == Len(order)
  <2>1. Onces(order')
    <3> SUFFICES ASSUME NEW i \in 1 .. m + 1, NEW k \in 1 .. m + 1, order'[i] = order'[k] PROVE i = k
      BY <1>3 DEF Onces
    <3>1. i \in 1 .. m => order'[i] # j
      BY <1>3, <1>5 DEF Among
    <3>2. k \in 1 .. m => order'[k] # j
      BY <1>3, <1>5 DEF Among
    <3>3. CASE i \in 1 .. m /\ k \in 1 .. m
      BY <1>0, <1>3, <3>3 DEF OrderIsOfTheDone, Onces
    <3> QED BY <1>3, <3>1, <3>2, <3>3
  <2>2. \A k \in JobsOf(doc) : Among(k, order') <=> (Among(k, order) \/ k = j)
    <3>1. Among(j, order')
      BY <1>3 DEF Among
    <3>2. \A k : Among(k, order) => Among(k, order')
      BY <1>3 DEF Among
    <3>3. ASSUME NEW k, Among(k, order'), k # j PROVE Among(k, order)
      <4>1. PICK i \in 1 .. m + 1 : order'[i] = k
        BY <1>3, <3>3 DEF Among
      <4>2. i \in 1 .. m
        BY <1>3, <3>3, <4>1
      <4> QED BY <1>3, <4>1, <4>2 DEF Among
    <3> QED BY <3>1, <3>2, <3>3
  <2>3. \A k \in JobsOf(doc) : mark'[k] = "done" <=> Among(k, order')
    BY <1>0, <1>4, <2>2 DEF OrderIsOfTheDone
  <2>4. \A i \in 1 .. m + 1 : \A k \in doc.needs[order'[i]] : \E h \in 1 .. i - 1 : order'[h] = k
    <3> SUFFICES ASSUME NEW i \in 1 .. m + 1, NEW k \in doc.needs[order'[i]]
                 PROVE  \E h \in 1 .. i - 1 : order'[h] = k
      OBVIOUS
    <3>1. CASE i = m + 1
      <4>1. Refusal(doc) = "none"
        BY <1>0, <1>1 DEF FileShape
      <4>2. NeedsRefused(doc) = "none"
        BY <4>1, NoneRefused
      <4>3. k \in JobsOf(doc) /\ mark[k] = "done"
        BY <1>1, <1>2, <1>3, <3>1, <4>2 DEF NeedsRefused
      <4>4. PICK h \in 1 .. m : order[h] = k
        BY <1>0, <4>3 DEF OrderIsOfTheDone, Among
      <4> QED BY <1>3, <3>1, <4>4
    <3>2. CASE i # m + 1
      <4>1. i \in 1 .. m /\ order'[i] = order[i]
        BY <1>3, <3>2
      <4>2. PICK h \in 1 .. i - 1 : order[h] = k
        BY <1>0, <4>1 DEF OrderIsOfTheDone
      <4>3. h \in 1 .. m
        BY <1>3, <4>1
      <4> QED BY <1>3, <4>2, <4>3
    <3> QED BY <3>1, <3>2
  <2>5. phase' # "accepted"
    BY <1>1
  <2> QED BY <1>1, <1>3, <2>1, <2>3, <2>4, <2>5 DEF OrderIsOfTheDone, JobsOf, Onces, Among
<1> QED BY <1>0, <1>1, <1>6, <1>7, <1>8 DEF FileInv, CycleIsReal

LEMMA FileSteps == FileInv /\ [FileNext]_fileVars => FileInv'
<1> SUFFICES ASSUME FileInv, [FileNext]_fileVars PROVE FileInv'
  OBVIOUS
<1>1. CASE CheckShape
  BY <1>1 DEF FileInv, FileShape, StackIsAPath, OrderIsOfTheDone, CycleIsReal, CheckShape, JobsOf, Onces, Among
<1>2. CASE Accept
  BY <1>2 DEF FileInv, FileShape, StackIsAPath, OrderIsOfTheDone, CycleIsReal, Accept, JobsOf, Onces, Among
<1>3. CASE UNCHANGED fileVars
  BY <1>3 DEF FileInv, FileShape, StackIsAPath, OrderIsOfTheDone, CycleIsReal, fileVars, JobsOf, Onces, Among
<1> QED BY <1>1, <1>2, <1>3, EnterKeeps, CycleKeeps, LeaveKeeps DEF FileNext

\* What an accepted file is: ordered after its needs, and with a command nobody outside decides.
LEMMA OrderedOnce == ASSUME FileInv PROVE OrderIsTopological
<1> SUFFICES ASSUME phase = "accepted" PROVE OrderIsTopological
  BY DEF OrderIsTopological
<1>0. FileShape /\ OrderIsOfTheDone
  BY DEF FileInv
<1>1. Len(order) \in Nat /\ DOMAIN order = 1 .. Len(order) /\ order \in [1 .. Len(order) -> JobsOf(doc)]
  BY <1>0 DEF FileShape
<1>2. \A j \in JobsOf(doc) : \E i \in 1 .. Len(order) : order[i] = j
  BY <1>0 DEF OrderIsOfTheDone, Among
<1>3. ToSet(order) = JobsOf(doc)
  BY <1>1, <1>2 DEF ToSet
<1>4. order \in Bijection(1 .. Len(order), JobsOf(doc))
  <2>1. order \in Surjection(1 .. Len(order), JobsOf(doc))
    BY <1>1, <1>2 DEF Surjection
  <2>2. \A i, k \in 1 .. Len(order) : order[i] = order[k] => i = k
    BY <1>0 DEF OrderIsOfTheDone, Onces
  <2>3. order \in Injection(1 .. Len(order), JobsOf(doc))
    BY <1>1, <2>2 DEF Injection, IsInjective
  <2> QED BY <2>1, <2>3 DEF Bijection
<1>5. Cardinality(JobsOf(doc)) = Len(order)
  BY <1>1, <1>4, FS_CountingElements DEF ExistsBijection
<1> QED BY <1>0, <1>1, <1>3, <1>5 DEF OrderIsTopological, OrderIsOfTheDone

\* An accepted workflow file has its jobs once and after their needs, and a reported cycle is one
\* (resolveJobOrder of workflow-schema.mjs), for any documents.
THEOREM FilesHold == FileSpec => []FilesAreSound
<1>1. FileInv => FilesAreSound
  BY OrderedOnce DEF FileInv, FilesAreSound
<1> QED BY <1>1, FileStarts, FileSteps, PTL DEF FileSpec

\* Runs and files share no variable: the runs of a repository are those its pushes, pull requests
\* and schedule call for (workflow-dispatch.mjs, workflow-triggers.mjs), and a file that is accepted
\* declares an order of its jobs (workflow-schema.mjs).
THEOREM StartsSoundHolds == StartSpec /\ FileSpec => []StartsSound
BY StartsHold, FilesHold, PTL DEF StartsSound

=============================================================================

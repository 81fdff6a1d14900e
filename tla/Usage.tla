------------------------------- MODULE Usage -------------------------------
(***************************************************************************)
(* What an organization uses (src/src/usage.mjs), the samples and the      *)
(* closed months an invoice is made from (src/src/usage-history.mjs), and  *)
(* the limit its plan puts on storage (src/src/plan-limits.mjs).           *)
(*                                                                         *)
(* Usage is measured when it is asked for, but through two caches that     *)
(* every server process keeps for itself: the size of a bare repository,   *)
(* keyed by the modification time of its directory, and the storage of an  *)
(* organization, kept for a minute.  An organization here has one          *)
(* repository; a pack and a Git LFS object have size one.  The reading and *)
(* the closing of a month each run in one turn of the event loop, in the   *)
(* process that holds the lease.                                           *)
(***************************************************************************)
EXTENDS Naturals, FiniteSets, FiniteSetsExt, Sequences, SequencesExt

CONSTANTS
  Customers,                       \* organizations
  Meters,                          \* server processes
  LfsOids,
  HeldElsewhere,                   \* of them, those other organizations have stored already
  CIJobs,
  StorageLimit,                    \* storageBytes of the plan
  SampleLimit,                     \* how many organizations a sweep looks at
  MonthLength,                     \* in readings of the clock
  LastTime, MaxPacks, MaxSamples,  \* bounds
  Unread,                          \* nothing in a cache
  Unset,                           \* no time, no process
  Attached                         \* held already, so never uploaded for this organization

ASSUME UsageAssumption ==
  /\ MonthLength \in Nat \ {0} /\ SampleLimit \in Nat \ {0} /\ StorageLimit \in Nat
  /\ LastTime \in Nat /\ MaxPacks \in Nat /\ MaxSamples \in Nat
  /\ IsFiniteSet(LfsOids) /\ IsFiniteSet(CIJobs)
  /\ Meters \cap {Unset, Attached} = {} /\ Nat \cap {Unread, Unset} = {}

VARIABLES
  time,       \* the clock of the instance
  customers,  \* organizations, oldest first
  packs,      \* bytes in the bare repository
  uploads,    \* organization -> Git LFS object -> the process that took it in
  offered,    \* uploads a batch has answered and nobody has finished
  ciJobs,     \* workflow_jobs: whose, when started, when completed
  sizes,      \* gitSizeCache of every process
  standing,   \* storageCache of every process
  samples,    \* usage_samples: `n` numbers those of one organization
  periods     \* usage_periods: <<organization, month>> -> the figures

usageVars ==
  <<time, customers, packs, uploads, offered, ciJobs, sizes, standing, samples, periods>>

billingPeriod(t) == t \div MonthLength

HeldBy(c)   == {o \in LfsOids : uploads[c][o] # Unset}
Existing(o) == o \in HeldElsewhere \/ \E c \in Customers : uploads[c][o] # Unset
Present     == ToSet(customers)
NoUpload    == [o \in LfsOids |-> Unset]

UsageTypeOK ==
  /\ time \in 0 .. LastTime /\ Present \subseteq Customers
  /\ packs \in [Customers -> 0 .. MaxPacks]
  /\ uploads \in [Customers -> [LfsOids -> Meters \cup {Unset, Attached}]]
  /\ offered \subseteq Customers \X LfsOids
  /\ \A j \in DOMAIN ciJobs : ciJobs[j].of \in Customers
  /\ \A p \in Meters : \A c \in Customers :
       /\ sizes[p][c] \in {Unread} \cup 0 .. MaxPacks
       /\ standing[p][c] \in {Unread} \cup 0 .. (MaxPacks + Cardinality(LfsOids))
  /\ Cardinality(samples) <= MaxSamples
  /\ \A k \in DOMAIN periods : k[1] \in Customers /\ k[2] \in 0 .. billingPeriod(LastTime)

UsageInit ==
  /\ time = 0 /\ customers = <<>>
  /\ packs = [c \in Customers |-> 0] /\ uploads = [c \in Customers |-> NoUpload]
  /\ offered = {} /\ ciJobs = [j \in {} |-> Unset]
  /\ sizes = [p \in Meters |-> [c \in Customers |-> Unread]] /\ standing = sizes
  /\ samples = {} /\ periods = [k \in {} |-> Unset]

-----------------------------------------------------------------------------
(* What is measured.                                                       *)

\* The walk, or what the last one said while the directory looks the same.
repositoryGitBytes(p, c) == IF sizes[p][c] = Unread THEN packs[c] ELSE sizes[p][c]
Walked(p, c) == sizes' = [sizes EXCEPT ![p][c] = repositoryGitBytes(p, c)]

\* What is stored counts once for an organization, however often it is linked.
StorageOf(p, c) == repositoryGitBytes(p, c) + Cardinality(HeldBy(c))

\* At least a minute for every job started in the month; one that still runs
\* counts for the time it has taken.
MinutesOf(j, t) ==
  LET ended == IF ciJobs[j].ended = Unset THEN t ELSE ciJobs[j].ended
  IN  IF ended = ciJobs[j].started THEN 1 ELSE ended - ciJobs[j].started
ciMinutes(c, month) ==
  LET billed == {j \in DOMAIN ciJobs :
                   ciJobs[j].of = c /\ billingPeriod(ciJobs[j].started) = month}
  IN  MapThenSumSet(LAMBDA j : MinutesOf(j, time), billed)

organizationUsage(p, c) ==
  [bytes |-> StorageOf(p, c), minutes |-> ciMinutes(c, billingPeriod(time))]

-----------------------------------------------------------------------------
(* What an organization does.                                              *)

Metered == <<sizes, standing, samples, periods>>

CreateCustomer(c) ==
  /\ c \notin Present
  /\ customers' = Append(customers, c)
  /\ UNCHANGED <<time, packs, uploads, offered, ciJobs, Metered>>

\* Everything that names the organization goes with it; the caches stay.
Forgotten(c) ==
  /\ packs' = [packs EXCEPT ![c] = 0]
  /\ uploads' = [uploads EXCEPT ![c] = NoUpload]
  /\ offered' = {u \in offered : u[1] # c}
  /\ ciJobs' = [j \in {i \in DOMAIN ciJobs : ciJobs[i].of # c} |-> ciJobs[j]]

\* The directory is gone, and a later one has another time: its size is walked
\* anew.
DirectoryChanges(c) == sizes' = [p \in Meters |-> [sizes[p] EXCEPT ![c] = Unread]]

RepositoryGone(c) ==
  /\ c \in Present
  /\ Forgotten(c) /\ DirectoryChanges(c)
  /\ UNCHANGED <<time, customers, standing, samples, periods>>

\* The organization and every row of it.  The id stands for a new organization
\* afterwards, of which no cache knows anything.
DeleteCustomer(c) ==
  /\ c \in Present
  /\ customers' = RemoveAt(customers, CHOOSE i \in DOMAIN customers : customers[i] = c)
  /\ samples' = {s \in samples : s.of # c}
  /\ periods' = [k \in {l \in DOMAIN periods : l[1] # c} |-> periods[k]]
  /\ Forgotten(c) /\ DirectoryChanges(c)
  /\ standing' = [p \in Meters |-> [standing[p] EXCEPT ![c] = Unread]]
  /\ UNCHANGED time

\* A push writes below objects/ and refs/, which need not show in the time of
\* the directory itself.
Push(c, shows) ==
  /\ c \in Present /\ packs[c] < MaxPacks
  /\ packs' = [packs EXCEPT ![c] = @ + 1]
  /\ IF shows THEN DirectoryChanges(c) ELSE UNCHANGED sizes
  /\ UNCHANGED <<time, customers, uploads, offered, ciJobs, standing, samples, periods>>

StartCIJob(j, c) ==
  /\ c \in Present /\ j \notin DOMAIN ciJobs
  /\ ciJobs' = [i \in DOMAIN ciJobs \cup {j} |->
                  IF i = j THEN [of |-> c, started |-> time, ended |-> Unset] ELSE ciJobs[i]]
  /\ UNCHANGED <<time, customers, packs, uploads, offered, Metered>>

EndCIJob(j) ==
  /\ j \in DOMAIN ciJobs /\ ciJobs[j].ended = Unset
  /\ ciJobs' = [ciJobs EXCEPT ![j].ended = time]
  /\ UNCHANGED <<time, customers, packs, uploads, offered, Metered>>

-----------------------------------------------------------------------------
(* The plan's limit on storage.                                            *)

\* What the limit is compared with: at most a minute old.
storageBytes(p, c) == IF standing[p][c] = Unread THEN StorageOf(p, c) ELSE standing[p][c]

planStanding(p, c) ==
  /\ standing' = [standing EXCEPT ![p][c] = storageBytes(p, c)]
  /\ IF standing[p][c] = Unread THEN Walked(p, c) ELSE UNCHANGED sizes

UnderPlan(p, c) == storageBytes(p, c) + 1 <= StorageLimit

\* The answer to a Git LFS batch: an object held by anybody is attached and not
\* charged for, a new one is offered for upload if the plan covers it.
AttachHeld(c, o) ==
  /\ c \in Present /\ Existing(o) /\ uploads[c][o] = Unset
  /\ uploads' = [uploads EXCEPT ![c][o] = Attached]
  /\ offered' = offered \ {<<c, o>>}
  /\ UNCHANGED <<time, customers, packs, ciJobs, Metered>>

assertWithinPlan(p, c, o) ==
  /\ c \in Present /\ ~Existing(o)
  /\ planStanding(p, c)
  /\ offered' = IF UnderPlan(p, c) THEN offered \cup {<<c, o>>} ELSE offered
  /\ UNCHANGED <<time, customers, packs, uploads, ciJobs, samples, periods>>

planUsageChanged(p, c) == standing' = [standing EXCEPT ![p][c] = Unread]

\* The upload itself asks nothing of the plan again.
PutObject(p, c, o) ==
  /\ <<c, o>> \in offered
  /\ offered' = offered \ {<<c, o>>}
  /\ uploads' = [uploads EXCEPT ![c][o] = p]
  /\ planUsageChanged(p, c)
  /\ UNCHANGED <<time, customers, packs, ciJobs, sizes, samples, periods>>

MinutePasses(p, c) ==
  /\ standing[p][c] # Unread
  /\ standing' = [standing EXCEPT ![p][c] = Unread]
  /\ UNCHANGED <<time, customers, packs, uploads, offered, ciJobs, sizes, samples, periods>>

Restart(p) ==
  /\ sizes' = [sizes EXCEPT ![p] = [c \in Customers |-> Unread]]
  /\ standing' = [standing EXCEPT ![p] = [c \in Customers |-> Unread]]
  /\ UNCHANGED <<time, customers, packs, uploads, offered, ciJobs, samples, periods>>

-----------------------------------------------------------------------------
(* The readings, and the months closed on them.                            *)

Swept == SubSeq(customers, 1, IF Len(customers) < SampleLimit THEN Len(customers) ELSE SampleLimit)

Reading(p, c) ==
  [of |-> c, n |-> Cardinality({s \in samples : s.of = c}) + 1, month |-> billingPeriod(time),
   bytes |-> organizationUsage(p, c).bytes, minutes |-> organizationUsage(p, c).minutes]

sampleUsage(p) ==
  /\ Swept # <<>> /\ Cardinality(samples) + Len(Swept) <= MaxSamples
  /\ samples' = samples \cup {Reading(p, c) : c \in ToSet(Swept)}
  /\ sizes' = [sizes EXCEPT ![p] = [c \in Customers |->
                 IF c \in ToSet(Swept) THEN repositoryGitBytes(p, c) ELSE sizes[p][c]]]
  /\ UNCHANGED <<time, customers, packs, uploads, offered, ciJobs, standing, periods>>

\* Mutant: the readings of every month.
SamplesOfAll(c, month) == {s \in samples : s.of = c}

SamplesOf(c, month) == {s \in samples : s.of = c /\ s.month = month}

\* A month nobody sampled is recorded as unknown.
FiguresOf(c, month) ==
  LET taken == SamplesOf(c, month)
  IN  IF taken = {} THEN [peak |-> 0, last |-> 0, minutes |-> 0, samples |-> 0]
      ELSE [peak    |-> Max({s.bytes : s \in taken}),
            last    |-> (CHOOSE s \in taken : \A other \in taken : other.n <= s.n).bytes,
            minutes |-> Max({s.minutes : s \in taken}),
            samples |-> Cardinality(taken)]

Billable(figures) == figures.samples > 0

previousPeriod(t) == billingPeriod(t) - 1

\* The worker asks for the month before this one and for no other; what is closed
\* already is left alone.
closePeriod ==
  LET month == previousPeriod(time)
      due   == {<<c, month>> : c \in ToSet(Swept)} \ DOMAIN periods
  IN  /\ billingPeriod(time) > 0 /\ due # {}
      /\ periods' = [k \in DOMAIN periods \cup due |->
                      IF k \in due THEN FiguresOf(k[1], k[2]) ELSE periods[k]]
      /\ UNCHANGED <<time, customers, packs, uploads, offered, ciJobs, sizes, standing, samples>>

TimePasses ==
  /\ time < LastTime /\ time' = time + 1
  /\ UNCHANGED <<customers, packs, uploads, offered, ciJobs, Metered>>

UsageNext ==
  \/ TimePasses
  \/ \E c \in Customers : CreateCustomer(c) \/ RepositoryGone(c) \/ DeleteCustomer(c)
  \/ \E c \in Customers, shows \in BOOLEAN : Push(c, shows)
  \/ \E j \in CIJobs, c \in Customers : StartCIJob(j, c)
  \/ \E j \in CIJobs : EndCIJob(j)
  \/ \E c \in Customers, o \in LfsOids : AttachHeld(c, o)
  \/ \E p \in Meters, c \in Customers, o \in LfsOids :
       assertWithinPlan(p, c, o) \/ PutObject(p, c, o)
  \/ \E p \in Meters, c \in Customers : MinutePasses(p, c)
  \/ \E p \in Meters : Restart(p) \/ sampleUsage(p)
  \/ closePeriod

UsageSpec == UsageInit /\ [][UsageNext]_usageVars

-----------------------------------------------------------------------------
\* A closed month stands: it was closed on every reading there is of that month
\* and of no other, so nothing read later could make it a different number
\* (usage-history.mjs, "A closed period never changes").
ClosedMonthsStand ==
  \A k \in DOMAIN periods :
    LET readings == {s \in samples : s.of = k[1] /\ s.month = k[2]}
    IN  /\ k[1] \in Present /\ k[2] < billingPeriod(time)
        /\ periods[k].samples = Cardinality(readings)
        /\ Billable(periods[k]) =>
             /\ \A s \in readings : s.bytes <= periods[k].peak /\ s.minutes <= periods[k].minutes
             /\ \E s \in readings : s.bytes = periods[k].peak
             /\ \E s \in readings : s.bytes = periods[k].last /\ \A other \in readings : other.n <= s.n

\* A process never compares the plan's limit with a figure that leaves out an
\* upload it has itself taken in (plan-limits.mjs, planUsageChanged).
SeesItsUploads ==
  \A p \in Meters, c \in Customers :
    standing[p][c] # Unread =>
      Cardinality({o \in LfsOids : uploads[c][o] = p}) <= standing[p][c]

UsageIsRight == ClosedMonthsStand /\ SeesItsUploads
=============================================================================

--------------------------- MODULE TenantDeletion ---------------------------
(***************************************************************************)
(* The deletion of one tenant (src/src/tenant-lifecycle.mjs): a request    *)
(* waits seven days, may be cancelled, asks for a verified export taken    *)
(* since (src/src/tenant-export.mjs), removes the rows in a transaction,   *)
(* counts again and writes down what it found.                             *)
(*                                                                         *)
(* Time is counted in half-days, and a date is the day alone: the due time *)
(* is written as "YYYY-MM-DD HH:MM:SS" and compared as text with           *)
(* "YYYY-MM-DDTHH:MM:SS", so on the day itself a blank meets a T.          *)
(***************************************************************************)
EXTENDS Naturals, FiniteSets

CONSTANTS
  Deletions,         \* deletion requests
  Exports,           \* exports
  Writings,          \* what the tenant's people write
  DeletionGraceDays,
  MaxHalfDays,       \* bound on the clock
  MaxDeletionCrashes

ASSUME TenantDeletionAssumption ==
  /\ DeletionGraceDays \in Nat /\ MaxHalfDays \in Nat /\ MaxDeletionCrashes \in Nat
  /\ "none" \notin Exports

VARIABLES
  deletion,   \* request -> status, when it was made, when it is due, what was proved
  rows,       \* which of its rows there are: live ones, trashed repositories
  there,      \* the organization's own row
  written,    \* work -> when it was written
  export,     \* export -> how far it is, when it began to read, when it was recorded,
              \*   and the works in its archive
  now,
  cause,      \* history: how the tenant was removed
  deletionCrashes

deletionVars == <<deletion, rows, there, written, export, now, cause, deletionCrashes>>

RowKinds == {"owned", "trashed"}
NoDeletion == [status |-> "none", at |-> 0, due |-> 0, complete |-> FALSE, waived |-> FALSE]
NoExport == [st |-> "none", begun |-> 0, at |-> 0, has |-> {}, whole |-> FALSE, complete |-> FALSE]
NoCause == [how |-> "none", forced |-> FALSE, waived |-> FALSE, early |-> 0, asked |-> 0,
            export |-> "none"]
Never == MaxHalfDays + 1

DeletionTypeOK ==
  /\ deletion \in [Deletions -> [status: {"none", "scheduled", "cancelled", "executed", "failed"},
                                 at: Nat, due: Nat, complete: BOOLEAN, waived: BOOLEAN]]
  /\ rows \subseteq RowKinds /\ there \in BOOLEAN
  /\ export \in [Exports -> [st: {"none", "reading", "recorded", "verified"}, begun: Nat, at: Nat,
                          has: SUBSET Writings, whole: BOOLEAN, complete: BOOLEAN]]
  /\ written \in [Writings -> Nat] /\ now \in 0 .. MaxHalfDays
  /\ deletionCrashes \in 0 .. MaxDeletionCrashes

DeletionInit ==
  /\ deletion = [d \in Deletions |-> NoDeletion]
  /\ rows = RowKinds \ {"trashed"} /\ there = TRUE
  /\ written \in [Writings -> {0, Never}]
  /\ export = [x \in Exports |-> NoExport] /\ now = 0 /\ cause = NoCause /\ deletionCrashes = 0

-----------------------------------------------------------------------------
Scheduled(d) == deletion[d].status = "scheduled"

NoneScheduled == \A d \in Deletions : ~Scheduled(d)

RequestTenantDeletion(d) ==
  /\ there /\ deletion[d].status = "none" /\ NoneScheduled
  /\ deletion' = [deletion EXCEPT ![d] =
       [@ EXCEPT !.status = "scheduled", !.at = now, !.due = now + 2 * DeletionGraceDays]]
  /\ UNCHANGED <<rows, there, written, export, now, cause, deletionCrashes>>

Cancellable(d) == Scheduled(d)

CancelTenantDeletion(d) ==
  /\ Cancellable(d)
  /\ deletion' = [deletion EXCEPT ![d] = [@ EXCEPT !.status = "cancelled"]]
  /\ UNCHANGED <<rows, there, written, export, now, cause, deletionCrashes>>

Present == {i \in Writings : written[i] # Never}

\* Somebody writes an issue, a commit, a large file.
WriteItem(i) ==
  /\ there /\ written[i] = Never /\ written' = [written EXCEPT ![i] = now]
  /\ UNCHANGED <<deletion, rows, there, export, now, cause, deletionCrashes>>

\* createTenantExport reads table by table and bundle by bundle, with awaits in
\* between: what was there when it began is in the archive, unless bytes are missing
\* and it says so, and what is written meanwhile may be.  The record gets the time of
\* its end.  Then the archive is opened and read back.
BeginExport(x) ==
  /\ there /\ export[x].st = "none"
  /\ export' = [export EXCEPT ![x] = [@ EXCEPT !.st = "reading", !.begun = now, !.has = Present]]
  /\ UNCHANGED <<deletion, rows, there, written, now, cause, deletionCrashes>>

RecordExport(x, whole) ==
  /\ export[x].st = "reading"
  /\ \E read \in SUBSET Present :
       /\ whole => export[x].has \subseteq read
       /\ export' = [export EXCEPT ![x] = [@ EXCEPT !.st = "recorded", !.at = now, !.has = read,
                                            !.whole = whole, !.complete = whole]]
  /\ UNCHANGED <<deletion, rows, there, written, now, cause, deletionCrashes>>

\* The manifest in the archive says whether it was whole when it was written.
Verdict(x, sound) == sound /\ export[x].whole

VerifyExport(x, sound) ==
  /\ export[x].st \in {"recorded", "verified"}
  /\ export' = [export EXCEPT ![x] = [@ EXCEPT !.st = "verified", !.complete = Verdict(x, sound)]]
  /\ UNCHANGED <<deletion, rows, there, written, now, cause, deletionCrashes>>

\* Mutant: any verified export will do.
VerifiedEver(d) == {x \in Exports : export[x].st = "verified" /\ export[x].complete}

\* verifiedExportSince: by the time of the record.
VerifiedSince(d) ==
  {x \in Exports : export[x].st = "verified" /\ export[x].complete /\ export[x].at >= deletion[d].at}

\* ORDER BY created_at DESC: the newest of them is named.
NewestVerified(d) == {x \in VerifiedSince(d) : \A y \in VerifiedSince(d) : export[y].at <= export[x].at}

\* execute_after > now, as texts: only the day counts.
Due(d) == deletion[d].due \div 2 <= now \div 2

MayExecute(d, force, without) ==
  /\ Scheduled(d)
  /\ force \/ Due(d)
  /\ without \/ VerifiedSince(d) # {}

\* tenantSelectors, which the census, the deletion and the export share: the
\* rows reached over columns that are NOT NULL.  A trashed repository belongs to
\* the trash organization.
Owned == {"owned"}

Removal(d, force, without) ==
  /\ rows' = rows \ Owned /\ there' = FALSE
  /\ IF ~there THEN UNCHANGED cause
     ELSE \E x \in IF VerifiedSince(d) = {} THEN {"none"} ELSE NewestVerified(d) :
            cause' = [how |-> "deleted", forced |-> force, waived |-> without,
                      early |-> IF now < deletion[d].due THEN deletion[d].due - now ELSE 0,
                      asked |-> deletion[d].at, export |-> x]

CensusClean(r) == r \cap Owned = {}

ExecuteTenantDeletion(d, force, without) ==
  /\ MayExecute(d, force, without)
  /\ Removal(d, force, without)
  /\ deletion' = [deletion EXCEPT ![d] =
       [@ EXCEPT !.status = IF CensusClean(rows') /\ ~there' THEN "executed" ELSE "failed",
                 !.complete = CensusClean(rows') /\ ~there',
                 !.waived = VerifiedSince(d) = {}]]
  /\ UNCHANGED <<written, export, now, deletionCrashes>>

\* The process dies after the transaction and before the report.
ExecutionDies(d, force, without) ==
  /\ MayExecute(d, force, without) /\ deletionCrashes < MaxDeletionCrashes
  /\ Removal(d, force, without) /\ deletionCrashes' = deletionCrashes + 1
  /\ UNCHANGED <<deletion, written, export, now>>

\* A repository of the tenant goes to Trash or comes back.
TrashSomething == there /\ rows' \in {rows \cup {"trashed"}, rows \ {"trashed"}} /\ rows' # rows
                  /\ UNCHANGED <<deletion, there, written, export, now, cause, deletionCrashes>>

HalfDayPasses ==
  /\ now < MaxHalfDays /\ now' = now + 1
  /\ UNCHANGED <<deletion, rows, there, written, export, cause, deletionCrashes>>

DeletionNext ==
  \/ \E d \in Deletions : RequestTenantDeletion(d) \/ CancelTenantDeletion(d)
  \/ \E d \in Deletions, force, without \in BOOLEAN :
       ExecuteTenantDeletion(d, force, without) \/ ExecutionDies(d, force, without)
  \/ \E x \in Exports : BeginExport(x)
  \/ \E x \in Exports, b \in BOOLEAN : RecordExport(x, b) \/ VerifyExport(x, b)
  \/ \E i \in Writings : WriteItem(i)
  \/ TrashSomething \/ HalfDayPasses

DeletionSpec == DeletionInit /\ [][DeletionNext]_deletionVars

-----------------------------------------------------------------------------
\* Whatever was exported, verified, requested, cancelled and asked for again, a tenant
\* whose deletion did not waive it is in the archive its report names: all of it but what
\* was written while that export was read, or after the deletion was asked for
\* (tenant-lifecycle.mjs:349-374, tenant-export.mjs:345-480).
SurvivesDeletion ==
  cause.how = "deleted" /\ ~cause.waived =>
    /\ cause.export # "none"
    /\ \A i \in Present \ export[cause.export].has :
         \/ written[i] >= cause.asked
         \/ written[i] \in export[cause.export].begun .. export[cause.export].at

\* A deletion nobody hurried waits to the day it is due, if not to the hour.
NotBeforeItsDay == cause.how = "deleted" /\ ~cause.forced => cause.early <= 1

\* A cancelled deletion removes nothing, and a report is never rewritten.
ReportsAreFinal ==
  [][\A d \in Deletions : deletion[d].status \in {"cancelled", "executed", "failed"} =>
       deletion'[d] = deletion[d]]_deletionVars

\* There is never more than one date at which the tenant goes.
OneDateAtATime == Cardinality({d \in Deletions : Scheduled(d)}) <= 1

\* A deletion reported complete has left no row the tenant owned.
ReportIsTrue ==
  \A d \in Deletions : deletion[d].status = "executed" => deletion[d].complete /\ ~there /\ "owned" \notin rows

\* An unhurried deletion waits its seven days: "A request waits before it
\* executes" (tenant-lifecycle.mjs:6).
WaitsItsDays == cause.how = "deleted" /\ ~cause.forced => cause.early = 0

\* The export a deletion relies on was read after it was asked for: "Required to
\* be taken after the request was made"
\* (tenant-lifecycle.mjs:343).
ExportTakenAfterRequest ==
  cause.how = "deleted" /\ cause.export # "none" => export[cause.export].begun >= cause.asked

\* A complete deletion leaves nothing of the tenant, its Trash included.
NothingStays == \A d \in Deletions : deletion[d].status = "executed" => rows = {}
=============================================================================

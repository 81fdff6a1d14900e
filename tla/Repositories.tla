---------------------------- MODULE Repositories ----------------------------
(***************************************************************************)
(* Where a repository is: its row in the database and its bare directory   *)
(* under <repositories>/<organization>/<slug>.git, which nothing but the   *)
(* slugs of the row ties together.  A repository is created, imported,     *)
(* archived, transferred, moved to Trash, restored and purged              *)
(* (src/src/repository-lifecycle.mjs, src/src/app.mjs, src/src/git.mjs).   *)
(*                                                                         *)
(* A lifecycle request reads the row, waits for its body, and then acts on *)
(* the row it read.  `calm` is a history variable: it stays TRUE until a   *)
(* request acts on a row that has changed since it was read, the server    *)
(* dies between a rename and the statement that goes with it, or two       *)
(* clones meet in one directory.                                           *)
(***************************************************************************)
EXTENDS Naturals, FiniteSets

CONSTANTS
  Orgs, Slugs,
  Repos,       \* repository ids
  Requests,    \* requests under way at a time
  Limit,       \* repositories the plan of an organization allows
  Deletable,   \* organizations whose tenant may be deleted
  MaxCrashes

Trash == "kukgit-trash"
Tomb  == "tomb"      \* <slug>-<id>, the slug of a trashed row: unique
None  == "none"
Orphan == "orphan"   \* a clone that was cut off
Empty == "empty"     \* there is no such directory

ASSUME RepositoriesAssumption ==
  /\ Deletable \subseteq Orgs /\ Limit \in Nat /\ MaxCrashes \in Nat
  /\ Repos \cap (Requests \cup {Orphan, Empty}) = {} /\ Empty \notin Requests
  /\ {Trash, None} \cap Orgs = {}   \* reserved (organization-onboarding.mjs:10), and NULL

Places == Orgs \X Slugs
Row == [st: {"none", "live", "trash", "gone"}, org: Orgs \cup {Trash}, slug: Slugs \cup {Tomb},
        archived: BOOLEAN, from: Orgs \cup {None}, orig: Slugs \cup {None}]
NoRow == [st |-> "none", org |-> Trash, slug |-> Tomb, archived |-> FALSE, from |-> None, orig |-> None]
Request == [op: {"idle", "transfer", "trash", "restore", "purge", "spawned", "cloning", "cloned"},
            id: Repos \cup {None}, was: Row, org: Orgs \cup {None}, slug: Slugs \cup {None}]
IdleRequest == [op |-> "idle", id |-> None, was |-> NoRow, org |-> None, slug |-> None]

VARIABLES
  row,      \* repository -> its row
  disk,     \* place -> whose bytes are in its directory: a repository's, those
            \* of the clone of a request, Orphan, or Empty
  req,      \* request -> what it has read
  tenants,  \* the organizations there are
  crashes,
  calm

repoVars == <<row, disk, req, tenants, crashes, calm>>

RepoTypeOK ==
  /\ row \in [Repos -> Row]
  /\ disk \in [Places -> Repos \cup Requests \cup {Orphan, Empty}]
  /\ req \in [Requests -> Request]
  /\ tenants \subseteq Orgs /\ crashes \in 0 .. MaxCrashes /\ calm \in BOOLEAN

RepoInit ==
  /\ row = [r \in Repos |-> NoRow]
  /\ disk = [p \in Places |-> Empty]
  /\ req = [q \in Requests |-> IdleRequest]
  /\ tenants = Orgs /\ crashes = 0 /\ calm = TRUE

-----------------------------------------------------------------------------
Exists(r)   == row[r].st \in {"live", "trash"}
At(r, o, s) == Exists(r) /\ row[r].org = o /\ row[r].slug = s
Taken(o, s) == \E r \in Repos : At(r, o, s)

\* findRepo and activeRepository skip what is in Trash.
Found(o, s) == \E r \in Repos : At(r, o, s) /\ row[r].st = "live"

\* assertWithinPlan counts the rows of the organization.
Count(o) == Cardinality({r \in Repos : Exists(r) /\ row[r].org = o})
WithinPlan(o) == Count(o) < Limit

\* uid('repo') has not given it out.
Fresh(r) == row[r].st = "none" /\ \A q \in Requests : req[q].id # r

Done(q) == req' = [req EXCEPT ![q] = IdleRequest]
Same(q) == row[req[q].id] = req[q].was

-----------------------------------------------------------------------------
(* Creation and the two switches, which have nothing to wait for           *)

Free(o, s) == ~Found(o, s) /\ disk[<<o, s>>] = Empty

NewRow(o, s) == [NoRow EXCEPT !.st = "live", !.org = o, !.slug = s]

Create(o, s, r) ==
  /\ Fresh(r) /\ o \in tenants
  /\ Free(o, s) /\ WithinPlan(o) /\ ~Taken(o, s)
  /\ disk' = [disk EXCEPT ![<<o, s>>] = r]
  /\ row' = [row EXCEPT ![r] = NewRow(o, s)]
  /\ UNCHANGED <<req, tenants, crashes, calm>>

ArchiveRepository(r) ==
  /\ row[r].st = "live" /\ ~row[r].archived
  /\ row' = [row EXCEPT ![r].archived = TRUE]
  /\ UNCHANGED <<disk, req, tenants, crashes, calm>>

UnarchiveRepository(r) ==
  /\ row[r].st = "live" /\ row[r].archived
  /\ row' = [row EXCEPT ![r].archived = FALSE]
  /\ UNCHANGED <<disk, req, tenants, crashes, calm>>

-----------------------------------------------------------------------------
(* A lifecycle request                                                     *)

\* The row is read, and the body awaited.
Begin(q, r, op) ==
  /\ req[q].op = "idle"
  /\ row[r].st = IF op \in {"transfer", "trash"} THEN "live" ELSE "trash"
  /\ req' = [req EXCEPT ![q] = [op |-> op, id |-> r, was |-> row[r], org |-> None, slug |-> None]]
  /\ UNCHANGED <<row, disk, tenants, crashes, calm>>

\* Mutant: only the table is asked whether the target is free.
MayTransferByTable(was, to) ==
  /\ was.archived /\ to # was.org /\ to \in tenants
  /\ ~Taken(to, was.slug) /\ disk[<<was.org, was.slug>>] # Empty

MayTransfer(was, to) ==
  /\ was.archived /\ to # was.org /\ to \in tenants
  /\ ~Taken(to, was.slug)
  /\ disk[<<was.org, was.slug>>] # Empty /\ disk[<<to, was.slug>>] = Empty

\* Mutant: the directory is copied.
CopiedTo(was, to) == [disk EXCEPT ![<<to, was.slug>>] = disk[<<was.org, was.slug>>]]

MovedTo(was, to) == [disk EXCEPT ![<<to, was.slug>>] = disk[<<was.org, was.slug>>], ![<<was.org, was.slug>>] = Empty]

\* transferRepository: the UPDATE asks for the id alone, so a row that went to
\* Trash in the meantime gets a new organization there.
TransferRepository(q, to) ==
  LET r == req[q].id
      was == req[q].was IN
  /\ req[q].op = "transfer" /\ Done(q)
  /\ IF MayTransfer(was, to)
     THEN /\ disk' = MovedTo(was, to)
          /\ row' = IF Exists(r) THEN [row EXCEPT ![r].org = to] ELSE row
          /\ calm' = (calm /\ Same(q))
     ELSE UNCHANGED <<row, disk, calm>>
  /\ UNCHANGED <<tenants, crashes>>

MayTrash(was) == was.archived /\ was.org \in tenants

Trashed(r, was) == [row[r] EXCEPT !.st = "trash", !.org = Trash, !.slug = Tomb,
                                  !.from = was.org, !.orig = was.slug]

TrashRepository(q) ==
  LET r == req[q].id
      was == req[q].was IN
  /\ req[q].op = "trash" /\ Done(q)
  /\ IF MayTrash(was) /\ row[r].st = "live"
     THEN row' = [row EXCEPT ![r] = Trashed(r, was)] /\ calm' = (calm /\ Same(q))
     ELSE UNCHANGED <<row, calm>>
  /\ UNCHANGED <<disk, tenants, crashes>>

\* requireTrashPermission: the original organization is still there.
MayTouchTrash(was) == was.from # None /\ was.from \in tenants

Restored(r, was) == [row[r] EXCEPT !.st = "live", !.org = was.from, !.slug = was.orig,
                                   !.from = None, !.orig = None]

RestoreRepository(q) ==
  LET r == req[q].id
      was == req[q].was IN
  /\ req[q].op = "restore" /\ Done(q)
  /\ IF /\ MayTouchTrash(was) /\ row[r].st = "trash"
        /\ ~\E x \in Repos \ {r} : At(x, was.from, was.orig)
     THEN row' = [row EXCEPT ![r] = Restored(r, was)] /\ calm' = (calm /\ Same(q))
     ELSE UNCHANGED <<row, calm>>
  /\ UNCHANGED <<disk, tenants, crashes>>

Removed(p) == [disk EXCEPT ![p] = Empty]

\* Mutant: the DELETE asks for the id alone.
PurgeableStill(r) == Exists(r)

Purgeable(r) == row[r].st = "trash"

Purged(r, p) == IF Purgeable(r) THEN Removed(p) ELSE disk

\* purgeRepository: the directory goes to quarantine, and comes back when the
\* DELETE finds no row in Trash.
PurgeRepository(q) ==
  LET r == req[q].id
      was == req[q].was IN
  /\ req[q].op = "purge" /\ Done(q)
  /\ IF MayTouchTrash(was)
     THEN /\ disk' = Purged(r, <<was.from, was.orig>>)
          /\ IF Purgeable(r)
             THEN row' = [row EXCEPT ![r] = [NoRow EXCEPT !.st = "gone"]] /\ calm' = (calm /\ Same(q))
             ELSE UNCHANGED <<row, calm>>
     ELSE UNCHANGED <<row, disk, calm>>
  /\ UNCHANGED <<tenants, crashes>>

-----------------------------------------------------------------------------
(* POST /api/repos/import                                                  *)

BeginImport(q, o, s) ==
  /\ req[q].op = "idle" /\ o \in tenants
  /\ Free(o, s) /\ WithinPlan(o)
  /\ req' = [req EXCEPT ![q] = [IdleRequest EXCEPT !.op = "spawned", !.org = o, !.slug = s]]
  /\ UNCHANGED <<row, disk, tenants, crashes, calm>>

\* `git clone` makes the directory, or finds one and fails; the directory is
\* then removed, whoever made it.
CloneStarts(q) ==
  LET p == <<req[q].org, req[q].slug>> IN
  /\ req[q].op = "spawned"
  /\ \/ /\ disk[p] = Empty
        /\ disk' = [disk EXCEPT ![p] = q]
        /\ req' = [req EXCEPT ![q].op = "cloning"]
        /\ UNCHANGED calm
     \/ /\ disk[p] # Empty
        /\ disk' = Removed(p) /\ Done(q) /\ calm' = FALSE
  /\ UNCHANGED <<row, tenants, crashes>>

\* Mutant: a partial clone is left where it is.
AfterFailureLeft(p) == disk
AfterFailure(p) == Removed(p)

\* The remote refuses, the three minutes are over, or the directory is gone.
CloneFails(q) ==
  LET p == <<req[q].org, req[q].slug>> IN
  /\ req[q].op = "cloning" /\ Done(q)
  /\ disk' = AfterFailure(p)
  /\ calm' = (calm /\ disk[p] = q)
  /\ UNCHANGED <<row, tenants, crashes>>

CloneEnds(q, r) ==
  LET p == <<req[q].org, req[q].slug>> IN
  /\ req[q].op = "cloning" /\ disk[p] = q
  /\ Fresh(r)
  /\ disk' = [disk EXCEPT ![p] = r]
  /\ req' = [req EXCEPT ![q].op = "cloned", ![q].id = r]
  /\ UNCHANGED <<row, tenants, crashes, calm>>

\* The row; when the table refuses it the directory is removed again.
Record(q) ==
  LET r == req[q].id
      o == req[q].org
      s == req[q].slug IN
  /\ req[q].op = "cloned" /\ Done(q)
  /\ \/ /\ disk[<<o, s>>] = Empty
        /\ row' = [row EXCEPT ![r].st = "gone"] /\ UNCHANGED <<disk, calm>>
     \/ /\ disk[<<o, s>>] # Empty /\ (Taken(o, s) \/ o \notin tenants)
        /\ disk' = AfterFailure(<<o, s>>) /\ calm' = (calm /\ disk[<<o, s>>] = r)
        /\ row' = [row EXCEPT ![r].st = "gone"]
     \/ /\ disk[<<o, s>>] # Empty /\ ~Taken(o, s) /\ o \in tenants
        /\ row' = [row EXCEPT ![r] = NewRow(o, s)]
        /\ calm' = (calm /\ disk[<<o, s>>] = r) /\ UNCHANGED disk
  /\ UNCHANGED <<tenants, crashes>>

-----------------------------------------------------------------------------
(* The tenant is deleted: the rows go, the bytes stay                      *)

DeleteTenant(o) ==
  /\ o \in tenants /\ tenants' = tenants \ {o}
  /\ row' = [r \in Repos |->
       CASE Exists(r) /\ row[r].org = o -> [NoRow EXCEPT !.st = "gone"]
         [] Exists(r) /\ row[r].org # o /\ row[r].from = o -> [row[r] EXCEPT !.from = None]
         [] OTHER -> row[r]]
  /\ UNCHANGED <<disk, req, crashes, calm>>

-----------------------------------------------------------------------------
(* The server dies: between two requests, or between a directory and its row *)

Cut(d) == [p \in Places |-> IF d[p] \in Requests THEN Orphan ELSE d[p]]

Crash ==
  /\ crashes < MaxCrashes /\ crashes' = crashes + 1 /\ calm' = FALSE
  /\ req' = [q \in Requests |-> IdleRequest]
  /\ LET lost == {req[q].id : q \in {x \in Requests : req[x].op = "cloned"}} IN
     \/ /\ disk' = Cut(disk)
        /\ row' = [r \in Repos |-> IF r \in lost THEN [row[r] EXCEPT !.st = "gone"] ELSE row[r]]
     \/ \E q \in Requests, to \in Orgs :
          /\ req[q].op = "transfer" /\ MayTransfer(req[q].was, to)
          /\ disk' = Cut(MovedTo(req[q].was, to)) /\ lost = {} /\ UNCHANGED row
     \/ \E q \in Requests :
          /\ req[q].op = "purge" /\ MayTouchTrash(req[q].was) /\ lost = {}
          /\ disk' = Cut(Removed(<<req[q].was.from, req[q].was.orig>>)) /\ UNCHANGED row
     \/ \E o \in tenants, s \in Slugs :
          /\ Free(o, s) /\ WithinPlan(o) /\ ~Taken(o, s) /\ lost = {}
          /\ disk' = [Cut(disk) EXCEPT ![<<o, s>>] = Orphan] /\ UNCHANGED row
  /\ UNCHANGED tenants

-----------------------------------------------------------------------------
RequestStep(q) ==
  \/ \E to \in Orgs : TransferRepository(q, to)
  \/ TrashRepository(q) \/ RestoreRepository(q) \/ PurgeRepository(q)
  \/ CloneStarts(q) \/ CloneFails(q) \/ Record(q)
  \/ \E r \in Repos : CloneEnds(q, r)

RepoNext ==
  \/ \E q \in Requests : RequestStep(q)
  \/ \E q \in Requests, r \in Repos : \E op \in {"transfer", "trash", "restore", "purge"} : Begin(q, r, op)
  \/ \E q \in Requests, o \in Orgs, s \in Slugs : BeginImport(q, o, s)
  \/ \E o \in Orgs, s \in Slugs, r \in Repos : Create(o, s, r)
  \/ \E r \in Repos : ArchiveRepository(r) \/ UnarchiveRepository(r)
  \/ \E o \in Deletable : DeleteTenant(o)
  \/ Crash

RepoSpec == RepoInit /\ [][RepoNext]_repoVars

-----------------------------------------------------------------------------
(* What it comes to                                                        *)

\* The place a repository's directory belongs.
HomeOf(r) == IF row[r].st = "trash" THEN <<row[r].from, row[r].orig>> ELSE <<row[r].org, row[r].slug>>

\* Every repository, listed or in Trash, has its own bytes at the place its row
\* names, so it is read, restored and purged as itself (repository-lifecycle.mjs
\* and git.mjs join the two by slugs alone).
StorageWhereRowSays ==
  calm => \A r \in Repos : Exists(r) /\ HomeOf(r)[1] # None => disk[HomeOf(r)] = r

\* Every directory belongs to a repository, to an import under way, or to
\* a tenant that was deleted: no failed or refused step leaves one behind to
\* block its name ("Repository already exists on disk", git.mjs:135).
NothingLeftBehind ==
  calm => \A p \in Places :
    \/ disk[p] = Empty \/ p[1] \notin tenants
    \/ \E r \in Repos : Exists(r) /\ disk[p] = r /\ HomeOf(r) = p
    \/ \E q \in Requests : /\ req[q].op \in {"cloning", "cloned"} /\ p = <<req[q].org, req[q].slug>>
                           /\ disk[p] \in {q, req[q].id}

\* What is in Trash was archived, so that it comes back read-only
\* (REPOSITORY_LIFECYCLE.md: "After restore, the repository remains archived").
TrashIsArchived == calm => \A r \in Repos : row[r].st = "trash" => row[r].archived

\* The bytes of a repository are in one directory at most, whatever meets what
\* (a transfer renames, and renames back when the database refuses).
BytesInOnePlace ==
  \A p1, p2 \in Places : disk[p1] = disk[p2] /\ disk[p1] \in Repos => p1 = p2

\* A purge that was confirmed while the repository lay in Trash does not destroy
\* one that was restored before it ran (the DELETE asks for deleted_at): rows in
\* use go only with their tenant.
PurgeSparesTheRestored ==
  [][\A r \in Repos : row[r].st = "live" /\ row'[r].st = "gone" => row[r].org \notin tenants']_repoVars

\* A repository is created only while what the organization has, Trash
\* included, is below the limit: "Trash counts, exactly as it does in the usage
\* report" (plan-limits.mjs:56).
TrashCounts ==
  [][\A o \in Orgs, r \in Repos :
       row[r].st = "none" /\ row'[r].st = "live" /\ row'[r].org = o /\ req' = req =>
         Cardinality({x \in Repos : Exists(x) /\ o \in {row[x].org, row[x].from}}) < Limit]_repoVars

\* No repository is ever served the bytes of another.
OwnBytes ==
  \A r \in Repos : Exists(r) /\ HomeOf(r)[1] # None => disk[HomeOf(r)] \notin Repos \ {r}

\* A repository has its own bytes, in one place, the one its row names, and nothing
\* else blocks a name.
BytesFollowRows == StorageWhereRowSays /\ NothingLeftBehind /\ BytesInOnePlace

=============================================================================

------------------------------ MODULE TenantMove ------------------------------
(***************************************************************************)
(* One tenant leaves an instance and comes back on another: the export that*)
(* reads its tables one after another while the server goes on, packs them *)
(* with its repositories and large files                                   *)
(* (tenant-export.mjs), and the import of that archive, which verifies it  *)
(* again, stores the large files, loads the rows in one transaction and    *)
(* then clones the repositories, outside it (tenant-import.mjs).           *)
(*                                                                         *)
(* A row stands for the rows of its kind.  The main repository has a pull  *)
(* request with its review, a webhook with its deliveries and a pointer to *)
(* a large file.  A webhook holds a credential, which an export withholds. *)
(* Every row but the organization's belongs to a person: "alice", a member,*)
(* or "bob", who may have left the organization ("colleague" is his row).  *)
(***************************************************************************)
EXTENDS FiniteSets, Naturals, Sequences

CONSTANTS Main, Side,        \* the repositories
          Imports,           \* runs of the import command
          MaxChanges,        \* bound: changes at the source
          MaxTenantArchives  \* bound: exports

Repos == {Main, Side}
\* Repositories are two, and no rows of another kind.
ASSUME RepositoriesAssumption ==
  /\ Main # Side
  /\ Repos \cap {"organization", "member", "colleague", "pull", "review", "webhook", "delivery",
               "pointer"} = {}
People == {"alice", "bob"}
Rows == {"organization", "member", "colleague", "pull", "review", "webhook", "delivery",
         "pointer"} \cup Repos

\* What a row refers to, of the tenant's own rows.
Parents == [r \in Rows |->
              CASE r = "organization" -> {}
                [] r \in {"member", "colleague"} \cup Repos -> {"organization"}
                [] r \in {"pull", "webhook", "pointer"} -> {Main}
                [] r = "review" -> {"pull"}
                [] r = "delivery" -> {"webhook"}]
Rooted(rows) == \A r \in rows : Parents[r] \subseteq rows

\* The person a row cannot do without: a column that refers to users, NOT NULL.
Requires(r) == CASE r \in {"organization", "delivery", "pointer"} -> {}
                 [] r \in {"pull", "colleague", Side} -> {"bob"}
                 [] OTHER -> {"alice"}
Withheld == {"webhook"}

\* tenantSelectors: a table is exported before the ones it refers to.
TableOrder == <<{"delivery"}, {"review"}, {"pointer"}, {"webhook"}, {"pull"},
                 {"member", "colleague"}, Repos, {"organization"}>>

NoArchive == [rows |-> {}, members |-> {}, bundles |-> [r \in {} |-> "empty"], object |-> FALSE,
              complete |-> FALSE]

VARIABLES src,        \* the rows at the source
          srcDirs,    \* the repositories whose directory is there
          srcObject,  \* the bytes of the large file are there
          changes,
          export,     \* [at, rows, members, bundles]: the export in progress, at its step
          archive,    \* the last archive
          archives,
          accounts,   \* the people known at the target, by their email address
          intake,     \* imp[i]: [pc, map, stored, created, left, from]: a run of the import
          tgt,        \* the rows loaded at the target
          slugTaken,  \* another organization holds the slug
          dirs,       \* dirs[r]: "none", "stray" (somebody else's), "cloned" or "restored"
          strays,     \* history: the strays there at first
          object,     \* [row, bytes]: the large file in the target's store
          reports     \* the imports recorded, with [dirs, complete]

tenantVars == <<src, srcDirs, srcObject, changes, export, archive, archives, accounts, intake, tgt,
              slugTaken, dirs, strays, object, reports>>
originVars == <<src, srcDirs, srcObject, changes>>
exportVars == <<export, archive, archives>>
targetVars == <<tgt, slugTaken, dirs, object, reports>>

NotExporting == [at |-> 0, rows |-> {}, members |-> {}, bundles |-> [r \in {} |-> "empty"]]
NoImport == [pc |-> "idle", map |-> {}, stored |-> FALSE, created |-> {}, left |-> {},
             from |-> NoArchive]

TenantTypeOK ==
  /\ src \subseteq Rows /\ srcDirs \subseteq Repos /\ srcObject \in BOOLEAN
  /\ changes \in 0..MaxChanges /\ archives \in 0..MaxTenantArchives
  /\ export.at \in 0..(Len(TableOrder) + 3) /\ export.rows \subseteq Rows
  /\ archive.rows \subseteq Rows /\ archive.members \subseteq People
  /\ accounts \subseteq People
  /\ \A i \in Imports : /\ intake[i].pc \in {"idle", "storing", "loading", "cloning", "settling",
                                          "failed", "cleaned", "dead", "ended"}
                        /\ intake[i].created \subseteq Repos /\ intake[i].left \subseteq Repos
  /\ tgt \subseteq Rows /\ slugTaken \in BOOLEAN /\ strays \subseteq Repos
  /\ dirs \in [Repos -> {"none", "stray", "cloned", "restored"}]
  /\ object \in [row : BOOLEAN, bytes : BOOLEAN]
  /\ DOMAIN reports \subseteq Imports

TenantInit ==
  /\ src \in {Rows, Rows \ {"webhook", "delivery"}} /\ srcDirs \in {Repos, {Main}}
  /\ srcObject \in BOOLEAN /\ changes = 0
  /\ export = NotExporting /\ archive = NoArchive /\ archives = 0
  /\ accounts \in {{"alice"}, People}
  /\ intake = [i \in Imports |-> NoImport] /\ tgt = {} /\ slugTaken = FALSE
  /\ strays \in {{}, {Main}, {Side}} /\ dirs = [r \in Repos |-> IF r \in strays THEN "stray" ELSE "none"]
  /\ object \in {o \in [row : BOOLEAN, bytes : BOOLEAN] : o.row = o.bytes}
  /\ reports = [i \in {} |-> FALSE]

-----------------------------------------------------------------------------
\* The source: a row comes, or goes with all that refers to it.
Dependents(rows, r) ==
  LET below(S) == S \cup {q \in rows : Parents[q] \cap S # {}}
  IN below(below({r}))

SourceChanges ==
  /\ changes < MaxChanges /\ changes' = changes + 1
  /\ \/ \E r \in Rows \ src : Parents[r] \subseteq src /\ src' = src \cup {r}
     \/ \E r \in src \ {"organization", "member"} : src' = src \ Dependents(src, r)
  /\ srcDirs' = {r \in Repos : r \in src' /\ (r \in srcDirs \/ r \notin src)}
  /\ UNCHANGED <<srcObject, accounts, intake, strays>> /\ UNCHANGED exportVars
  /\ UNCHANGED targetVars

ToBundles == Len(TableOrder) + 1

\* createTenantExport: a table is written and hashed, with an await, then the next.
ReadTable ==
  /\ export.at < Len(TableOrder) /\ archives < MaxTenantArchives
  /\ export' = [export EXCEPT !.at = @ + 1,
                              !.rows = @ \cup (src \cap TableOrder[export.at + 1])]
  /\ UNCHANGED <<archive, archives, accounts, intake, strays>> /\ UNCHANGED originVars
  /\ UNCHANGED targetVars

\* The member list, by email address: the people of org_members and nobody else.
ReadMembers ==
  /\ export.at = Len(TableOrder)
  /\ export' = [export EXCEPT !.at = ToBundles,
                  !.members = {p \in People : \E r \in {"member", "colleague"} \cap src :
                                                p \in Requires(r)}]
  /\ UNCHANGED <<archive, archives, accounts, intake, strays>> /\ UNCHANGED originVars
  /\ UNCHANGED targetVars

\* bundleRepositories: the repositories the database has now, which need not be the
\* ones of the table read before.
bundleRepositories ==
  /\ export.at = ToBundles
  /\ \E empty \in {{}, {Side}} :
       export' = [export EXCEPT !.at = @ + 1,
                    !.bundles = [r \in Repos \cap src |->
                                   CASE r \notin srcDirs -> "missing"
                                     [] r \in srcDirs \cap empty -> "empty"
                                     [] OTHER -> "bundled"]]
  /\ UNCHANGED <<archive, archives, accounts, intake, strays>> /\ UNCHANGED originVars
  /\ UNCHANGED targetVars

\* copyLfsObjects, the manifest, the archive and its row: a gap makes it incomplete.
RecordExport ==
  /\ export.at = ToBundles + 1
  /\ archive' = [rows |-> export.rows, members |-> export.members, bundles |-> export.bundles,
                 object |-> "pointer" \in src /\ srcObject,
                 complete |-> /\ "missing" \notin {export.bundles[r] : r \in DOMAIN export.bundles}
                              /\ "pointer" \in src => srcObject]
  /\ archives' = archives + 1 /\ export' = NotExporting
  /\ UNCHANGED <<accounts, intake, strays>> /\ UNCHANGED originVars /\ UNCHANGED targetVars

-----------------------------------------------------------------------------
\* importTenantArchive
Proceed(i, pc) == intake' = [intake EXCEPT ![i].pc = pc]

\* The archive is verified: every file is compared with the manifest the same export
\* wrote, so what it did not read is not missed.  The slug and the identifier must be
\* free, and the member list is matched with the accounts here.
importTenantArchive(i) ==
  /\ intake[i].pc = "idle" /\ archives > 0
  /\ \E allowIncomplete \in BOOLEAN : archive.complete \/ allowIncomplete
  /\ "organization" \notin tgt /\ ~slugTaken
  /\ intake' = [intake EXCEPT ![i] = [NoImport EXCEPT !.pc = "storing", !.from = archive,
                                                !.map = archive.members \cap accounts]]
  /\ UNCHANGED <<accounts, strays>> /\ UNCHANGED originVars /\ UNCHANGED exportVars
  /\ UNCHANGED targetVars

\* The bytes go into the store before a row points at them; a failure is collected.
putFile(i) ==
  /\ intake[i].pc = "storing"
  /\ \E ok \in BOOLEAN :
       LET stored == intake[i].from.object /\ ok
       IN /\ intake' = [intake EXCEPT ![i].pc = "loading", ![i].stored = stored]
          /\ object' = [object EXCEPT !.bytes = @ \/ stored]
  /\ UNCHANGED <<accounts, strays, tgt, slugTaken, dirs, reports>> /\ UNCHANGED originVars
  /\ UNCHANGED exportVars

\* The rows to insert: not the ones withheld, nor the ones whose person is unknown here.
Kept(a, people) == {r \in a.rows \ Withheld : Requires(r) \subseteq people}
\* Foreign keys are enforced row by row, and nothing is removed for the sake of a parent.
Accepted(rows, objectRow) == Rooted(rows) /\ ("pointer" \in rows => objectRow)

\* One transaction; afterwards the repositories of the manifest are to be restored.
Load(i) ==
  /\ intake[i].pc = "loading"
  /\ LET kept == Kept(intake[i].from, intake[i].map)
         objectRow == object.row \/ intake[i].stored
     IN IF Accepted(kept, objectRow) /\ "organization" \notin tgt /\ ~slugTaken
        THEN /\ tgt' = kept /\ object' = [object EXCEPT !.row = objectRow]
             /\ intake' = [intake EXCEPT ![i].pc = "cloning",
                          ![i].left = {r \in DOMAIN intake[i].from.bundles :
                                         intake[i].from.bundles[r] # "missing"}]
        ELSE Proceed(i, "failed") /\ UNCHANGED <<tgt, object>>
  /\ UNCHANGED <<accounts, strays, slugTaken, dirs, reports>> /\ UNCHANGED originVars
  /\ UNCHANGED exportVars

\* Mutant: the path is remembered before the clone that may be refused.
cloneRepositoryEarly(i) ==
  /\ intake[i].pc = "cloning"
  /\ \E r \in intake[i].left :
       \/ /\ intake[i].from.bundles[r] = "empty" \/ dirs[r] = "none"
          /\ dirs' = [dirs EXCEPT ![r] = "cloned"]
          /\ intake' = [intake EXCEPT ![i].pc = "settling", ![i].created = @ \cup {r},
                                ![i].left = @ \ {r}]
       \/ /\ intake' = [intake EXCEPT ![i].pc = "failed", ![i].created = @ \cup {r}]
          /\ UNCHANGED dirs
  /\ UNCHANGED <<accounts, strays, tgt, slugTaken, object, reports>> /\ UNCHANGED originVars
  /\ UNCHANGED exportVars

\* git clone refuses a directory that is there; git init of an empty repository takes it.
\* The path is remembered once the directory is made.
cloneRepository(i) ==
  /\ intake[i].pc = "cloning"
  /\ \E r \in intake[i].left :
       \/ /\ intake[i].from.bundles[r] = "empty" \/ dirs[r] = "none"
          /\ dirs' = [dirs EXCEPT ![r] = "cloned"]
          /\ intake' = [intake EXCEPT ![i].pc = "settling", ![i].created = @ \cup {r},
                                ![i].left = @ \ {r}]
       \/ Proceed(i, "failed") /\ UNCHANGED dirs
  /\ UNCHANGED <<accounts, strays, tgt, slugTaken, object, reports>> /\ UNCHANGED originVars
  /\ UNCHANGED exportVars

\* remote remove, config, update-server-info: any of them may fail.
settleRepository(i) ==
  /\ intake[i].pc = "settling"
  /\ \/ /\ dirs' = [r \in Repos |-> IF r \in intake[i].created THEN "restored" ELSE dirs[r]]
        /\ Proceed(i, "cloning")
     \/ Proceed(i, "failed") /\ UNCHANGED dirs
  /\ UNCHANGED <<accounts, strays, tgt, slugTaken, object, reports>> /\ UNCHANGED originVars
  /\ UNCHANGED exportVars

\* The report: complete when every repository of the manifest is restored and every
\* large file of the archive stored.
RecordImport(i) ==
  /\ intake[i].pc = "cloning" /\ intake[i].left = {}
  /\ reports' = [j \in DOMAIN reports \cup {i} |->
                   IF j = i THEN /\ intake[i].created = DOMAIN intake[i].from.bundles
                                 /\ intake[i].from.object => intake[i].stored
                   ELSE reports[j]]
  /\ Proceed(i, "ended")
  /\ UNCHANGED <<accounts, strays, tgt, slugTaken, dirs, object>> /\ UNCHANGED originVars
  /\ UNCHANGED exportVars

\* The directories it made are removed; rows that were committed stay.
CleanUp(i) ==
  /\ intake[i].pc = "failed"
  /\ dirs' = [r \in Repos |-> IF r \in intake[i].created THEN "none" ELSE dirs[r]]
  /\ intake' = [intake EXCEPT ![i] = [NoImport EXCEPT !.pc = "cleaned"]]
  /\ UNCHANGED <<accounts, strays, tgt, slugTaken, object, reports>> /\ UNCHANGED originVars
  /\ UNCHANGED exportVars

-----------------------------------------------------------------------------
\* The import is killed: nobody cleans up.
ImportKilled(i) ==
  /\ intake[i].pc \in {"storing", "loading", "cloning", "settling", "failed"}
  /\ Proceed(i, "dead")
  /\ UNCHANGED <<accounts, strays>> /\ UNCHANGED originVars /\ UNCHANGED exportVars
  /\ UNCHANGED targetVars

\* Somebody founds an organization under the slug.
TakeSlug ==
  /\ "organization" \notin tgt /\ ~slugTaken /\ slugTaken' = TRUE
  /\ UNCHANGED <<accounts, intake, strays, tgt, dirs, object, reports>> /\ UNCHANGED originVars
  /\ UNCHANGED exportVars

\* garbageCollectLfs of the target's server: an object no repository points at goes,
\* its bytes with its row; bytes without a row are not found.
garbageCollectLfs ==
  /\ object.row /\ "pointer" \notin tgt
  /\ object' = [row |-> FALSE, bytes |-> FALSE]
  /\ UNCHANGED <<accounts, intake, strays, tgt, slugTaken, dirs, reports>> /\ UNCHANGED originVars
  /\ UNCHANGED exportVars

ExportNext == \/ ReadTable \/ ReadMembers \/ bundleRepositories \/ RecordExport
ImportNext == \E i \in Imports :
                \/ importTenantArchive(i) \/ putFile(i) \/ Load(i) \/ cloneRepository(i)
                \/ settleRepository(i) \/ RecordImport(i) \/ CleanUp(i) \/ ImportKilled(i)
TenantNext == SourceChanges \/ ExportNext \/ ImportNext \/ TakeSlug \/ garbageCollectLfs
TenantSpec == TenantInit /\ [][TenantNext]_tenantVars

-----------------------------------------------------------------------------
\* What is loaded holds together, names only people of this instance and no credential.
LoadedIsWhole ==
  /\ Rooted(tgt) /\ tgt \cap Withheld = {}
  /\ \A r \in tgt : Requires(r) \subseteq accounts

\* Two imports of one tenant, or an import and a new organization of its name, are
\* never both on the instance.
OneOfTheName ==
  /\ tgt # {} => ~slugTaken
  /\ Cardinality({i \in Imports : intake[i].pc \in {"cloning", "settling"}}) <= 1
  /\ Cardinality(DOMAIN reports) <= 1

\* A repository directory the import did not make, and cannot have adopted as an empty
\* repository (git init takes it), is there whatever becomes of the import.
StraysAreLeft ==
  \A r \in strays \ {Side} : dirs[r] = "stray"

\* An import that reports itself complete has restored every repository of the archive.
CompleteIsComplete ==
  \A i \in DOMAIN reports :
    reports[i] => \A r \in DOMAIN intake[i].from.bundles : dirs[r] = "restored"

\* The rows of a tenant are loaded together; what an import adds to the instance is
\* whole, somebody else's directory survives its cleaning up, and "complete" is true.
TenantMoveSound == LoadedIsWhole /\ OneOfTheName /\ StraysAreLeft /\ CompleteIsComplete

\* tenant-import.mjs: "A failed import leaves nothing behind."  When every import has
\* failed and cleaned up, the instance has no row of the tenant.
FailedImportLeavesNothing ==
  (\A i \in Imports : intake[i].pc \in {"idle", "cleaned"}) => tgt = {}

\* docs/TENANT_IMPORT.md: the archive "brings the tenant back".  A complete archive whose
\* people all have accounts here, its large files stored, can be loaded.
LoadsBack ==
  \A i \in Imports :
    (intake[i].pc = "loading" /\ intake[i].from.complete /\ intake[i].map = People /\ intake[i].stored) =>
      Accepted(Kept(intake[i].from, intake[i].map), TRUE)
=============================================================================

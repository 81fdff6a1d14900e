------------------------------- MODULE Backups -------------------------------
(***************************************************************************)
(* Verified backups, their Git LFS pass, restores and rehearsals           *)
(* (src/src/backups.mjs, backups-lfs.mjs, recovery-rehearsal.mjs).         *)
(*                                                                         *)
(* An archive holds the rows of one moment, each repository's references   *)
(* as `for-each-ref` listed them and, read later, its bundle; pushes of    *)
(* other processes land in between.  A second pass, without the lock, adds *)
(* the large objects those rows name.  A restore lands the rows and the    *)
(* repositories under the lock and the large objects after it.             *)
(*                                                                         *)
(* `answered`, and `tip`, `moved` and `promised` in a record, are history  *)
(* variables.                                                              *)
(***************************************************************************)
EXTENDS Naturals, FiniteSets

CONSTANTS
  BackedRepos, BackedRefs,
  HeadRef,                         \* the reference HEAD names
  Blobs,                           \* large objects
  Bucketed,                        \* archives made while the large objects were in a bucket
  Workers,                         \* processes that create, prune and restore: the server and the CLI
  Restorers,                       \* those that restore: the CLI
  Targets,                         \* directories to restore to
  KeepCount,                       \* config.backupRetentionCount
  MaxPushes, MaxArchives, MaxCuts  \* bounds

ASSUME BackupsAssumption ==
  /\ HeadRef \in BackedRefs /\ Restorers \subseteq Workers /\ {"free", "left"} \cap Workers = {}
  /\ KeepCount \in Nat \ {0} /\ MaxArchives \in Nat

VARIABLES
  repoRows,    \* rows of repositories, the trashed ones too
  refs,        \* repository -> reference -> commit, 0 for none
  pushes,      \* pushes so far, the number of the last commit
  blobRows,    \* rows of lfs_objects
  bytes,       \* large objects whose bytes the store has
  backupLock,  \* config.backupLockPath: "free", the process that made it, or "left"
  act,         \* worker -> what it is doing
  file,        \* archive -> its .kgbak file, or NoArchiveFile
  listed,      \* archives with a sidecar index
  begun,       \* archives begun
  answered,    \* archives whose creation answered success
  restored,    \* target -> what was restored there, or NothingThere
  drilled,     \* target -> what the rehearsal recorded
  cuts         \* processes that died

backupVars == <<repoRows, refs, pushes, blobRows, bytes, backupLock, act, file, listed,
                begun, answered, restored, drilled, cuts>>
liveVars == <<repoRows, refs, pushes, blobRows, bytes>>

NoRefs == [f \in BackedRefs |-> 0]
NoArchiveFile == [exists |-> FALSE]
NothingThere == [state |-> "empty"]
NotWorking == [at |-> "idle"]

BackupsInit ==
  /\ repoRows = BackedRepos /\ pushes = 1
  /\ refs = [r \in BackedRepos |-> [f \in BackedRefs |-> 1]]
  /\ blobRows = Blobs /\ bytes = Blobs
  /\ backupLock = "free" /\ act = [w \in Workers |-> NotWorking]
  /\ file = [k \in 1..MaxArchives |-> NoArchiveFile] /\ listed = {} /\ begun = 0 /\ answered = {}
  /\ restored = [t \in Targets |-> NothingThere] /\ drilled = [t \in Targets |-> "none"]
  /\ cuts = 0

-----------------------------------------------------------------------------
(* The instance that is backed up                                          *)

\* A run under way notes the references that move under it.
Moving(r, fs) ==
  act' = [w \in Workers |-> IF act[w].at \in {"listing", "bundling"}
                            THEN [act[w] EXCEPT !.moved = @ \cup ({r} \X fs)] ELSE act[w]]

PushLands(r, f) ==
  /\ r \in repoRows /\ pushes < MaxPushes /\ pushes' = pushes + 1
  /\ \E tip \in {0, pushes + 1} : tip # refs[r][f] /\ refs' = [refs EXCEPT ![r][f] = tip]
  /\ Moving(r, {f})
  /\ UNCHANGED <<repoRows, blobRows, bytes, backupLock, file, listed, begun, answered, restored, drilled, cuts>>

RepositoryPurged(r) ==
  /\ r \in repoRows /\ repoRows' = repoRows \ {r}
  /\ refs' = [refs EXCEPT ![r] = NoRefs] /\ Moving(r, BackedRefs)
  /\ UNCHANGED <<pushes, blobRows, bytes, backupLock, file, listed, begun, answered, restored, drilled, cuts>>

CollectBlob(b) ==
  /\ b \in blobRows /\ blobRows' = blobRows \ {b} /\ bytes' = bytes \ {b}
  /\ UNCHANGED <<repoRows, refs, pushes, backupLock, act, file, listed, begun, answered, restored, drilled, cuts>>

UploadBlob(b) ==
  /\ b \notin blobRows /\ blobRows' = blobRows \cup {b} /\ bytes' = bytes \cup {b}
  /\ UNCHANGED <<repoRows, refs, pushes, backupLock, act, file, listed, begun, answered, restored, drilled, cuts>>

-----------------------------------------------------------------------------
(* createVerifiedBackup: the base archive, under the lock                  *)

acquireBackupLock(w) == backupLock = "free" /\ backupLock' = w

\* An error frees the lock on the way out and leaves every file where it is.
GivesUp(w) ==
  /\ act' = [act EXCEPT ![w] = NotWorking]
  /\ backupLock' = IF backupLock = w THEN "free" ELSE backupLock

createDatabaseSnapshot(w) ==
  /\ act[w].at = "idle" /\ begun < MaxArchives /\ acquireBackupLock(w)
  /\ begun' = begun + 1
  /\ act' = [act EXCEPT ![w] =
       [at |-> "listing", id |-> begun + 1, rows |-> repoRows, left |-> repoRows, blobs |-> blobRows,
        refs |-> [r \in BackedRepos |-> NoRefs], bundle |-> [r \in BackedRepos |-> NoRefs],
        tip |-> refs, moved |-> {}]]
  /\ UNCHANGED <<liveVars, file, listed, answered, restored, drilled, cuts>>

\* createRepositorySnapshot: the directory, fsck, the list of references ...
ListReferences(w, r) ==
  /\ act[w].at = "listing" /\ r \in act[w].left
  /\ IF r \notin repoRows THEN GivesUp(w)
     ELSE /\ act' = [act EXCEPT ![w] = [act[w] EXCEPT !.refs[r] = refs[r], !.left = @ \ {r},
                       !.at = IF refs[r] = NoRefs THEN "listing" ELSE "bundling"]]
          /\ UNCHANGED backupLock
  /\ UNCHANGED <<liveVars, file, listed, begun, answered, restored, drilled, cuts>>

\* ... and then the bundle, which Git refuses to make of nothing.
Listed(w) == CHOOSE r \in act[w].rows \ act[w].left : act[w].refs[r] # NoRefs /\ act[w].bundle[r] = NoRefs

BundleRepository(w) ==
  /\ act[w].at = "bundling"
  /\ LET r == Listed(w) IN
     IF refs[r] = NoRefs THEN GivesUp(w)
     ELSE /\ act' = [act EXCEPT ![w] = [@ EXCEPT !.bundle[r] = refs[r], !.at = "listing"]]
          /\ UNCHANGED backupLock
  /\ UNCHANGED <<liveVars, file, listed, begun, answered, restored, drilled, cuts>>

packPortableArchive(w) ==
  /\ act[w].at = "listing" /\ act[w].left = {}
  /\ file' = [file EXCEPT ![act[w].id] =
       [exists |-> TRUE, rows |-> act[w].rows, refs |-> act[w].refs, bundle |-> act[w].bundle,
        blobRows |-> act[w].blobs, lfs |-> "absent", tip |-> act[w].tip, moved |-> act[w].moved]]
  /\ act' = [act EXCEPT ![w] = [at |-> "packed", id |-> act[w].id]]
  /\ UNCHANGED <<liveVars, backupLock, listed, begun, answered, restored, drilled, cuts>>

\* `bundle list-heads` counts HEAD as well, so one missing reference passes.
CountRefs(fn) == Cardinality({f \in BackedRefs : fn[f] # 0})
verifyBundle(k, r) == CountRefs(file[k].bundle[r]) + (IF file[k].bundle[r][HeadRef] # 0 THEN 1 ELSE 0)
BaseVerifies(k) ==
  /\ file[k].exists
  /\ \A r \in file[k].rows : file[k].refs[r] # NoRefs => verifyBundle(k, r) >= CountRefs(file[k].refs[r])

verifyLfsArchive(k) == file[k].lfs = "inside" => file[k].inside = file[k].blobRows
verifyBackupArchive(k) == BaseVerifies(k) /\ verifyLfsArchive(k)

WriteIndex(w) ==
  /\ act[w].at = "packed" /\ backupLock' = "free"
  /\ IF BaseVerifies(act[w].id)
     THEN /\ listed' = listed \cup {act[w].id}
          /\ act' = [act EXCEPT ![w].at = "augmenting"]
     ELSE act' = [act EXCEPT ![w] = NotWorking] /\ UNCHANGED listed
  /\ UNCHANGED <<liveVars, file, begun, answered, restored, drilled, cuts>>

-----------------------------------------------------------------------------
(* augmentBackupWithLfs: every object read and hashed, without the lock    *)

verifyLiveLfsObjects(w) ==
  /\ act[w].at = "augmenting"
  /\ IF file[act[w].id].exists /\ file[act[w].id].blobRows \subseteq bytes
     THEN act' = [act EXCEPT ![w] = [at |-> "repacking", id |-> act[w].id, copy |-> file[act[w].id]]]
     ELSE act' = [act EXCEPT ![w] = NotWorking]
  /\ UNCHANGED <<liveVars, backupLock, file, listed, begun, answered, restored, drilled, cuts>>

\* From the volume the bytes are read once more; from a bucket none are copied.
Repack(w) ==
  /\ act[w].at = "repacking"
  /\ LET copy == act[w].copy IN
     IF act[w].id \notin Bucketed /\ ~(copy.blobRows \subseteq bytes)
     THEN act' = [act EXCEPT ![w] = NotWorking] /\ UNCHANGED file
     ELSE /\ file' = [file EXCEPT ![act[w].id] =
               [exists |-> TRUE, rows |-> copy.rows, refs |-> copy.refs, bundle |-> copy.bundle,
                blobRows |-> copy.blobRows, tip |-> copy.tip, moved |-> copy.moved,
                lfs |-> IF act[w].id \in Bucketed THEN "outside" ELSE "inside",
                inside |-> IF act[w].id \in Bucketed THEN {} ELSE copy.blobRows]]
          /\ act' = [act EXCEPT ![w] = [at |-> "checking", id |-> act[w].id]]
  /\ UNCHANGED <<liveVars, backupLock, listed, begun, answered, restored, drilled, cuts>>

AnswerBackup(w) ==
  /\ act[w].at = "checking"
  /\ answered' = IF verifyBackupArchive(act[w].id) THEN answered \cup {act[w].id} ELSE answered
  /\ act' = [act EXCEPT ![w] = NotWorking]
  /\ UNCHANGED <<liveVars, backupLock, file, listed, begun, restored, drilled, cuts>>

-----------------------------------------------------------------------------
(* restoreBackupArchive and the rehearsal                                  *)

BeginRestore(w, k, t) ==
  /\ w \in Restorers /\ act[w].at = "idle" /\ file[k].exists /\ verifyBackupArchive(k)
  /\ act' = [act EXCEPT ![w] = [at |-> "verified", id |-> k, to |-> t, promised |-> k \in answered]]
  /\ UNCHANGED <<liveVars, backupLock, file, listed, begun, answered, restored, drilled, cuts>>

\* The archive is unpacked and verified once more, into a sibling directory.
BuildRestore(w) ==
  /\ act[w].at = "verified"
  /\ IF backupLock = "free" /\ restored[act[w].to] = NothingThere /\ file[act[w].id].exists
     THEN /\ acquireBackupLock(w)
          /\ act' = [act EXCEPT ![w] = [at |-> "building", id |-> act[w].id, to |-> act[w].to,
                                        promised |-> act[w].promised, copy |-> file[act[w].id]]]
     ELSE act' = [act EXCEPT ![w] = NotWorking] /\ UNCHANGED backupLock
  /\ UNCHANGED <<liveVars, file, listed, begun, answered, restored, drilled, cuts>>

RenameRestore(w) ==
  /\ act[w].at = "building" /\ backupLock' = "free"
  /\ LET copy == act[w].copy IN
     restored' = [restored EXCEPT ![act[w].to] =
       [state |-> "landed", rows |-> copy.rows, repos |-> copy.bundle, blobRows |-> copy.blobRows,
        blobs |-> {}, promised |-> act[w].promised, tip |-> copy.tip, moved |-> copy.moved]]
  /\ act' = [act EXCEPT ![w] = [at |-> "objects", id |-> act[w].id, to |-> act[w].to]]
  /\ UNCHANGED <<liveVars, file, listed, begun, answered, drilled, cuts>>

\* Every object of the manifest is looked for inside the archive; one that is
\* not there fails the restore, and the target goes.
restoreLfsObjects(w) ==
  /\ act[w].at = "objects"
  /\ LET k == act[w].id
         t == act[w].to
         found == file[k].exists /\ (file[k].lfs = "outside" => file[k].blobRows = {})
     IN /\ restored' = [restored EXCEPT ![t] =
             IF found THEN [@ EXCEPT !.state = "restored", !.blobs = IF file[k].lfs = "inside" THEN file[k].inside ELSE {}]
             ELSE NothingThere]
        /\ act' = [act EXCEPT ![w] = IF found THEN [at |-> "restored", id |-> k, to |-> t]
                                     ELSE [at |-> "failed", id |-> k, whole |-> file[k].exists]]
  /\ UNCHANGED <<liveVars, backupLock, file, listed, begun, answered, drilled, cuts>>

checkRepositories(k, t) == \A r \in restored[t].rows : restored[t].repos[r] = file[k].refs[r]
checkLfsObjectsUnread(t) == TRUE
checkLfsObjects(t) == restored[t].blobRows \subseteq restored[t].blobs

runRecoveryRehearsal(w) ==
  /\ act[w].at = "restored" /\ file[act[w].id].exists
  /\ drilled' = [drilled EXCEPT ![act[w].to] =
       IF checkRepositories(act[w].id, act[w].to) /\ checkLfsObjects(act[w].to) THEN "passed" ELSE "failed"]
  /\ act' = [act EXCEPT ![w] = NotWorking]
  /\ UNCHANGED <<liveVars, backupLock, file, listed, begun, answered, restored, cuts>>

EndRestore(w) ==
  /\ act[w].at \in {"restored", "failed"}
  /\ act' = [act EXCEPT ![w] = NotWorking]
  /\ UNCHANGED <<liveVars, backupLock, file, listed, begun, answered, restored, drilled, cuts>>

-----------------------------------------------------------------------------
(* Retention, and processes that die                                       *)

\* Archives up to `before` are past the days; the listing is newest first.
Newer(k) == {j \in listed : j > k}
Prunable(before) == {k \in listed : Cardinality(Newer(k)) >= KeepCount /\ k <= before}

pruneBackupSnapshots(before) ==
  /\ Prunable(before) # {}
  /\ file' = [k \in 1..MaxArchives |-> IF k \in Prunable(before) THEN NoArchiveFile ELSE file[k]]
  /\ listed' = listed \ Prunable(before)
  /\ UNCHANGED <<liveVars, backupLock, act, begun, answered, restored, drilled, cuts>>

\* The process dies between an archive and its index.
PruneCutOff(before) ==
  /\ cuts < MaxCuts /\ cuts' = cuts + 1
  /\ \E k \in Prunable(before) : file' = [file EXCEPT ![k] = NoArchiveFile]
  /\ UNCHANGED <<liveVars, backupLock, act, listed, begun, answered, restored, drilled>>

WorkerDies(w) ==
  /\ act[w].at # "idle" /\ cuts < MaxCuts /\ cuts' = cuts + 1
  /\ act' = [act EXCEPT ![w] = NotWorking]
  /\ backupLock' = IF backupLock = w THEN "left" ELSE backupLock
  /\ UNCHANGED <<liveVars, file, listed, begun, answered, restored, drilled>>

\* An operator who has found no backup or restore running.
RemoveLock ==
  /\ backupLock = "left" /\ backupLock' = "free"
  /\ UNCHANGED <<liveVars, act, file, listed, begun, answered, restored, drilled, cuts>>

WorkerStep(w) ==
  \/ createDatabaseSnapshot(w) \/ \E r \in BackedRepos : ListReferences(w, r)
  \/ BundleRepository(w) \/ packPortableArchive(w) \/ WriteIndex(w)
  \/ verifyLiveLfsObjects(w) \/ Repack(w) \/ AnswerBackup(w)
  \/ \E k \in 1..MaxArchives, t \in Targets : BeginRestore(w, k, t)
  \/ BuildRestore(w) \/ RenameRestore(w) \/ restoreLfsObjects(w)
  \/ runRecoveryRehearsal(w) \/ EndRestore(w) \/ WorkerDies(w)

BackupsNext ==
  \/ \E r \in BackedRepos : RepositoryPurged(r) \/ \E f \in BackedRefs : PushLands(r, f)
  \/ \E b \in Blobs : CollectBlob(b) \/ UploadBlob(b)
  \/ \E w \in Workers : WorkerStep(w)
  \/ \E before \in 1..MaxArchives : pruneBackupSnapshots(before) \/ PruneCutOff(before)
  \/ RemoveLock

BackupsSpec == BackupsInit /\ [][BackupsNext]_backupVars

-----------------------------------------------------------------------------

\* Each reference that did not move while the backup ran comes back as it was.
StillAsItWas(rec) ==
  \A r \in rec.rows, f \in BackedRefs : <<r, f>> \notin rec.moved => rec.repos[r][f] = rec.tip[r][f]

\* What a restore answers for: every row has its repository, every reference
\* that stood still its commit and, when the backup had answered success,
\* every large object its bytes.
RestoredWhole ==
  \A t \in Targets : restored[t].state = "restored" =>
    /\ StillAsItWas(restored[t])
    /\ restored[t].promised => restored[t].blobs = restored[t].blobRows

\* A rehearsal passes only over a target that lacks no large object and no
\* reference that stood still.
PassedIsServiceable ==
  \A t \in Targets : drilled[t] = "passed" =>
    StillAsItWas(restored[t]) /\ restored[t].blobRows \subseteq restored[t].blobs

\* Retention never takes the newest archive of the list.
NewestIsThere == \A k \in listed : Newer(k) = {} => file[k].exists

\* Between its lock and its release an operation is alone.
AloneUnderLock ==
  Cardinality({w \in Workers : act[w].at \in {"listing", "bundling", "packed", "building"}}) <= 1

\* backups-lfs.mjs:148-152: an archive whose large objects are in their bucket is as
\* intended; none that verified and is still there is refused by the restore.
VerifiedRestores == \A w \in Workers : act[w].at = "failed" => ~act[w].whole

\* What holds of it: one that was made from the volume is not refused.
VolumeRestores ==
  \A w \in Workers : act[w].at = "failed" /\ act[w].whole => act[w].id \in Bucketed

\* A backup whose creation answered success restores every repository with the
\* references that stood still and every large object, through pushes, uploads
\* and collections that land while it is made, processes that die and prunes,
\* or is refused because its objects stayed in a bucket and leaves nothing; a
\* rehearsal passes over nothing less, and retention keeps the newest archive
\* (backups.mjs, backups-lfs.mjs, recovery-rehearsal.mjs).
BackupsSound ==
  RestoredWhole /\ PassedIsServiceable /\ NewestIsThere /\ AloneUnderLock /\ VolumeRestores

=============================================================================

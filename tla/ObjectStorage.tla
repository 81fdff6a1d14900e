---------------------------- MODULE ObjectStorage ----------------------------
(***************************************************************************)
(* Bytes that rows refer to and that live outside the database: the large  *)
(* objects of Git LFS, and the artifacts and caches of workflow runs.      *)
(* Each has state of its own, and a store that keeps equal content once.   *)
(***************************************************************************)
EXTENDS Naturals, FiniteSets, Sequences, SequencesExt

(***************************************************************************)
(* Git LFS (src/src/git-lfs.mjs, object-storage.mjs, lfs-import.mjs,       *)
(* lfs-storage-migration.mjs).  An object is a row, an association with    *)
(* each repository that refers to it, and bytes: on the volume, in the     *)
(* bucket, or both.  An object has size one.                               *)
(*                                                                         *)
(* On the volume an upload stores and commits in one turn of the event     *)
(* loop; against the bucket every call is a wait.  The migration runs      *)
(* beside the server.  `settled` is a history variable, TRUE until a       *)
(* collection is cut off between a file and its COMMIT, or a DELETE that   *)
(* a failed upload sent reaches the bucket after another upload counted on *)
(* the object.                                                             *)
(***************************************************************************)
CONSTANTS
  Oids, LfsRepos,
  Importable,     \* repositories that are imported from elsewhere
  Puts,           \* uploads under way at a time
  RepoQuota,      \* config.lfsRepositoryQuotaBytes
  InstanceQuota   \* config.lfsInstanceQuotaBytes

\* An object is named by its SHA-256, of which there are finitely many; "none" is no repository.
ASSUME LargeFilesAssumption ==
  /\ RepoQuota \in Nat /\ InstanceQuota \in Nat /\ Importable \subseteq LfsRepos
  /\ IsFiniteSet(Oids) /\ "none" \notin LfsRepos

VARIABLES
  driver,    \* KUKGIT_OBJECT_STORAGE_DRIVER the server was started with
  objects,   \* lfs_objects
  attached,  \* repository_lfs_objects
  pending,   \* lfs_pending_uploads that have not expired
  volume,    \* objects whose bytes are under config.lfsDir
  bucket,    \* objects whose bytes are in the bucket
  put,       \* upload -> how far it is, and whether an import sent it
  checked,   \* what the last verification of the bucket answered
  settled

lfsVars == <<driver, objects, attached, pending, volume, bucket, put, checked, settled>>

IdlePut == [st |-> "idle", repo |-> "none", oid |-> "none", import |-> FALSE]

LfsInit ==
  /\ driver = "filesystem" /\ settled = TRUE /\ checked = FALSE
  /\ objects = {} /\ attached = {} /\ pending = {}
  /\ volume = {} /\ bucket = {}
  /\ put = [u \in Puts |-> IdlePut]

Of(r, rel)  == {o \in Oids : <<r, o>> \in rel}
Holders(o)  == {r \in LfsRepos : <<r, o>> \in attached}
PendingOids == {p[2] : p \in pending}

\* What the repository and the instance hold and are promised, with the object added.
WithinQuota(r, o) ==
  /\ Cardinality(Of(r, attached) \cup Of(r, pending) \cup {o}) <= RepoQuota
  /\ Cardinality(objects \cup PendingOids \cup {o}) <= InstanceQuota

\* POST objects/batch, upload: an object the instance holds is attached unseen.
BatchUpload(r, o) ==
  /\ WithinQuota(r, o)
  /\ IF o \in objects
       THEN attached' = attached \cup {<<r, o>>} /\ pending' = pending \ {<<r, o>>}
       ELSE pending' = pending \cup {<<r, o>>} /\ UNCHANGED attached
  /\ UNCHANGED <<driver, objects, volume, bucket, put, checked, settled>>

UploadExpires(r, o) ==
  /\ <<r, o>> \in pending
  /\ pending' = pending \ {<<r, o>>}
  /\ UNCHANGED <<driver, objects, attached, volume, bucket, put, checked, settled>>

\* POST objects/batch, download: rows, and a file on the volume whatever the driver.
Offered(r, o) == <<r, o>> \in attached /\ o \in volume

\* GET objects/:oid: rows, and bytes in the store the server was started with.
Stored == IF driver = "s3" THEN bucket ELSE volume
Downloadable(r, o) == <<r, o>> \in attached /\ o \in Stored

\* PUT objects/:oid, up to the body.
PutStarts(u, r, o) ==
  /\ put[u] = IdlePut
  /\ <<r, o>> \in pending /\ WithinQuota(r, o)
  /\ put' = [put EXCEPT ![u] = [st |-> "body", repo |-> r, oid |-> o, import |-> FALSE]]
  /\ UNCHANGED <<driver, objects, attached, pending, volume, bucket, checked, settled>>

\* An import fetches what lfs_objects did not hold when it began, and attaches the rest.
ImportStarts(u, r, o) ==
  /\ put[u] = IdlePut
  /\ r \in Importable
  /\ IF o \in objects
       THEN attached' = attached \cup {<<r, o>>} /\ UNCHANGED put
       ELSE /\ put' = [put EXCEPT ![u] = [st |-> "body", repo |-> r, oid |-> o, import |-> TRUE]]
            /\ UNCHANGED attached
  /\ UNCHANGED <<driver, objects, pending, volume, bucket, checked, settled>>

Aborted(u) ==
  /\ put[u].st = "body"
  /\ put' = [put EXCEPT ![u] = IdlePut]
  /\ UNCHANGED <<driver, objects, attached, pending, volume, bucket, checked, settled>>

\* Mutant: the quota asked for before the body is the only one.
AcceptedOnce(u) == put[u].import \/ put[u].repo # "none"

\* The rows an upload leaves.  An import asks for no quota and has no transaction:
\* when its repository is gone by then, the object is recorded without it.
Accepted(u) == put[u].import \/ (put[u].repo # "none" /\ WithinQuota(put[u].repo, put[u].oid))

Commit(u) ==
  LET r == put[u].repo  o == put[u].oid IN
  /\ Accepted(u)
  /\ objects' = objects \cup {o}
  /\ attached' = IF r = "none" THEN attached ELSE attached \cup {<<r, o>>}
  /\ pending' = IF put[u].import THEN pending ELSE pending \ {<<r, o>>}
  /\ put' = [put EXCEPT ![u] = IdlePut]

\* putFile on the volume, and the transaction or the removal that follows.
PutOnVolume(u) ==
  /\ driver = "filesystem" /\ put[u].st = "body"
  /\ \/ Commit(u) /\ volume' = volume \cup {put[u].oid}
     \/ /\ ~Accepted(u)
        /\ volume' = IF put[u].oid \in objects THEN volume ELSE volume \ {put[u].oid}
        /\ put' = [put EXCEPT ![u] = IdlePut]
        /\ UNCHANGED <<objects, attached, pending>>
  /\ UNCHANGED <<driver, bucket, checked, settled>>

\* putFile against the bucket: HEAD, and PUT unless the object is there.
HeadBucket(u) ==
  /\ driver = "s3" /\ put[u].st = "body"
  /\ put' = [put EXCEPT ![u].st = IF put[u].oid \in bucket THEN "stored" ELSE "put"]
  /\ UNCHANGED <<driver, objects, attached, pending, volume, bucket, checked, settled>>

PutInBucket(u) ==
  /\ put[u].st = "put"
  /\ bucket' = bucket \cup {put[u].oid}
  /\ put' = [put EXCEPT ![u].st = "stored"]
  /\ UNCHANGED <<driver, objects, attached, pending, volume, checked, settled>>

PutRecorded(u) ==
  /\ put[u].st = "stored"
  /\ \/ Commit(u)
     \/ /\ ~Accepted(u)
        /\ put' = IF put[u].oid \in objects THEN [put EXCEPT ![u] = IdlePut]
                                            ELSE [put EXCEPT ![u].st = "remove"]
        /\ UNCHANGED <<objects, attached, pending>>
  /\ UNCHANGED <<driver, volume, bucket, checked, settled>>

RemoveFromBucket(u) ==
  LET o == put[u].oid IN
  /\ put[u].st = "remove"
  /\ bucket' = bucket \ {o}
  /\ settled' = (settled /\ o \notin objects /\ \A w \in Puts \ {u} : put[w].oid # o)
  /\ put' = [put EXCEPT ![u] = IdlePut]
  /\ UNCHANGED <<driver, objects, attached, pending, volume, checked>>

\* The lifecycle purge: associations and pending uploads go by cascade, objects stay.
RepositoryPurged(r) ==
  /\ put' = [u \in Puts |-> IF put[u].repo = r THEN [put[u] EXCEPT !.repo = "none"] ELSE put[u]]
  /\ attached' = attached \ ({r} \X Oids)
  /\ pending' = pending \ ({r} \X Oids)
  /\ UNCHANGED <<driver, objects, volume, bucket, checked, settled>>

-----------------------------------------------------------------------------
Orphans == {o \in objects : Holders(o) = {}}

GarbageCollectLfs ==
  /\ objects' = objects \ Orphans
  /\ volume' = volume \ Orphans
  /\ UNCHANGED <<driver, attached, pending, bucket, put, checked, settled>>

\* The process dies in a collection: files are gone and every row is still there.
GarbageCollectionDies ==
  /\ \E gone \in SUBSET (Orphans \cap volume) \ {{}} : volume' = volume \ gone
  /\ settled' = FALSE
  /\ put' = [u \in Puts |-> IdlePut]
  /\ UNCHANGED <<driver, objects, attached, pending, bucket, checked>>

-----------------------------------------------------------------------------
\* planLfsStorageMigration: recorded, on the volume, and not in the bucket yet.
Movable == (objects \cap volume) \ bucket

\* migrateLfsObjectsToBucket: one object copied and read back.
MigrateObject(o) ==
  /\ o \in Movable
  /\ bucket' = bucket \cup {o}
  /\ UNCHANGED <<driver, objects, attached, pending, volume, put, checked, settled>>

VerifyBucket ==
  /\ driver = "filesystem"
  /\ checked' = (objects \subseteq bucket)
  /\ UNCHANGED <<driver, objects, attached, pending, volume, bucket, put, settled>>

\* The operator restarts the server with the other driver once a verification allowed it.
Cutover ==
  /\ driver = "filesystem" /\ checked
  /\ driver' = "s3" /\ checked' = FALSE
  /\ put' = [u \in Puts |-> IdlePut]
  /\ UNCHANGED <<objects, attached, pending, volume, bucket, settled>>

\* Mutant: an earlier verification is trusted.
MayReclaimOnce(o) == checked

\* reclaimVolumeAfterMigration: the bucket is read again for each object.
MayReclaim(o) == o \in bucket

ReclaimObject(o) ==
  /\ o \in objects \cap volume /\ MayReclaim(o)
  /\ volume' = volume \ {o}
  /\ UNCHANGED <<driver, objects, attached, pending, bucket, put, checked, settled>>

LfsNext ==
  \/ \E r \in LfsRepos, o \in Oids :
       \/ BatchUpload(r, o)
       \/ UploadExpires(r, o)
       \/ \E u \in Puts : PutStarts(u, r, o) \/ ImportStarts(u, r, o)
  \/ \E u \in Puts :
       \/ Aborted(u) \/ PutOnVolume(u)
       \/ HeadBucket(u) \/ PutInBucket(u) \/ PutRecorded(u) \/ RemoveFromBucket(u)
  \/ \E r \in LfsRepos : RepositoryPurged(r)
  \/ GarbageCollectLfs \/ GarbageCollectionDies
  \/ \E o \in Oids : MigrateObject(o) \/ ReclaimObject(o)
  \/ VerifyBucket \/ Cutover

LfsSpec == LfsInit /\ [][LfsNext]_lfsVars

-----------------------------------------------------------------------------
\* An object a repository refers to has its row, and its bytes on the volume or in
\* the bucket: uploads that fail, repositories that are purged, collections,
\* the copy into the bucket and the reclaiming of the volume lose none of them.
NothingLost ==
  settled => \A p \in attached : p[2] \in objects /\ p[2] \in volume \cup bucket

\* A repository that only receives uploads stays within its quota, whatever uploads
\* and imports of the other repositories interleave; an import asks for no quota.
QuotaHolds == \A r \in LfsRepos \ Importable : Cardinality(Of(r, attached)) <= RepoQuota

\* docs/OBJECT_STORAGE.md:118 and docs/GIT_LFS.md:88: what a batch offers is what a
\* download serves, whichever store has the bytes.
OfferedIfServed ==
  \A r \in LfsRepos, o \in Oids : Downloadable(r, o) => Offered(r, o)

-----------------------------------------------------------------------------
(***************************************************************************)
(* Artifacts and caches of workflow runs (src/src/workflow-storage.mjs):   *)
(* rows of one repository that name their content by digest, and the files *)
(* those digests stand for, shared by every row with the same bytes.       *)
(*                                                                         *)
(* The operations run to their end within one turn of the event loop, each *)
(* statement and each file call by itself; the process may die between any *)
(* two of them.  Saving a cache entry is several actions, `saving` its     *)
(* program counter, and nothing else moves meanwhile.  An artifact and a   *)
(* cache entry have size one.                                              *)
(***************************************************************************)
CONSTANTS
  CIRuns, Names, Digests,
  CIRefs, CacheKeys,
  DefaultRef,                 \* nothing changes the default branch of a repository
  ArtifactQuota, CacheQuota   \* STORAGE_LIMITS

ASSUME RunStorageAssumption ==
  ArtifactQuota \in Nat /\ CacheQuota \in Nat \ {0} /\ DefaultRef \in CIRefs

VARIABLES
  blobs,      \* workflow_blobs
  files,      \* digests whose file is under <data>/ci/blobs
  artifacts,  \* workflow_artifacts: <<run, name>> -> digest
  caches,     \* workflow_caches, oldest first, with who saved them
  recent,     \* the same entries, the least recently used first
  handed,     \* what the last restore gave to whom
  saving,     \* a save whose row is in: nothing evicted yet, or something
  overrun     \* history: a save was cut short, and none has come to its end since

saveVars == <<saving, overrun>>
storageVars == <<blobs, files, artifacts, caches, recent, handed, saving, overrun>>

Nothing == [to |-> "none", ref |-> "none", fork |-> FALSE]
Entry(ref, key, digest, fork) == [ref |-> ref, key |-> key, digest |-> digest, fork |-> fork]

StorageInit ==
  /\ blobs = {} /\ files = {}
  /\ artifacts = [a \in {} |-> ""] /\ caches = <<>> /\ recent = <<>>
  /\ handed = Nothing /\ saving = "idle" /\ overrun = FALSE

Named(arts, cs)   == {arts[a] : a \in DOMAIN arts} \cup {c.digest : c \in ToSet(cs)}
Unnamed(arts, cs) == blobs \ Named(arts, cs)

\* Mutant: the row alone stands for the bytes.
PutBlobByRow(d) ==
  blobs' = blobs \cup {d} /\ files' = IF d \in blobs THEN files ELSE files \cup {d}

\* putBlob: the file is written when the row or the file is missing.
PutBlob(d) == blobs' = blobs \cup {d} /\ files' = files \cup {d}

\* The process dies in putBlob, after the file or after the row.
PutBlobDies(d) ==
  /\ files' = files \cup {d}
  /\ blobs' \in {blobs, blobs \cup {d}}
  /\ UNCHANGED <<artifacts, caches, recent, handed>>

\* collectUnreferencedBlobs, given the rows that stay.
Collect(arts, cs) ==
  blobs' = blobs \ Unnamed(arts, cs) /\ files' = files \ Unnamed(arts, cs)

\* The process dies in it: files are gone whose rows are still there.
CollectDies ==
  /\ \E gone \in SUBSET Unnamed(artifacts, caches) : files' = files \ gone
  /\ UNCHANGED <<blobs, artifacts, caches, recent, handed>>

-----------------------------------------------------------------------------
\* POST artifacts: a name is written once per run, and the quota refuses.
PutArtifact(r, n, d) ==
  /\ <<r, n>> \notin DOMAIN artifacts
  /\ Cardinality(DOMAIN artifacts) < ArtifactQuota
  /\ artifacts' = [a \in DOMAIN artifacts \cup {<<r, n>>} |->
                     IF a = <<r, n>> THEN d ELSE artifacts[a]]
  /\ PutBlob(d)
  /\ UNCHANGED <<caches, recent, handed>>

Kept(gone) == [a \in DOMAIN artifacts \ gone |-> artifacts[a]]

\* DELETE of one artifact, or the hourly sweep of the expired ones.
RemoveArtifacts(gone) ==
  /\ artifacts' = Kept(gone)
  /\ Collect(Kept(gone), caches)
  /\ UNCHANGED <<caches, recent, handed>>

DeleteArtifact  == \E a \in DOMAIN artifacts : RemoveArtifacts({a})
ExpireArtifacts == \E gone \in SUBSET DOMAIN artifacts : RemoveArtifacts(gone)

\* The process dies after the rows are gone and before their files are.
DeletionDies ==
  /\ \E gone \in SUBSET DOMAIN artifacts : artifacts' = Kept(gone)
  /\ UNCHANGED <<blobs, files, caches, recent, handed>>

-----------------------------------------------------------------------------
\* Mutant: the check for forks is gone.
MaySaveAnyone(fork) == TRUE

MaySave(fork) == ~fork

\* POST cache, by a job of `ref`, up to its INSERT; an entry of that key is kept.
SaveCache(ref, key, d, fork) ==
  LET e == Entry(ref, key, d, fork) IN
  /\ saving = "idle" /\ MaySave(fork)
  /\ \A c \in ToSet(caches) : c.ref # ref \/ c.key # key
  /\ PutBlob(d)
  /\ caches' = Append(caches, e) /\ recent' = Append(recent, e)
  /\ saving' = "saved"
  /\ UNCHANGED <<artifacts, handed, overrun>>

\* Mutant: one entry is added, one is evicted.
OverQuotaOnce == Len(recent) > CacheQuota /\ saving = "saved"

OverQuota == Len(recent) > CacheQuota

\* evictCacheToQuota: the least recently used goes, one DELETE after the other.
EvictCache ==
  /\ saving # "idle" /\ OverQuota
  /\ LET e == Head(recent) IN caches' = RemoveFirst(caches, e) /\ recent' = RemoveFirst(recent, e)
  /\ saving' = "evicted"
  /\ UNCHANGED <<blobs, files, artifacts, handed, overrun>>

\* When something was evicted, the bytes nothing names any more go too.
SaveEnds ==
  /\ saving # "idle" /\ ~OverQuota
  /\ IF saving = "evicted" THEN Collect(artifacts, caches) ELSE UNCHANGED <<blobs, files>>
  /\ saving' = "idle" /\ overrun' = FALSE
  /\ UNCHANGED <<artifacts, caches, recent, handed>>

\* The process dies between the INSERT and the end, in the collection too.
SaveDies ==
  /\ saving # "idle"
  /\ \E gone \in SUBSET Unnamed(artifacts, caches) :
       /\ gone # {} => saving = "evicted" /\ ~OverQuota
       /\ files' = files \ gone
  /\ saving' = "idle" /\ overrun' = TRUE
  /\ UNCHANGED <<blobs, artifacts, caches, recent, handed>>

\* The newest entry with one of these keys on one ref.
Newest(ref, keys) ==
  LET hits == {i \in DOMAIN caches : caches[i].ref = ref /\ caches[i].key \in keys}
  IN {caches[i] : i \in {h \in hits : \A o \in hits : o <= h}}

\* The exact key before the newest of a family of keys, and the own ref before the default.
OnRef(ref, key, family) == IF Newest(ref, {key}) # {} THEN Newest(ref, {key}) ELSE Newest(ref, family)

CacheHit(ref, key, family) ==
  IF OnRef(ref, key, family) # {} THEN OnRef(ref, key, family) ELSE OnRef(DefaultRef, key, family)

\* GET cache: a row that outlived its bytes is removed and is a miss.
RestoreCache(ref, key, family) ==
  \E e \in CacheHit(ref, key, family) :
    /\ IF e.digest \in files
         THEN /\ recent' = Append(RemoveFirst(recent, e), e)
              /\ handed' = [to |-> ref, ref |-> e.ref, fork |-> e.fork]
              /\ UNCHANGED caches
         ELSE /\ caches' = RemoveFirst(caches, e) /\ recent' = RemoveFirst(recent, e)
              /\ UNCHANGED handed
    /\ UNCHANGED <<blobs, files, artifacts>>

StorageNext ==
  \/ /\ saving = "idle" /\ UNCHANGED saveVars
     /\ \/ \E r \in CIRuns, n \in Names, d \in Digests : PutArtifact(r, n, d)
        \/ \E d \in Digests : PutBlobDies(d)
        \/ CollectDies \/ DeleteArtifact \/ ExpireArtifacts \/ DeletionDies
        \/ \E ref \in CIRefs, key \in CacheKeys, family \in {{}, CacheKeys} :
             RestoreCache(ref, key, family)
  \/ \E ref \in CIRefs, key \in CacheKeys, d \in Digests, fork \in BOOLEAN :
       SaveCache(ref, key, d, fork)
  \/ EvictCache \/ SaveEnds \/ SaveDies

StorageSpec == StorageInit /\ [][StorageNext]_storageVars

-----------------------------------------------------------------------------
\* Whatever is deleted, expired, evicted or shared, and wherever the process dies, an
\* artifact or a cache entry has its bytes.  The quota of artifacts holds always; that of
\* the caches after every save that came to its end, until another one is cut short.
RowsHaveBytes ==
  /\ Named(artifacts, caches) \subseteq blobs \cap files
  /\ Cardinality(DOMAIN artifacts) <= ArtifactQuota
  /\ Len(caches) <= CacheQuota \/ saving # "idle" \/ overrun
  /\ ToSet(recent) = ToSet(caches)

\* A job restores what a job of its own branch or of the default branch saved, and
\* never what a fork's pull request built.
NotPoisoned ==
  handed # Nothing => handed.ref \in {handed.to, DefaultRef} /\ ~handed.fork

\* What a row of the database says is stored can be read, whatever was deduplicated,
\* collected, evicted or moved to another store, within the quota it was taken in under.
StoredIsKept == NothingLost /\ QuotaHolds /\ RowsHaveBytes /\ NotPoisoned
=============================================================================
